------------------------------- MODULE ChildRun -------------------------------
(***************************************************************************)
(* One flow.child step: a running parent reserves its child Run in D1,     *)
(* starts the child's own instance under a derived id and, when the child  *)
(* is awaited, polls it to its end.  The owner may cancel an awaited       *)
(* child at any moment.                                                    *)
(*                                                                         *)
(* The parent's durable steps can time out while their code runs on, the   *)
(* engine replays the parent's run() from its beginning, creates and       *)
(* terminates can lose their answers, and an accepted instance can appear  *)
(* late.  Every D1 statement or batch is one action, every engine call     *)
(* another.  The ten-minute window since created_at is the flag `stale'.   *)
(***************************************************************************)
EXTENDS Naturals, FiniteSets

CONSTANTS
    Modes,       \* the modes of the step: "awaited", "detached"
    Attempts,    \* executions of startReserved...Child that may overlap
    Cancellers,  \* concurrent workflow_cancel requests
    NoAttempt,
    LastPoll,    \* bound: index of the last turn of the parent's loop
    Window,      \* the turn at which ten minutes have surely passed
    Limit,       \* RUN_CAPACITY_LIMIT
    OtherRuns,   \* bound: capacity units other Runs may hold
    Faults       \* what may go wrong, besides lost answers of create and terminate:
                 \*   "step"    a durable step times out or fails
                 \*   "isolate" an isolate dies or a call throws out of it
                 \*   "lookup"  the engine cannot be asked for a status
                 \*   "lost"    an instance ends without a last write
                 \*   "replay"  the engine interrupts a run() and replays it

ASSUME ModeAssumption == /\ Modes \subseteq {"awaited", "detached"}
                         /\ Faults \subseteq {"step", "isolate", "lookup", "lost", "replay"}
ASSUME AttemptAssumption == NoAttempt \notin Attempts /\ Attempts \cap Cancellers = {}
ASSUME BoundAssumption == /\ LastPoll \in Nat /\ Window \in 0..LastPoll
                          /\ Limit \in Nat /\ Limit >= 2 /\ OtherRuns \in 0..Limit

VARIABLES
    parent,   \* the parent's row, its step's mode and where its run() stands in the step
    child,    \* the child's row
    stale,    \* ten minutes since the child's created_at
    target,   \* is the child's workflow active at the approved version
    other,    \* capacity units of all other Runs
    intent,   \* the row of child_cancellations
    native,   \* the child's instance in the engine
    runner,   \* the child's run()
    proc,     \* attempts to start and requests to cancel
    calls     \* history: how often create and terminate were called (up to 2), and whether
              \* a cancellation was committed while the child was queued

vars == <<parent, child, stale, target, other, intent, native, runner, proc, calls>>

Procs == Attempts \cup Cancellers
Active == {"queued", "running"}
Terminal == {"succeeded", "failed", "indeterminate", "cancelled"}
Dispatched == {"dispatching", "start_unknown", "started"}

StartState == {"none", "reserved", "creating", "dispatching", "start_unknown", "started",
               "cancelled_before_start", "cancelled"}
PCs == {"idle", "read", "claim", "observe", "expire", "dispatch", "create", "unknown",
        "observe2", "mark", "pending", "abandon",
        "cancel", "stop", "intent", "intentRead", "look", "seize", "terminate", "after", "record"}

\* The parent's row and its place in the step, the child's row, an attempt or a request to
\* cancel with what it read, and the calls of the engine.
Parent == [mode: Modes, outcome: {"running", "ended"}, weight: {1, 2},
           pc: {"admit", "start", "wait", "status", "verdict", "done"},
           at: {"start", "status", "verdict"}, by: Attempts \cup {NoAttempt}, i: 0..LastPoll,
           step: {"none", "succeeded", "failed", "unavailable", "indeterminate"}]
Child == [start: StartState, outcome: Active \cup Terminal]
Process == [pc: PCs, start: StartState, old: BOOLEAN]
Counts == [create: 0..2, terminate: 0..2, early: BOOLEAN]

\* The type of every variable.
TypeOK ==
    /\ parent \in Parent /\ child \in Child
    /\ stale \in BOOLEAN /\ target \in BOOLEAN
    /\ other \in 0..Limit
    /\ intent \in {"none", "requested", "attempted"}
    /\ native \in {"absent", "pending", "live", "complete", "errored", "terminated"}
    /\ runner \in {"off", "claim", "exec"}
    /\ proc \in [Procs -> Process]
    /\ calls \in Counts

-----------------------------------------------------------------------------
(* Capacity *)

Mode == parent.mode
ChildActive == child.start # "none" /\ child.outcome \in Active
ParentRunning == parent.outcome = "running"
InLoop(pc) == ParentRunning /\ parent.pc = pc

UnitsInUse == other + (IF ParentRunning THEN parent.weight ELSE 0)
                    + (IF ChildActive THEN 1 ELSE 0)

\* Other Runs are admitted under the same predicate and settle.
OtherAdmitted ==
    /\ UnitsInUse + 1 <= Limit /\ other < OtherRuns
    /\ other' = other + 1
    /\ UNCHANGED <<parent, child, stale, target, intent, native, runner, proc, calls>>

OtherSettles ==
    /\ other > 0
    /\ other' = other - 1
    /\ UNCHANGED <<parent, child, stale, target, intent, native, runner, proc, calls>>

\* The child's workflow is paused or republished, or made active again (it matters only
\* where the parent is about to read it).
TargetChanges ==
    /\ InLoop("admit")
    /\ target' = ~target
    /\ UNCHANGED <<parent, child, stale, other, intent, native, runner, proc, calls>>

-----------------------------------------------------------------------------
(* The parent's run(): runAwaitedChild *)

StepEnds(result) ==
    parent' = [parent EXCEPT !.pc = "done", !.at = "start", !.by = NoAttempt, !.i = 0,
                             !.step = result]

\* Slip: the transfer leaves the parent its two units.
Reserved_KeepsWeight(p) == p
\* What the reservation makes of the parent's row.
Reserved(p) == IF Mode = "awaited" THEN [p EXCEPT !.weight = 1] ELSE p

\* The predicate of the child's INSERT ... SELECT.
ChildAdmits ==
    /\ child.start = "none" /\ target
    /\ Mode = "awaited" => parent.weight = 2
    /\ Mode = "detached" => UnitsInUse + 1 <= Limit

\* The target is read, then transferAwaitedChildCapacity or admitDetachedChild, between
\* which the target may still change.  The engine's replays come through here again:
\* a reservation that exists is kept.
AdmitChild ==
    /\ InLoop("admit")
    /\ \/ ~target /\ StepEnds("unavailable") /\ UNCHANGED child
       \/ /\ ChildAdmits
          /\ child' = [child EXCEPT !.start = "reserved"]
          /\ \/ parent' = [Reserved(parent) EXCEPT !.pc = parent.at]
             \/ /\ "isolate" \in Faults  \* committed, but the answer is lost
                /\ parent' = [Reserved(parent) EXCEPT !.pc = "done", !.at = "start", !.i = 0,
                                                         !.step = "indeterminate"]
       \/ /\ child.start # "none"
          /\ parent' = [parent EXCEPT !.pc = parent.at]
          /\ UNCHANGED child
       \/ /\ child.start = "none" /\ ~ChildAdmits
          /\ StepEnds(IF Mode = "detached" THEN "failed" ELSE "indeterminate")
          /\ UNCHANGED child
    /\ UNCHANGED <<stale, target, other, intent, native, runner, proc, calls>>

\* The durable step of turn i calls startReserved...Child; timestamp is taken here.
StartAttempt(a) ==
    /\ InLoop("start") /\ proc[a].pc = "idle"
    /\ proc' = [proc EXCEPT ![a] = [pc |-> "read", start |-> "none", old |-> stale]]
    /\ parent' = [parent EXCEPT !.pc = "wait", !.by = a]
    /\ UNCHANGED <<child, stale, target, other, intent, native, runner, calls>>

\* step.sleep and the next turn, or the end of the loop.
NextTurn ==
    IF parent.i < LastPoll
    THEN /\ parent' = [parent EXCEPT !.pc = "start", !.at = "start", !.by = NoAttempt, !.i = @ + 1]
         /\ stale' = (stale \/ parent.i + 1 >= Window)
    ELSE /\ StepEnds("indeterminate")
         /\ UNCHANGED stale

\* An attempt is over; the parent hears of it unless it gave up waiting.
Answer(a, result) ==
    /\ proc' = [proc EXCEPT ![a] = [pc |-> "idle", start |-> "none", old |-> FALSE]]
    /\ IF ~(InLoop("wait") /\ parent.by = a) THEN UNCHANGED <<parent, stale>>
       ELSE \/ /\ result = "indeterminate" /\ StepEnds("indeterminate") /\ UNCHANGED stale
            \/ /\ result # "indeterminate" /\ Mode = "awaited"
               /\ parent' = [parent EXCEPT !.pc = "status", !.at = "status", !.by = NoAttempt]
               /\ UNCHANGED stale
            \/ /\ result = "started" /\ Mode = "detached" /\ StepEnds("succeeded") /\ UNCHANGED stale
            \/ /\ result = "rejected" /\ Mode = "detached" /\ StepEnds("failed") /\ UNCHANGED stale
            \/ result = "start_unknown" /\ Mode = "detached" /\ NextTurn

\* The durable step times out or fails; its code may still be running.
StepFails ==
    /\ "step" \in Faults
    /\ InLoop("wait") \/ InLoop("status")
    /\ IF Mode = "awaited" THEN StepEnds("indeterminate") /\ UNCHANGED stale ELSE NextTurn
    /\ UNCHANGED <<child, target, other, intent, native, runner, proc, calls>>

\* The engine interrupts the parent's run() and replays it: finished steps answer from
\* its log, an interrupted step and the code between the steps run again.
ParentReplays ==
    /\ "replay" \in Faults
    /\ ParentRunning /\ parent.pc \in {"start", "wait", "status", "verdict"}
    /\ parent' = [parent EXCEPT !.pc = "admit", !.by = NoAttempt]
    /\ UNCHANGED <<child, stale, target, other, intent, native, runner, proc, calls>>

\* Status of the child, with the settlement of a started child from its instance (the
\* window for "complete" is RunAdmission's), then what its outcome means.
ParentStatus ==
    /\ InLoop("status")
    /\ \/ /\ child.start = "started" /\ ChildActive
          /\ native \in {"complete", "errored", "terminated"}
          /\ child' = [child EXCEPT !.outcome = "indeterminate"]
          /\ StepEnds("indeterminate") /\ UNCHANGED stale
       \/ /\ "lookup" \in Faults \/ ~(child.start = "started" /\ native \in {"errored", "terminated"})
          /\ ChildActive /\ NextTurn /\ UNCHANGED child
       \/ /\ child.outcome = "succeeded"
          /\ parent' = [parent EXCEPT !.pc = "verdict", !.at = "verdict"]
          /\ UNCHANGED <<child, stale>>
       \/ /\ child.outcome \in {"failed", "cancelled"}
          /\ StepEnds("failed") /\ UNCHANGED <<child, stale>>
       \/ /\ child.outcome = "indeterminate"
          /\ StepEnds("indeterminate") /\ UNCHANGED <<child, stale>>
    /\ UNCHANGED <<target, other, intent, native, runner, proc, calls>>

\* The child succeeded: a committed cancellation still wins.
ParentVerdict ==
    /\ InLoop("verdict")
    /\ StepEnds(IF intent # "none" THEN "failed" ELSE "succeeded")
    /\ UNCHANGED <<child, stale, target, other, intent, native, runner, proc, calls>>

\* The parent's final write, or the settlement of a parent whose instance was lost.
ParentEnds ==
    /\ ParentRunning /\ (parent.pc = "done" \/ "lost" \in Faults)
    /\ parent' = [parent EXCEPT !.outcome = "ended", !.pc = "done", !.at = "start",
                             !.by = NoAttempt, !.i = 0]
    /\ UNCHANGED <<child, stale, target, other, intent, native, runner, proc, calls>>

-----------------------------------------------------------------------------
(* The engine, as the code in src/ sees it *)

Lookups == (IF native \in {"absent", "pending"} THEN {"missing"} ELSE {"found"})
               \cup (IF "lookup" \in Faults THEN {"unavailable"} ELSE {})

\* An accepted instance becomes visible.
InstanceAppears ==
    /\ native = "pending"
    /\ native' = "live"
    /\ UNCHANGED <<parent, child, stale, target, other, intent, runner, proc, calls>>

\* The engine loses a live instance: it ends without a last write.
InstanceLost ==
    /\ "lost" \in Faults /\ native = "live"
    /\ native' = "errored" /\ runner' = "off"
    /\ UNCHANGED <<parent, child, stale, target, other, intent, proc, calls>>

\* Ten minutes since created_at may pass at any time.
StartWindowPasses ==
    /\ child.start # "none" /\ ~stale
    /\ stale' = TRUE
    /\ UNCHANGED <<parent, child, target, other, intent, native, runner, proc, calls>>

-----------------------------------------------------------------------------
(* The child's run() *)

\* run() begins, or begins again: a Run that has ended is left alone.
RunnerLoad ==
    /\ native = "live" /\ runner = "off"
    /\ IF child.outcome \in Active
       THEN /\ runner' = IF child.outcome = "queued" THEN "claim" ELSE "exec"
            /\ UNCHANGED native
       ELSE native' = "complete" /\ UNCHANGED runner
    /\ UNCHANGED <<parent, child, stale, target, other, intent, proc, calls>>

\* Slip: the transition to running does not look for a cancellation.
RunnerClaim_Unfenced ==
    /\ runner = "claim"
    /\ IF child.outcome = "queued"
       THEN child' = [child EXCEPT !.outcome = "running"] /\ runner' = "exec" /\ UNCHANGED native
       ELSE UNCHANGED child /\ runner' = "off" /\ native' = "complete"
    /\ UNCHANGED <<parent, stale, target, other, intent, proc, calls>>

\* queued -> running unless a cancellation is committed, which fails the Run instead.
RunnerClaim ==
    /\ runner = "claim"
    /\ IF child.outcome = "queued" /\ intent = "none"
       THEN child' = [child EXCEPT !.outcome = "running"] /\ runner' = "exec" /\ UNCHANGED native
       ELSE /\ child' = [child EXCEPT !.outcome = IF @ = "queued" THEN "failed" ELSE @]
            /\ runner' = "off" /\ native' = "complete"
    /\ UNCHANGED <<parent, stale, target, other, intent, proc, calls>>

\* The final UPDATE ... WHERE outcome='running'; the instance ends after it.
RunnerFinish ==
    /\ runner = "exec"
    /\ \E o \in {"succeeded", "failed", "indeterminate"} :
          child' = [child EXCEPT !.outcome = IF @ = "running" THEN o ELSE @]
    /\ runner' = "off"
    /\ UNCHANGED <<parent, stale, target, other, intent, native, proc, calls>>

\* run()'s catch: the Run is interrupted and the instance fails.
RunnerThrows ==
    /\ runner = "exec"
    /\ child' = [child EXCEPT !.outcome = IF @ = "running" THEN "indeterminate" ELSE @]
    /\ runner' = "off" /\ native' = "errored"
    /\ UNCHANGED <<parent, stale, target, other, intent, proc, calls>>

EngineReplays ==
    /\ "replay" \in Faults /\ runner # "off"
    /\ runner' = "off"
    /\ UNCHANGED <<parent, child, stale, target, other, intent, native, proc, calls>>

-----------------------------------------------------------------------------
(* startReservedAwaitedChild and startReservedDetachedChild *)

\* A process moves on and keeps what it read as long as it needs it.
Goto(p, pc) == proc' = [proc EXCEPT ![p] =
    [pc |-> pc, start |-> IF pc = "expire" THEN proc[p].start ELSE "none",
     old |-> pc = "observe" /\ proc[p].old]]
At(p, pc) == proc[p].pc = pc

\* An attempt moves on and leaves every row as it is.
Moves(a, pc) == Goto(a, pc) /\ UNCHANGED <<parent, stale>>

\* What the detached helper reports after a CAS it missed.
PersistedStart(row) ==
    CASE row.start = "started" /\ row.outcome \in Active \cup {"succeeded", "failed"} -> "started"
      [] row.start = "reserved" /\ row.outcome = "failed" -> "rejected"
      [] row.outcome \in {"indeterminate", "cancelled"} -> "indeterminate"
      [] OTHER -> "start_unknown"

\* The helper's first SELECT, and its early returns.
AttemptRead(a) ==
    /\ At(a, "read")
    /\ IF Mode = "awaited"
       THEN CASE child.outcome \in Terminal -> Answer(a, "started")
              [] child.outcome \in Active /\ ~ParentRunning -> Answer(a, "start_unknown")  \* throws
              [] child.outcome \in Active /\ ParentRunning /\ child.start = "started" ->
                    Moves(a, "pending")
              [] child.outcome \in Active /\ ParentRunning /\ child.start = "reserved" ->
                    Moves(a, "claim")
              [] OTHER -> /\ proc' = [proc EXCEPT ![a] = [@ EXCEPT !.pc = "observe", !.start = child.start]]
                          /\ UNCHANGED <<parent, stale>>
       ELSE CASE child.start = "started" -> Answer(a, "started")
              [] child.start = "reserved" -> Moves(a, IF ParentRunning THEN "claim" ELSE "abandon")
              [] child.start \in {"dispatching", "start_unknown"} /\ child.outcome # "indeterminate" ->
                    Moves(a, "observe")
              [] OTHER -> Answer(a, "indeterminate")
    /\ UNCHANGED <<child, target, other, intent, native, runner, calls>>

\* The CAS that claims the reservation: awaited -> creating, detached -> dispatching.
AttemptClaim(a) ==
    /\ At(a, "claim")
    /\ IF child.start = "reserved" /\ child.outcome = "queued" /\ ParentRunning
       THEN IF Mode = "awaited"
            THEN child' = [child EXCEPT !.start = "creating"] /\ Moves(a, "dispatch")
            ELSE child' = [child EXCEPT !.start = "dispatching"] /\ Moves(a, "create")
       ELSE UNCHANGED child /\ Answer(a, "start_unknown")
    /\ UNCHANGED <<target, other, intent, native, runner, calls>>

\* Detached, and the parent ended before dispatch: the reservation is abandoned.
AttemptAbandon(a) ==
    /\ At(a, "abandon")
    /\ IF child.start = "reserved" /\ child.outcome = "queued"
       THEN child' = [child EXCEPT !.outcome = "failed"] /\ Answer(a, "rejected")
       ELSE UNCHANGED child /\ Answer(a, PersistedStart(child))
    /\ UNCHANGED <<target, other, intent, native, runner, calls>>

\* Slip: a missing instance is created again from every unfinished start.
AttemptObserve_BlindRetry(a) ==
    /\ At(a, "observe")
    /\ \E seen \in Lookups :
          CASE seen = "found" -> Moves(a, "mark")
            [] seen = "missing" /\ ~proc[a].old -> Moves(a, "create")
            [] seen = "missing" /\ proc[a].old -> Moves(a, "expire")
            [] OTHER -> Answer(a, "start_unknown")
    /\ UNCHANGED <<child, target, other, intent, native, runner, calls>>

\* A start that was claimed before: look first.  Only an awaited start_unknown inside
\* the window is dispatched again; the detached helper also expires on no evidence.
AttemptObserve(a) ==
    /\ At(a, "observe")
    /\ \E seen \in Lookups :
          CASE seen = "found" -> Moves(a, "mark")
            [] seen # "found" /\ proc[a].old /\ (seen = "missing" \/ Mode = "detached") ->
                  Moves(a, "expire")
            [] seen = "missing" /\ ~proc[a].old /\ proc[a].start = "start_unknown" ->
                  Moves(a, "dispatch")
            [] OTHER -> Answer(a, "start_unknown")
    /\ UNCHANGED <<child, target, other, intent, native, runner, calls>>

\* The starts the expiry's CAS accepts, from the start that was read.
Expirable(a) ==
    CASE Mode = "detached" -> {"dispatching", "start_unknown"}
      [] Mode = "awaited" /\ proc[a].start = "start_unknown" -> {"start_unknown"}
      [] OTHER -> {"creating", "dispatching"}

AttemptExpire(a) ==
    LET hit == child.start \in Expirable(a) /\ child.outcome = "queued"
    IN  /\ At(a, "expire")
        /\ child' = [child EXCEPT !.outcome = IF hit THEN "indeterminate" ELSE @]
        /\ Answer(a, IF hit \/ Mode = "awaited" THEN "indeterminate" ELSE PersistedStart(child))
        /\ UNCHANGED <<target, other, intent, native, runner, calls>>

\* Slip: the dispatch does not look for a cancellation.
DispatchAdmits_Unfenced ==
    child.start \in {"creating", "start_unknown"} /\ child.outcome = "queued" /\ ParentRunning
\* The linearisation point of an awaited dispatch.
DispatchAdmits ==
    /\ child.start \in {"creating", "start_unknown"} /\ child.outcome = "queued"
    /\ intent = "none" /\ ParentRunning

AttemptDispatch(a) ==
    /\ At(a, "dispatch")
    /\ IF DispatchAdmits
       THEN child' = [child EXCEPT !.start = "dispatching"] /\ Moves(a, "create")
       ELSE /\ child' = IF child.start = "creating" /\ child.outcome = "queued" /\ intent # "none"
                        THEN [start |-> "cancelled_before_start", outcome |-> "cancelled"]
                        ELSE child
            /\ Answer(a, "start_unknown")
    /\ UNCHANGED <<target, other, intent, native, runner, calls>>

\* WORKFLOW.create under the derived id: accepted or not, answered or not.
AttemptCreate(a) ==
    /\ At(a, "create")
    /\ native' \in {native, IF native = "absent" THEN "pending" ELSE native}
    /\ calls' = [calls EXCEPT !.create = IF @ < 2 THEN @ + 1 ELSE @]
    /\ Moves(a, "unknown") \/ (native' # native /\ Moves(a, "mark"))
    /\ UNCHANGED <<child, target, other, intent, runner>>

\* The catch: dispatching -> start_unknown, then one more look.
AttemptUnknown(a) ==
    /\ At(a, "unknown")
    /\ child' = [child EXCEPT !.start =
          IF @ = "dispatching" /\ child.outcome \in Active THEN "start_unknown" ELSE @]
    /\ Moves(a, "observe2")
    /\ UNCHANGED <<target, other, intent, native, runner, calls>>

AttemptObserveAgain(a) ==
    /\ At(a, "observe2")
    /\ \E seen \in Lookups :
          IF seen = "found" THEN Moves(a, "mark") ELSE Answer(a, "start_unknown")
    /\ UNCHANGED <<child, target, other, intent, native, runner, calls>>

\* markStarted.
AttemptMark(a) ==
    LET hit == IF Mode = "awaited"
               THEN child.start \in {"creating", "dispatching", "start_unknown"} /\ child.outcome \in Active
               ELSE child.start \in {"dispatching", "start_unknown"} /\ child.outcome # "indeterminate"
    IN  /\ At(a, "mark")
        /\ child' = [child EXCEPT !.start = IF hit THEN "started" ELSE @]
        /\ IF Mode = "awaited" THEN Moves(a, "pending")
           ELSE Answer(a, IF hit THEN "started" ELSE PersistedStart(child))
        /\ UNCHANGED <<target, other, intent, native, runner, calls>>

\* reconcileCancellation: a started child with a committed cancellation is cancelled.
AttemptPending(a) ==
    /\ At(a, "pending")
    /\ IF intent = "none" THEN Answer(a, "started") ELSE Moves(a, "cancel")
    /\ UNCHANGED <<child, target, other, intent, native, runner, calls>>

-----------------------------------------------------------------------------
(* cancelAwaitedChild, called by workflow_cancel and by reconcileCancellation *)

CancelReturns(p) ==
    IF p \in Attempts THEN Answer(p, "started")
    ELSE Moves(p, "idle")

CancelRead(p) ==
    /\ Mode = "awaited" /\ child.start # "none"
    /\ At(p, "cancel") \/ (p \in Cancellers /\ At(p, "idle") /\ ChildActive)
    /\ IF ~ChildActive THEN CancelReturns(p)
       ELSE Moves(p, IF child.start \in {"reserved", "creating"} THEN "stop" ELSE "intent")
    /\ UNCHANGED <<child, target, other, intent, native, runner, calls>>

\* The starts that are local to D1.
Stoppable == {"reserved", "creating"}

CancelStop(p) ==
    /\ At(p, "stop")
    /\ IF child.start \in Stoppable /\ child.outcome = "queued"
       THEN /\ child' = [start |-> "cancelled_before_start", outcome |-> "cancelled"]
            /\ CancelReturns(p)
       ELSE UNCHANGED child /\ Moves(p, "intent")
    /\ UNCHANGED <<target, other, intent, native, runner, calls>>

\* INSERT OR IGNORE INTO child_cancellations
CancelIntent(p) ==
    /\ At(p, "intent")
    /\ intent' = IF intent = "none" /\ child.start \in Dispatched /\ child.outcome \in Active
                 THEN "requested" ELSE intent
    /\ calls' = [calls EXCEPT !.early = @ \/ (intent' # intent /\ child.outcome = "queued")]
    /\ Moves(p, "intentRead")
    /\ UNCHANGED <<child, target, other, native, runner>>

CancelIntentRead(p) ==
    /\ At(p, "intentRead")
    /\ IF intent = "none" THEN CancelReturns(p) ELSE Moves(p, "look")
    /\ UNCHANGED <<child, target, other, intent, native, runner, calls>>

\* The status before; a missing instance and a failed lookup end the request.
CancelLook(p) ==
    /\ At(p, "look")
    /\ \E seen \in Lookups :
          CASE seen = "found" /\ native = "terminated" -> Moves(p, "record")
            [] seen = "found" /\ native = "live" -> Moves(p, "seize")
            [] OTHER -> CancelReturns(p)
    /\ UNCHANGED <<child, target, other, intent, native, runner, calls>>

\* UPDATE ... SET termination_attempted_at WHERE it IS NULL
CancelSeize(p) ==
    /\ At(p, "seize")
    /\ intent' = "attempted"
    /\ Moves(p, IF intent = "requested" THEN "terminate" ELSE "after")
    /\ UNCHANGED <<child, target, other, native, runner, calls>>

\* instance.terminate(): done or not, answered or not.
CancelTerminate(p) ==
    /\ At(p, "terminate")
    /\ calls' = [calls EXCEPT !.terminate = IF @ < 2 THEN @ + 1 ELSE @]
    /\ \/ native = "live" /\ native' = "terminated" /\ runner' = "off"
       \/ UNCHANGED <<native, runner>>
    /\ Moves(p, "after")
    /\ UNCHANGED <<child, target, other, intent>>

CancelAfter(p) ==
    /\ At(p, "after")
    /\ \E seen \in Lookups :
          IF seen = "found" /\ native = "terminated" THEN Moves(p, "record") ELSE CancelReturns(p)
    /\ UNCHANGED <<child, target, other, intent, native, runner, calls>>

\* A termination that was observed makes an active Run cancelled.
CancelRecord(p) ==
    /\ At(p, "record")
    /\ child' = IF child.outcome \in Active /\ intent # "none"
                THEN [start |-> "cancelled", outcome |-> "cancelled"] ELSE child
    /\ CancelReturns(p)
    /\ UNCHANGED <<target, other, intent, native, runner, calls>>

\* An isolate dies, or a call throws out of the helper: what it did stays.
ProcDies(p) ==
    /\ "isolate" \in Faults /\ ~At(p, "idle")
    /\ proc' = [proc EXCEPT ![p] = [pc |-> "idle", start |-> "none", old |-> FALSE]]
    /\ UNCHANGED <<parent, child, stale, target, other, intent, native, runner, calls>>

-----------------------------------------------------------------------------
Init ==
    /\ parent \in {[mode |-> m, outcome |-> "running", weight |-> IF m = "awaited" THEN 2 ELSE 1,
                    pc |-> "admit", at |-> "start", by |-> NoAttempt, i |-> 0, step |-> "none"] :
                       m \in Modes}
    /\ child = [start |-> "none", outcome |-> "queued"]
    /\ stale = FALSE /\ target = TRUE
    /\ other \in {n \in 0..OtherRuns : n + 2 <= Limit}
    /\ intent = "none" /\ native = "absent" /\ runner = "off"
    /\ proc = [p \in Procs |-> [pc |-> "idle", start |-> "none", old |-> FALSE]]
    /\ calls = [create |-> 0, terminate |-> 0, early |-> FALSE]

AttemptStep(a) ==
    \/ AttemptRead(a) \/ AttemptClaim(a) \/ AttemptAbandon(a) \/ AttemptObserve(a)
    \/ AttemptExpire(a) \/ AttemptDispatch(a) \/ AttemptCreate(a) \/ AttemptUnknown(a)
    \/ AttemptObserveAgain(a) \/ AttemptMark(a) \/ AttemptPending(a)

CancelStep(p) ==
    \/ CancelStop(p) \/ CancelIntent(p) \/ CancelIntentRead(p) \/ CancelLook(p)
    \/ CancelSeize(p) \/ CancelTerminate(p) \/ CancelAfter(p) \/ CancelRecord(p)

RunnerStep == RunnerLoad \/ RunnerClaim \/ RunnerFinish \/ RunnerThrows

Next ==
    \/ OtherAdmitted \/ OtherSettles \/ TargetChanges
    \/ AdmitChild \/ StepFails \/ ParentReplays \/ ParentStatus \/ ParentVerdict \/ ParentEnds
    \/ \E a \in Attempts : StartAttempt(a) \/ AttemptStep(a)
    \/ \E p \in Procs : CancelRead(p) \/ CancelStep(p) \/ ProcDies(p)
    \/ InstanceAppears \/ InstanceLost \/ StartWindowPasses
    \/ RunnerStep \/ EngineReplays

Spec == Init /\ [][Next]_vars

\* The engine runs what it accepted, and every call that was begun goes on; the owner
\* need not cancel and the ten-minute flag need not be set ahead of the loop's turns.
Fairness ==
    /\ WF_vars(AdmitChild) /\ WF_vars(ParentStatus) /\ WF_vars(ParentVerdict)
    /\ WF_vars(parent.pc = "done" /\ ParentEnds)
    /\ \A a \in Attempts : WF_vars(StartAttempt(a)) /\ WF_vars(AttemptStep(a))
    /\ \A p \in Procs : WF_vars(CancelStep(p) \/ (At(p, "cancel") /\ CancelRead(p)))
    /\ WF_vars(InstanceAppears) /\ WF_vars(RunnerStep)

FairSpec == Spec /\ Fairness

-----------------------------------------------------------------------------
(* Properties *)

Creators == {a \in Attempts : At(a, "create")}

\* Parent, child and all other Runs never hold more than RUN_CAPACITY_LIMIT units: the
\* transfer of an awaited parent's second unit needs no predicate of its own.
FamilyCapacity == UnitsInUse <= Limit

\* However attempts overlap, at most one is about to call create(), and a detached child
\* is created by at most one call ever ("observed but NEVER blindly reissued").
SingleCreator ==
    /\ Cardinality(Creators) <= 1
    /\ Mode = "detached" => calls.create + Cardinality(Creators) <= 1

\* However many requests and replays cancel, terminate() is called at most once.
OneTerminate == calls.terminate + Cardinality({p \in Procs : At(p, "terminate")}) <= 1

\* A cancelled child executes nothing, now or later: either its instance was terminated,
\* or there is none and no call that could still create one.
CancelledIsQuiet ==
    child.outcome = "cancelled" =>
        /\ runner = "off"
        /\ IF child.start = "cancelled" THEN native = "terminated"
           ELSE native = "absent" /\ Creators = {}

\* A cancellation committed while the child was queued keeps its first business step from
\* running, even in an instance whose create() was accepted before and appears later.
CancelledNeverRuns ==
    calls.early => child.outcome \notin {"running", "succeeded"} /\ runner # "exec"

\* A committed cancellation wins over the parent's dependency authorisation, also when
\* the child's success is answered from the engine's log.
CancelBeatsSuccess == Mode = "awaited" /\ parent.step = "succeeded" => intent = "none"

\* What a cancellation promises at every moment, however attempts, replays, a late instance
\* and other requests interleave with it: it terminates once, it leaves nothing behind that
\* runs, and no success overtakes it.
CancelSafe == OneTerminate /\ CancelledIsQuiet /\ CancelledNeverRuns /\ CancelBeatsSuccess

\* A cancellation committed while no instance exists and no create() is under way keeps it
\* that way ("prevents all future native creation"), and of the four writers that race for
\* the child's outcome the first terminal one stays.
NeverCreated == intent # "none" /\ native = "absent" /\ Creators = {}
ChildHistory ==
    [][/\ NeverCreated => NeverCreated'
       /\ child.outcome \in Terminal => child'.outcome = child.outcome]_vars

\* "A lost worker between the D1 claim and Cloudflare create() must not consume one
\* reservation indefinitely."
ClaimReleases == ChildActive /\ child.start \in {"creating", "dispatching"} ~> ~ChildActive

===============================================================================
