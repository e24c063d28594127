----------------------------- MODULE ChildRunProofs -----------------------------
(***************************************************************************)
(* What holds of a flow.child step for every number of overlapping         *)
(* attempts and cancellations, every limit and every combination of        *)
(* faults: the capacity of the family, the single creator, what a          *)
(* cancellation promises, and that terminal outcomes stay.                 *)
(*                                                                         *)
(* The argument: create() is called between two writes of the start, so    *)
(* the row tells who may be calling; a cancellation is either a local      *)
(* write while no instance can exist, or a committed row that every later  *)
(* claim looks at.                                                         *)
(***************************************************************************)
EXTENDS ChildRun, FiniteSetTheorems, TLAPS

-----------------------------------------------------------------------------
(* The inductive invariant *)

\* The starts that no create() precedes.
Early == {"none", "reserved", "creating", "cancelled_before_start"}

\* Between the dispatch and the write that follows create().
Busy(p) == proc[p].pc \in {"create", "unknown"}

\* One attempt at a time is around create(), and the row tells that it may be.
Creation ==
    /\ \A p, q \in Procs : Busy(p) /\ Busy(q) => p = q
    /\ \A p \in Procs : Busy(p) => child.start \notin Early \cup {"start_unknown"}
    /\ \A p \in Procs : Busy(p) => p \in Attempts
    /\ child.start \in Early => native = "absent" /\ calls.create = 0

\* The code a detached child never reaches.
AwaitedOnly == {"dispatch", "pending", "cancel", "stop", "intent", "intentRead",
                "look", "seize", "terminate", "after", "record"}

\* A detached child is never cancelled and created once.
Detachment == Mode = "detached" =>
    /\ intent = "none"
    /\ \A p \in Procs : proc[p].start = "none" /\ proc[p].pc \notin AwaitedOnly
    /\ \/ calls.create = 0
       \/ calls.create = 1 /\ \A p \in Procs : ~At(p, "create")

\* The code that runs with a committed cancellation.
Committed == {"look", "seize", "terminate", "after", "record"}

\* Who seized the attempt terminates, and what is recorded as cancelled was terminated.
Termination ==
    /\ \A p, q \in Procs : At(p, "terminate") /\ At(q, "terminate") => p = q
    /\ \A p \in Procs : At(p, "terminate") => intent = "attempted" /\ calls.terminate = 0
    /\ calls.terminate \in {0, 1} /\ (intent # "attempted" => calls.terminate = 0)
    /\ \A p \in Procs : proc[p].pc \in Committed => intent # "none"
    /\ \A p \in Procs : At(p, "record") => native = "terminated"
    /\ child.outcome = "cancelled" => child.start \in {"cancelled", "cancelled_before_start"}
    /\ child.start = "cancelled" => native = "terminated"

\* Only a live instance executes, and nothing that was cancelled while it was queued.
Execution ==
    /\ runner # "off" => native = "live"
    /\ runner = "exec" => child.outcome # "queued"
    /\ calls.early => /\ intent # "none"
                      /\ child.outcome \notin {"running", "succeeded"} /\ runner # "exec"

\* The parent believes a success that happened, and that no cancellation preceded.
Verdicts ==
    /\ "verdict" \in {parent.pc, parent.at} => child.outcome = "succeeded"
    /\ Mode = "awaited" /\ parent.step = "succeeded" =>
          child.outcome = "succeeded" /\ intent = "none"

Inv == TypeOK /\ Creation /\ Detachment /\ Termination /\ Execution /\ Verdicts

-----------------------------------------------------------------------------
(* The shapes of a step *)

\* The parent keeps its rows and its mode, and learns nothing it could mistake for an
\* awaited success.
ParentKept ==
    /\ parent' \in Parent /\ stale' \in BOOLEAN
    /\ parent'.mode = parent.mode /\ parent'.outcome = parent.outcome
    /\ parent'.weight = parent.weight
    /\ parent'.pc \in {parent.pc, "start", "wait", "status", "done"}
    /\ parent'.at \in {parent.at, "start", "status"}
    /\ parent'.step \in {parent.step, "failed", "indeterminate"} \/ Mode = "detached"

\* Process p goes to q; a detached child's processes stay out of the awaited code.
Turn(p, q) ==
    /\ \E r \in Process : /\ r.pc = q /\ proc' = [proc EXCEPT ![p] = r]
                          /\ Mode = "detached" => r.start = "none" /\ q \notin AwaitedOnly
    /\ ParentKept /\ other' = other /\ target' = target

\* The rows and the engine stay.
Same == UNCHANGED <<child, intent, native, runner, calls>>

\* A step that only moves a process.
Walks(p) == \E q \in PCs \ {"create", "unknown", "terminate"} :
    /\ Turn(p, q) /\ Same
    /\ q = "record" => native = "terminated"
    /\ q \in Committed => intent # "none"

\* The claim of the reservation, or the dispatch: the start moves towards create().
Dispatches(p) == \E q \in {"dispatch", "create"} :
    /\ Turn(p, q) /\ UNCHANGED <<intent, native, runner, calls>>
    /\ child.start \in {"reserved", "creating", "start_unknown"} /\ child.outcome = "queued"
    /\ q = "create" => intent = "none" /\ p \in Attempts
    /\ child.start # "reserved" => Mode = "awaited"
    /\ child' = [child EXCEPT !.start = IF q = "create" THEN "dispatching" ELSE "creating"]
    /\ q = "dispatch" => child.start = "reserved"

\* The call of create().
Creates(p) == \E q \in {"unknown", "mark"} :
    /\ At(p, "create") /\ Turn(p, q) /\ UNCHANGED <<child, intent, runner>>
    /\ native' = native \/ (native = "absent" /\ native' = "pending")
    /\ calls' = [calls EXCEPT !.create = IF @ < 2 THEN @ + 1 ELSE @]

\* A write of the start after create(): in doubt, or known to have started.
Doubts(p) ==
    /\ At(p, "unknown") /\ Turn(p, "observe2") /\ UNCHANGED <<intent, native, runner, calls>>
    /\ child' = [child EXCEPT !.start =
          IF @ = "dispatching" /\ child.outcome \in Active THEN "start_unknown" ELSE @]

Marks(p) == \E q \in {"pending", "idle"} :
    /\ Turn(p, q) /\ UNCHANGED <<intent, native, runner, calls>>
    /\ child.start \in {"creating", "dispatching", "start_unknown"}
    /\ child.outcome # "cancelled"
    /\ child' = [child EXCEPT !.start = "started"]

\* A queued child is given up.
GivesUp(p) == \E o \in {"failed", "indeterminate"} :
    /\ Turn(p, "idle") /\ UNCHANGED <<intent, native, runner, calls>>
    /\ child.outcome = "queued" /\ child' = [child EXCEPT !.outcome = o]

\* A queued child that nobody created is cancelled where it is.
Stops(p) ==
    /\ Turn(p, "idle") /\ UNCHANGED <<intent, native, runner, calls>>
    /\ child.start \in {"reserved", "creating"} /\ child.outcome = "queued"
    /\ child' = [start |-> "cancelled_before_start", outcome |-> "cancelled"]

\* The cancellation is committed, its attempt is seized, made and recorded.
Commits(p) ==
    /\ Turn(p, "intentRead") /\ UNCHANGED <<child, native, runner>>
    /\ Mode = "awaited" /\ intent = "none" /\ intent' = "requested"
    /\ child.start \in Dispatched /\ child.outcome \in Active
    /\ calls' = [calls EXCEPT !.early = @ \/ child.outcome = "queued"]

Seizes(p) == \E q \in {"terminate", "after"} :
    /\ At(p, "seize") /\ Turn(p, q) /\ UNCHANGED <<child, native, runner, calls>>
    /\ intent' = "attempted" /\ (q = "terminate" <=> intent = "requested")

Terminates(p) ==
    /\ At(p, "terminate") /\ Turn(p, "after") /\ UNCHANGED <<child, intent>>
    /\ calls' = [calls EXCEPT !.terminate = IF @ < 2 THEN @ + 1 ELSE @]
    /\ \/ native = "live" /\ native' = "terminated" /\ runner' = "off"
       \/ UNCHANGED <<native, runner>>

Records(p) ==
    /\ At(p, "record") /\ Turn(p, "idle") /\ UNCHANGED <<intent, native, runner, calls>>
    /\ child.outcome \in Active
    /\ child' = [start |-> "cancelled", outcome |-> "cancelled"]

ProcStep(p) ==
    \/ Walks(p) \/ Dispatches(p) \/ Creates(p) \/ Doubts(p) \/ Marks(p) \/ GivesUp(p)
    \/ Stops(p) \/ Commits(p) \/ Seizes(p) \/ Terminates(p) \/ Records(p)

\* The step is awaited or detached.
LEMMA TwoModes == Inv => Mode \in {"awaited", "detached"}
BY ModeAssumption DEF Inv, TypeOK, Parent, Mode

\* Who is in the awaited code serves an awaited child.
LEMMA AwaitedCode ==
  ASSUME Inv, NEW p \in Procs, proc[p].pc \in AwaitedOnly
  PROVE  Mode = "awaited"
BY TwoModes DEF Inv, Detachment

-----------------------------------------------------------------------------
(* Every step of an attempt or a cancellation has one of these shapes *)

\* What Moves leaves alone, and where it leads.
LEMMA MovesTurns ==
  ASSUME Inv, NEW p \in Procs, NEW q \in PCs, Moves(p, q),
         other' = other, target' = target,
         Mode = "detached" => q \notin AwaitedOnly
  PROVE  Turn(p, q)
<1> DEFINE r == [pc |-> q, start |-> IF q = "expire" THEN proc[p].start ELSE "none",
                 old |-> q = "observe" /\ proc[p].old]
<1>1. proc[p] \in Process
  BY DEF Inv, TypeOK
<1>2. r \in Process /\ r.pc = q
  BY <1>1 DEF Process, StartState
<1>3. Mode = "detached" => r.start = "none"
  BY DEF Inv, Detachment
<1>4. proc' = [proc EXCEPT ![p] = r]
  BY DEF Moves, Goto
<1>5. ParentKept
  BY DEF Moves, ParentKept, Inv, TypeOK
<1> HIDE DEF r
<1> QED BY <1>2, <1>3, <1>4, <1>5 DEF Turn

\* The parent's step may end, but not with an awaited success.
LEMMA StepEndsKept ==
  ASSUME Inv, NEW result \in {"succeeded", "failed", "indeterminate"}, StepEnds(result),
         stale' = stale, result = "succeeded" => Mode = "detached"
  PROVE  ParentKept
<1> DEFINE new == [parent EXCEPT !.pc = "done", !.at = "start", !.by = NoAttempt, !.i = 0,
                                 !.step = result]
<1>1. parent' = new /\ parent \in Parent /\ 0 \in 0..LastPoll /\ stale \in BOOLEAN
  BY BoundAssumption DEF StepEnds, Inv, TypeOK
<1>2. new \in Parent
  BY <1>1 DEF Parent
<1>3. /\ new.mode = parent.mode /\ new.outcome = parent.outcome /\ new.weight = parent.weight
      /\ new.pc = "done" /\ new.at = "start" /\ new.step = result
  BY <1>1 DEF Parent
<1> HIDE DEF new
<1> QED BY <1>1, <1>2, <1>3 DEF ParentKept

\* The next turn of the loop keeps the rows.
LEMMA NextTurnKept ==
  ASSUME Inv, NextTurn
  PROVE  ParentKept
<1>1. parent \in Parent /\ LastPoll \in Nat /\ stale \in BOOLEAN
  BY BoundAssumption DEF Inv, TypeOK
<1>2. CASE parent.i < LastPoll
  <2> DEFINE new == [parent EXCEPT !.pc = "start", !.at = "start", !.by = NoAttempt,
                                   !.i = parent.i + 1]
  <2>1. parent' = new /\ stale' = (stale \/ parent.i + 1 >= Window)
    BY <1>2 DEF NextTurn
  <2>2. parent.i + 1 \in 0..LastPoll
    BY <1>1, <1>2 DEF Parent
  <2>3. new \in Parent
    BY <1>1, <2>2 DEF Parent
  <2>4. /\ new.mode = parent.mode /\ new.outcome = parent.outcome
        /\ new.weight = parent.weight /\ new.pc = "start" /\ new.at = "start"
        /\ new.step = parent.step
    BY <1>1 DEF Parent
  <2> HIDE DEF new
  <2> QED BY <2>1, <2>3, <2>4, <1>1 DEF ParentKept
<1>3. CASE ~(parent.i < LastPoll)
  BY <1>3, StepEndsKept DEF NextTurn
<1> QED BY <1>2, <1>3

\* The answer of an attempt ends it, whether or not the parent still hears it.
LEMMA AnswerTurns ==
  ASSUME Inv, NEW a \in Attempts, NEW result, Answer(a, result),
         other' = other, target' = target
  PROVE  Turn(a, "idle")
<1> DEFINE r == [pc |-> "idle", start |-> "none", old |-> FALSE]
<1>1. r \in Process /\ r.pc = "idle" /\ r.start = "none" /\ "idle" \notin AwaitedOnly
  BY DEF Process, PCs, StartState, AwaitedOnly
<1>2. proc' = [proc EXCEPT ![a] = r]
  BY DEF Answer
<1>3. ParentKept
  <2>1. CASE ~(InLoop("wait") /\ parent.by = a)
    <3>1. parent' = parent /\ stale' = stale
      BY <2>1 DEF Answer
    <3> QED BY <3>1 DEF ParentKept, Inv, TypeOK
  <2>2. CASE InLoop("wait") /\ parent.by = a
    <3>1. CASE StepEnds("indeterminate") /\ stale' = stale
      BY <3>1, StepEndsKept
    <3>2. CASE /\ parent' = [parent EXCEPT !.pc = "status", !.at = "status", !.by = NoAttempt]
               /\ stale' = stale
      BY <3>2 DEF ParentKept, Inv, TypeOK, Parent
    <3>3. CASE Mode = "detached" /\ StepEnds("succeeded") /\ stale' = stale
      BY <3>3, StepEndsKept
    <3>4. CASE StepEnds("failed") /\ stale' = stale
      BY <3>4, StepEndsKept
    <3>5. CASE NextTurn
      BY <3>5, NextTurnKept
    <3> QED BY <2>2, <3>1, <3>2, <3>3, <3>4, <3>5 DEF Answer
  <2> QED BY <2>1, <2>2
<1> HIDE DEF r
<1> QED BY <1>1, <1>2, <1>3 DEF Turn

\* The read at the beginning of an attempt, and its early returns, only move it.
LEMMA ReadWalks ==
  ASSUME Inv, NEW a \in Attempts, AttemptRead(a)
  PROVE  Walks(a)
<1>a. a \in Procs /\ Same /\ other' = other /\ target' = target
  BY DEF Procs, AttemptRead, Same
<1>t. parent.mode \in {"awaited", "detached"}
  BY ModeAssumption DEF Inv, TypeOK, Parent
<1>1. CASE \E result : Answer(a, result)
  BY <1>1, <1>a, AnswerTurns DEF Walks, PCs, Committed
<1>2. CASE \E q \in {"claim", "abandon", "observe"} : Moves(a, q)
  <2>1. PICK q \in {"claim", "abandon", "observe"} : Moves(a, q)
    BY <1>2
  <2>2. q \in PCs \ {"create", "unknown", "terminate"} /\ q \notin AwaitedOnly
        /\ q # "record" /\ q \notin Committed
    BY DEF PCs, AwaitedOnly, Committed
  <2> QED BY <1>a, <2>1, <2>2, MovesTurns DEF Walks
<1>3. CASE Mode = "awaited" /\ Moves(a, "pending")
  <2>1. "pending" \in PCs \ {"create", "unknown", "terminate"} /\ "pending" \notin Committed
    BY DEF PCs, Committed
  <2> QED BY <1>a, <1>3, <2>1, MovesTurns DEF Walks
<1>4. CASE /\ Mode = "awaited" /\ UNCHANGED <<parent, stale>>
           /\ proc' = [proc EXCEPT ![a] = [proc[a] EXCEPT !.pc = "observe", !.start = child.start]]
  <2> DEFINE r == [proc[a] EXCEPT !.pc = "observe", !.start = child.start]
  <2>1. proc[a] \in Process /\ child.start \in StartState
    BY <1>a DEF Inv, TypeOK, Child
  <2>2. r \in Process /\ r.pc = "observe"
    BY <2>1 DEF Process, PCs
  <2>3. ParentKept
    BY <1>4 DEF ParentKept, Inv, TypeOK
  <2>4. proc' = [proc EXCEPT ![a] = r]
    BY <1>4
  <2> HIDE DEF r
  <2>5. Turn(a, "observe")
    BY <1>a, <1>4, <2>2, <2>3, <2>4 DEF Turn
  <2> QED BY <1>a, <2>5 DEF Walks, PCs, Committed
<1>5. CASE Mode = "awaited"
  BY <1>5, <1>1, <1>2, <1>3, <1>4, Zenon DEF AttemptRead
<1>6. CASE Mode # "awaited"
  BY <1>6, <1>1, <1>2, Zenon DEF AttemptRead
<1> QED BY <1>5, <1>6

\* A walk that Moves makes.
LEMMA MovesWalk ==
  ASSUME Inv, NEW p \in Procs, NEW q \in PCs \ {"create", "unknown", "terminate"}, Moves(p, q),
         Same, other' = other, target' = target,
         Mode = "detached" => q \notin AwaitedOnly,
         q = "record" => native = "terminated",
         q \in Committed => intent # "none"
  PROVE  Walks(p)
BY MovesTurns DEF Walks

\* A walk that an answer makes.
LEMMA AnswerWalks ==
  ASSUME Inv, NEW a \in Attempts, NEW result, Answer(a, result),
         Same, other' = other, target' = target
  PROVE  Walks(a)
BY AnswerTurns DEF Walks, PCs, Committed, Procs

\* The end of a call of cancelAwaitedChild, and a call that dies, only move the process.
LEMMA ReturnsWalk ==
  ASSUME Inv, NEW p \in Procs, CancelReturns(p), other' = other, target' = target
  PROVE  Turn(p, "idle")
<1>1. CASE p \in Attempts
  BY <1>1, AnswerTurns DEF CancelReturns
<1>2. CASE p \notin Attempts
  BY <1>2, MovesTurns DEF CancelReturns, PCs, AwaitedOnly
<1> QED BY <1>1, <1>2

\* The CAS on the reservation.
LEMMA ClaimShape ==
  ASSUME Inv, NEW a \in Attempts, AttemptClaim(a)
  PROVE  ProcStep(a)
<1>a. a \in Procs /\ other' = other /\ target' = target
      /\ UNCHANGED <<intent, native, runner, calls>>
  BY DEF Procs, AttemptClaim
<1>1. CASE child.start = "reserved" /\ child.outcome = "queued" /\ ParentRunning
  <2>1. CASE Mode = "awaited"
    <3>1. child' = [child EXCEPT !.start = "creating"] /\ Moves(a, "dispatch")
      BY <1>1, <2>1 DEF AttemptClaim
    <3>2. Turn(a, "dispatch")
      BY <1>a, <2>1, <3>1, MovesTurns DEF PCs
    <3>3. Dispatches(a)
      BY <1>1, <1>a, <2>1, <3>1, <3>2 DEF Dispatches
    <3> QED BY <3>3 DEF ProcStep
  <2>2. CASE Mode # "awaited"
    <3>1. child' = [child EXCEPT !.start = "dispatching"] /\ Moves(a, "create")
      BY <1>1, <2>2 DEF AttemptClaim
    <3>2. Turn(a, "create")
      BY <1>a, <3>1, MovesTurns DEF PCs, AwaitedOnly
    <3>3. intent = "none"
      BY <2>2, TwoModes DEF Inv, Detachment
    <3>4. Dispatches(a)
      BY <1>1, <1>a, <3>1, <3>2, <3>3 DEF Dispatches
    <3> QED BY <3>4 DEF ProcStep
  <2> QED BY <2>1, <2>2
<1>2. CASE ~(child.start = "reserved" /\ child.outcome = "queued" /\ ParentRunning)
  <2>1. Answer(a, "start_unknown") /\ Same
    BY <1>2, <1>a DEF AttemptClaim, Same
  <2> QED BY <1>a, <2>1, AnswerWalks DEF ProcStep
<1> QED BY <1>1, <1>2

\* The two ways a queued child is given up: its parent ended, or it waited too long.
LEMMA GivesUpShape ==
  ASSUME Inv, NEW a \in Attempts, AttemptAbandon(a) \/ AttemptExpire(a)
  PROVE  ProcStep(a)
<1>a. a \in Procs /\ other' = other /\ target' = target
      /\ UNCHANGED <<intent, native, runner, calls>>
  BY DEF Procs, AttemptAbandon, AttemptExpire
<1>1. CASE AttemptAbandon(a)
  <2>1. CASE child.start = "reserved" /\ child.outcome = "queued"
    <3>1. child' = [child EXCEPT !.outcome = "failed"] /\ Answer(a, "rejected")
      BY <1>1, <2>1 DEF AttemptAbandon
    <3>2. Turn(a, "idle")
      BY <1>a, <3>1, AnswerTurns
    <3>3. GivesUp(a)
      BY <1>a, <2>1, <3>1, <3>2 DEF GivesUp
    <3> QED BY <3>3 DEF ProcStep
  <2>2. CASE ~(child.start = "reserved" /\ child.outcome = "queued")
    <3>1. Answer(a, PersistedStart(child)) /\ Same
      BY <1>1, <1>a, <2>2 DEF AttemptAbandon, Same
    <3> QED BY <1>a, <3>1, AnswerWalks DEF ProcStep
  <2> QED BY <2>1, <2>2
<1>2. CASE AttemptExpire(a)
  <2> DEFINE hit == child.start \in Expirable(a) /\ child.outcome = "queued"
             said == IF hit \/ Mode = "awaited" THEN "indeterminate" ELSE PersistedStart(child)
  <2>1. Answer(a, said)
    BY <1>2 DEF AttemptExpire
  <2>2. child' = [child EXCEPT !.outcome = IF hit THEN "indeterminate" ELSE child.outcome]
    BY <1>2 DEF AttemptExpire
  <2>3. CASE hit
    <3>1. Turn(a, "idle")
      BY <1>a, <2>1, AnswerTurns
    <3>2. child' = [child EXCEPT !.outcome = "indeterminate"] /\ child.outcome = "queued"
      BY <2>2, <2>3
    <3>3. GivesUp(a)
      BY <1>a, <3>1, <3>2 DEF GivesUp
    <3> QED BY <3>3 DEF ProcStep
  <2>4. CASE ~hit
    <3>1. child' = child
      BY <2>2, <2>4 DEF Inv, TypeOK, Child
    <3>2. Same
      BY <1>a, <3>1 DEF Same
    <3> QED BY <1>a, <2>1, <3>2, AnswerWalks DEF ProcStep
  <2> QED BY <2>3, <2>4
<1> QED BY <1>1, <1>2

\* The linearisation point of an awaited dispatch.
LEMMA DispatchShape ==
  ASSUME Inv, NEW a \in Attempts, AttemptDispatch(a)
  PROVE  ProcStep(a)
<1>a. a \in Procs /\ other' = other /\ target' = target
      /\ UNCHANGED <<intent, native, runner, calls>>
  BY DEF Procs, AttemptDispatch
<1>m. Mode = "awaited"
  BY <1>a, AwaitedCode DEF AttemptDispatch, At, AwaitedOnly
<1>1. CASE DispatchAdmits
  <2>1. child' = [child EXCEPT !.start = "dispatching"] /\ Moves(a, "create")
    BY <1>1 DEF AttemptDispatch
  <2>2. Turn(a, "create")
    BY <1>a, <2>1, MovesTurns DEF PCs, AwaitedOnly
  <2>3. Dispatches(a)
    BY <1>1, <1>a, <1>m, <2>1, <2>2 DEF Dispatches, DispatchAdmits
  <2> QED BY <2>3 DEF ProcStep
<1>2. CASE ~DispatchAdmits /\ child.start = "creating" /\ child.outcome = "queued" /\ intent # "none"
  <2>1. child' = [start |-> "cancelled_before_start", outcome |-> "cancelled"]
        /\ Answer(a, "start_unknown")
    BY <1>2 DEF AttemptDispatch
  <2>2. Turn(a, "idle")
    BY <1>a, <2>1, AnswerTurns
  <2>3. Stops(a)
    BY <1>2, <1>a, <2>1, <2>2 DEF Stops
  <2> QED BY <2>3 DEF ProcStep
<1>3. CASE ~DispatchAdmits
           /\ ~(child.start = "creating" /\ child.outcome = "queued" /\ intent # "none")
  <2>1. Answer(a, "start_unknown") /\ Same
    BY <1>3, <1>a DEF AttemptDispatch, Same
  <2> QED BY <1>a, <2>1, AnswerWalks DEF ProcStep
<1> QED BY <1>1, <1>2, <1>3

\* create(), the write that doubts it and the write that believes it.
LEMMA CreateShape ==
  ASSUME Inv, NEW a \in Attempts, AttemptCreate(a) \/ AttemptUnknown(a) \/ AttemptMark(a)
  PROVE  ProcStep(a)
<1>a. a \in Procs /\ other' = other /\ target' = target
  BY DEF Procs, AttemptCreate, AttemptUnknown, AttemptMark
<1>1. CASE AttemptCreate(a)
  <2>1. /\ At(a, "create") /\ UNCHANGED <<child, intent, runner>>
        /\ native' = native \/ (native = "absent" /\ native' = "pending")
        /\ calls' = [calls EXCEPT !.create = IF calls.create < 2 THEN calls.create + 1
                                             ELSE calls.create]
        /\ Moves(a, "unknown") \/ Moves(a, "mark")
    BY <1>1 DEF AttemptCreate
  <2>2. "unknown" \in PCs /\ "mark" \in PCs /\ "unknown" \notin AwaitedOnly
        /\ "mark" \notin AwaitedOnly
    BY DEF PCs, AwaitedOnly
  <2>3. Turn(a, "unknown") \/ Turn(a, "mark")
    BY <1>a, <2>1, <2>2, MovesTurns
  <2>4. Creates(a)
    BY <2>1, <2>3 DEF Creates
  <2> QED BY <2>4 DEF ProcStep
<1>2. CASE AttemptUnknown(a)
  <2>1. /\ At(a, "unknown") /\ Moves(a, "observe2")
        /\ UNCHANGED <<intent, native, runner, calls>>
        /\ child' = [child EXCEPT !.start =
              IF child.start = "dispatching" /\ child.outcome \in Active THEN "start_unknown"
              ELSE child.start]
    BY <1>2 DEF AttemptUnknown
  <2>2. Turn(a, "observe2")
    BY <1>a, <2>1, MovesTurns DEF PCs, AwaitedOnly
  <2>3. Doubts(a)
    BY <2>1, <2>2 DEF Doubts
  <2> QED BY <2>3 DEF ProcStep
<1>3. CASE AttemptMark(a)
  <2> DEFINE hit == IF Mode = "awaited"
                    THEN /\ child.start \in {"creating", "dispatching", "start_unknown"}
                         /\ child.outcome \in Active
                    ELSE /\ child.start \in {"dispatching", "start_unknown"}
                         /\ child.outcome # "indeterminate"
  <2>1. /\ child' = [child EXCEPT !.start = IF hit THEN "started" ELSE child.start]
        /\ UNCHANGED <<intent, native, runner, calls>>
        /\ \/ Mode = "awaited" /\ Moves(a, "pending")
           \/ \E result : Answer(a, result)
    BY <1>3 DEF AttemptMark
  <2>2. \/ Mode = "awaited" /\ Turn(a, "pending") /\ Moves(a, "pending")
        \/ Turn(a, "idle") /\ \E result : Answer(a, result)
    BY <1>a, <2>1, MovesTurns, AnswerTurns DEF PCs
  <2>3. CASE hit
    <3>1. child.outcome # "cancelled"
      BY <2>3 DEF Inv, Termination, Active
    <3>2. child.start \in {"creating", "dispatching", "start_unknown"}
      BY <2>3
    <3>3. child' = [child EXCEPT !.start = "started"]
      BY <2>1, <2>3
    <3>4. Marks(a)
      BY <2>1, <2>2, <3>1, <3>2, <3>3 DEF Marks
    <3> QED BY <3>4 DEF ProcStep
  <2>4. CASE ~hit
    <3>1. child' = child
      BY <2>1, <2>4 DEF Inv, TypeOK, Child
    <3>2. Same
      BY <2>1, <3>1 DEF Same
    <3>3. "pending" \in PCs \ {"create", "unknown", "terminate"} /\ "pending" \notin Committed
      BY DEF PCs, Committed
    <3>4. Walks(a)
      BY <1>a, <2>2, <3>2, <3>3, MovesWalk, AnswerWalks
    <3> QED BY <3>4 DEF ProcStep
  <2> QED BY <2>3, <2>4
<1> QED BY <1>1, <1>2, <1>3

\* Looking at the engine, and at the cancellation, only moves an attempt.
LEMMA ObserveWalks ==
  ASSUME Inv, NEW a \in Attempts,
         AttemptObserve(a) \/ AttemptObserveAgain(a) \/ AttemptPending(a)
  PROVE  Walks(a)
<1>a. a \in Procs /\ Same /\ other' = other /\ target' = target
  BY DEF Procs, AttemptObserve, AttemptObserveAgain, AttemptPending, Same
<1>1. ASSUME NEW result, Answer(a, result)
      PROVE  Walks(a)
  BY <1>1, <1>a, AnswerWalks
<1>2. ASSUME NEW q \in {"mark", "expire"}, Moves(a, q)
      PROVE  Walks(a)
  <2>1. q \in PCs \ {"create", "unknown", "terminate"} /\ q \notin AwaitedOnly
        /\ q # "record" /\ q \notin Committed
    BY DEF PCs, AwaitedOnly, Committed
  <2> QED BY <1>a, <1>2, <2>1, MovesWalk
<1>3. ASSUME NEW q \in {"dispatch", "cancel"}, Moves(a, q), Mode = "awaited"
      PROVE  Walks(a)
  <2>1. q \in PCs \ {"create", "unknown", "terminate"} /\ q # "record" /\ q \notin Committed
    BY DEF PCs, Committed
  <2> QED BY <1>a, <1>3, <2>1, MovesWalk
<1>4. CASE AttemptObserve(a)
  <2>1. \/ \E result : Answer(a, result)
        \/ \E q \in {"mark", "expire"} : Moves(a, q)
        \/ Moves(a, "dispatch") /\ proc[a].start = "start_unknown"
    BY <1>4, Zenon DEF AttemptObserve
  <2>2. proc[a].start = "start_unknown" => Mode = "awaited"
    BY <1>a, TwoModes DEF Inv, Detachment
  <2> QED BY <2>1, <2>2, <1>1, <1>2, <1>3
<1>5. CASE AttemptObserveAgain(a)
  BY <1>5, <1>1, <1>2 DEF AttemptObserveAgain
<1>6. CASE AttemptPending(a)
  <2>1. Mode = "awaited"
    BY <1>a, <1>6, AwaitedCode DEF AttemptPending, At, AwaitedOnly
  <2> QED BY <1>6, <2>1, <1>1, <1>3 DEF AttemptPending
<1> QED BY <1>4, <1>5, <1>6

\* What a cancellation reads only moves it, and only a committed one goes on.
LEMMA CancelReadsWalk ==
  ASSUME Inv, NEW p \in Procs,
         \/ CancelRead(p) \/ CancelIntentRead(p) \/ CancelLook(p) \/ CancelAfter(p)
  PROVE  Walks(p)
<1>a. Same /\ other' = other /\ target' = target
  BY DEF CancelRead, CancelIntentRead, CancelLook, CancelAfter, Same
<1>1. ASSUME CancelReturns(p) PROVE Walks(p)
  BY <1>1, <1>a, ReturnsWalk DEF Walks, PCs, Committed
<1>m. Mode = "awaited"
  BY AwaitedCode DEF CancelRead, CancelIntentRead, CancelLook, CancelAfter, At, AwaitedOnly
<1>2. ASSUME NEW q \in {"stop", "intent"}, Moves(p, q)
      PROVE  Walks(p)
  <2>1. q \in PCs \ {"create", "unknown", "terminate"} /\ q # "record" /\ q \notin Committed
    BY DEF PCs, Committed
  <2> QED BY <1>a, <1>m, <1>2, <2>1, MovesWalk
<1>3. ASSUME NEW q \in {"look", "seize", "record"}, Moves(p, q), intent # "none",
             q = "record" => native = "terminated"
      PROVE  Walks(p)
  <2>1. q \in PCs \ {"create", "unknown", "terminate"}
    BY DEF PCs
  <2> QED BY <1>a, <1>m, <1>3, <2>1, MovesWalk
<1>4. CASE CancelRead(p)
  BY <1>4, <1>1, <1>2 DEF CancelRead
<1>5. CASE CancelIntentRead(p)
  BY <1>5, <1>1, <1>3 DEF CancelIntentRead
<1>6. CASE CancelLook(p)
  <2>1. intent # "none"
    BY <1>6 DEF CancelLook, At, Inv, Termination, Committed
  <2>2. \/ CancelReturns(p)
        \/ native = "terminated" /\ Moves(p, "record")
        \/ Moves(p, "seize")
    BY <1>6, Zenon DEF CancelLook
  <2> QED BY <2>1, <2>2, <1>1, <1>3
<1>7. CASE CancelAfter(p)
  <2>1. intent # "none"
    BY <1>7 DEF CancelAfter, At, Inv, Termination, Committed
  <2>2. CancelReturns(p) \/ (native = "terminated" /\ Moves(p, "record"))
    BY <1>7, Zenon DEF CancelAfter
  <2> QED BY <2>1, <2>2, <1>1, <1>3
<1> QED BY <1>4, <1>5, <1>6, <1>7

\* What a cancellation writes, and the call of terminate().
LEMMA CancelShape ==
  ASSUME Inv, NEW p \in Procs,
         \/ CancelStop(p) \/ CancelIntent(p) \/ CancelSeize(p)
         \/ CancelTerminate(p) \/ CancelRecord(p)
  PROVE  ProcStep(p)
<1>a. other' = other /\ target' = target
  BY DEF CancelStop, CancelIntent, CancelSeize, CancelTerminate, CancelRecord
<1>m. Mode = "awaited"
  BY AwaitedCode
  DEF CancelStop, CancelIntent, CancelSeize, CancelTerminate, CancelRecord, At, AwaitedOnly
<1>t. \A q \in PCs : Moves(p, q) => Turn(p, q)
  BY <1>a, <1>m, MovesTurns
<1> /\ "intent" \in PCs /\ "intentRead" \in PCs /\ "terminate" \in PCs /\ "after" \in PCs
    /\ {"intent", "intentRead", "after"} \subseteq PCs \ {"create", "unknown", "terminate"}
  BY DEF PCs
<1>1. CASE CancelStop(p)
  <2>1. CASE child.start \in Stoppable /\ child.outcome = "queued"
    <3>1. /\ child' = [start |-> "cancelled_before_start", outcome |-> "cancelled"]
          /\ CancelReturns(p) /\ UNCHANGED <<intent, native, runner, calls>>
      BY <1>1, <2>1 DEF CancelStop
    <3>2. Turn(p, "idle")
      BY <1>a, <3>1, ReturnsWalk
    <3>3. Stops(p)
      BY <2>1, <3>1, <3>2 DEF Stops, Stoppable
    <3> QED BY <3>3 DEF ProcStep
  <2>2. CASE ~(child.start \in Stoppable /\ child.outcome = "queued")
    <3>1. Same /\ Moves(p, "intent")
      BY <1>1, <2>2 DEF CancelStop, Same
    <3>2. Walks(p)
      BY <1>a, <1>m, <3>1, MovesWalk DEF Committed
    <3> QED BY <3>2 DEF ProcStep
  <2> QED BY <2>1, <2>2
<1>2. CASE CancelIntent(p)
  <2>c. calls \in Counts
    BY DEF Inv, TypeOK
  <2>1. /\ Moves(p, "intentRead") /\ UNCHANGED <<child, native, runner>>
        /\ intent' = IF intent = "none" /\ child.start \in Dispatched /\ child.outcome \in Active
                     THEN "requested" ELSE intent
        /\ calls' = [calls EXCEPT !.early =
              calls.early \/ (intent' # intent /\ child.outcome = "queued")]
    BY <1>2 DEF CancelIntent
  <2>2. Turn(p, "intentRead")
    BY <1>t, <2>1
  <2>3. CASE intent = "none" /\ child.start \in Dispatched /\ child.outcome \in Active
    <3>1. intent' = "requested" /\ intent' # intent
      BY <2>1, <2>3
    <3>2. calls' = [calls EXCEPT !.early = calls.early \/ child.outcome = "queued"]
      BY <2>1, <3>1
    <3>3. Commits(p)
      BY <1>m, <2>1, <2>2, <2>3, <3>1, <3>2 DEF Commits
    <3> QED BY <3>3 DEF ProcStep
  <2>4. CASE ~(intent = "none" /\ child.start \in Dispatched /\ child.outcome \in Active)
    <3>1. intent' = intent
      BY <2>1, <2>4
    <3>2. calls' = [calls EXCEPT !.early = calls.early \/ FALSE]
      BY <2>1, <3>1
    <3>3. calls' = calls
      BY <2>c, <3>2 DEF Counts
    <3>4. Same /\ Moves(p, "intentRead")
      BY <2>1, <3>1, <3>3 DEF Same
    <3>5. Walks(p)
      BY <1>a, <1>m, <3>4, MovesWalk DEF Committed
    <3> QED BY <3>5 DEF ProcStep
  <2> QED BY <2>3, <2>4
<1>3. CASE CancelSeize(p)
  <2>1. /\ At(p, "seize") /\ UNCHANGED <<child, native, runner, calls>> /\ intent' = "attempted"
        /\ Moves(p, IF intent = "requested" THEN "terminate" ELSE "after")
    BY <1>3 DEF CancelSeize
  <2>2. CASE intent = "requested"
    <3>1. Turn(p, "terminate")
      BY <1>t, <2>1, <2>2
    <3>2. Seizes(p)
      BY <2>1, <2>2, <3>1 DEF Seizes
    <3> QED BY <3>2 DEF ProcStep
  <2>3. CASE intent # "requested"
    <3>1. Turn(p, "after")
      BY <1>t, <2>1, <2>3
    <3>2. Seizes(p)
      BY <2>1, <2>3, <3>1 DEF Seizes
    <3> QED BY <3>2 DEF ProcStep
  <2> QED BY <2>2, <2>3
<1>4. CASE CancelTerminate(p)
  <2>1. /\ At(p, "terminate") /\ Moves(p, "after") /\ UNCHANGED <<child, intent>>
        /\ calls' = [calls EXCEPT !.terminate = IF calls.terminate < 2 THEN calls.terminate + 1
                                                ELSE calls.terminate]
        /\ \/ native = "live" /\ native' = "terminated" /\ runner' = "off"
           \/ UNCHANGED <<native, runner>>
    BY <1>4 DEF CancelTerminate
  <2>2. Turn(p, "after")
    BY <1>t, <2>1
  <2>3. Terminates(p)
    BY <2>1, <2>2 DEF Terminates
  <2> QED BY <2>3 DEF ProcStep
<1>5. CASE CancelRecord(p)
  <2>1. At(p, "record") /\ UNCHANGED <<intent, native, runner, calls>> /\ CancelReturns(p)
    BY <1>5 DEF CancelRecord
  <2>2. Turn(p, "idle")
    BY <1>a, <2>1, ReturnsWalk
  <2>3. CASE child.outcome \in Active /\ intent # "none"
    <3>1. child' = [start |-> "cancelled", outcome |-> "cancelled"]
      BY <1>5, <2>3 DEF CancelRecord
    <3>2. Records(p)
      BY <2>1, <2>2, <2>3, <3>1 DEF Records
    <3> QED BY <3>2 DEF ProcStep
  <2>4. CASE ~(child.outcome \in Active /\ intent # "none")
    <3>1. Same
      BY <1>5, <2>1, <2>4 DEF CancelRecord, Same
    <3>2. Walks(p)
      BY <2>2, <3>1 DEF Walks, PCs, Committed
    <3> QED BY <3>2 DEF ProcStep
  <2> QED BY <2>3, <2>4
<1> QED BY <1>1, <1>2, <1>3, <1>4, <1>5

\* Every step of an attempt or a cancellation, also its death, has one of the shapes.
LEMMA ProcShape ==
  ASSUME Inv, NEW p \in Procs,
         \/ p \in Attempts /\ AttemptStep(p)
         \/ CancelRead(p) \/ CancelStep(p) \/ ProcDies(p)
  PROVE  ProcStep(p)
<1>1. CASE p \in Attempts /\ AttemptStep(p)
  <2>1. CASE AttemptRead(p)
    BY <1>1, <2>1, ReadWalks DEF ProcStep
  <2>2. CASE AttemptObserve(p) \/ AttemptObserveAgain(p) \/ AttemptPending(p)
    BY <1>1, <2>2, ObserveWalks DEF ProcStep
  <2> QED
    BY <1>1, <2>1, <2>2, ClaimShape, GivesUpShape, DispatchShape, CreateShape, Zenon
    DEF AttemptStep
<1>2. CASE CancelRead(p) \/ CancelIntentRead(p) \/ CancelLook(p) \/ CancelAfter(p)
  BY <1>2, CancelReadsWalk DEF ProcStep
<1>3. CASE ProcDies(p)
  <2> DEFINE r == [pc |-> "idle", start |-> "none", old |-> FALSE]
  <2>1. r \in Process /\ r.pc = "idle" /\ r.start = "none" /\ "idle" \notin AwaitedOnly
    BY DEF Process, PCs, StartState, AwaitedOnly
  <2>2. proc' = [proc EXCEPT ![p] = r] /\ Same /\ ParentKept /\ other' = other /\ target' = target
    BY <1>3 DEF ProcDies, Same, ParentKept, Inv, TypeOK
  <2> HIDE DEF r
  <2>3. Turn(p, "idle")
    BY <2>1, <2>2 DEF Turn
  <2>4. Walks(p)
    BY <2>2, <2>3 DEF Walks, PCs, Committed
  <2> QED BY <2>4 DEF ProcStep
<1> QED BY <1>1, <1>2, <1>3, CancelShape, Zenon DEF CancelStep

-----------------------------------------------------------------------------
(* The invariant is inductive *)

\* What a turn does to the processes.
LEMMA TurnFacts ==
  ASSUME Inv, NEW p \in Procs, NEW q \in PCs, Turn(p, q)
  PROVE  /\ parent' \in Parent /\ stale' \in BOOLEAN /\ target' \in BOOLEAN /\ other' \in 0..Limit
         /\ proc' \in [Procs -> Process]
         /\ proc'[p].pc = q /\ \A o \in Procs \ {p} : proc'[o] = proc[o]
         /\ Mode' = Mode
         /\ Mode = "detached" => /\ \A o \in Procs : proc'[o].start = "none"
                                 /\ \A o \in Procs : proc'[o].pc \notin AwaitedOnly
<1>1. PICK r \in Process : /\ r.pc = q /\ proc' = [proc EXCEPT ![p] = r]
                           /\ Mode = "detached" => r.start = "none" /\ q \notin AwaitedOnly
  BY DEF Turn
<1>2. proc \in [Procs -> Process]
  BY DEF Inv, TypeOK
<1>3. proc' \in [Procs -> Process] /\ proc'[p] = r /\ \A o \in Procs \ {p} : proc'[o] = proc[o]
  BY <1>1, <1>2
<1>4. parent' \in Parent /\ stale' \in BOOLEAN /\ target' \in BOOLEAN /\ other' \in 0..Limit
      /\ Mode' = Mode
  BY DEF Turn, ParentKept, Mode, Inv, TypeOK
<1>5. Mode = "detached" => /\ \A o \in Procs : proc'[o].start = "none"
                          /\ \A o \in Procs : proc'[o].pc \notin AwaitedOnly
  <2>1. SUFFICES ASSUME Mode = "detached", NEW o \in Procs
                 PROVE  proc'[o].start = "none" /\ proc'[o].pc \notin AwaitedOnly
    OBVIOUS
  <2>2. CASE o = p
    BY <1>1, <1>3, <2>1, <2>2
  <2>3. CASE o # p
    BY <1>3, <2>1, <2>3 DEF Inv, Detachment
  <2> QED BY <2>2, <2>3
<1> QED BY <1>1, <1>3, <1>4, <1>5

\* A parent that keeps its rows goes on to believe only what it believed.
LEMMA VerdictsKept ==
  ASSUME Inv, ParentKept,
         child.outcome = "succeeded" => /\ child'.outcome = "succeeded"
                                        /\ intent = "none" => intent' = "none"
  PROVE  Verdicts'
<1>1. "verdict" \in {parent'.pc, parent'.at} => "verdict" \in {parent.pc, parent.at}
  BY DEF ParentKept
<1>2. Mode' = Mode /\ (Mode = "awaited" /\ parent'.step = "succeeded" => parent.step = "succeeded")
  BY DEF ParentKept, Mode
<1> QED BY <1>1, <1>2 DEF Inv, Verdicts

\* Who is at a place of the code after p went to q: p, if q is such a place, or who was
\* there before.
LEMMA WhoIsThere ==
  ASSUME Inv, NEW p \in Procs, NEW q \in PCs, Turn(p, q)
  PROVE  \A o \in Procs : /\ proc'[o].pc = IF o = p THEN q ELSE proc[o].pc
                          /\ Busy(o)' <=> IF o = p THEN q \in {"create", "unknown"} ELSE Busy(o)
BY TurnFacts DEF Busy

\* A walk keeps the invariant.
LEMMA WalksKeep ==
  ASSUME Inv, NEW p \in Procs, Walks(p)
  PROVE  Inv'
<1>1. PICK q \in PCs \ {"create", "unknown", "terminate"} :
          /\ Turn(p, q) /\ Same
          /\ q = "record" => native = "terminated"
          /\ q \in Committed => intent # "none"
  BY DEF Walks
<1>2. \A o \in Procs : /\ proc'[o].pc = IF o = p THEN q ELSE proc[o].pc
                       /\ Busy(o)' => o # p /\ Busy(o)
  BY <1>1, WhoIsThere
<1>t. TypeOK'
  BY <1>1, TurnFacts DEF Same, Inv, TypeOK
<1>3. Creation'
  BY <1>1, <1>2 DEF Same, Inv, Creation
<1>4. Detachment'
  BY <1>1, <1>2, TurnFacts DEF Same, Inv, Detachment, At
<1>5. Termination'
  BY <1>1, <1>2 DEF Same, Inv, Termination, At
<1>6. Execution'
  BY <1>1 DEF Same, Inv, Execution
<1>7. Verdicts'
  BY <1>1, VerdictsKept DEF Same, Turn
<1> QED BY <1>t, <1>3, <1>4, <1>5, <1>6, <1>7 DEF Inv

\* Nobody is around create() when the start moves towards it.
LEMMA DispatchesKeep ==
  ASSUME Inv, NEW p \in Procs, Dispatches(p)
  PROVE  Inv'
<1>1. PICK q \in {"dispatch", "create"} :
        /\ Turn(p, q) /\ UNCHANGED <<intent, native, runner, calls>>
        /\ child.start \in {"reserved", "creating", "start_unknown"} /\ child.outcome = "queued"
        /\ q = "create" => intent = "none" /\ p \in Attempts
        /\ child.start # "reserved" => Mode = "awaited"
        /\ child' = [child EXCEPT !.start = IF q = "create" THEN "dispatching" ELSE "creating"]
        /\ q = "dispatch" => child.start = "reserved"
  BY DEF Dispatches
<1>q. q \in PCs
  BY DEF PCs
<1>2. \A o \in Procs : /\ proc'[o].pc = IF o = p THEN q ELSE proc[o].pc
                       /\ Busy(o)' <=> IF o = p THEN q = "create" ELSE Busy(o)
  BY <1>1, <1>q, WhoIsThere
<1>3. \A o \in Procs : ~Busy(o)
  BY <1>1 DEF Inv, Creation, Early
<1>c. /\ child \in Child /\ child' \in Child /\ child'.outcome = "queued"
      /\ child'.start = IF q = "create" THEN "dispatching" ELSE "creating"
  BY <1>1 DEF Inv, TypeOK, Child, StartState
<1>t. TypeOK'
  BY <1>1, <1>q, <1>c, TurnFacts DEF Inv, TypeOK
<1>4. Creation'
  BY <1>1, <1>2, <1>3, <1>c DEF Inv, Creation, Early
<1>5. Detachment'
  <2>1. Mode = "detached" => calls.create = 0 /\ q = "create"
    BY <1>1, TurnFacts, <1>q DEF Inv, Creation, Early, Turn, AwaitedOnly
  <2> QED BY <1>1, <1>q, <2>1, TurnFacts DEF Inv, Detachment
<1>6. Termination'
  BY <1>1, <1>2, <1>c DEF Inv, Termination, At, Committed
<1>7. Execution'
  BY <1>1, <1>c DEF Inv, Execution
<1>8. Verdicts'
  BY <1>1, VerdictsKept DEF Turn
<1> QED BY <1>t, <1>4, <1>5, <1>6, <1>7, <1>8 DEF Inv

\* create() is called by the one attempt that may, and changes no row.
LEMMA CreatesKeep ==
  ASSUME Inv, NEW p \in Procs, Creates(p)
  PROVE  Inv'
<1>1. PICK q \in {"unknown", "mark"} :
        /\ At(p, "create") /\ Turn(p, q) /\ UNCHANGED <<child, intent, runner>>
        /\ native' = native \/ (native = "absent" /\ native' = "pending")
        /\ calls' = [calls EXCEPT !.create = IF calls.create < 2 THEN calls.create + 1
                                             ELSE calls.create]
  BY DEF Creates
<1>q. q \in PCs
  BY DEF PCs
<1>2. \A o \in Procs : /\ proc'[o].pc = IF o = p THEN q ELSE proc[o].pc
                       /\ Busy(o)' => Busy(o)
  BY <1>1, <1>q, WhoIsThere DEF Busy, At
<1>3. Busy(p) /\ child.start \notin Early \cup {"start_unknown"}
      /\ \A o \in Procs : At(o, "create") => o = p
  BY <1>1 DEF Inv, Creation, Busy, At
<1>c. /\ calls \in Counts /\ calls' \in Counts /\ calls'.terminate = calls.terminate
      /\ calls'.early = calls.early
      /\ calls.create = 0 => calls'.create = 1
  BY <1>1 DEF Inv, TypeOK, Counts
<1>t. TypeOK'
  BY <1>1, <1>q, <1>c, TurnFacts DEF Inv, TypeOK
<1>4. Creation'
  BY <1>1, <1>2, <1>3, <1>c DEF Inv, Creation
<1>5. Detachment'
  <2>1. Mode = "detached" => calls.create = 0
    BY <1>1 DEF Inv, Detachment
  <2>2. \A o \in Procs : ~At(o, "create")'
    BY <1>2, <1>3 DEF At
  <2> QED BY <1>1, <1>q, <1>c, <2>1, <2>2, TurnFacts DEF Inv, Detachment
<1>6. Termination'
  BY <1>1, <1>2, <1>3, <1>c DEF Inv, Termination, At, Committed
<1>7. Execution'
  BY <1>1, <1>c DEF Inv, Execution
<1>8. Verdicts'
  BY <1>1, VerdictsKept DEF Turn
<1> QED BY <1>t, <1>4, <1>5, <1>6, <1>7, <1>8 DEF Inv

\* A write of the row that leaves the engine, the cancellation and the calls alone keeps the
\* invariant if it revives nothing and starts nothing over.
LEMMA RowWriteKeeps ==
  ASSUME Inv, NEW p \in Procs,
         NEW q \in {"idle", "observe2", "pending"}, Turn(p, q),
         UNCHANGED <<intent, native, runner, calls>>, child' \in Child,
         child'.outcome # "succeeded" => child.outcome # "succeeded",
         child'.outcome \in {"running", "succeeded"} => child'.outcome = child.outcome,
         child'.outcome = "queued" => child.outcome = "queued",
         child'.start \in Early => child.start \in Early,
         child'.start = "start_unknown" =>
            child.start = "start_unknown" \/ Busy(p) \/ \A o \in Procs : ~Busy(o),
         child'.start \in Early => \A o \in Procs : ~Busy(o),
         child'.outcome = "cancelled" => child'.start \in {"cancelled", "cancelled_before_start"},
         child'.start = "cancelled" => native = "terminated"
  PROVE  Inv'
<1>q. q \in PCs
  BY DEF PCs
<1>2. \A o \in Procs : /\ proc'[o].pc = IF o = p THEN q ELSE proc[o].pc
                       /\ Busy(o)' => o # p /\ Busy(o)
  BY <1>q, WhoIsThere
<1>t. TypeOK'
  BY <1>q, TurnFacts DEF Inv, TypeOK
<1>4. Creation'
  BY <1>2 DEF Inv, Creation
<1>5. Detachment'
  BY <1>2, <1>q, TurnFacts DEF Inv, Detachment, At
<1>6. Termination'
  BY <1>2 DEF Inv, Termination, At, Committed
<1>7. Execution'
  BY DEF Inv, Execution
<1>8. Verdicts'
  BY VerdictsKept DEF Turn
<1> QED BY <1>t, <1>4, <1>5, <1>6, <1>7, <1>8 DEF Inv

\* The writes of the start and the outcome that leave everything else alone.
LEMMA WritesKeep ==
  ASSUME Inv, NEW p \in Procs, Doubts(p) \/ Marks(p) \/ GivesUp(p) \/ Stops(p) \/ Records(p)
  PROVE  Inv'
<1>c. child \in Child
  BY DEF Inv, TypeOK
<1>1. CASE Doubts(p)
  <2> DEFINE s == IF child.start = "dispatching" /\ child.outcome \in Active THEN "start_unknown"
                  ELSE child.start
  <2>1. /\ At(p, "unknown") /\ Turn(p, "observe2") /\ UNCHANGED <<intent, native, runner, calls>>
        /\ child' = [child EXCEPT !.start = s]
    BY <1>1 DEF Doubts
  <2>2. child' \in Child /\ child'.outcome = child.outcome /\ child'.start = s
    BY <1>c, <2>1 DEF Child, StartState
  <2>3. Busy(p) /\ child.start \notin Early
    BY <2>1 DEF Inv, Creation, Busy, At
  <2>4. child'.start \notin Early
    BY <2>2, <2>3 DEF Early
  <2>5. child'.outcome = "cancelled" => child'.start \in {"cancelled", "cancelled_before_start"}
    BY <2>2 DEF Inv, Termination
  <2>6. child'.start = "cancelled" => native = "terminated"
    BY <2>2 DEF Inv, Termination
  <2> HIDE DEF s
  <2> QED BY <2>1, <2>2, <2>3, <2>4, <2>5, <2>6, RowWriteKeeps
<1>2. CASE Marks(p)
  <2>1. PICK q \in {"pending", "idle"} :
            /\ Turn(p, q) /\ UNCHANGED <<intent, native, runner, calls>>
            /\ child.outcome # "cancelled" /\ child' = [child EXCEPT !.start = "started"]
    BY <1>2 DEF Marks
  <2>2. child' \in Child /\ child'.outcome = child.outcome /\ child'.start = "started"
    BY <1>c, <2>1 DEF Child, StartState
  <2> QED BY <2>1, <2>2, RowWriteKeeps DEF Early
<1>3. CASE GivesUp(p)
  <2>1. PICK o \in {"failed", "indeterminate"} :
            /\ Turn(p, "idle") /\ UNCHANGED <<intent, native, runner, calls>>
            /\ child.outcome = "queued" /\ child' = [child EXCEPT !.outcome = o]
    BY <1>3 DEF GivesUp
  <2>2. child' \in Child /\ child'.outcome = o /\ child'.start = child.start
    BY <1>c, <2>1 DEF Child, Terminal
  <2>3. child'.start \in Early => \A x \in Procs : ~Busy(x)
    BY <2>2 DEF Inv, Creation
  <2>4. child'.start = "cancelled" => native = "terminated"
    BY <2>2 DEF Inv, Termination
  <2> QED BY <2>1, <2>2, <2>3, <2>4, RowWriteKeeps
<1>4. CASE Stops(p)
  <2>1. /\ Turn(p, "idle") /\ UNCHANGED <<intent, native, runner, calls>>
        /\ child.start \in {"reserved", "creating"} /\ child.outcome = "queued"
        /\ child' = [start |-> "cancelled_before_start", outcome |-> "cancelled"]
    BY <1>4 DEF Stops
  <2>2. child' \in Child /\ child'.outcome = "cancelled" /\ child'.start = "cancelled_before_start"
    BY <2>1 DEF Child, StartState, Terminal
  <2>3. \A x \in Procs : ~Busy(x)
    BY <2>1 DEF Inv, Creation, Early
  <2> QED BY <2>1, <2>2, <2>3, RowWriteKeeps DEF Early
<1>5. CASE Records(p)
  <2>1. /\ At(p, "record") /\ Turn(p, "idle") /\ UNCHANGED <<intent, native, runner, calls>>
        /\ child.outcome \in Active
        /\ child' = [start |-> "cancelled", outcome |-> "cancelled"]
    BY <1>5 DEF Records
  <2>2. child' \in Child /\ child'.outcome = "cancelled" /\ child'.start = "cancelled"
    BY <2>1 DEF Child, StartState, Terminal
  <2>3. native = "terminated" /\ child.outcome # "succeeded"
    BY <2>1 DEF Inv, Termination, Active
  <2> QED BY <2>1, <2>2, <2>3, RowWriteKeeps DEF Early
<1> QED BY <1>1, <1>2, <1>3, <1>4, <1>5

\* A commitment finds an awaited child that has not ended; if it finds it queued, nothing of
\* it runs.
LEMMA CommitsKeep ==
  ASSUME Inv, NEW p \in Procs, Commits(p)
  PROVE  Inv'
<1>1. /\ Turn(p, "intentRead") /\ UNCHANGED <<child, native, runner>>
      /\ Mode = "awaited" /\ intent = "none" /\ intent' = "requested"
      /\ child.start \in Dispatched /\ child.outcome \in Active
      /\ calls' = [calls EXCEPT !.early = calls.early \/ child.outcome = "queued"]
  BY DEF Commits
<1>q. "intentRead" \in PCs
  BY DEF PCs
<1>2. \A o \in Procs : /\ proc'[o].pc = IF o = p THEN "intentRead" ELSE proc[o].pc
                       /\ Busy(o)' => o # p /\ Busy(o)
  BY <1>1, <1>q, WhoIsThere
<1>c. /\ calls \in Counts /\ calls' \in Counts
      /\ calls'.create = calls.create /\ calls'.terminate = calls.terminate
      /\ calls'.early => calls.early \/ child.outcome = "queued"
  BY <1>1 DEF Inv, TypeOK, Counts
<1>e. ~calls.early
  BY <1>1 DEF Inv, Execution
<1>t. TypeOK'
  BY <1>1, <1>q, <1>c, TurnFacts DEF Inv, TypeOK
<1>4. Creation'
  BY <1>1, <1>2, <1>c DEF Inv, Creation
<1>5. Detachment'
  BY <1>1, <1>q, TurnFacts DEF Detachment
<1>6. Termination'
  BY <1>1, <1>2, <1>c DEF Inv, Termination, At, Committed
<1>7. Execution'
  BY <1>1, <1>c, <1>e DEF Inv, Execution
<1>8. Verdicts'
  BY <1>1, VerdictsKept DEF Turn, Active
<1> QED BY <1>t, <1>4, <1>5, <1>6, <1>7, <1>8 DEF Inv

\* One request seizes the attempt to terminate.
LEMMA SeizesKeep ==
  ASSUME Inv, NEW p \in Procs, Seizes(p)
  PROVE  Inv'
<1>1. PICK q \in {"terminate", "after"} :
        /\ At(p, "seize") /\ Turn(p, q) /\ UNCHANGED <<child, native, runner, calls>>
        /\ intent' = "attempted" /\ (q = "terminate" <=> intent = "requested")
  BY DEF Seizes
<1>q. q \in PCs
  BY DEF PCs
<1>2. \A o \in Procs : /\ proc'[o].pc = IF o = p THEN q ELSE proc[o].pc
                       /\ Busy(o)' => o # p /\ Busy(o)
  BY <1>1, <1>q, WhoIsThere
<1>i. intent # "none" /\ Mode = "awaited"
  BY <1>1, AwaitedCode DEF Inv, Termination, At, Committed, AwaitedOnly
<1>t. TypeOK'
  BY <1>1, <1>q, TurnFacts DEF Inv, TypeOK
<1>4. Creation'
  BY <1>1, <1>2 DEF Inv, Creation
<1>5. Detachment'
  BY <1>1, <1>i, <1>q, TurnFacts DEF Detachment
<1>6. Termination'
  <2>1. intent = "requested" => calls.terminate = 0 /\ \A o \in Procs : ~At(o, "terminate")
    BY DEF Inv, Termination
  <2>2. \A o \in Procs : At(o, "terminate")' =>
            (o = p /\ intent = "requested") \/ (At(o, "terminate") /\ intent = "attempted")
    BY <1>1, <1>2, <2>1 DEF At, Inv, Termination
  <2>3. \A o \in Procs : /\ proc'[o].pc \in Committed => intent' # "none"
                         /\ At(o, "record")' => At(o, "record")
    BY <1>1, <1>2 DEF At
  <2>4. \A o, x \in Procs : At(o, "terminate")' /\ At(x, "terminate")' => o = x
    BY <2>1, <2>2 DEF Inv, Termination
  <2>5. \A o \in Procs : At(o, "terminate")' => intent' = "attempted" /\ calls'.terminate = 0
    BY <1>1, <2>1, <2>2 DEF Inv, Termination
  <2> QED BY <1>1, <2>3, <2>4, <2>5 DEF Inv, Termination
<1>7. Execution'
  BY <1>1 DEF Inv, Execution
<1>8. Verdicts'
  BY <1>1, <1>i, VerdictsKept DEF Turn
<1> QED BY <1>t, <1>4, <1>5, <1>6, <1>7, <1>8 DEF Inv

\* The one call of terminate() ends a live instance or leaves it.
LEMMA TerminatesKeep ==
  ASSUME Inv, NEW p \in Procs, Terminates(p)
  PROVE  Inv'
<1>1. /\ At(p, "terminate") /\ Turn(p, "after") /\ UNCHANGED <<child, intent>>
      /\ calls' = [calls EXCEPT !.terminate = IF calls.terminate < 2 THEN calls.terminate + 1
                                              ELSE calls.terminate]
      /\ \/ native = "live" /\ native' = "terminated" /\ runner' = "off"
         \/ UNCHANGED <<native, runner>>
  BY DEF Terminates
<1>q. "after" \in PCs
  BY DEF PCs
<1>2. \A o \in Procs : /\ proc'[o].pc = IF o = p THEN "after" ELSE proc[o].pc
                       /\ Busy(o)' => o # p /\ Busy(o)
  BY <1>1, <1>q, WhoIsThere
<1>i. /\ intent = "attempted" /\ Mode = "awaited" /\ calls.terminate = 0
      /\ \A o \in Procs : At(o, "terminate") => o = p
  BY <1>1, AwaitedCode DEF Inv, Termination, At, AwaitedOnly
<1>c. /\ calls' \in Counts /\ calls'.create = calls.create /\ calls'.terminate = 1
      /\ calls'.early = calls.early
  BY <1>1, <1>i DEF Inv, TypeOK, Counts
<1>t. TypeOK'
  BY <1>1, <1>q, <1>c, TurnFacts DEF Inv, TypeOK
<1>4. Creation'
  BY <1>1, <1>2, <1>c DEF Inv, Creation
<1>5. Detachment'
  BY <1>1, <1>i, <1>q, TurnFacts DEF Detachment
<1>6. Termination'
  <2>1. \A o \in Procs : ~At(o, "terminate")'
    BY <1>2, <1>i DEF At
  <2> QED BY <1>1, <1>2, <1>i, <1>c, <2>1 DEF Inv, Termination, At
<1>7. Execution'
  BY <1>1, <1>c DEF Inv, Execution
<1>8. Verdicts'
  BY <1>1, VerdictsKept DEF Turn
<1> QED BY <1>t, <1>4, <1>5, <1>6, <1>7, <1>8 DEF Inv

\* Every step of an attempt or a cancellation keeps the invariant.
LEMMA ProcStepKeeps ==
  ASSUME Inv, NEW p \in Procs, ProcStep(p)
  PROVE  Inv'
BY WalksKeep, DispatchesKeep, CreatesKeep, WritesKeep, CommitsKeep, SeizesKeep, TerminatesKeep,
   Zenon DEF ProcStep

\* The child's run() moves a row from queued to running and from running to its end, and only
\* in a live instance.
LEMMA RunnerKeeps ==
  ASSUME Inv, RunnerStep
  PROVE  Inv'
<1>c. child \in Child /\ child.outcome \in Active \cup Terminal
  BY DEF Inv, TypeOK, Child
<1>n. /\ native = "live"
      /\ UNCHANGED <<parent, stale, target, other, intent, proc, calls>>
  BY DEF RunnerStep, RunnerLoad, RunnerClaim, RunnerFinish, RunnerThrows, Inv, Execution
<1>s. child.start \notin Early /\ child.start # "cancelled" /\ child.outcome # "cancelled"
  BY <1>n DEF Inv, Creation, Termination, Early
<1>d. Detachment'
  BY <1>n DEF Inv, Detachment, Mode, At
<1>r. \A o \in Procs : /\ proc'[o].pc = proc[o].pc /\ (Busy(o)' <=> Busy(o))
                       /\ ~At(o, "record")
  BY <1>n DEF Busy, Inv, Termination
<1>1. CASE RunnerLoad
  <2>1. /\ child' = child /\ runner = "off"
        /\ \/ /\ child.outcome \in Active /\ native' = native
              /\ runner' = IF child.outcome = "queued" THEN "claim" ELSE "exec"
           \/ child.outcome \notin Active /\ native' = "complete" /\ runner' = "off"
    BY <1>1 DEF RunnerLoad
  <2>t. TypeOK'
    BY <1>n, <2>1 DEF Inv, TypeOK
  <2>2. Creation'
    BY <1>n, <1>s, <1>r, <2>1 DEF Inv, Creation
  <2>3. Termination'
    BY <1>n, <1>s, <1>r, <2>1 DEF Inv, Termination, At
  <2>4. Execution'
    BY <1>n, <2>1 DEF Inv, Execution, Active
  <2>5. Verdicts'
    BY <1>n, <2>1 DEF Inv, Verdicts, Mode
  <2> QED BY <1>d, <2>t, <2>2, <2>3, <2>4, <2>5 DEF Inv
<1>2. ASSUME NEW o \in {"running", "succeeded", "failed", "indeterminate"},
             NEW rest \in {"off", "exec"},
             child' = [child EXCEPT !.outcome = o], runner' = rest,
             native' \in {"live", "complete", "errored"}, rest = "exec" => native' = "live",
             calls.early => o \in {"failed", "indeterminate"} /\ rest = "off",
             child.outcome # "succeeded"
      PROVE  Inv'
  <2>1. child' \in Child /\ child'.start = child.start /\ child'.outcome = o
    BY <1>c, <1>2 DEF Child, Active, Terminal
  <2>t. TypeOK'
    BY <1>n, <1>2, <2>1 DEF Inv, TypeOK
  <2>2. Creation'
    BY <1>n, <1>s, <1>r, <2>1 DEF Inv, Creation
  <2>3. Termination'
    BY <1>n, <1>s, <1>r, <1>2, <2>1 DEF Inv, Termination, At
  <2>4. Execution'
    BY <1>n, <1>2, <2>1 DEF Inv, Execution
  <2>5. Verdicts'
    BY <1>n, <1>2, <2>1 DEF Inv, Verdicts, Mode
  <2> QED BY <1>d, <2>t, <2>2, <2>3, <2>4, <2>5 DEF Inv
<1>3. ASSUME child' = child, runner' = "off", native' \in {"live", "complete", "errored"}
      PROVE  Inv'
  <2>t. TypeOK'
    BY <1>n, <1>3 DEF Inv, TypeOK
  <2>2. Creation'
    BY <1>n, <1>s, <1>r, <1>3 DEF Inv, Creation
  <2>3. Termination'
    BY <1>n, <1>s, <1>r, <1>3 DEF Inv, Termination, At
  <2>4. Execution'
    BY <1>n, <1>3 DEF Inv, Execution
  <2>5. Verdicts'
    BY <1>n, <1>3 DEF Inv, Verdicts, Mode
  <2> QED BY <1>d, <2>t, <2>2, <2>3, <2>4, <2>5 DEF Inv
<1>4. CASE RunnerClaim
  <2>1. CASE child.outcome = "queued" /\ intent = "none"
    <3>1. child' = [child EXCEPT !.outcome = "running"] /\ runner' = "exec" /\ native' = native
      BY <1>4, <2>1 DEF RunnerClaim
    <3>2. ~calls.early
      BY <2>1 DEF Inv, Execution
    <3> QED BY <1>n, <1>2, <2>1, <3>1, <3>2
  <2>2. CASE child.outcome = "queued" /\ intent # "none"
    <3>1. child' = [child EXCEPT !.outcome = "failed"] /\ runner' = "off" /\ native' = "complete"
      BY <1>4, <2>2 DEF RunnerClaim
    <3> QED BY <1>2, <2>2, <3>1
  <2>3. CASE child.outcome # "queued"
    <3>1. child' = [child EXCEPT !.outcome = child.outcome] /\ runner' = "off"
          /\ native' = "complete"
      BY <1>4, <2>3 DEF RunnerClaim
    <3>2. child' = child
      BY <1>c, <3>1 DEF Child
    <3> QED BY <1>3, <3>1, <3>2
  <2> QED BY <2>1, <2>2, <2>3
<1>5. CASE RunnerFinish \/ RunnerThrows
  <2>1. PICK o \in {"succeeded", "failed", "indeterminate"} :
           child' = [child EXCEPT !.outcome = IF child.outcome = "running" THEN o ELSE child.outcome]
    BY <1>5 DEF RunnerFinish, RunnerThrows
  <2>2. runner = "exec" /\ runner' = "off" /\ native' \in {"live", "errored"} /\ ~calls.early
    BY <1>5, <1>n DEF RunnerFinish, RunnerThrows, Inv, Execution
  <2>3. CASE child.outcome = "running"
    <3>1. child' = [child EXCEPT !.outcome = o]
      BY <2>1, <2>3
    <3> QED BY <1>2, <2>2, <2>3, <3>1
  <2>4. CASE child.outcome # "running"
    <3>1. child' = child
      BY <1>c, <2>1, <2>4 DEF Child
    <3> QED BY <1>3, <2>2, <3>1
  <2> QED BY <2>3, <2>4
<1> QED BY <1>1, <1>4, <1>5 DEF RunnerStep

\* The engine's own steps, the clock and the rest of the system keep the invariant.
LEMMA SurroundingsKeep ==
  ASSUME Inv,
         \/ InstanceAppears \/ InstanceLost \/ StartWindowPasses \/ EngineReplays
         \/ OtherAdmitted \/ OtherSettles \/ TargetChanges
  PROVE  Inv'
<1>n. UNCHANGED <<parent, child, intent, proc, calls>>
  BY DEF InstanceAppears, InstanceLost, StartWindowPasses, EngineReplays, OtherAdmitted,
         OtherSettles, TargetChanges
<1>1. /\ native' = native \/ (native \in {"pending", "live"} /\ native' \in {"live", "errored"})
      /\ runner' = runner \/ runner' = "off"
      /\ native' # native => runner' = "off" \/ native = "pending"
  BY DEF InstanceAppears, InstanceLost, StartWindowPasses, EngineReplays, OtherAdmitted,
         OtherSettles, TargetChanges
<1>2. stale' \in BOOLEAN /\ target' \in BOOLEAN
  BY DEF InstanceAppears, InstanceLost, StartWindowPasses, EngineReplays, OtherAdmitted,
         OtherSettles, TargetChanges, Inv, TypeOK
<1>3. other' \in 0..Limit
  <2>1. other \in Nat /\ other <= Limit /\ OtherRuns <= Limit /\ Limit \in Nat /\ OtherRuns \in Nat
    BY BoundAssumption DEF Inv, TypeOK
  <2>2. CASE OtherAdmitted
    BY <2>1, <2>2 DEF OtherAdmitted
  <2>3. CASE OtherSettles
    BY <2>1, <2>3 DEF OtherSettles
  <2>4. CASE ~OtherAdmitted /\ ~OtherSettles
    <3>1. other' = other
      BY <2>4 DEF InstanceAppears, InstanceLost, StartWindowPasses, EngineReplays, TargetChanges
    <3> QED BY <2>1, <3>1
  <2> QED BY <2>2, <2>3, <2>4
<1>r. \A o \in Procs : proc'[o] = proc[o] /\ (Busy(o)' <=> Busy(o))
  BY <1>n DEF Busy
<1>t. TypeOK'
  BY <1>n, <1>1, <1>2, <1>3 DEF Inv, TypeOK
<1>4. Creation'
  BY <1>n, <1>1, <1>r DEF Inv, Creation
<1>5. Detachment'
  BY <1>n DEF Inv, Detachment, Mode, At
<1>6. Termination'
  BY <1>n, <1>1 DEF Inv, Termination, At
<1>7. Execution'
  BY <1>n, <1>1 DEF Inv, Execution
<1>8. Verdicts'
  BY <1>n DEF Inv, Verdicts, Mode
<1> QED BY <1>t, <1>4, <1>5, <1>6, <1>7, <1>8 DEF Inv

\* What is left to show of a step of the parent: its row, what it believes, and that the
\* child's row, if it writes it, is reserved or given up.
LEMMA ParentKeeps ==
  ASSUME Inv, UNCHANGED <<target, other, intent, native, runner, calls>>,
         parent' \in Parent, parent'.mode = parent.mode, stale' \in BOOLEAN, child' \in Child,
         \/ child' = child
         \/ child.start = "none" /\ child'.start = "reserved" /\ child'.outcome = child.outcome
         \/ /\ child'.start = child.start /\ child.outcome \in Active
            /\ child'.outcome = "indeterminate",
         \/ proc' = proc
         \/ \E a \in Procs, r \in Process : /\ r.pc = "read" /\ r.start = "none"
                                           /\ proc' = [proc EXCEPT ![a] = r],
         "verdict" \in {parent'.pc, parent'.at} => child'.outcome = "succeeded",
         Mode = "awaited" /\ parent'.step = "succeeded" =>
            child'.outcome = "succeeded" /\ intent = "none"
  PROVE  Inv'
<1>p. proc \in [Procs -> Process] /\ child \in Child /\ Mode' = Mode
  BY DEF Inv, TypeOK, Mode
<1>r. /\ proc' \in [Procs -> Process]
      /\ \A o \in Procs : proc'[o] = proc[o] \/ (proc'[o].pc = "read" /\ proc'[o].start = "none")
  BY <1>p
<1>b. \A o \in Procs : Busy(o)' => Busy(o)
  BY <1>r DEF Busy
<1>t. TypeOK'
  BY <1>r DEF Inv, TypeOK
<1>4. Creation'
  BY <1>b DEF Inv, Creation, Early
<1>5. Detachment'
  BY <1>p, <1>r DEF Inv, Detachment, At, AwaitedOnly
<1>6. Termination'
  BY <1>r DEF Inv, Termination, At, Committed, Active
<1>7. Execution'
  BY DEF Inv, Execution
<1>8. Verdicts'
  BY <1>p DEF Verdicts
<1> QED BY <1>t, <1>4, <1>5, <1>6, <1>7, <1>8 DEF Inv

\* The end of the step is a parent's row again.
LEMMA StepEndsRow ==
  ASSUME Inv, NEW result \in {"succeeded", "failed", "unavailable", "indeterminate"},
         StepEnds(result)
  PROVE  /\ parent' \in Parent /\ parent'.mode = parent.mode
         /\ parent'.outcome = parent.outcome /\ parent'.weight = parent.weight
         /\ parent'.pc = "done" /\ parent'.at = "start" /\ parent'.step = result
<1> DEFINE new == [parent EXCEPT !.pc = "done", !.at = "start", !.by = NoAttempt, !.i = 0,
                                 !.step = result]
<1>1. parent' = new /\ parent \in Parent /\ 0 \in 0..LastPoll
  BY BoundAssumption DEF StepEnds, Inv, TypeOK
<1>2. new \in Parent
  BY <1>1 DEF Parent
<1>3. /\ new.mode = parent.mode /\ new.outcome = parent.outcome /\ new.weight = parent.weight
      /\ new.pc = "done" /\ new.at = "start" /\ new.step = result
  BY <1>1 DEF Parent
<1> HIDE DEF new
<1> QED BY <1>1, <1>2, <1>3

\* The reservation, by an awaited parent that hands over a unit or a detached one.
LEMMA AdmitKeeps ==
  ASSUME Inv, AdmitChild
  PROVE  Inv'
<1>n. UNCHANGED <<stale, target, other, intent, native, runner, proc, calls>>
  BY DEF AdmitChild
<1>p. parent \in Parent /\ child \in Child /\ stale' \in BOOLEAN /\ 0 \in 0..LastPoll
  BY <1>n, BoundAssumption DEF Inv, TypeOK
<1>1. ASSUME NEW result \in {"failed", "unavailable", "indeterminate"}, StepEnds(result),
             child' = child
      PROVE  Inv'
  BY <1>n, <1>p, <1>1, StepEndsRow, ParentKeeps
<1>2. Reserved(parent) \in Parent /\ Reserved(parent).mode = parent.mode
      /\ Reserved(parent).at = parent.at /\ Reserved(parent).step = parent.step
  BY <1>p DEF Reserved, Parent
<1>3. ASSUME NEW row \in Parent, row.mode = parent.mode, row.at = parent.at,
             row.step = parent.step, parent' = [row EXCEPT !.pc = parent.at],
             child' = child \/ (child.start = "none" /\ child' = [child EXCEPT !.start = "reserved"])
      PROVE  Inv'
  <2> DEFINE new == [row EXCEPT !.pc = parent.at]
  <2>1. /\ new \in Parent /\ new.mode = parent.mode /\ new.step = parent.step
        /\ new.pc = parent.at /\ new.at = parent.at
    BY <1>p, <1>3 DEF Parent
  <2>2. parent' = new
    BY <1>3
  <2>3. /\ child' \in Child /\ child'.outcome = child.outcome
        /\ child' = child \/ (child.start = "none" /\ child'.start = "reserved")
    BY <1>p, <1>3 DEF Child, StartState
  <2> HIDE DEF new
  <2>4. "verdict" \in {parent'.pc, parent'.at} => child'.outcome = "succeeded"
    BY <2>1, <2>2, <2>3 DEF Inv, Verdicts
  <2>5. Mode = "awaited" /\ parent'.step = "succeeded" =>
            child'.outcome = "succeeded" /\ intent = "none"
    BY <2>1, <2>2, <2>3 DEF Inv, Verdicts
  <2> QED BY <1>n, <1>p, <2>1, <2>2, <2>3, <2>4, <2>5, ParentKeeps
<1>4. ASSUME child.start = "none", child' = [child EXCEPT !.start = "reserved"],
             parent' = [Reserved(parent) EXCEPT !.pc = "done", !.at = "start", !.i = 0,
                                                !.step = "indeterminate"]
      PROVE  Inv'
  <2> DEFINE row == Reserved(parent)
             new == [row EXCEPT !.pc = "done", !.at = "start", !.i = 0, !.step = "indeterminate"]
  <2>1. row \in Parent /\ row.mode = parent.mode
    BY <1>2
  <2>2. parent' = new
    BY <1>4
  <2> HIDE DEF row
  <2>3. /\ new \in Parent /\ new.mode = parent.mode /\ new.step = "indeterminate"
        /\ new.pc = "done" /\ new.at = "start"
    BY <1>p, <2>1 DEF Parent
  <2>4. /\ child' \in Child /\ child'.outcome = child.outcome /\ child'.start = "reserved"
    BY <1>p, <1>4 DEF Child, StartState
  <2> HIDE DEF new
  <2> QED BY <1>n, <1>p, <1>4, <2>2, <2>3, <2>4, ParentKeeps
<1>5. CASE /\ ChildAdmits /\ child' = [child EXCEPT !.start = "reserved"]
           /\ \/ parent' = [Reserved(parent) EXCEPT !.pc = parent.at]
              \/ parent' = [Reserved(parent) EXCEPT !.pc = "done", !.at = "start", !.i = 0,
                                                    !.step = "indeterminate"]
  <2>1. child.start = "none"
    BY <1>5 DEF ChildAdmits
  <2> QED BY <1>2, <1>3, <1>4, <1>5, <2>1
<1>6. CASE child' = child /\ parent' = [parent EXCEPT !.pc = parent.at]
  BY <1>p, <1>3, <1>6
<1>7. CASE child' = child /\ StepEnds(IF Mode = "detached" THEN "failed" ELSE "indeterminate")
  BY <1>1, <1>7
<1> QED BY <1>1, <1>5, <1>6, <1>7 DEF AdmitChild

\* The parent's polls, its interruptions and its end.
LEMMA ParentStepKeeps ==
  ASSUME Inv, \/ StepFails \/ ParentReplays \/ ParentStatus \/ ParentVerdict \/ ParentEnds
  PROVE  Inv'
<1>n. UNCHANGED <<target, other, intent, native, runner, proc, calls>>
  BY DEF StepFails, ParentReplays, ParentStatus, ParentVerdict, ParentEnds
<1>p. /\ parent \in Parent /\ child \in Child /\ stale \in BOOLEAN /\ 0 \in 0..LastPoll
      /\ child.outcome \in Active => child.outcome # "succeeded"
  BY BoundAssumption DEF Inv, TypeOK, Active
<1>1. ASSUME NEW result \in {"failed", "indeterminate"}, StepEnds(result), stale' = stale,
             child' = child
      PROVE  Inv'
  BY <1>n, <1>p, <1>1, StepEndsRow, ParentKeeps
<1>2. ASSUME NextTurn, child' = child
      PROVE  Inv'
  <2>1. CASE parent.i < LastPoll
    <3> DEFINE new == [parent EXCEPT !.pc = "start", !.at = "start", !.by = NoAttempt,
                                     !.i = parent.i + 1]
    <3>1. parent' = new /\ stale' \in BOOLEAN
      BY <1>2, <1>p, <2>1 DEF NextTurn
    <3>2. parent.i + 1 \in 0..LastPoll
      BY <1>p, <2>1, BoundAssumption DEF Parent
    <3>3. new \in Parent
      BY <1>p, <3>2 DEF Parent
    <3>4. /\ new.mode = parent.mode /\ new.pc = "start" /\ new.at = "start"
          /\ new.step = parent.step
      BY <1>p DEF Parent
    <3> HIDE DEF new
    <3>5. Mode = "awaited" /\ parent'.step = "succeeded" =>
              child'.outcome = "succeeded" /\ intent = "none"
      BY <1>2, <3>1, <3>4 DEF Inv, Verdicts
    <3> QED BY <1>n, <1>p, <1>2, <3>1, <3>3, <3>4, <3>5, ParentKeeps
  <2>2. CASE ~(parent.i < LastPoll)
    BY <1>1, <1>2, <2>2 DEF NextTurn
  <2> QED BY <2>1, <2>2
<1>3. ASSUME NEW pc \in {"admit", "verdict", "done"}, NEW at \in {parent.at, "verdict", "start"},
             NEW o \in {"running", "ended"}, NEW i \in 0..LastPoll,
             parent' = [parent EXCEPT !.pc = pc, !.at = at, !.outcome = o, !.by = NoAttempt, !.i = i],
             child' = child, stale' = stale,
             "verdict" \in {pc, at} => child.outcome = "succeeded"
      PROVE  Inv'
  <2> DEFINE new == [parent EXCEPT !.pc = pc, !.at = at, !.outcome = o, !.by = NoAttempt, !.i = i]
  <2>1. /\ new.mode = parent.mode /\ new.pc = pc /\ new.at = at /\ new.step = parent.step
    BY <1>p DEF Parent
  <2>2. new \in Parent
    BY <1>p, <1>3 DEF Parent
  <2>3. parent' = new
    BY <1>3
  <2> HIDE DEF new
  <2>4. Mode = "awaited" /\ parent'.step = "succeeded" =>
            child'.outcome = "succeeded" /\ intent = "none"
    BY <1>3, <2>1, <2>3 DEF Inv, Verdicts
  <2> QED BY <1>n, <1>p, <1>3, <2>1, <2>2, <2>3, <2>4, ParentKeeps
<1>4. CASE StepFails
  BY <1>1, <1>2, <1>4 DEF StepFails
<1>5. CASE ParentReplays
  <2>1. parent' = [parent EXCEPT !.pc = "admit", !.at = parent.at, !.outcome = parent.outcome,
                                 !.by = NoAttempt, !.i = parent.i]
    BY <1>5, <1>p DEF ParentReplays, Parent
  <2>2. child' = child /\ stale' = stale /\ parent.outcome \in {"running", "ended"}
        /\ parent.i \in 0..LastPoll
    BY <1>5, <1>p DEF ParentReplays, Parent
  <2>3. parent.at = "verdict" => child.outcome = "succeeded"
    BY DEF Inv, Verdicts
  <2> QED BY <1>3, <2>1, <2>2, <2>3
<1>6. CASE ParentStatus
  <2>1. CASE /\ ChildActive /\ child' = [child EXCEPT !.outcome = "indeterminate"]
             /\ StepEnds("indeterminate") /\ stale' = stale
    <3>1. /\ child' \in Child /\ child'.start = child.start /\ child'.outcome = "indeterminate"
          /\ child.outcome \in Active
      BY <1>p, <2>1 DEF Child, Terminal, ChildActive
    <3>2. StepEnds("indeterminate")
      BY <2>1
    <3>3. /\ parent' \in Parent /\ parent'.mode = parent.mode
          /\ parent'.pc = "done" /\ parent'.at = "start" /\ parent'.step = "indeterminate"
      BY <3>2, StepEndsRow
    <3> QED BY <1>n, <1>p, <2>1, <3>1, <3>3, ParentKeeps
  <2>2. CASE NextTurn /\ child' = child
    BY <2>2, <1>2
  <2>3. CASE /\ child.outcome = "succeeded" /\ child' = child /\ stale' = stale
             /\ parent' = [parent EXCEPT !.pc = "verdict", !.at = "verdict"]
    <3> DEFINE new == [parent EXCEPT !.pc = "verdict", !.at = "verdict"]
    <3>1. /\ new \in Parent /\ new.mode = parent.mode /\ new.step = parent.step
      BY <1>p DEF Parent
    <3>2. parent' = new
      BY <2>3
    <3> HIDE DEF new
    <3>3. Mode = "awaited" /\ parent'.step = "succeeded" =>
              child'.outcome = "succeeded" /\ intent = "none"
      BY <2>3, <3>1, <3>2 DEF Inv, Verdicts
    <3> QED BY <1>n, <1>p, <2>3, <3>1, <3>2, <3>3, ParentKeeps
  <2>4. CASE /\ StepEnds("failed") \/ StepEnds("indeterminate")
             /\ child' = child /\ stale' = stale
    BY <2>4, <1>1
  <2> QED BY <1>6, <2>1, <2>2, <2>3, <2>4 DEF ParentStatus
<1>7. CASE ParentVerdict
  <2>1. /\ parent.pc = "verdict" /\ child' = child /\ stale' = stale
        /\ StepEnds(IF intent # "none" THEN "failed" ELSE "succeeded")
    BY <1>7 DEF ParentVerdict, InLoop
  <2>2. child.outcome = "succeeded"
    BY <2>1 DEF Inv, Verdicts
  <2>3. CASE intent # "none"
    BY <2>1, <2>3, <1>1
  <2>4. CASE intent = "none"
    <3>1. StepEnds("succeeded")
      BY <2>1, <2>4
    <3>2. /\ parent' \in Parent /\ parent'.mode = parent.mode
          /\ parent'.pc = "done" /\ parent'.at = "start" /\ parent'.step = "succeeded"
      BY <3>1, StepEndsRow
    <3> QED BY <1>n, <1>p, <2>1, <2>2, <2>4, <3>2, ParentKeeps
  <2> QED BY <2>3, <2>4
<1>8. CASE ParentEnds
  <2>1. parent' = [parent EXCEPT !.pc = "done", !.at = "start", !.outcome = "ended",
                                 !.by = NoAttempt, !.i = 0]
    BY <1>8, <1>p DEF ParentEnds, Parent
  <2>2. child' = child /\ stale' = stale
    BY <1>8 DEF ParentEnds
  <2> QED BY <1>3, <1>p, <2>1, <2>2
<1> QED BY <1>4, <1>5, <1>6, <1>7, <1>8

\* A new attempt of the parent's step begins with a read.
LEMMA StartKeeps ==
  ASSUME Inv, NEW a \in Attempts, StartAttempt(a)
  PROVE  Inv'
<1>n. UNCHANGED <<child, stale, target, other, intent, native, runner, calls>>
  BY DEF StartAttempt
<1>p. parent \in Parent /\ child \in Child /\ stale \in BOOLEAN /\ a \in Procs
  BY DEF Inv, TypeOK, Procs
<1> DEFINE r == [pc |-> "read", start |-> "none", old |-> stale]
           new == [parent EXCEPT !.pc = "wait", !.by = a]
<1>1. r \in Process /\ r.pc = "read" /\ r.start = "none"
  BY <1>p DEF Process, PCs, StartState
<1>2. /\ new \in Parent /\ new.mode = parent.mode /\ new.pc = "wait" /\ new.at = parent.at
      /\ new.step = parent.step
  BY <1>p DEF Parent
<1>3. proc' = [proc EXCEPT ![a] = r] /\ parent' = new
  BY DEF StartAttempt
<1> HIDE DEF r, new
<1>4. Mode = "awaited" /\ parent'.step = "succeeded" =>
          child'.outcome = "succeeded" /\ intent = "none"
  BY <1>n, <1>2, <1>3 DEF Inv, Verdicts
<1>5. "verdict" \in {parent'.pc, parent'.at} => child'.outcome = "succeeded"
  BY <1>n, <1>2, <1>3 DEF Inv, Verdicts
<1>6. \E x \in Procs, s \in Process : /\ s.pc = "read" /\ s.start = "none"
                                    /\ proc' = [proc EXCEPT ![x] = s]
  BY <1>p, <1>1, <1>3
<1> QED BY <1>n, <1>p, <1>2, <1>3, <1>4, <1>5, <1>6, ParentKeeps

\* A step is one of the parent's, of a process, of the child's run(), or of its surroundings.
LEMMA StepKinds ==
  ASSUME Inv, Next
  PROVE  \/ AdmitChild
         \/ StepFails \/ ParentReplays \/ ParentStatus \/ ParentVerdict \/ ParentEnds
         \/ \E a \in Attempts : StartAttempt(a)
         \/ \E p \in Procs : ProcStep(p)
         \/ RunnerStep
         \/ InstanceAppears \/ InstanceLost \/ StartWindowPasses \/ EngineReplays
         \/ OtherAdmitted \/ OtherSettles \/ TargetChanges
<1>1. ASSUME NEW a \in Attempts, AttemptStep(a) PROVE \E p \in Procs : ProcStep(p)
  BY <1>1, ProcShape DEF Procs
<1>2. ASSUME NEW p \in Procs, CancelRead(p) \/ CancelStep(p) \/ ProcDies(p) PROVE ProcStep(p)
  BY <1>2, ProcShape
<1> QED BY <1>1, <1>2, Zenon DEF Next

\* The initial states satisfy the invariant.
LEMMA InitSound == Init => Inv
<1> SUFFICES ASSUME Init PROVE Inv
  OBVIOUS
<1>1. PICK m \in Modes : parent = [mode |-> m, outcome |-> "running",
         weight |-> IF m = "awaited" THEN 2 ELSE 1, pc |-> "admit", at |-> "start",
         by |-> NoAttempt, i |-> 0, step |-> "none"]
  BY DEF Init
<1>2. /\ child = [start |-> "none", outcome |-> "queued"]
      /\ stale = FALSE /\ target = TRUE /\ intent = "none" /\ native = "absent" /\ runner = "off"
      /\ proc = [p \in Procs |-> [pc |-> "idle", start |-> "none", old |-> FALSE]]
      /\ calls = [create |-> 0, terminate |-> 0, early |-> FALSE]
      /\ other \in 0..OtherRuns
  BY DEF Init
<1>3. parent \in Parent
  BY <1>1, BoundAssumption DEF Parent
<1>4. child \in Child /\ calls \in Counts /\ proc \in [Procs -> Process]
  BY <1>2 DEF Child, Counts, Process, PCs, StartState, Active
<1>5. other \in 0..Limit
  BY <1>2, BoundAssumption
<1>6. TypeOK
  BY <1>2, <1>3, <1>4, <1>5 DEF TypeOK
<1>7. Creation /\ Detachment /\ Termination /\ Execution
  BY <1>2 DEF Creation, Detachment, Termination, Execution, Busy, Early, AwaitedOnly, Committed, At
<1>8. Verdicts
  BY <1>1 DEF Verdicts
<1> QED BY <1>6, <1>7, <1>8 DEF Inv

\* Every step preserves the invariant.
LEMMA StepSound == Inv /\ [Next]_vars => Inv'
<1> SUFFICES ASSUME Inv, [Next]_vars PROVE Inv'
  OBVIOUS
<1>1. CASE Next
  BY <1>1, StepKinds, AdmitKeeps, ParentStepKeeps, StartKeeps, ProcStepKeeps, RunnerKeeps,
     SurroundingsKeep, Zenon
<1>2. CASE UNCHANGED vars
  <2>1. TypeOK'
    BY <1>2 DEF vars, Inv, TypeOK
  <2>2. Creation' /\ Detachment'
    BY <1>2 DEF vars, Inv, Creation, Detachment, Busy, At, Mode
  <2>3. Termination' /\ Execution' /\ Verdicts'
    BY <1>2 DEF vars, Inv, Termination, Execution, Verdicts, At, Mode
  <2> QED BY <2>1, <2>2, <2>3 DEF Inv
<1> QED BY <1>1, <1>2

\* The invariant holds in every reachable state.
LEMMA AlwaysSound == Spec => []Inv
BY InitSound, StepSound, PTL DEF Spec

\* Every variable keeps its type: the parent's, the child's and every process's row.
THEOREM ChildTypeCorrect == Spec => []TypeOK
<1>1. Inv => TypeOK
  BY DEF Inv
<1> QED BY <1>1, AlwaysSound, PTL

-----------------------------------------------------------------------------
(* What a cancellation promises, and the single creator *)

\* A set whose members are all equal has at most one.
LEMMA AllEqual ==
  ASSUME NEW S, \A x, y \in S : x = y
  PROVE  Cardinality(S) \in {0, 1} /\ (S = {} <=> Cardinality(S) = 0)
<1>1. CASE S = {}
  BY <1>1, FS_EmptySet
<1>2. CASE S # {}
  <2>1. PICK x : S = {x}
    BY <1>2
  <2>2. Cardinality({x}) = 1
    BY FS_Singleton
  <2> QED BY <2>1, <2>2, <1>2
<1> QED BY <1>1, <1>2

\* Attempts that overlap through timeouts and replays never create at the same time, and a
\* detached child is created by one call ever.
THEOREM OneCreator == Spec => []SingleCreator
<1>1. Inv => SingleCreator
  <2> SUFFICES ASSUME Inv PROVE SingleCreator
    OBVIOUS
  <2>1. \A a, b \in Creators : a = b
    BY DEF Creators, At, Busy, Procs, Inv, Creation
  <2>2. Cardinality(Creators) \in {0, 1} /\ (Creators = {} <=> Cardinality(Creators) = 0)
    BY <2>1, AllEqual
  <2>3. Mode = "detached" => calls.create = 0 \/ (calls.create = 1 /\ Creators = {})
    BY DEF Inv, Detachment, Creators, Procs
  <2> QED BY <2>2, <2>3 DEF SingleCreator
<1> QED BY <1>1, AlwaysSound, PTL

\* However attempts, replays, a late instance and other requests interleave with it, a
\* cancellation terminates once, leaves nothing behind that runs and is overtaken by no
\* success.
THEOREM CancellationHolds == Spec => []CancelSafe
<1>1. Inv => CancelSafe
  <2> SUFFICES ASSUME Inv PROVE CancelSafe
    OBVIOUS
  <2>1. OneTerminate
    <3> DEFINE S == {p \in Procs : At(p, "terminate")}
    <3>1. \A p, q \in S : p = q
      BY DEF Inv, Termination
    <3>2. Cardinality(S) \in {0, 1} /\ (S = {} <=> Cardinality(S) = 0)
      BY <3>1, AllEqual
    <3>3. calls.terminate \in {0, 1} /\ (S # {} => calls.terminate = 0)
      BY DEF Inv, Termination
    <3> HIDE DEF S
    <3>4. calls.terminate + Cardinality(S) <= 1
      BY <3>2, <3>3
    <3> QED BY <3>4 DEF OneTerminate, S
  <2>2. CancelledIsQuiet
    <3> SUFFICES ASSUME child.outcome = "cancelled" PROVE CancelledIsQuiet
      BY DEF CancelledIsQuiet
    <3>1. CASE child.start = "cancelled"
      BY <3>1 DEF Inv, Termination, Execution, CancelledIsQuiet
    <3>2. CASE child.start = "cancelled_before_start"
      <4>1. native = "absent" /\ runner = "off"
        BY <3>2 DEF Inv, Creation, Execution, Early
      <4>2. Creators = {}
        BY <3>2 DEF Inv, Creation, Early, Creators, Procs, Busy, At
      <4> QED BY <3>2, <4>1, <4>2 DEF CancelledIsQuiet
    <3> QED BY <3>1, <3>2 DEF Inv, Termination
  <2>3. CancelledNeverRuns
    BY DEF Inv, Execution, CancelledNeverRuns
  <2>4. CancelBeatsSuccess
    BY DEF Inv, Verdicts, CancelBeatsSuccess
  <2> QED BY <2>1, <2>2, <2>3, <2>4 DEF CancelSafe
<1> QED BY <1>1, AlwaysSound, PTL

-----------------------------------------------------------------------------
(* Capacity, and what stays *)

\* The child's row stays as it is, or changes without coming back to life.
RowAges ==
    /\ ChildActive' => ChildActive
    /\ child.outcome \in Terminal => child'.outcome = child.outcome

\* A row that is left alone ages.
LEMMA SameRowAges ==
  ASSUME child' = child
  PROVE  RowAges
BY DEF RowAges, ChildActive

\* A write that keeps the outcome of a row that exists, or ends an active one, ages it.
LEMMA WriteAges ==
  ASSUME NEW s, NEW o, child'.start = s, child'.outcome = o,
         \/ o = child.outcome /\ child.start # "none"
         \/ child.outcome \in Active /\ o \in Terminal
         \/ child.outcome \in Active /\ o \in Active /\ s = child.start
  PROVE  RowAges
<1>1. Active \cap Terminal = {}
  BY DEF Active, Terminal
<1> QED BY <1>1 DEF RowAges, ChildActive

\* The processes only age the child's row.
LEMMA ProcAges ==
  ASSUME Inv, NEW p \in Procs, ProcStep(p)
  PROVE  RowAges
<1>c. child \in Child
  BY DEF Inv, TypeOK
<1>o. "queued" \in Active /\ {"failed", "indeterminate", "cancelled"} \subseteq Terminal
  BY DEF Active, Terminal
<1>1. CASE Walks(p) \/ Creates(p) \/ Commits(p) \/ Seizes(p) \/ Terminates(p)
  <2>1. child' = child
    BY <1>1 DEF Walks, Creates, Commits, Seizes, Terminates, Same
  <2> QED BY <2>1, SameRowAges
<1>2. CASE Dispatches(p) \/ Marks(p) \/ Doubts(p)
  <2>1. \E s \in StartState : child' = [child EXCEPT !.start = s]
    <3>1. CASE Dispatches(p) \/ Marks(p)
      BY <3>1 DEF Dispatches, Marks, StartState
    <3>2. CASE Doubts(p)
      <4> DEFINE s == IF child.start = "dispatching" /\ child.outcome \in Active
                      THEN "start_unknown" ELSE child.start
      <4>1. child' = [child EXCEPT !.start = s] /\ s \in StartState
        BY <1>c, <3>2 DEF Doubts, Child, StartState
      <4> QED BY <4>1
    <3> QED BY <1>2, <3>1, <3>2
  <2>2. child.start # "none"
    <3>1. CASE Doubts(p)
      BY <3>1 DEF Doubts, At, Inv, Creation, Busy, Early
    <3>2. CASE Dispatches(p) \/ Marks(p)
      BY <3>2 DEF Dispatches, Marks
    <3> QED BY <1>2, <3>1, <3>2
  <2>3. child'.outcome = child.outcome
    BY <1>c, <2>1 DEF Child
  <2> QED BY <2>2, <2>3, WriteAges
<1>3. CASE GivesUp(p)
  <2>1. PICK o \in {"failed", "indeterminate"} :
           child.outcome = "queued" /\ child' = [child EXCEPT !.outcome = o]
    BY <1>3 DEF GivesUp
  <2>2. child'.outcome = o
    BY <1>c, <2>1 DEF Child
  <2> QED BY <1>o, <2>1, <2>2, WriteAges
<1>4. CASE Stops(p) \/ Records(p)
  <2>1. child'.outcome = "cancelled" /\ child.outcome \in Active
    BY <1>4, <1>o DEF Stops, Records
  <2> QED BY <1>o, <2>1, WriteAges
<1> QED BY <1>1, <1>2, <1>3, <1>4, Zenon DEF ProcStep

\* The child's run() and the parent's polls only age it too.
LEMMA OthersAge ==
  ASSUME Inv, RunnerStep \/ ParentStatus
  PROVE  RowAges
<1>c. child \in Child
  BY DEF Inv, TypeOK
<1>o. /\ "queued" \in Active /\ "running" \in Active
      /\ {"succeeded", "failed", "indeterminate"} \subseteq Terminal
  BY DEF Active, Terminal
<1>1. \/ child' = child
      \/ /\ child.outcome \in Active
         /\ \E o \in {"running", "succeeded", "failed", "indeterminate"} :
               child' = [child EXCEPT !.outcome = o]
  <2>1. CASE RunnerLoad
    BY <2>1 DEF RunnerLoad
  <2>2. CASE RunnerClaim
    <3>1. child.outcome # "queued" => [child EXCEPT !.outcome = child.outcome] = child
      BY <1>c DEF Child
    <3> QED BY <1>o, <2>2, <3>1 DEF RunnerClaim
  <2>3. CASE RunnerFinish \/ RunnerThrows
    <3>1. PICK o \in {"succeeded", "failed", "indeterminate"} :
             child' = [child EXCEPT !.outcome = IF child.outcome = "running" THEN o
                                                ELSE child.outcome]
      BY <2>3 DEF RunnerFinish, RunnerThrows
    <3>2. [child EXCEPT !.outcome = child.outcome] = child
      BY <1>c DEF Child
    <3> QED BY <1>o, <3>1, <3>2
  <2>4. CASE ParentStatus
    BY <2>4 DEF ParentStatus, ChildActive
  <2> QED BY <2>1, <2>2, <2>3, <2>4 DEF RunnerStep
<1>2. CASE child' = child
  BY <1>2, SameRowAges
<1>3. CASE child' # child
  <2>1. PICK o \in {"running", "succeeded", "failed", "indeterminate"} :
           child' = [child EXCEPT !.outcome = o]
    BY <1>1, <1>3
  <2>2. child'.outcome = o /\ child'.start = child.start
    BY <1>c, <2>1 DEF Child
  <2> QED BY <1>1, <1>3, <1>o, <2>2, WriteAges
<1> QED BY <1>2, <1>3

\* The reservation keeps the outcome; only from it does an active row come.
LEMMA AdmitRow ==
  ASSUME Inv, AdmitChild
  PROVE  /\ child.outcome \in Terminal => child'.outcome = child.outcome
         /\ RowAges \/ ChildAdmits
<1>c. child \in Child
  BY DEF Inv, TypeOK
<1>1. CASE child' = child
  BY <1>1, SameRowAges DEF RowAges
<1>2. CASE ChildAdmits /\ child' = [child EXCEPT !.start = "reserved"]
  BY <1>c, <1>2 DEF Child
<1> QED BY <1>1, <1>2 DEF AdmitChild

\* A step that is neither the reservation nor another Run's admission takes no unit.
LEMMA StepReleases ==
  ASSUME Inv, [Next]_vars
  PROVE  \/ AdmitChild \/ OtherAdmitted
         \/ /\ RowAges /\ other' <= other
            /\ parent'.weight = parent.weight
            /\ parent'.outcome = "running" => parent.outcome = "running"
<1>p. parent \in Parent /\ other \in Nat
  BY BoundAssumption DEF Inv, TypeOK
<1>0. other <= other
  BY <1>p
<1>1. CASE StepFails \/ ParentReplays \/ ParentStatus \/ ParentVerdict \/ ParentEnds
  <2>1. other' = other
    BY <1>1 DEF StepFails, ParentReplays, ParentStatus, ParentVerdict, ParentEnds
  <2>2. RowAges
    <3>1. CASE ParentStatus
      BY <3>1, OthersAge
    <3>2. CASE ~ParentStatus
      <4>1. child' = child
        BY <1>1, <3>2 DEF StepFails, ParentReplays, ParentVerdict, ParentEnds
      <4> QED BY <4>1, SameRowAges
    <3> QED BY <3>1, <3>2
  <2>3. ASSUME NEW result \in {"succeeded", "failed", "indeterminate"}, StepEnds(result)
        PROVE  parent'.weight = parent.weight /\ parent'.outcome = parent.outcome
    BY <2>3, StepEndsRow
  <2>4. ASSUME NextTurn
        PROVE  parent'.weight = parent.weight /\ parent'.outcome = parent.outcome
    BY <2>4, NextTurnKept DEF ParentKept
  <2>5. /\ parent'.weight = parent.weight
        /\ parent'.outcome = "running" => parent.outcome = "running"
    <3>1. CASE StepFails
      BY <3>1, <2>3, <2>4 DEF StepFails
    <3>2. CASE ParentReplays
      BY <3>2, <1>p DEF ParentReplays, Parent
    <3>3. CASE ParentStatus
      <4>1. CASE parent' = [parent EXCEPT !.pc = "verdict", !.at = "verdict"]
        BY <4>1, <1>p DEF Parent
      <4> QED BY <3>3, <2>3, <2>4, <4>1 DEF ParentStatus
    <3>4. CASE ParentVerdict
      BY <3>4, <2>3 DEF ParentVerdict
    <3>5. CASE ParentEnds
      BY <3>5, <1>p DEF ParentEnds, Parent
    <3> QED BY <1>1, <3>1, <3>2, <3>3, <3>4, <3>5
  <2> QED BY <1>0, <2>1, <2>2, <2>5
<1>2. ASSUME NEW a \in Attempts, StartAttempt(a)
      PROVE  /\ RowAges /\ other' = other
             /\ parent'.weight = parent.weight /\ parent'.outcome = parent.outcome
  BY <1>2, <1>p, SameRowAges DEF StartAttempt, Parent
<1>3. ASSUME NEW p \in Procs, ProcStep(p)
      PROVE  /\ RowAges /\ other' = other
             /\ parent'.weight = parent.weight /\ parent'.outcome = parent.outcome
  <2>1. PICK q : Turn(p, q)
    BY <1>3 DEF ProcStep, Walks, Dispatches, Creates, Doubts, Marks, GivesUp, Stops, Commits,
                Seizes, Terminates, Records
  <2> QED BY <1>3, <2>1, ProcAges DEF Turn, ParentKept
<1>4. CASE RunnerStep
  <2>1. other' = other /\ parent' = parent
    BY <1>4 DEF RunnerStep, RunnerLoad, RunnerClaim, RunnerFinish, RunnerThrows
  <2> QED BY <1>0, <1>4, <2>1, OthersAge
<1>5. CASE \/ InstanceAppears \/ InstanceLost \/ StartWindowPasses \/ EngineReplays
           \/ OtherSettles \/ TargetChanges \/ UNCHANGED vars
  <2>1. child' = child /\ parent' = parent
    BY <1>5 DEF InstanceAppears, InstanceLost, StartWindowPasses, EngineReplays, OtherSettles,
                TargetChanges, vars
  <2>2. other' = other \/ other' = other - 1
    BY <1>5 DEF InstanceAppears, InstanceLost, StartWindowPasses, EngineReplays, OtherSettles,
                TargetChanges, vars
  <2> QED BY <1>p, <2>1, <2>2, SameRowAges
<1>6. CASE Next
  BY <1>6, <1>0, <1>1, <1>2, <1>3, <1>4, <1>5, StepKinds, Zenon
<1> QED BY <1>5, <1>6

\* A sum of three numbers that do not grow stays below what bounds it.
LEMMA SumShrinks ==
  ASSUME NEW a \in Nat, NEW b \in 0..2, NEW c \in 0..1, NEW bound \in Nat, a + b + c <= bound,
         NEW d \in Nat, NEW e \in 0..2, NEW f \in 0..1, d <= a, e <= b, f <= c
  PROVE  d + e + f <= bound
OBVIOUS

\* A transfer from the awaited parent, and a guarded reservation, fit the limit.
LEMMA CapacityStep == Inv /\ FamilyCapacity /\ [Next]_vars => FamilyCapacity'
<1> SUFFICES ASSUME Inv, FamilyCapacity, [Next]_vars PROVE FamilyCapacity'
  OBVIOUS
<1>p. /\ parent \in Parent /\ parent.weight \in {1, 2} /\ other \in Nat /\ Limit \in Nat
      /\ child \in Child /\ other' \in Nat /\ parent'.weight \in {1, 2}
  <2>1. Inv'
    BY StepSound
  <2> QED BY <2>1, BoundAssumption DEF Inv, TypeOK, Parent
<1> DEFINE w == IF parent.outcome = "running" THEN parent.weight ELSE 0
           w2 == IF parent'.outcome = "running" THEN parent'.weight ELSE 0
           c == IF ChildActive THEN 1 ELSE 0
           c2 == IF ChildActive' THEN 1 ELSE 0
<1>u. UnitsInUse = other + w + c /\ UnitsInUse' = other' + w2 + c2
  BY DEF UnitsInUse, ParentRunning
<1>w. w \in 0..2 /\ w2 \in 0..2 /\ c \in 0..1 /\ c2 \in 0..1
  BY <1>p
<1>b. other + w + c <= Limit
  BY <1>u DEF FamilyCapacity
<1>1. CASE AdmitChild
  <2>1. other' = other /\ parent.outcome = "running"
    BY <1>1 DEF AdmitChild, InLoop, ParentRunning
  <2>2. ASSUME NEW result \in {"failed", "unavailable", "indeterminate"}, StepEnds(result)
        PROVE  parent'.weight = parent.weight
    BY <2>2, StepEndsRow
  <2>3. Reserved(parent) \in Parent /\ (Mode = "awaited" => Reserved(parent).weight = 1)
        /\ (Mode # "awaited" => Reserved(parent).weight = parent.weight)
    BY <1>p DEF Reserved, Parent
  <2>4. CASE ChildAdmits /\ child' = [child EXCEPT !.start = "reserved"]
             /\ parent'.weight = Reserved(parent).weight
    <3>1. ~ChildActive
      BY <2>4 DEF ChildAdmits, ChildActive
    <3>2. CASE Mode = "awaited"
      <4>1. parent.weight = 2 /\ parent'.weight = 1
        BY <2>3, <2>4, <3>2 DEF ChildAdmits
      <4> QED BY <1>p, <1>u, <1>w, <1>b, <2>1, <3>1, <4>1 DEF FamilyCapacity
    <3>3. CASE Mode # "awaited"
      <4>1. UnitsInUse + 1 <= Limit /\ parent'.weight = parent.weight
        BY <2>3, <2>4, <3>3, TwoModes DEF ChildAdmits
      <4> QED BY <1>p, <1>u, <1>w, <2>1, <3>1, <4>1 DEF FamilyCapacity
    <3> QED BY <3>2, <3>3
  <2>5. CASE child' = child /\ parent'.weight = parent.weight
    <3>1. ChildActive' = ChildActive
      BY <2>5 DEF ChildActive
    <3> QED BY <1>p, <1>u, <1>w, <1>b, <2>1, <2>5, <3>1 DEF FamilyCapacity
  <2>6. CASE parent' = [parent EXCEPT !.pc = parent.at] /\ child' = child
    BY <2>5, <2>6, <1>p DEF Parent
  <2>7. CASE ChildAdmits /\ child' = [child EXCEPT !.start = "reserved"]
             /\ parent' = [Reserved(parent) EXCEPT !.pc = parent.at]
    <3> HIDE DEF Reserved
    <3>1. parent'.weight = Reserved(parent).weight
      BY <2>3, <2>7 DEF Parent
    <3> QED BY <2>4, <2>7, <3>1
  <2>8. CASE ChildAdmits /\ child' = [child EXCEPT !.start = "reserved"]
             /\ parent' = [Reserved(parent) EXCEPT !.pc = "done", !.at = "start", !.i = 0,
                                                   !.step = "indeterminate"]
    <3>1. parent'.weight = Reserved(parent).weight
      BY <2>3, <2>8 DEF Parent
    <3> QED BY <2>4, <2>8, <3>1
  <2>9. CASE child' = child /\ StepEnds(IF Mode = "detached" THEN "failed" ELSE "indeterminate")
    BY <2>2, <2>5, <2>9
  <2>10. CASE child' = child /\ StepEnds("unavailable")
    BY <2>2, <2>5, <2>10
  <2> QED BY <1>1, <2>6, <2>7, <2>8, <2>9, <2>10 DEF AdmitChild
<1>2. CASE OtherAdmitted
  <2>1. child' = child /\ parent' = parent /\ other' = other + 1 /\ UnitsInUse + 1 <= Limit
    BY <1>2 DEF OtherAdmitted
  <2>2. ChildActive' = ChildActive
    BY <2>1 DEF ChildActive
  <2> QED BY <1>p, <1>u, <1>w, <2>1, <2>2 DEF FamilyCapacity
<1>3. CASE /\ RowAges /\ other' <= other
           /\ parent'.weight = parent.weight
           /\ parent'.outcome = "running" => parent.outcome = "running"
  <2>1. w2 <= w
    BY <1>3, <1>p
  <2>2. c2 <= c
    BY <1>3 DEF RowAges
  <2>3. other' + w2 + c2 <= Limit
    <3>1. other' <= other
      BY <1>3
    <3> QED BY <1>p, <1>w, <1>b, <3>1, <2>1, <2>2, SumShrinks
  <2> QED BY <1>u, <2>3 DEF FamilyCapacity
<1> QED BY <1>1, <1>2, <1>3, StepReleases

\* Parent, child and all other Runs never hold more than the limit: the awaited parent's
\* second unit pays for its child.
THEOREM FamilyFits == Spec => []FamilyCapacity
<1>1. Init => FamilyCapacity
  <2> SUFFICES ASSUME Init PROVE FamilyCapacity
    OBVIOUS
  <2>1. /\ child.start = "none" /\ parent.outcome = "running" /\ parent.weight \in {1, 2}
        /\ other \in Nat /\ other + 2 <= Limit
    <3>1. parent.outcome = "running" /\ parent.weight \in {1, 2}
      BY DEF Init
    <3>2. child.start = "none" /\ other \in 0..OtherRuns /\ other + 2 <= Limit
      BY DEF Init
    <3> QED BY <3>1, <3>2, BoundAssumption
  <2> QED BY <2>1, BoundAssumption DEF FamilyCapacity, UnitsInUse, ParentRunning, ChildActive
<1> QED BY <1>1, CapacityStep, AlwaysSound, PTL DEF Spec

\* A cancellation that no create() precedes stays ahead of every create().
LEMMA NeverCreatedStays == Inv /\ NeverCreated /\ [Next]_vars => NeverCreated'
<1> SUFFICES ASSUME Inv, NeverCreated, [Next]_vars PROVE NeverCreated'
  OBVIOUS
<1>0. /\ intent # "none" /\ native = "absent" /\ runner = "off"
      /\ \A a \in Attempts : ~At(a, "create")
  BY DEF NeverCreated, Creators, Inv, Execution
<1>1. ASSUME intent' # "none", native' = native,
             \A a \in Attempts : At(a, "create")' => At(a, "create")
      PROVE  NeverCreated'
  BY <1>0, <1>1 DEF NeverCreated, Creators
<1>2. ASSUME NEW p \in Procs, ProcStep(p) PROVE NeverCreated'
  <2>1. ASSUME NEW q \in PCs \ {"create"}, Turn(p, q)
        PROVE  \A a \in Attempts : At(a, "create")' => At(a, "create")
    BY <2>1, WhoIsThere DEF At, Procs
  <2>q. {"idle", "dispatch", "observe2", "pending", "intentRead", "terminate", "after"}
           \subseteq PCs \ {"create"}
    BY DEF PCs
  <2>2. CASE Walks(p)
    <3>1. PICK q \in PCs \ {"create"} : Turn(p, q) /\ Same
      BY <2>2 DEF Walks
    <3> QED BY <1>0, <1>1, <2>1, <3>1 DEF Same
  <2>3. CASE Dispatches(p)
    <3>1. Turn(p, "dispatch") /\ UNCHANGED <<intent, native>>
      BY <2>3, <1>0 DEF Dispatches
    <3> QED BY <1>0, <1>1, <2>1, <2>q, <3>1
  <2>4. ~Creates(p)
    BY <1>0 DEF Creates, At, Inv, Creation, Busy, Early, Detachment, Procs, AwaitedOnly
  <2>5. CASE Doubts(p) \/ GivesUp(p) \/ Stops(p) \/ Records(p)
    <3>1. (Turn(p, "observe2") \/ Turn(p, "idle")) /\ UNCHANGED <<intent, native>>
      BY <2>5 DEF Doubts, GivesUp, Stops, Records
    <3> QED BY <1>0, <1>1, <2>1, <2>q, <3>1
  <2>6. CASE Marks(p)
    <3>1. (Turn(p, "pending") \/ Turn(p, "idle")) /\ UNCHANGED <<intent, native>>
      BY <2>6 DEF Marks
    <3> QED BY <1>0, <1>1, <2>1, <2>q, <3>1
  <2>7. ~Commits(p)
    BY <1>0 DEF Commits
  <2>8. CASE Seizes(p) \/ Terminates(p)
    <3>1. /\ Turn(p, "terminate") \/ Turn(p, "after")
          /\ intent' # "none" /\ native' = native
      BY <2>8, <1>0 DEF Seizes, Terminates
    <3> QED BY <1>1, <2>1, <2>q, <3>1
  <2> QED BY <1>2, <2>2, <2>3, <2>4, <2>5, <2>6, <2>7, <2>8 DEF ProcStep
<1>3. ASSUME NEW a \in Attempts, StartAttempt(a) PROVE NeverCreated'
  <2>1. UNCHANGED <<intent, native>>
    BY <1>3 DEF StartAttempt
  <2>2. \A b \in Attempts : At(b, "create")' => At(b, "create")
    BY <1>3 DEF StartAttempt, At, Inv, TypeOK, Procs
  <2> QED BY <1>0, <1>1, <2>1, <2>2
<1>4. CASE \/ AdmitChild \/ OtherAdmitted \/ OtherSettles \/ TargetChanges
           \/ StepFails \/ ParentReplays \/ ParentStatus \/ ParentVerdict \/ ParentEnds
           \/ InstanceAppears \/ InstanceLost \/ StartWindowPasses \/ EngineReplays
           \/ RunnerStep \/ UNCHANGED vars
  <2>1. UNCHANGED <<intent, proc>>
    <3>1. CASE RunnerStep
      BY <3>1 DEF RunnerStep, RunnerLoad, RunnerClaim, RunnerFinish, RunnerThrows
    <3>2. CASE \/ AdmitChild \/ OtherAdmitted \/ OtherSettles \/ TargetChanges \/ UNCHANGED vars
               \/ InstanceAppears \/ InstanceLost \/ StartWindowPasses \/ EngineReplays
      BY <3>2 DEF AdmitChild, OtherAdmitted, OtherSettles, TargetChanges, InstanceAppears,
                  InstanceLost, StartWindowPasses, EngineReplays, vars
    <3>3. CASE StepFails \/ ParentReplays \/ ParentStatus \/ ParentVerdict \/ ParentEnds
      BY <3>3 DEF StepFails, ParentReplays, ParentStatus, ParentVerdict, ParentEnds
    <3> QED BY <1>4, <3>1, <3>2, <3>3
  <2>2. native' = native
    <3>1. ~RunnerStep
      BY <1>0 DEF RunnerStep, RunnerLoad, RunnerClaim, RunnerFinish, RunnerThrows
    <3>2. CASE \/ AdmitChild \/ OtherAdmitted \/ OtherSettles \/ TargetChanges \/ UNCHANGED vars
               \/ InstanceAppears \/ InstanceLost \/ StartWindowPasses \/ EngineReplays
      BY <3>2, <1>0 DEF AdmitChild, OtherAdmitted, OtherSettles, TargetChanges, InstanceAppears,
                  InstanceLost, StartWindowPasses, EngineReplays, vars
    <3>3. CASE StepFails \/ ParentReplays \/ ParentStatus \/ ParentVerdict \/ ParentEnds
      BY <3>3 DEF StepFails, ParentReplays, ParentStatus, ParentVerdict, ParentEnds
    <3> QED BY <1>4, <3>1, <3>2, <3>3
  <2> QED BY <1>0, <1>1, <2>1, <2>2 DEF At
<1>5. CASE Next
  BY <1>5, <1>2, <1>3, <1>4, StepKinds, Zenon
<1> QED BY <1>4, <1>5

\* The first terminal outcome stays.
LEMMA OutcomeStays ==
  ASSUME Inv, [Next]_vars, child.outcome \in Terminal
  PROVE  child'.outcome = child.outcome
<1>1. CASE AdmitChild
  BY <1>1, AdmitRow
<1>2. CASE OtherAdmitted
  BY <1>2 DEF OtherAdmitted
<1> QED BY <1>1, <1>2, StepReleases DEF RowAges

\* Once a cancellation is committed ahead of every create(), no instance ever comes; and the
\* first of the writers that race for the child's outcome decides it.
THEOREM HistoryStays == Spec => ChildHistory
<1> DEFINE Stays == /\ NeverCreated => NeverCreated'
                    /\ child.outcome \in Terminal => child'.outcome = child.outcome
<1>1. Inv /\ [Next]_vars => Stays
  BY NeverCreatedStays, OutcomeStays
<1>2. Stays => [Stays]_vars
  OBVIOUS
<1> HIDE DEF Stays
<1>3. Spec => [][Stays]_vars
  BY <1>1, AlwaysSound, PTL DEF Spec
<1> QED BY <1>3 DEF ChildHistory, Stays

===============================================================================
