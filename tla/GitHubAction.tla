----------------------------- MODULE GitHubAction -----------------------------
(***************************************************************************)
(* Steps that run a reviewed GitHub Action.  A Session occupies one of a   *)
(* few durable slots from before its dispatch until its physical job is    *)
(* proved to have ended; a Task has no slot.  D1 holds one attempt per     *)
(* step, the Session's row and at most one cancellation row; GitHub holds  *)
(* the job.  Dispatch, signed claim, signed ready, cancellation, polling,  *)
(* device admission and saga compensation all meet on those rows, and any  *)
(* GitHub answer can be lost.                                              *)
(*                                                                         *)
(* Every D1 statement is one action and every GitHub call another.  A      *)
(* physical identity (run id, attempt 1) is set once, by the confirmed     *)
(* dispatch: it is the fact that the attempt has a candidate.              *)
(***************************************************************************)
EXTENDS Naturals, FiniteSets

CONSTANTS
    Steps,        \* GitHub steps, each the step of a Run of its own
    Types,        \* the types a step may have: "session" (of mode temporary), "task"
    Slots,        \* the numbers of the Session slots
    Dispatchers,  \* executions of the dispatch step that may overlap
    Requests,     \* requests in flight: status, watch, cancel, ready, admission
    Check,        \* the parent's own check step
    Offered,      \* the kinds of request that are made
    Conclusions,  \* how a job may end: "success", "failure" (or timed out), "cancelled",
                  \* "ambiguous" (neutral, skipped, stale, action required)
    LastPoll,     \* bound: index of the last turn of the parent's loop
    Faults        \* what may go wrong besides lost answers of POSTs:
                  \*   "step"    a durable step times out while its code runs on
                  \*   "replay"  the engine interrupts a dispatch and runs it again
                  \*   "isolate" an isolate dies, or D1 fails, between two statements
                  \*   "api"     GitHub cannot be read
                  \*   "plan"    a publication no Action can be dispatched from

ASSUME StepAssumption == /\ Types \subseteq {"session", "task"}
                         /\ Slots \subseteq Nat \ {0} /\ IsFiniteSet(Slots)
ASSUME ProcAssumption == /\ Check \notin Dispatchers \cup Requests
                         /\ Dispatchers \cap Requests = {}
ASSUME OfferAssumption ==
    Offered \subseteq {"status", "watch", "cancel", "force", "saga", "ready", "admit",
        "gated"}
ASSUME EndAssumption == Conclusions \subseteq {"success", "failure", "cancelled", "ambiguous"}
ASSUME PollAssumption == LastPoll \in Nat
ASSUME FaultAssumption == Faults \subseteq {"step", "replay", "isolate", "api", "plan"}

VARIABLES
    run,      \* is the step's Run queued or running, or terminal
    parent,   \* the step's type, and where the Run's run() stands in it
    session,  \* the row of session_executions, and whether the setup grace has passed
    attempt,  \* the row of step_attempts, and its row of callback_receipts
    cancel,   \* the row of github_action_cancellations
    saga,     \* the compensation receipt, the row __saga_<step> of run_steps
    job,      \* the GitHub job, and where its signed claim stands: none in flight, sent, or
              \* found neither claimable nor claimed
    proc,     \* dispatches, checks and requests
    hist      \* history: dispatch, cancel and force-cancel POSTs made (counted up to 2)

vars == <<run, parent, session, attempt, cancel, saga, job, proc, hist>>

Procs == Dispatchers \cup Requests \cup {Check}
NoStep == "none"

SessionState == {"none", "queued", "starting", "ready", "stopping", "uncertain", "terminated"}
Settled == {"succeeded", "failed", "cancelled"}
AttemptState == {"none", "created", "confirmed", "dispatch_unknown", "rejected", "claimed"}
                    \cup Settled
Ended == {"success", "failure", "cancelled", "ambiguous"}
Live == {"queued", "running"}
Receipts == {"none", "running", "succeeded", "requested", "indeterminate", "uncleared"}

RequestKinds == {"status", "watch", "cancel", "force", "saga", "ready", "admit",
        "gated"}
Kinds == {"none", "dispatch", "check"} \cup RequestKinds
PCs == {"idle", "reserve", "register", "refuse", "post", "record",
        "inspect", "settleClaimed", "settleUnclaimed", "compare", "release",
        "cancelRead", "cancelInspect", "intent", "force", "stopping", "repair", "cancelPost",
        "forcePost", "stamp", "readyInspect", "readyWrite", "admitInspect", "admitFinal",
        "granted", "told", "abandon"}
Evidence == {"none", "confirmed", "rejected", "dispatch_unknown"} \cup Settled \cup Receipts

Idle == [pc |-> "idle", kind |-> "none", ev |-> "none", seen |-> "none"]

\* run()'s place in the step, the rows of the Session and of the attempt, the job, a process
\* with what it read, and the POSTs made.
Place == [type: Types, pc: {"begin", "dispatch", "unreserve", "starting", "look", "check",
                            "checking", "free", "wait", "giveup", "finish", "over"},
          by: Dispatchers \cup {NoStep}, i: 0..LastPoll,
          result: {"none", "succeeded", "failed", "indeterminate"}]
SessionRow == [state: SessionState, slot: Slots \cup {0}, old: BOOLEAN]
AttemptRow == [state: AttemptState, owned: BOOLEAN, output: BOOLEAN]
CancelState == {"none", "requested", "due", "forced"}
Job == [state: {"none"} \cup Live \cup Ended, claim: {"none", "sent", "unmatched"}]
Process == [pc: PCs, kind: Kinds, ev: Evidence, seen: CancelState]
Counts == [posts: 0..2, cancels: 0..2, forces: 0..2]

\* The type of every variable.
TypeOK ==
    /\ run \in [Steps -> {"active", "terminal"}]
    /\ parent \in [Steps -> Place]
    /\ session \in [Steps -> SessionRow]
    /\ attempt \in [Steps -> AttemptRow]
    /\ cancel \in [Steps -> CancelState]
    /\ saga \in [Steps -> Receipts]
    /\ job \in [Steps -> Job]
    /\ proc \in [Steps -> [Procs -> Process]]
    /\ hist \in [Steps -> Counts]

-----------------------------------------------------------------------------
(* What the statements look at *)

IsTask(s) == parent[s].type = "task"
Sessions == {s \in Steps : ~IsTask(s)}
Active(s) == run[s] = "active"
HasCandidate(s) == attempt[s].state \in {"confirmed", "claimed"} \cup Settled
Occupies(s) == session[s].state \notin {"none", "terminated"}
At(s, p, pc) == proc[s][p].pc = pc
Twice(n) == IF n < 2 THEN n + 1 ELSE 2

\* A process goes on, with nothing but its kind to remember, with what it knew or with new
\* evidence; it begins with a kind; it stops.
Become(s, p, me) == proc' = [proc EXCEPT ![s][p] = me]
Go(s, p, pc) == Become(s, p, [proc[s][p] EXCEPT !.pc = pc, !.ev = "none", !.seen = "none"])
Keep(s, p, pc) == Become(s, p, [proc[s][p] EXCEPT !.pc = pc])
Learn(s, p, pc, ev) == Become(s, p, [proc[s][p] EXCEPT !.pc = pc, !.ev = ev])
Begin(s, p, pc, kind) == Become(s, p, [proc[s][p] EXCEPT !.pc = pc, !.kind = kind])
Stop(s, p) == Become(s, p, Idle)
Result(s, result) == parent' = [parent EXCEPT ![s] = [@ EXCEPT !.pc = "finish", !.result = result]]
Attempt(s, st) == attempt' = [attempt EXCEPT ![s].state = st]
Session(s, st) == session' = [session EXCEPT ![s].state = st]

-----------------------------------------------------------------------------
(* Slots *)

FreeSlots == {x \in Slots : \A t \in Steps : ~(Occupies(t) /\ session[t].slot = x)}
LowestFree == CHOOSE x \in FreeSlots : \A y \in FreeSlots : x <= y

\* The INSERT of reservePublishedSessionSlot: an active Run, a free slot and no row of
\* this step.
Admissible(s) == Active(s) /\ session[s].state = "none" /\ FreeSlots # {}

\* Slip: a job that ended before its claim gives no evidence.
Verified_OnlyOwned(s) == attempt[s].state \in Settled /\ attempt[s].owned

\* Slip: any terminal state of the attempt is evidence enough, and so is a claim.
Verified_AnyClaim(s) == attempt[s].owned \/ attempt[s].state \in {"failed", "cancelled"}

\* The predicate of releaseVerifiedSessionSlot on the attempt.
Verified(s) == \/ attempt[s].state \in Settled /\ attempt[s].owned
               \/ attempt[s].state \in {"failed", "cancelled"} /\ ~attempt[s].owned

ReleaseVerified(s) ==
    IF Occupies(s) /\ Verified(s) THEN Session(s, "terminated") ELSE UNCHANGED session

\* releaseRejectedSessionSlot: GitHub refused the dispatch, so that no job exists.
Rejected(s) == session[s].state \in {"queued", "starting"} /\ attempt[s].state = "rejected"

\* releaseNeverDispatchedSessionSlot: a reservation of a Run that ended without an attempt,
\* for the watch an old one.
NeverRegistered(s) == session[s].state = "queued" /\ ~Active(s) /\ attempt[s].state = "none"
NeverDispatched(s) == NeverRegistered(s) /\ session[s].old

-----------------------------------------------------------------------------
(* The dispatch step: reservePublishedSessionSlot, registerAndDispatchGitHubAction *)

\* Where run() goes with what the dispatch step returned.
AfterDispatch(s, answer) ==
    LET to(pc, result) == [parent[s] EXCEPT !.pc = pc, !.by = NoStep, !.result = result]
    IN  CASE answer = "confirmed" -> to(IF IsTask(s) THEN "check" ELSE "starting", "none")
          [] answer = "rejected" -> IF IsTask(s) THEN to("finish", "failed")
                                                   ELSE to("unreserve", "failed")
          [] answer = "refused" -> to("finish", "failed")
          [] answer \in {"dispatch_unknown", "threw"} -> to("finish", "indeterminate")

\* The step's code ends; run() learns of it unless it has given the execution up.
Return(s, d, answer) ==
    /\ Stop(s, d)
    /\ parent' = IF parent[s].pc = "dispatch" /\ parent[s].by = d
                 THEN [parent EXCEPT ![s] = AfterDispatch(s, answer)] ELSE parent

\* run() enters the step, unless the plan does not approve the Action, no executor is
\* configured or the publication is invalid, which a replay finds as its first execution did.
Enter(s, d, pc) ==
    /\ parent[s].pc = "begin" /\ At(s, d, "idle")
    /\ \/ /\ parent' = [parent EXCEPT ![s] = [@ EXCEPT !.pc = "dispatch", !.by = d]]
          /\ Begin(s, d, pc, "dispatch")
       \/ /\ "plan" \in Faults
          /\ Result(s, "failed")
          /\ session[s].state = "none" /\ attempt[s].state = "none"
          /\ \A e \in Dispatchers : At(s, e, "idle")
          /\ UNCHANGED proc
    /\ UNCHANGED <<run, session, attempt, cancel, saga, job, hist>>

BeginTask(s, d) == IsTask(s) /\ Enter(s, d, "register")
BeginSession(s, d) == ~IsTask(s) /\ Enter(s, d, "reserve")

\* Reserved, or found reserved by an earlier execution; otherwise denied, or full.
Reserve(s, d) ==
    /\ At(s, d, "reserve")
    /\ \/ /\ Admissible(s)
          /\ session' = [session EXCEPT ![s] = [@ EXCEPT !.state = "queued", !.slot = LowestFree]]
          /\ Go(s, d, "register") /\ UNCHANGED parent
       \/ ~Admissible(s) /\ Occupies(s) /\ Go(s, d, "register") /\ UNCHANGED <<session, parent>>
       \/ ~Admissible(s) /\ ~Occupies(s) /\ Return(s, d, "refused") /\ UNCHANGED session
    /\ UNCHANGED <<run, attempt, cancel, saga, job, hist>>

\* Slip: the attempt is registered again by a second execution.
Registers_Again(s) == Active(s) /\ attempt[s].state \in {"none", "created"}
\* Slip: the INSERT does not fence on the Run.
Registers_AnyRun(s) == attempt[s].state = "none"

\* The INSERT of the attempt: an active Run, and no attempt of this step.
Registers(s) == Active(s) /\ attempt[s].state = "none"

\* A moving ref is resolved before the INSERT; its refusal is recorded as a rejection.
Register(s, d) ==
    /\ At(s, d, "register")
    /\ \/ Registers(s) /\ Attempt(s, "created") /\ UNCHANGED parent
          /\ \E pc \in {"refuse", "post"} : Go(s, d, pc)
       \/ ~Registers(s) /\ Return(s, d, "threw") /\ UNCHANGED attempt
    /\ UNCHANGED <<run, session, cancel, saga, job, hist>>

\* The preflight refused, or the ref no longer names the reviewed commit: no POST.
Refuse(s, d) ==
    /\ At(s, d, "refuse")
    /\ Learn(s, d, "record", "rejected")
    /\ UNCHANGED <<run, parent, session, attempt, cancel, saga, job, hist>>

\* dispatchReviewedGitHubAction: the ref cannot be read (no POST); or the POST is refused,
\* is answered with the run's id, or loses its answer whether or not a job was created.
Post(s, d) ==
    /\ At(s, d, "post")
    /\ \E ev \in {"confirmed", "rejected", "dispatch_unknown"}, made, sent \in BOOLEAN :
          /\ made => sent
          /\ ev = "confirmed" => made
          /\ ev = "rejected" => ~made /\ sent
          /\ hist' = [hist EXCEPT ![s].posts = IF sent THEN Twice(hist[s].posts) ELSE @]
          /\ job' = IF made THEN [job EXCEPT ![s].state = "queued"] ELSE job
          /\ Learn(s, d, "record", ev)
    /\ UNCHANGED <<run, parent, session, attempt, cancel, saga>>

\* recordGithubDispatchResult: only the state created takes the answer.
Record(s, d) ==
    /\ At(s, d, "record")
    /\ IF attempt[s].state = "created" /\ ~attempt[s].owned
       THEN Attempt(s, proc[s][d].ev) /\ Return(s, d, proc[s][d].ev)
       ELSE UNCHANGED attempt /\ Return(s, d, "threw")
    /\ UNCHANGED <<run, session, cancel, saga, job, hist>>

-----------------------------------------------------------------------------
(* Reading GitHub, and settling the attempt *)

\* What inspectPersistedGitHubActionAttempt may answer: the job's state, when the attempt
\* has a candidate and the Run is active or the Session still occupies its slot.
Inspectable(s) == HasCandidate(s) /\ (Active(s) \/ Occupies(s))
Observed(s) == (IF Inspectable(s) THEN {job[s].state} ELSE {"unknown"})
                    \cup (IF "api" \in Faults THEN {"unknown"} ELSE {})

\* decidePhysicalGitHubTerminal
Decision(state) ==
    CASE state = "success" -> "succeeded" [] state = "failure" -> "failed"
      [] state = "cancelled" -> "cancelled" [] OTHER -> "hold"

\* requestGitHubActionCancellation ends with an answer; in a compensation it is still to
\* be stamped on the receipt.  "succeeded" is terminal_confirmed.
Answer(s, p, answer) ==
    CASE proc[s][p].kind = "saga" ->
            Become(s, p, [proc[s][p] EXCEPT !.pc = "stamp", !.ev = answer, !.seen = "none"])
      [] proc[s][p].kind # "saga" /\ answer = "succeeded" -> Go(s, p, "told")
      [] OTHER -> Stop(s, p)

\* What run() does with the result of its check step.
AfterCheck(s, result) ==
    CASE result = "held" -> [parent[s] EXCEPT !.pc = "wait"]
      [] result = "settled" -> [parent[s] EXCEPT !.pc = "free"]
      [] result = "conflict" -> [parent[s] EXCEPT !.pc = "finish", !.result = "indeterminate"]

\* What the caller of reconcilePersistedGitHubActionAttempt does with held, conflict or
\* settled (updated, already_settled).
Reconciled(s, p, result) ==
    LET kind == proc[s][p].kind IN
    \/ /\ kind = "check" /\ Stop(s, p)
       /\ parent' = IF parent[s].pc = "checking"
                    THEN [parent EXCEPT ![s] = AfterCheck(s, result)] ELSE parent
    \/ kind \in {"status", "watch"} /\ Go(s, p, "release") /\ UNCHANGED parent
    \/ /\ kind \in {"cancel", "force", "saga"} /\ UNCHANGED parent
       /\ IF result = "settled" THEN Go(s, p, "release") ELSE Answer(s, p, "indeterminate")

Inspect(s, p) ==
    /\ At(s, p, "inspect")
    /\ \E seen \in Observed(s) :
          IF Decision(seen) = "hold"
          THEN Reconciled(s, p, IF HasCandidate(s) THEN "held" ELSE "conflict")
          ELSE Learn(s, p, "settleClaimed", Decision(seen)) /\ UNCHANGED parent
    /\ UNCHANGED <<run, session, attempt, cancel, saga, job, hist>>

\* The first UPDATE of settlePhysicalGitHubActionAttempt.
SettleClaimed(s, p) ==
    /\ At(s, p, "settleClaimed")
    /\ IF attempt[s].state = "claimed" /\ (Active(s) \/ Occupies(s))
       THEN Attempt(s, proc[s][p].ev) /\ Reconciled(s, p, "settled")
       ELSE Keep(s, p, "settleUnclaimed") /\ UNCHANGED <<attempt, parent>>
    /\ UNCHANGED <<run, session, cancel, saga, job, hist>>

\* Slip: an attempt nobody claimed may succeed.
MaySettleUnclaimed_Success(ev) == TRUE
\* Without a claim there is no success.
MaySettleUnclaimed(ev) == ev # "succeeded"

\* Its second UPDATE, for a job that ended before it claimed the attempt.
SettleUnclaimed(s, p) ==
    /\ At(s, p, "settleUnclaimed")
    /\ IF /\ MaySettleUnclaimed(proc[s][p].ev)
          /\ attempt[s].state = "confirmed" /\ (Active(s) \/ Occupies(s))
       THEN Attempt(s, proc[s][p].ev) /\ Reconciled(s, p, "settled")
       ELSE Keep(s, p, "compare") /\ UNCHANGED <<attempt, parent>>
    /\ UNCHANGED <<run, session, cancel, saga, job, hist>>

\* Its last read: did somebody settle it the same way?
Compare(s, p) ==
    /\ At(s, p, "compare")
    /\ Reconciled(s, p, IF attempt[s].state = proc[s][p].ev
                              /\ (attempt[s].owned \/ proc[s][p].ev # "succeeded")
                        THEN "settled" ELSE "conflict")
    /\ UNCHANGED <<run, session, attempt, cancel, saga, job, hist>>

\* releaseVerifiedSessionSlot, and what its caller does next: a watch whose time has come
\* and that freed nothing asks for the cancellation.
Release(s, p) ==
    /\ At(s, p, "release")
    /\ IF IsTask(s) THEN UNCHANGED session ELSE ReleaseVerified(s)
    /\ CASE proc[s][p].kind = "status" -> Stop(s, p)
         [] proc[s][p].kind = "watch" ->
               IF Occupies(s) /\ Verified(s) THEN Stop(s, p)
               ELSE Begin(s, p, "cancelRead", "cancel")
         [] OTHER -> Answer(s, p, "succeeded")
    /\ UNCHANGED <<run, parent, attempt, cancel, saga, job, hist>>

-----------------------------------------------------------------------------
(* Polling: workflow_status and, once the Run is terminal, watchPersistedSessions *)

\* workflow_status finds a Session that occupies its slot and has an attempt.
StatusBegin(s, r) ==
    /\ "status" \in Offered /\ ~IsTask(s) /\ At(s, r, "idle")
    /\ Occupies(s) /\ attempt[s].state # "none"
    /\ Begin(s, r, "inspect", "status")
    /\ UNCHANGED <<run, parent, session, attempt, cancel, saga, job, hist>>

\* sessionCancellationDue: in these states a normal cancellation may be due by the clock.
MayBeDue(s) == session[s].state \in {"ready", "queued", "starting", "uncertain"}

\* One turn of the watch: a slot never dispatched or rejected is freed at once; a turn
\* whose cancellation is not due does what a status does.
Watch(s, r) ==
    /\ "watch" \in Offered /\ ~IsTask(s) /\ parent[s].pc = "over" /\ At(s, r, "idle")
    /\ Occupies(s)
    /\ \/ NeverDispatched(s) /\ Session(s, "terminated") /\ UNCHANGED proc
       \/ Rejected(s) /\ Session(s, "terminated") /\ UNCHANGED proc
       \/ /\ attempt[s].state # "none" /\ ~Rejected(s)
          /\ \E kind \in {"status"} \cup (IF MayBeDue(s) THEN {"watch"} ELSE {}) :
                Begin(s, r, "inspect", kind)
          /\ UNCHANGED session
    /\ UNCHANGED <<run, parent, attempt, cancel, saga, job, hist>>

-----------------------------------------------------------------------------
(* requestGitHubActionCancellation, asked for by the owner, the watch or a compensation *)

CancelBegin(s, r) ==
    /\ At(s, r, "idle") /\ attempt[s].state # "none"
    /\ \E kind \in {"cancel", "force"} \cap Offered :
          Begin(s, r, "cancelRead", kind)
    /\ UNCHANGED <<run, parent, session, attempt, cancel, saga, job, hist>>

\* compensateSession: the one-shot receipt of a step that succeeded and whose Session
\* occupies its slot.  Without a new receipt nothing is requested; a Session that is gone
\* counts as compensated.
CompensateBegin(s, r) ==
    /\ "saga" \in Offered /\ ~IsTask(s) /\ At(s, r, "idle") /\ parent[s].result = "succeeded"
    /\ saga[s] = "none"
    /\ \/ /\ Occupies(s)
          /\ saga' = [saga EXCEPT ![s] = "running"]
          /\ Begin(s, r, "cancelRead", "saga")
       \/ /\ Occupies(s)   \* not authorised by the published plan
          /\ saga' = [saga EXCEPT ![s] = "uncleared"] /\ UNCHANGED proc
       \/ /\ session[s].state = "terminated"
          /\ Go(s, r, "told") /\ UNCHANGED saga
    /\ UNCHANGED <<run, parent, session, attempt, cancel, job, hist>>

Stamp(s, r) ==
    /\ At(s, r, "stamp")
    /\ saga' = [saga EXCEPT ![s] = IF @ = "running" THEN proc[s][r].ev ELSE @]
    /\ Stop(s, r)
    /\ UNCHANGED <<run, parent, session, attempt, cancel, job, hist>>

\* The read at the head of the request: a settled attempt is terminal_confirmed, one without
\* a candidate cannot be cancelled, and an earlier cancellation is remembered.
CancelRead(s, r) ==
    /\ At(s, r, "cancelRead")
    /\ CASE session[s].state = "terminated" \/ attempt[s].state \in Settled ->
                Answer(s, r, "succeeded")
         [] session[s].state # "terminated" /\ attempt[s].state \in {"confirmed", "claimed"} ->
                Become(s, r, [proc[s][r] EXCEPT !.pc = "cancelInspect", !.seen = cancel[s]])
         [] OTHER -> Answer(s, r, "uncleared")
    /\ UNCHANGED <<run, parent, session, attempt, cancel, saga, job, hist>>

\* A completed job is settled instead.  A force needs a running job and a normal request at
\* least two minutes old; a repeated request only repairs the presentation of the Session.
CancelInspect(s, r) ==
    /\ At(s, r, "cancelInspect")
    /\ LET me == proc[s][r] IN
       \E seen \in Observed(s) :
          \/ seen \in Ended /\ Go(s, r, "inspect")
          \/ seen \notin Ended \cup Live /\ Answer(s, r, "indeterminate")
          \/ /\ seen \in Live /\ me.kind = "force"
             /\ IF seen = "running" /\ me.seen # "none" /\ cancel[s] # "requested"
                         /\ me.seen # "forced"
                THEN Go(s, r, "force")
                ELSE Answer(s, r, "uncleared")
          \/ /\ seen \in Live /\ me.kind # "force"
             /\ IF me.seen = "none" THEN Go(s, r, "intent")
                ELSE IF ~IsTask(s) THEN Go(s, r, "repair")
                ELSE Answer(s, r, "requested")
    /\ UNCHANGED <<run, parent, session, attempt, cancel, saga, job, hist>>

\* The INSERT OR IGNORE of the cancellation row.
MayIntend(s) == cancel[s] = "none" /\ attempt[s].state \in {"confirmed", "claimed"}

Intent(s, r) ==
    /\ At(s, r, "intent")
    /\ IF MayIntend(s)
       THEN /\ cancel' = [cancel EXCEPT ![s] = "requested"]
            /\ Go(s, r, IF ~IsTask(s) THEN "stopping" ELSE "cancelPost")
       ELSE Answer(s, r, "requested") /\ UNCHANGED cancel
    /\ UNCHANGED <<run, parent, session, attempt, saga, job, hist>>

\* The UPDATE that claims the one force request.
MayForce(s) == cancel[s] = "due" /\ attempt[s].state \in {"confirmed", "claimed"}

RequestForce(s, r) ==
    /\ At(s, r, "force")
    /\ IF MayForce(s)
       THEN cancel' = [cancel EXCEPT ![s] = "forced"] /\ Go(s, r, "forcePost")
       ELSE Answer(s, r, "uncleared") /\ UNCHANGED cancel
    /\ UNCHANGED <<run, parent, session, attempt, saga, job, hist>>

\* The advisory UPDATE to stopping, whose failure is swallowed, before the POST or, for a
\* repeated request, instead of it.
Stopping(s, r) ==
    /\ At(s, r, "stopping") \/ At(s, r, "repair")
    /\ \/ IF Occupies(s) THEN Session(s, "stopping") ELSE UNCHANGED session
       \/ "isolate" \in Faults /\ UNCHANGED session
    /\ IF At(s, r, "stopping") THEN Go(s, r, "cancelPost")
       ELSE Answer(s, r, "requested")
    /\ UNCHANGED <<run, parent, attempt, cancel, saga, job, hist>>

\* The POST; GitHub may act on it or not, and its answer may be lost (cancel_unknown).
CancelPost(s, r) ==
    /\ At(s, r, "cancelPost") \/ At(s, r, "forcePost")
    /\ \E answer \in {"requested", "indeterminate"} :
          IF proc[s][r].kind = "saga"
          THEN Learn(s, r, "stamp", answer)
          ELSE Stop(s, r)
    /\ hist' = IF At(s, r, "cancelPost")
               THEN [hist EXCEPT ![s].cancels = Twice(hist[s].cancels)]
               ELSE [hist EXCEPT ![s].forces = Twice(hist[s].forces)]
    /\ UNCHANGED <<run, parent, session, attempt, cancel, saga, job>>

-----------------------------------------------------------------------------
(* The job's signed requests: claim, task result, ready *)

\* verifyPinnedGitHubActionIdentity: the row the signed request names, of an active Run.
Identified(s) == attempt[s].state \in {"confirmed", "claimed"} /\ Active(s)

\* The UPDATE of verifyAndClaimPinnedGitHubAction.
MayClaim(s) == Identified(s) /\ attempt[s].state = "confirmed" /\ ~attempt[s].owned
                  /\ cancel[s] = "none"

\* verifyAlreadyClaimedPinnedGitHubAction: the answer of the first claim was lost.
AlreadyClaimed(s) == Identified(s) /\ attempt[s].state = "claimed" /\ attempt[s].owned
                        /\ cancel[s] = "none"

\* verifySignedPendingGitHubActionClaim: the dispatch is not recorded yet.
ClaimPending(s) == attempt[s].state = "created" /\ Active(s) /\ cancel[s] = "none"

\* handleGithubActionClaimRequest asks the three questions in turn, each with reads of its
\* own: the job is claimed or already claimed, is told to try again, or is denied.  The
\* request may arrive after the job has ended.
Claim(s) ==
    /\ job[s].claim = "sent"
    /\ attempt' = IF MayClaim(s)
                  THEN [attempt EXCEPT ![s] = [@ EXCEPT !.state = "claimed", !.owned = TRUE]]
                  ELSE attempt
    /\ job' = [job EXCEPT ![s].claim =
                  IF MayClaim(s) \/ AlreadyClaimed(s) THEN "none" ELSE "unmatched"]
    /\ UNCHANGED <<run, parent, session, cancel, saga, proc, hist>>

ClaimRefused(s) ==
    /\ job[s].claim = "unmatched"
    /\ job' = [job EXCEPT ![s].claim = IF ClaimPending(s) THEN "sent" ELSE "none"]
    /\ UNCHANGED <<run, parent, session, attempt, cancel, saga, proc, hist>>

\* recordSignedGitHubActionTaskResult
TaskResult(s) ==
    /\ IsTask(s) /\ ~attempt[s].output
    /\ attempt[s].state = "claimed" /\ Active(s) /\ cancel[s] = "none"
    /\ attempt' = [attempt EXCEPT ![s].output = TRUE]
    /\ UNCHANGED <<run, parent, session, cancel, saga, job, proc, hist>>

\* recordSignedSessionReady: the identity is verified, the job is seen running, and one
\* UPDATE decides.
ReadyBegin(s, r) ==
    /\ "ready" \in Offered /\ ~IsTask(s) /\ At(s, r, "idle")
    /\ Identified(s) /\ attempt[s].state = "claimed"
    /\ Begin(s, r, "readyInspect", "ready")
    /\ UNCHANGED <<run, parent, session, attempt, cancel, saga, job, hist>>

ReadyInspect(s, r) ==
    /\ At(s, r, "readyInspect")
    /\ \E seen \in Observed(s) : IF seen = "running" THEN Go(s, r, "readyWrite") ELSE Stop(s, r)
    /\ UNCHANGED <<run, parent, session, attempt, cancel, saga, job, hist>>

\* The UPDATE of recordSignedSessionReady.
MayBeReady(s) == /\ session[s].state \in {"queued", "starting"} /\ attempt[s].state = "claimed"
                 /\ cancel[s] = "none" /\ Active(s)

ReadyWrite(s, r) ==
    /\ At(s, r, "readyWrite")
    /\ IF MayBeReady(s) THEN Session(s, "ready") ELSE UNCHANGED session
    /\ Stop(s, r)
    /\ UNCHANGED <<run, parent, attempt, cancel, saga, job, hist>>

-----------------------------------------------------------------------------
(* Admission of one device action: decideSessionAdmission *)

AdmitRead(s) == attempt[s].state = "claimed" /\ session[s].state = "ready" /\ cancel[s] = "none"

AdmitBegin(s, r) ==
    /\ "admit" \in Offered /\ ~IsTask(s) /\ At(s, r, "idle") /\ AdmitRead(s)
    /\ Begin(s, r, "admitInspect", "admit")
    /\ UNCHANGED <<run, parent, session, attempt, cancel, saga, job, hist>>

\* The job, its start and with it the deadline are read from GitHub.
AdmitInspect(s, r) ==
    /\ At(s, r, "admitInspect")
    /\ \E seen \in Observed(s) : \/ seen = "running" /\ Go(s, r, "admitFinal")
                                 \/ Stop(s, r)
    /\ UNCHANGED <<run, parent, session, attempt, cancel, saga, job, hist>>

\* Slip: the decision rests on the first read.
FinalRead_First(s) == TRUE
\* The last read decides.
FinalRead(s) == AdmitRead(s)

AdmitFinal(s, r) ==
    /\ At(s, r, "admitFinal")
    /\ \/ FinalRead(s) /\ Go(s, r, "granted")
       \/ Stop(s, r)   \* the rows have changed, or the deadline has passed
    /\ UNCHANGED <<run, parent, session, attempt, cancel, saga, job, hist>>

\* An admission or a terminal_confirmed is answered.
Answered(s, r) ==
    /\ At(s, r, "granted") \/ At(s, r, "told")
    /\ Stop(s, r)
    /\ UNCHANGED <<run, parent, session, attempt, cancel, saga, job, hist>>

-----------------------------------------------------------------------------
(* run(): runPublishedGitHubActionSession and runPublishedGitHubActionTask *)

Parent(s, pc) == parent[s].pc = pc
To(s, pc) == parent' = [parent EXCEPT ![s].pc = pc]

\* A rejected dispatch frees the slot.
Unreserve(s) ==
    /\ Parent(s, "unreserve")
    /\ IF Rejected(s) THEN Session(s, "terminated") ELSE UNCHANGED session
    /\ To(s, "finish")
    /\ UNCHANGED <<run, attempt, cancel, saga, job, proc, hist>>

Starting(s) ==
    /\ Parent(s, "starting")
    /\ IF session[s].state = "queued" THEN Session(s, "starting") ELSE UNCHANGED session
    /\ To(s, "look")
    /\ UNCHANGED <<run, attempt, cancel, saga, job, proc, hist>>

\* The snapshot of Session and attempt at the head of the Session's loop.
Look(s) ==
    /\ Parent(s, "look")
    /\ CASE session[s].state = "ready" /\ attempt[s].state = "claimed" -> Result(s, "succeeded")
         [] attempt[s].state \in Settled -> To(s, "free")
         [] session[s].state \in {"terminated", "stopping"} /\ attempt[s].state \notin Settled ->
                Result(s, "indeterminate")
         [] OTHER -> To(s, "check")
    /\ UNCHANGED <<run, session, attempt, cancel, saga, job, proc, hist>>

\* The check step begins; a Task's check first sees whether Run and attempt have both ended.
CheckBegin(s) ==
    /\ Parent(s, "check") /\ At(s, Check, "idle")
    /\ IF IsTask(s) /\ ~Active(s) /\ attempt[s].state \in Settled
       THEN Result(s, "indeterminate") /\ UNCHANGED proc
       ELSE Begin(s, Check, "inspect", "check") /\ To(s, "checking")
    /\ UNCHANGED <<run, session, attempt, cancel, saga, job, hist>>

\* The attempt is settled: a Session ended before it was ready, a Task is read once more.
Free(s) ==
    /\ Parent(s, "free")
    /\ IF IsTask(s)
       THEN /\ Result(s, IF ~Active(s) THEN "indeterminate"
                         ELSE IF attempt[s].state = "succeeded" THEN "succeeded" ELSE "failed")
            /\ UNCHANGED session
       ELSE ReleaseVerified(s) /\ Result(s, "failed")
    /\ UNCHANGED <<run, attempt, cancel, saga, job, proc, hist>>

\* The wake-up or its timeout; after the last turn the Session becomes uncertain.
Wait(s) ==
    /\ Parent(s, "wait")
    /\ parent' = IF parent[s].i = LastPoll THEN [parent EXCEPT ![s].pc = "giveup"]
                 ELSE [parent EXCEPT ![s] = [@ EXCEPT !.pc = IF IsTask(s) THEN "check" ELSE "look",
                                                      !.i = parent[s].i + 1]]
    /\ UNCHANGED <<run, session, attempt, cancel, saga, job, proc, hist>>

Giveup(s) ==
    /\ Parent(s, "giveup")
    /\ IF session[s].state \in {"queued", "starting"} THEN Session(s, "uncertain")
       ELSE UNCHANGED session
    /\ Result(s, "indeterminate")
    /\ UNCHANGED <<run, attempt, cancel, saga, job, proc, hist>>

\* The Run's last write; the watch follows it.
RunEnds(s) ==
    /\ Parent(s, "finish")
    /\ run' = [run EXCEPT ![s] = "terminal"]
    /\ To(s, "over")
    /\ UNCHANGED <<session, attempt, cancel, saga, job, proc, hist>>

\* workflow_cancel of a step that needs approval ends the Run while no candidate is
\* recorded, and goes on to free a slot without an attempt; run() goes on.
RunCancelled(s, r) ==
    /\ "gated" \in Offered /\ At(s, r, "idle")
    /\ Active(s) /\ ~Parent(s, "finish")
    /\ attempt[s].state \in {"none", "created", "dispatch_unknown"}
    /\ run' = [run EXCEPT ![s] = "terminal"]
    /\ IF attempt[s].state = "none" /\ ~IsTask(s)
       THEN Begin(s, r, "abandon", "gated")
       ELSE UNCHANGED proc
    /\ UNCHANGED <<parent, session, attempt, cancel, saga, job, hist>>

\* Its call of releaseNeverDispatchedSessionSlot, which grants the reservation no grace.
Abandon(s, r) ==
    /\ At(s, r, "abandon")
    /\ IF NeverRegistered(s) THEN Session(s, "terminated") ELSE UNCHANGED session
    /\ Stop(s, r)
    /\ UNCHANGED <<run, parent, attempt, cancel, saga, job, hist>>

-----------------------------------------------------------------------------
(* GitHub, faults and time *)

\* The job starts, and sends its claim until it is told that it owns the attempt; that
\* answer is lost when the isolate dies.
JobRuns(s) ==
    /\ \/ job[s].state = "queued" /\ job' = [job EXCEPT ![s].state = "running"]
       \/ /\ job[s].state = "running" /\ job[s].claim = "none"
          /\ attempt[s].owned => "isolate" \in Faults
          /\ job' = [job EXCEPT ![s].claim = "sent"]
    /\ UNCHANGED <<run, parent, session, attempt, cancel, saga, proc, hist>>

JobEnds(s) ==
    /\ job[s].state \in Live
    /\ \E end \in Conclusions : /\ job[s].state = "queued" => end # "success"
                                /\ job' = [job EXCEPT ![s].state = end]
    /\ UNCHANGED <<run, parent, session, attempt, cancel, saga, proc, hist>>

\* A durable step times out; its code runs on.
StepTimesOut(s) ==
    /\ "step" \in Faults
    /\ Parent(s, "dispatch") \/ Parent(s, "checking")
    /\ parent' = [parent EXCEPT ![s] = [@ EXCEPT !.pc = "finish", !.by = NoStep,
                                                 !.result = "indeterminate"]]
    /\ UNCHANGED <<run, session, attempt, cancel, saga, job, proc, hist>>

\* The engine runs the dispatch step a second time.
Replay(s) ==
    /\ "replay" \in Faults /\ Parent(s, "dispatch")
    /\ \E d \in Dispatchers : At(s, d, "idle")
    /\ parent' = [parent EXCEPT ![s] = [@ EXCEPT !.pc = "begin", !.by = NoStep]]
    /\ UNCHANGED <<run, session, attempt, cancel, saga, job, proc, hist>>

\* An isolate dies.  Nobody answers for it: a step run() waits for times out.
Dies(s, p) ==
    /\ "isolate" \in Faults /\ ~At(s, p, "idle")
    /\ IF p \in Dispatchers THEN Return(s, p, "threw")
       ELSE /\ Stop(s, p)
            /\ parent' = IF p = Check /\ Parent(s, "checking")
                         THEN [parent EXCEPT ![s] = [@ EXCEPT !.pc = "finish",
                                                              !.result = "indeterminate"]]
                         ELSE parent
    /\ UNCHANGED <<run, session, attempt, cancel, saga, job, hist>>

\* Two minutes since the cancellation; half an hour since the reservation, which matters
\* only where a terminal Run has no attempt.
Elapses(s) ==
    /\ \/ /\ cancel[s] = "requested" /\ cancel' = [cancel EXCEPT ![s] = "due"]
          /\ UNCHANGED session
       \/ /\ session[s].state = "queued" /\ ~session[s].old
          /\ ~Active(s) /\ attempt[s].state = "none"
          /\ session' = [session EXCEPT ![s].old = TRUE]
          /\ UNCHANGED cancel
    /\ UNCHANGED <<run, parent, attempt, saga, job, proc, hist>>

-----------------------------------------------------------------------------
Init ==
    /\ run = [s \in Steps |-> "active"]
    /\ \E type \in [Steps -> Types] :
          parent = [s \in Steps |-> [type |-> type[s], pc |-> "begin", by |-> NoStep, i |-> 0,
                                     result |-> "none"]]
    /\ session = [s \in Steps |-> [state |-> "none", slot |-> 0, old |-> FALSE]]
    /\ attempt = [s \in Steps |-> [state |-> "none", owned |-> FALSE, output |-> FALSE]]
    /\ cancel = [s \in Steps |-> "none"]
    /\ saga = [s \in Steps |-> "none"]
    /\ job = [s \in Steps |-> [state |-> "none", claim |-> "none"]]
    /\ proc = [s \in Steps |-> [p \in Procs |-> Idle]]
    /\ hist = [s \in Steps |-> [posts |-> 0, cancels |-> 0, forces |-> 0]]

Dispatch(s, d) == \/ BeginTask(s, d) \/ BeginSession(s, d) \/ Reserve(s, d) \/ Register(s, d)
                  \/ Refuse(s, d) \/ Post(s, d) \/ Record(s, d)
Reconcile(s, p) == \/ Inspect(s, p) \/ SettleClaimed(s, p) \/ SettleUnclaimed(s, p)
                   \/ Compare(s, p) \/ Release(s, p)
Cancellation(s, r) == \/ CancelRead(s, r) \/ CancelInspect(s, r) \/ Intent(s, r) \/ RequestForce(s, r)
                      \/ Stopping(s, r) \/ CancelPost(s, r) \/ Stamp(s, r)
ReadyRequest(s, r) == ReadyBegin(s, r) \/ ReadyInspect(s, r) \/ ReadyWrite(s, r)
Admission(s, r) == AdmitBegin(s, r) \/ AdmitInspect(s, r) \/ AdmitFinal(s, r) \/ Answered(s, r)
RunStep(s) == \/ Unreserve(s) \/ Starting(s) \/ Look(s) \/ CheckBegin(s) \/ Free(s) \/ Wait(s)
              \/ Giveup(s) \/ RunEnds(s)

Next == \E s \in Steps :
    \/ RunStep(s)
    \/ Claim(s) \/ ClaimRefused(s) \/ TaskResult(s) \/ JobRuns(s) \/ JobEnds(s)
    \/ StepTimesOut(s) \/ Replay(s) \/ Elapses(s)
    \/ \E d \in Dispatchers : Dispatch(s, d)
    \/ \E p \in Requests \cup {Check} : Reconcile(s, p)
    \/ \E r \in Requests : \/ StatusBegin(s, r) \/ Watch(s, r) \/ CancelBegin(s, r)
                           \/ CompensateBegin(s, r) \/ Cancellation(s, r)
                           \/ ReadyRequest(s, r) \/ Admission(s, r)
                           \/ RunCancelled(s, r) \/ Abandon(s, r)
    \/ \E p \in Procs : Dies(s, p)

Spec == Init /\ [][Next]_vars

\* What a request does once it has begun.
Serve(s, r) == \/ Reconcile(s, r) \/ Cancellation(s, r) \/ ReadyInspect(s, r) \/ ReadyWrite(s, r)
               \/ AdmitInspect(s, r) \/ AdmitFinal(s, r) \/ Answered(s, r) \/ Abandon(s, r)

\* A request that has begun goes on, and the owner of a Session that occupies its slot asks
\* for its status again and again.  Nothing is assumed of run(), the dispatch or GitHub.
FairSpec ==
    /\ Spec
    /\ \A s \in Steps : WF_vars(\E r \in Requests : StatusBegin(s, r) \/ Serve(s, r))

-----------------------------------------------------------------------------
(* Properties *)

\* A job that exists, or whose POST is on its way.
MayExist(s) == job[s].state \in Live \/ \E d \in Dispatchers : At(s, d, "post")

\* The quota is physical: there are never more Session jobs alive at GitHub (or on their
\* way to it) than slots, and each has a slot of its own, whatever becomes of the Runs, the
\* answers of GitHub and the isolates (reservePublishedSessionSlot and the three releases).
PhysicalQuota ==
    LET live == {s \in Sessions : MayExist(s)} IN
    /\ Cardinality(live) <= Cardinality(Slots)
    /\ \A s, t \in live : s # t => session[s].slot # session[t].slot

\* A job that may be alive keeps its Session's slot: no release, by run(), the watch, a
\* status or a cancellation, frees it on missing or stale evidence.
SlotCoversJob == \A s \in Sessions : MayExist(s) => Occupies(s)

\* One step makes at most one dispatch POST, over replays, overlapping executions and lost
\* answers (the UNIQUE attempt of registerAndDispatchGitHubAction), and GitHub sees at most
\* one normal and one forced cancellation of its job, from any number of requests of the
\* owner, the watch and the saga (requestGitHubActionCancellation).
OncePosted ==
    \A s \in Steps : hist[s].posts <= 1 /\ hist[s].cancels <= 1 /\ hist[s].forces <= 1

\* Whoever is told terminal_confirmed, and every saga receipt that says succeeded, is right:
\* the job has ended or never existed, and none can come to exist.
ToldOnlyWhenStopped(s) ==
    saga[s] = "succeeded" \/ (\E r \in Requests : At(s, r, "told")) => ~MayExist(s)

\* A settled attempt has the job's own conclusion, no attempt succeeds unclaimed, and a Task
\* succeeds only with its job.
OutcomeIsPhysical(s) ==
    /\ attempt[s].state = "succeeded" => job[s].state = "success" /\ attempt[s].owned
    /\ attempt[s].state = "failed" => job[s].state = "failure"
    /\ attempt[s].state = "cancelled" => job[s].state = "cancelled"
    /\ IsTask(s) /\ parent[s].result = "succeeded" => job[s].state = "success"

\* What the attempt, the results of run(), the owner's answers and the saga's receipts say
\* of a job is what happened at GitHub, whatever was lost or read too early.
AnswersArePhysical == \A s \in Steps : OutcomeIsPhysical(s) /\ ToldOnlyWhenStopped(s)

\* Once a cancellation is recorded nothing begins on the job's authority: no claim, no
\* Ready, no task result and no device admission, though the Session may still be shown as
\* ready when the write of stopping failed.
CancelFences(s) ==
    cancel[s] # "none" =>
        /\ ~attempt[s].owned => ~attempt'[s].owned
        /\ ~attempt[s].output => ~attempt'[s].output
        /\ session[s].state # "ready" => session'[s].state # "ready"
        /\ \A r \in Requests : ~At(s, r, "granted") => proc'[s][r].pc # "granted"

\* A Session that was told to stop, gave up or ended does not come back: ready follows only
\* queued and starting, and terminated is final.
DoesNotRevive(s) ==
    /\ session[s].state \in {"stopping", "uncertain"} =>
          session'[s].state \in {"stopping", "terminated"} \cup {session[s].state}
    /\ session[s].state = "terminated" => session'[s].state = "terminated"

\* No step of a job's history goes back: a recorded cancellation fences the claim, Ready, the
\* result and admission, and a Session that is stopping or over stays so.
SessionHistory ==
    [][\A s \in Steps : CancelFences(s) /\ (s \in Sessions => DoesNotRevive(s))]_vars

\* A job with a conclusion the code can use, and whose claim it needs was made.
Provable(s) == /\ HasCandidate(s) /\ job[s].state \in Ended \ {"ambiguous"}
               /\ job[s].state = "success" => attempt[s].owned

\* The slot of a job that ended provably is given back, as long as the owner asks for the
\* Session's status.
SlotReturns == \A s \in Steps : Provable(s) ~> ~Occupies(s)
===============================================================================
