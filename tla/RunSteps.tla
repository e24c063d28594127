------------------------------ MODULE RunSteps ------------------------------
(***************************************************************************)
(* One Run of a published plan: the orchestrator's waves (runner.ts), the  *)
(* fences its steps place before they call out (Portal and HTTP            *)
(* connections, Cloudflare Actions, GitHub Attempts, foreach and loop      *)
(* children), the runtime approval, the event wait and its webhook, the    *)
(* Litterbox upload, cancellation, and the Saga's compensation, over a     *)
(* native engine that may lose a checkpoint and replay.                    *)
(*                                                                         *)
(* Rows (run_steps), fences and the Run's outcome are in D1 and survive;   *)
(* saved is the native checkpoint of a finished callback; pc and ctx are   *)
(* the memory of the current execution.  "refused" stands for a call the   *)
(* other side definitely did not carry out, a GitHub job that ended        *)
(* unsuccessfully included.  Child Runs are in ChildRun and the life of a  *)
(* dispatched GitHub job in GitHubAction; here both are one answer.        *)
(***************************************************************************)
EXTENDS PlanRules, TLC

CONSTANTS Workloads   \* the drafts and what happens around them

ASSUME WorkloadsAssumption ==
    \A w \in Workloads : /\ DOMAIN w = {"def", "grants", "hub", "starts", "crashes",
                                          "faults", "does"}
                         /\ Parsed(w.def) /\ w.crashes \in Nat /\ w.faults \in Nat
                         /\ w.starts \in BOOLEAN
                         /\ w.does \subseteq {"cancel", "revoke", "approve", "upload",
                                              "events", "drift", "lag"}

VARIABLES
    work,   \* what happens around the Run
    plan,   \* the draft, then the plan it was compiled to
    run,    \* runs.outcome, "draft" and "rejected" before there is a Run
    eng,    \* the orchestrator: pc, the wave, and ctx, the outcomes it knows
    st,     \* per step or child: row, fence, checkpoint, callback, effect
    conn,   \* the connections' current generation: has it been revoked since?
    gate,   \* the runtime approval: its gate, the owner's request and decision
    evt,    \* the event wait: receipt, sent mark, native event, senders
    up,     \* the Litterbox upload
    cx,     \* the cancellation call
    comp,   \* the compensation receipts of the Saga
    left    \* crashes and faults still to come

fixed == <<work, plan>>
vars == <<fixed, run, eng, st, conn, gate, evt, up, cx, comp, left>>
others == <<fixed, conn, gate, evt, up, cx, comp, left>>

Outcomes == {"succeeded", "failed", "skipped", "indeterminate"}
Open == {"none", "waiting", "running", "waiting_approval"}   \* a row that may still be written
Active == {"waiting", "running", "waiting_approval"}

Saga == plan.saga # {}
Steps == DOMAIN eng.ctx                   \* the plan's steps; DOMAIN st has the children too
Use(k) == plan.steps[k].use
Src(k) == plan.steps[k]
Guarded(k) == Src(k).guarded
Gated(k) == Src(k).gated
Undone(k) == Src(k).undo
Effectful(k) == Use(k) \in Mcp \cup GitHub \cup Providers \cup {"http.post"}

\* Everything under these uses happens inside one native checkpoint of its own.
Checkpointed(k) == Use(k) \in {"result.emit"} \cup Mcp \cup Http \cup (Providers \ {"litterbox"})

\* The row, fence, memory and effect of one step, rewritten together.
Becomes(k, r) == st' = [st EXCEPT ![k] = r]

\* What an operation may change of them, a field at a time.
Goes(r, pc) == [r EXCEPT !.pc = pc]
Writes(r, row) == [r EXCEPT !.row = row]
Keeps(r, saved) == [r EXCEPT !.saved = saved]
Answered(r, pick) == [r EXCEPT !.picked = pick]
Fences(r) == [r EXCEPT !.fenced = TRUE]
Acks(r) == [r EXCEPT !.acked = TRUE]
Affects(r, e) == [r EXCEPT !.effect = e]
Freezes(r, n) == [r EXCEPT !.items = n, !.picked = "frozen", !.at = 1]
Advances(r) == [r EXCEPT !.at = @ + 1]
Unheard(r) == [r EXCEPT !.ghost = TRUE]
Lingers(r, at) == [r EXCEPT !.late = at]
Closes(r) == [r EXCEPT !.over = TRUE]
Dies(r) == [r EXCEPT !.pc = "idle", !.ghost = FALSE, !.late = "no"]

\* The outcome this execution will record, and the same kept in the native checkpoint.
Puts(r, o) == [r EXCEPT !.pc = "put", !.out = o]
Ends(r, o) == Puts(Keeps(r, o), o)

-----------------------------------------------------------------------------
(* Publication and the start of the Run.                                    *)

Fresh == [pc |-> "idle", row |-> "none", out |-> "?", saved |-> "?", picked |-> "?",
          items |-> 0, at |-> 0, fenced |-> FALSE, acked |-> FALSE, ghost |-> FALSE,
          late |-> "no", effect |-> "untouched", over |-> FALSE]

Idle == [pc |-> "top", wave |-> {}, ctx |-> <<>>]

Init ==
    /\ \E w \in Workloads : /\ plan = w.def
                            /\ work = [f \in DOMAIN w \ {"def"} |-> w[f]]
    /\ run = "draft" /\ eng = Idle /\ st = <<>>
    /\ conn = "current"
    /\ gate = [state |-> "closed", request |-> "none", decision |-> "none"]
    /\ evt = [receipt |-> "none", sent |-> FALSE, native |-> "none",
              sender |-> [e \in {"e1", "e2"} |-> "idle"]]
    /\ up = "idle"
    /\ cx = [pc |-> "idle", row |-> FALSE, of |-> <<>>, told |-> "nothing"]
    /\ comp = <<>>
    /\ left = [crashes |-> work.crashes, faults |-> work.faults]

\* publish pins the connections' generation; start admits the Run (RunAdmission).
Publish ==
    /\ run = "draft"
    /\ IF Publishable(plan, work.grants, work.hub)
       THEN /\ run' = IF work.starts THEN "queued" ELSE "published"
            /\ plan' = [saga |-> plan.saga, steps |-> Compiled(plan)]
            /\ st' = [k \in Keys(plan) |-> Fresh]
            /\ comp' = [k \in {j \in Ids(plan) : Step(plan, j).undo} |->
                          [row |-> "none", effect |-> "untouched", live |-> TRUE,
                           native |-> "no", fallback |-> "no"]]
            /\ eng' = [Idle EXCEPT !.ctx = [k \in Ids(plan) |-> "?"]]
       ELSE run' = "rejected" /\ UNCHANGED <<plan, eng, st, comp>>
    /\ UNCHANGED <<work, conn, gate, evt, up, cx, left>>

Started == run \notin {"draft", "rejected", "published"}

\* run(): a Run that is no longer queued or running is not executed again.
Top ==
    /\ Started /\ eng.pc = "top"
    /\ run' = IF run = "queued" THEN "running" ELSE run
    /\ eng' = [eng EXCEPT !.pc = IF run \in {"queued", "running"} THEN "loop" ELSE "over"]
    /\ UNCHANGED <<st, others>>

-----------------------------------------------------------------------------
(* The waves.                                                               *)

Pending == {k \in Steps : eng.ctx[k] = "?"}
Bad == \E k \in Steps : eng.ctx[k] \in {"failed", "indeterminate"}
Ready == {k \in Pending : \A n \in Src(k).needs : eng.ctx[n] # "?"}
Rechecks == \E k \in Steps : Use(k) = "wait_event" \/ Use(k) \in Providers \/ Gated(k)

DependenciesPermitRun(k) ==
    IF Src(k).joins
    THEN /\ \E n \in Src(k).needs : eng.ctx[n] = "succeeded"
         /\ \A n \in Src(k).needs : eng.ctx[n] \in {"succeeded", "skipped"}
    ELSE \A n \in Src(k).needs : eng.ctx[n] = "succeeded"

\* A Saga takes one ready step at a time, in plan order, other plans the whole layer.
Waves == IF Saga THEN {{k} : k \in {j \in Ready : Src(j).before \cap Ready = {}}}
         ELSE {W \in SUBSET Ready : Cardinality(W) =
                   IF Cardinality(Ready) < MaxParallel THEN Cardinality(Ready) ELSE MaxParallel}

SkipPending(rows) == st' = [k \in DOMAIN st |->
    IF k \in Pending /\ st[k].row \in rows THEN Writes(st[k], "skipped") ELSE st[k]]

Wave ==
    /\ eng.pc = "loop" /\ Pending # {}
    /\ \/ /\ Rechecks /\ run # "running"
          /\ IF run = "cancelled" THEN SkipPending({"none", "waiting", "running"})
             ELSE UNCHANGED st
          /\ eng' = [eng EXCEPT !.pc = "over"]
       \/ /\ Rechecks => run = "running"
          /\ Saga /\ Bad
          /\ SkipPending({"none"})
          /\ eng' = [eng EXCEPT !.pc = "final"]
       \/ /\ Rechecks => run = "running"
          /\ ~(Saga /\ Bad)
          /\ \E W \in Waves \ {{}} :
                /\ eng' = [eng EXCEPT !.pc = "exec", !.wave = W]
                /\ st' = [k \in DOMAIN st |-> IF k \in W THEN Goes(st[k], "begin") ELSE st[k]]
    /\ UNCHANGED <<run, others>>

WaveEnds ==
    /\ eng.pc = "exec" /\ \A k \in eng.wave : st[k].pc = "done"
    /\ eng' = [pc |-> "loop", wave |-> {},
               ctx |-> [k \in Steps |-> IF k \in eng.wave THEN st[k].out ELSE eng.ctx[k]]]
    /\ UNCHANGED <<run, st, others>>

\* Slip: an uncertain step counts as a failed one.
Verdict_Failed == IF Bad THEN "failed" ELSE "succeeded"

Verdict == IF \E k \in Steps : eng.ctx[k] = "indeterminate" THEN "indeterminate"
           ELSE IF Bad THEN "failed" ELSE "succeeded"

\* Slip: an uncertain step does not make the native instance fail.
Triggers_FailedOnly == "failure" \in plan.saga /\ \E k \in Steps : eng.ctx[k] = "failed"

\* Native rollback needs a failing instance: the runner throws after it wrote the outcome.
Triggers == "failure" \in plan.saga /\ Bad

Final ==
    /\ \/ eng.pc = "final"
       \/ eng.pc = "loop" /\ Pending = {}
    /\ run' = IF run = "running" THEN Verdict ELSE run
    /\ eng' = [eng EXCEPT !.pc = IF Triggers THEN "throws" ELSE "over"]
    /\ UNCHANGED <<st, others>>

\* The native engine runs the rollback handlers the finished steps registered.
Rollback ==
    /\ eng.pc = "throws"
    /\ eng' = [eng EXCEPT !.pc = "over"]
    /\ comp' = [k \in DOMAIN comp |-> IF eng.ctx[k] = "succeeded"
                                      THEN [comp[k] EXCEPT !.native = "reserve"] ELSE comp[k]]
    /\ UNCHANGED <<fixed, run, st, conn, gate, evt, up, cx, left>>

-----------------------------------------------------------------------------
(* One step of the wave.                                                    *)

\* A callback that ends after its native checkpoint gave up on it is not heard.
Finish(k, o) == Becomes(k, IF st[k].ghost THEN Goes(st[k], "idle") ELSE Ends(st[k], o))

Claimed(k) == IF st[k].row = "none" THEN "running" ELSE st[k].row

\* What a step's condition evaluates to, the same in every replay; it may be no Boolean.
Picks(k) == IF ~Guarded(k) THEN {"yes"} ELSE IF st[k].picked # "?" THEN {st[k].picked}
            ELSE {"yes", "no", "error"}
First(k) == IF Use(k) \in Mcp THEN "discover" ELSE IF Use(k) \in Http THEN "reserve" ELSE "prior"

\* result.emit, mcp.call, http.request and action.run: one native checkpoint.
BeginCheckpointed(k) ==
    /\ st[k].pc = "begin" /\ Checkpointed(k)
    /\ IF st[k].saved # "?" THEN Becomes(k, Puts(st[k], st[k].saved))
       ELSE \E pick \in Picks(k) :
            LET r == Answered(Writes(st[k], Claimed(k)), pick)
            IN  IF ~DependenciesPermitRun(k) \/ pick = "no" THEN Becomes(k, Ends(r, "skipped"))
                ELSE IF pick = "error"
                THEN Becomes(k, Ends(r, IF Use(k) \in Providers THEN "indeterminate" ELSE "failed"))
                ELSE IF Use(k) = "result.emit"
                THEN \E o \in {"succeeded", "failed"} : Becomes(k, Ends(r, o))
                ELSE Becomes(k, Goes(r, First(k)))
    /\ UNCHANGED <<run, eng, others>>

\* github.run is replayed from its start; its dispatch and polls are checkpoints.
BeginGitHub(k) ==
    /\ st[k].pc = "begin" /\ Use(k) \in GitHub
    /\ \E pick \in Picks(k) :
          LET r == Answered(Writes(st[k], Claimed(k)), pick)
          IN  Becomes(k, IF ~DependenciesPermitRun(k) \/ pick = "no" THEN Puts(r, "skipped")
                         ELSE IF pick = "error" THEN Puts(r, "indeterminate")
                         ELSE Goes(r, IF Gated(k) THEN "gate" ELSE "reserve"))
    /\ UNCHANGED <<run, eng, others>>

\* flow.wait, flow.wait_event and the Litterbox receipt: a row that says waiting.
BeginWait(k) ==
    /\ st[k].pc = "begin" /\ Use(k) \in {"wait", "wait_event", "litterbox"}
    /\ LET row == IF st[k].row = "none" /\ run = "running" THEN "waiting" ELSE st[k].row
           recorded == row = "succeeded" \/ (Use(k) = "litterbox" /\ st[k].fenced /\
                                             row \in {"failed", "indeterminate"})
           r == Writes(st[k], row)
       IN  Becomes(k, IF Use(k) # "litterbox" /\ ~DependenciesPermitRun(k)
                      THEN Puts(st[k], "skipped")
                      ELSE IF recorded THEN Puts(r, row)
                      ELSE IF row # "waiting" /\ Use(k) # "litterbox" THEN Puts(r, "indeterminate")
                      ELSE Goes(r, "listen"))
    /\ UNCHANGED <<run, eng, others>>

\* flow.child: ChildRun has the rest of it.
BeginChild(k) ==
    /\ st[k].pc = "begin" /\ Use(k) = "child"
    /\ \E o \in Outcomes \ {"skipped"} :
          Becomes(k, Puts(st[k], IF DependenciesPermitRun(k) THEN o ELSE "skipped"))
    /\ UNCHANGED <<run, eng, others>>

\* The row of a settled step is never rewritten.
Writable(k) == st[k].row \in Open

Put(k) ==
    /\ st[k].pc = "put"
    /\ Becomes(k, Goes(Writes(st[k], IF Writable(k) THEN st[k].out ELSE st[k].row), "done"))
    /\ UNCHANGED <<run, eng, others>>

\* A Saga step that succeeded registers its rollback handler first, and that may fail.
RegistrationFails(k) ==
    /\ left.faults > 0 /\ left' = [left EXCEPT !.faults = @ - 1]
    /\ st[k].pc = "put" /\ Undone(k) /\ st[k].out = "succeeded" /\ Writable(k)
    /\ Becomes(k, Goes(Writes(Ends(st[k], "indeterminate"), "indeterminate"), "done"))
    /\ UNCHANGED <<fixed, run, eng, conn, gate, evt, up, cx, comp>>

-----------------------------------------------------------------------------
(* Calling out: discover, reserve the one-shot fence, send, read the reply. *)

Prior(k) ==
    /\ st[k].pc = "prior"
    /\ IF st[k].fenced THEN Finish(k, "indeterminate")
       ELSE Becomes(k, Goes(st[k], "discover"))
    /\ UNCHANGED <<run, eng, others>>

Drifts == "drift" \in work.does
Checked(k, mayRefuse) == /\ st[k].pc = "discover"
                         /\ \/ Becomes(k, Goes(st[k], "reserve"))
                            \/ mayRefuse /\ Finish(k, "failed")
                         /\ UNCHANGED <<run, eng, others>>

\* The live tool, or the live provider's contract, is read again, and is no longer what was
\* approved or cannot be read.
DiscoverTool(k) == Use(k) \in Mcp /\ Checked(k, Drifts)
DiscoverDub(k) == Use(k) = "dub" /\ Checked(k, Drifts)
DiscoverEnvshare(k) == Use(k) = "envshare" /\ Checked(k, Drifts)

\* A cited Session may have ended, or a cited download may lack its proof.
DiscoverBark(k) == Use(k) = "bark" /\ Checked(k, Drifts \/ Src(k).cites # {})

\* Slip: an enabled connection counts, whatever its generation.
PortalFence_AnyGeneration(k) == Use(k) \in Mcp /\ run = "running" /\ conn # "revoked"

\* Re-enabling a connection does not restore the generation the plan was approved for.
PortalFence(k) == Use(k) \in Mcp /\ run = "running" /\ conn = "current"

HttpFence(k) == Use(k) \in Http /\ run = "running" /\ conn = "current"

\* Slip: the fence does not look at the cancellation row.
ActionFence_Uncancelled(k) ==
    Use(k) \in Providers \ {"litterbox"} /\ run = "running" /\ conn # "revoked"

\* conn stands for cloudflare_action_gate too, which has no generation.
ActionFence(k) ==
    Use(k) \in Providers \ {"litterbox"} /\ run = "running" /\ conn # "revoked" /\ ~cx.row

FileFence(k) ==
    Use(k) = "litterbox" /\ run \in {"queued", "running"} /\ conn # "revoked" /\ ~cx.row

GitHubFence(k) == Use(k) \in GitHub /\ run \in {"queued", "running"}

\* One INSERT decides: the Run, the connection, the cancellation and the key.
Reservable(k) ==
    /\ ~st[k].fenced
    /\ PortalFence(k) \/ HttpFence(k) \/ ActionFence(k) \/ FileFence(k) \/ GitHubFence(k)

\* Bark's INSERT also asks that the step it cites still stands.
Unreservable(k) == ~Reservable(k) \/ Src(k).cites # {}

Reserve(k) ==
    /\ st[k].pc = "reserve" /\ Use(k) \notin GitHub
    /\ \/ /\ Reservable(k)
          /\ Becomes(k, Goes(Fences(st[k]), "send"))
       \/ /\ Unreservable(k)
          /\ Finish(k, IF st[k].fenced THEN "indeterminate" ELSE "failed")
    /\ UNCHANGED <<run, eng, others>>

\* The job of a Session never ran, or its end has been verified.
EndProven(k) == st[k].effect = "refused" \/ st[k].over

\* A Session gets no slot: all are taken, its fixed workflow or its Run is not free, or the
\* slot an execution without a checkpoint took was given back when its job had ended.
NoSlot(k) == Use(k) = "github.session" /\ (~st[k].fenced \/ EndProven(k))

\* The dispatch is a checkpoint; what an earlier execution kept of it is not asked again.
ReserveGitHub(k) ==
    /\ st[k].pc = "reserve" /\ Use(k) \in GitHub /\ st[k].saved # "threw"
    /\ IF st[k].acked THEN Becomes(k, Goes(st[k], "poll"))
       ELSE IF st[k].saved # "?" THEN Becomes(k, Puts(st[k], st[k].saved))
       ELSE \/ Reservable(k) /\ Becomes(k, Goes(Fences(st[k]), "send"))
            \/ NoSlot(k) /\ Becomes(k, Ends(st[k], "failed"))
    /\ UNCHANGED <<run, eng, others>>

\* The controller of several stages hears what its Task threw, and nobody writes the Task's
\* row; every other step or child that throws is itself in doubt.
Hearing(c) == {k \in Steps : /\ Use(k) = "foreach" /\ Src(k).stages > 1 /\ st[k].pc = "kids"
                             /\ c \in {Src(k).kids[p] : p \in DOMAIN Src(k).kids}}

Throws(c, r) == st' = [j \in DOMAIN st |->
    IF j = c THEN IF Hearing(c) = {} THEN Puts(Keeps(r, "threw"), "indeterminate")
                  ELSE Goes(Keeps(r, "threw"), "idle")
    ELSE IF j \in Hearing(c) THEN Puts(st[j], "indeterminate") ELSE st[j]]

\* An Attempt that cannot be registered, now or when the engine kept the failed checkpoint.
DispatchThrows(k) ==
    /\ st[k].pc = "reserve" /\ Use(k) \in GitHub /\ ~st[k].acked
    /\ st[k].saved = "threw" \/ (st[k].saved = "?" /\ ~Reservable(k))
    /\ Throws(k, st[k])
    /\ UNCHANGED <<run, eng, others>>

Effects == {"sent", "applied", "refused"}

Leaves(k, effects) == /\ st[k].pc = "send"
                      /\ \E e \in effects : Becomes(k, Goes(Affects(st[k], e), "reply"))
                      /\ UNCHANGED <<run, eng, others>>

CallTool(k) == Use(k) \in Mcp /\ Leaves(k, Effects)
SendHttp(k) == Use(k) \in Http /\ Leaves(k, IF Effectful(k) THEN Effects ELSE {"untouched"})
ExecuteAction(k) == Use(k) \in Providers \ {"litterbox"} /\ Leaves(k, Effects)
DispatchGitHub(k) == Use(k) \in GitHub /\ Leaves(k, Effects)

Land(k) ==
    /\ st[k].effect = "sent"
    /\ \E e \in {"applied", "refused"} : Becomes(k, Affects(st[k], e))
    /\ UNCHANGED <<run, eng, others>>

\* Slip: a remote error is taken for proof that nothing was done.
ToolAnswers_ErrorsFail(k) == IF st[k].effect = "applied" THEN {"succeeded", "failed"}
                             ELSE {"failed", "indeterminate"}

\* An error from a tool, thrown or returned, proves nothing.
ToolAnswers(k) == IF st[k].effect = "applied" THEN {"succeeded", "indeterminate"}
                  ELSE {"indeterminate"}

HttpAnswers(k) == IF Use(k) = "http.get" THEN {"succeeded", "failed", "indeterminate"}
                  ELSE IF st[k].effect = "applied" THEN {"succeeded", "indeterminate"}
                  ELSE {"indeterminate"}

\* Providers and GitHub report a definite refusal.
ActionAnswers(k) == CASE st[k].effect = "applied" -> {"succeeded", "indeterminate"}
                      [] st[k].effect = "refused" -> {"failed", "indeterminate"}
                      [] OTHER -> {"indeterminate"}

Answers(k) == IF Use(k) \in Mcp THEN ToolAnswers(k)
              ELSE IF Use(k) \in Http THEN HttpAnswers(k) ELSE ActionAnswers(k)

Reply(k) ==
    /\ st[k].pc = "reply" /\ Use(k) # "litterbox"
    /\ IF Use(k) \in GitHub THEN Becomes(k, Goes(Acks(st[k]), "poll"))
       ELSE \E o \in Answers(k) : Finish(k, o)
    /\ UNCHANGED <<run, eng, others>>

\* Whether the Run still wants a Task's result is read after the checkpoint that has it.
TaskTells(o) == IF run \in {"queued", "running"} THEN {o} ELSE {o, "indeterminate"} \ {"succeeded"}

PollTask(k) ==
    /\ st[k].pc = "poll" /\ Use(k) = "github.task"
    /\ \E o \in IF st[k].saved # "?" THEN {st[k].saved} ELSE ActionAnswers(k) :
          \E told \in TaskTells(o) : Becomes(k, Puts(Keeps(st[k], o), told))
    /\ UNCHANGED <<run, eng, others>>

\* Whether a Session is ready, or has ended, is in no checkpoint: every replay reads it anew.
SessionAnswers(k) == CASE EndProven(k) -> {"failed", "indeterminate"}
                       [] st[k].effect = "applied" /\ ~st[k].over -> {"succeeded", "indeterminate"}
                       [] OTHER -> {"indeterminate"}

PollSession(k) ==
    /\ st[k].pc = "poll" /\ Use(k) = "github.session"
    /\ \E o \in SessionAnswers(k) : Becomes(k, Puts(st[k], o))
    /\ UNCHANGED <<run, eng, others>>

\* A dispatch that its checkpoint gave up on goes on, and nobody hears how it ends.
LateDispatch(k) ==
    LET r == st[k]
    IN  /\ \/ /\ r.late = "reserve" /\ Reservable(k)
              /\ Becomes(k, Lingers(Fences(r), "send"))
           \/ /\ r.late = "reserve" /\ (~Reservable(k) \/ NoSlot(k))
              /\ Becomes(k, Lingers(r, "no"))
           \/ /\ r.late = "send"
              /\ \E e \in Effects : Becomes(k, Lingers(Affects(r, e), "reply"))
           \/ r.late = "reply" /\ Becomes(k, Lingers(r, "no"))
        /\ UNCHANGED <<run, eng, others>>

Revoke == /\ "revoke" \in work.does /\ Started /\ conn # "regained"
          /\ conn' = IF conn = "current" THEN "revoked" ELSE "regained"
          /\ UNCHANGED <<fixed, run, eng, st, gate, evt, up, cx, comp, left>>

-----------------------------------------------------------------------------
(* foreach and loop: children one after the other, from a frozen snapshot.  *)

Rounds(k) == IF st[k].items > Src(k).count THEN Src(k).count ELSE st[k].items
LastAt(k) == IF Src(k).kids = <<>> THEN 0 ELSE Rounds(k) * Src(k).stages
Current(k) == Src(k).kids[st[k].at]
SameItem(k, p, q) == (p - 1) \div Src(k).stages = (q - 1) \div Src(k).stages
Looping(k) == Use(k) \in {"while", "until"}

\* The snapshot freezes the items; one more than max_items fails at once.
BeginForeach(k) ==
    /\ st[k].pc = "begin" /\ Use(k) = "foreach"
    /\ LET r == Writes(st[k], Claimed(k))
       IN  IF ~DependenciesPermitRun(k) THEN Becomes(k, Puts(r, "skipped"))
           ELSE \E n \in IF st[k].picked # "?" THEN {st[k].items} ELSE 0 .. Src(k).count + 1 :
                Becomes(k, IF n > Src(k).count THEN Puts(Freezes(r, n), "failed")
                           ELSE Goes(Freezes(r, n), "kids"))
    /\ UNCHANGED <<run, eng, others>>

\* items is the round whose condition ends the loop; an until runs at least once.
BeginLoop(k) ==
    /\ st[k].pc = "begin" /\ Looping(k)
    /\ IF ~DependenciesPermitRun(k) THEN Becomes(k, Puts(st[k], "skipped"))
       ELSE \E n \in IF st[k].picked # "?" THEN {st[k].items}
                     ELSE (IF Use(k) = "until" THEN 1 ELSE 0) .. Src(k).count + 1 :
            Becomes(k, Goes(Freezes(st[k], n), "kids"))
    /\ UNCHANGED <<run, eng, others>>

\* Slip: a stage runs although an earlier one of its item was skipped.
Blocked_Never(k) == FALSE

\* With a Task among the stages, a skipped stage blocks those after it.
Blocked(k) ==
    /\ \E p \in DOMAIN Src(k).kids : Use(Src(k).kids[p]) = "github.task"
    /\ \E p \in 1 .. st[k].at - 1 :
          SameItem(k, p, st[k].at) /\ st[Src(k).kids[p]].out # "succeeded"

Unseen(c) == st[c].picked = "?" /\ st[c].saved = "?"

AtKid(k) == /\ st[k].pc = "kids" /\ st[k].at <= LastAt(k) /\ st[Current(k)].pc = "idle"
            /\ st[k].saved = "threw" => ~Unseen(Current(k))

MayClaim(c) == st[c].row = "none" /\ run = "running"
Dispatched(c, row) == Becomes(c, Goes(Answered(Writes(st[c], row), "yes"), "reserve"))

\* A child that emits is one checkpoint; one that calls a tool claims its row there first.
Child(c, pick) ==
    LET r == Answered(st[c], pick)
    IN  Becomes(c, IF pick = "no" THEN Ends(r, "skipped")
                   ELSE IF Use(c) = "result.emit" THEN Ends(r, "succeeded")
                   ELSE IF MayClaim(c) THEN Goes(Writes(r, "running"), "discover")
                   ELSE Ends(st[c], "indeterminate"))

\* A Task is not one checkpoint: what it kept is looked at where it kept it.
Kept(c) == st[c].saved # "?" /\ Use(c) \notin GitHub
Replayed(c) == Becomes(c, Puts(st[c], st[c].saved))

BeginItem(k) ==
    /\ AtKid(k) /\ Use(k) = "foreach" /\ Src(k).stages = 1
    /\ LET c == Current(k)
       IN  IF Kept(c) THEN Replayed(c)
           ELSE \E pick \in Picks(c) \ {"error"} :
                IF pick = "yes" /\ Use(c) = "github.task" THEN Dispatched(c, Claimed(c))
                ELSE Child(c, pick)
    /\ UNCHANGED <<run, eng, others>>

BeginStage(k) ==
    /\ AtKid(k) /\ Use(k) = "foreach" /\ Src(k).stages > 1
    /\ LET c == Current(k)
       IN  IF Kept(c) THEN Replayed(c)
           ELSE IF Blocked(k) THEN Becomes(c, Ends(st[c], "skipped"))
           ELSE \E pick \in Picks(c) \ {"error"} :
                IF pick = "yes" /\ Use(c) = "github.task"
                THEN Dispatched(c, IF MayClaim(c) THEN "running" ELSE st[c].row)
                ELSE Child(c, pick)
    /\ UNCHANGED <<run, eng, others>>

BeginRound(k) ==
    /\ AtKid(k) /\ Looping(k)
    /\ LET c == Current(k)
       IN  IF Kept(c) THEN Replayed(c) ELSE Child(c, "yes")
    /\ UNCHANGED <<run, eng, others>>

KidEnds(k) ==
    /\ st[k].pc = "kids" /\ st[k].at <= LastAt(k) /\ st[Current(k)].pc = "done"
    /\ LET o == st[Current(k)].out
       IN  Becomes(k, IF o \in {"failed", "indeterminate"} THEN Puts(st[k], o)
                      ELSE Advances(st[k]))
    /\ UNCHANGED <<run, eng, others>>

\* A condition, or an expression, that cannot be evaluated ends it at once; the engine keeps
\* the failed checkpoint too, and a replay fails at the same place.
NotBegun(k) == st[k].at <= LastAt(k) => st[Current(k)].pc = "idle" /\ Unseen(Current(k))

LoopThrows(k) ==
    /\ st[k].pc = "kids" /\ Looping(k) /\ NotBegun(k) /\ st[k].saved # "over"
    /\ Becomes(k, Puts(Keeps(st[k], "threw"), "failed"))
    /\ UNCHANGED <<run, eng, others>>

\* Arguments of a read that cannot be resolved fail that stage; anything else that throws
\* leaves a doubt as soon as a stage before it has called out.
StageThrows(k) ==
    /\ st[k].pc = "kids" /\ Use(k) = "foreach" /\ Src(k).stages > 1
    /\ st[k].at <= LastAt(k) /\ NotBegun(k) /\ ~Blocked(k)
    /\ LET called == \E p \in 1 .. st[k].at - 1 : /\ Use(Src(k).kids[p]) # "result.emit"
                                                  /\ st[Src(k).kids[p]].picked = "yes"
           reads == Use(Current(k)) = "mcp.read"
       IN  st' = [j \in DOMAIN st |->
              IF j = k
              THEN Puts(Keeps(st[j], "threw"),
                        IF called /\ ~reads THEN "indeterminate" ELSE "failed")
              ELSE IF reads /\ j = Current(k) /\ st[j].row = "none"
              THEN Writes(st[j], "failed") ELSE st[j]]
    /\ UNCHANGED <<run, eng, others>>

Ended(k) == st[k].pc = "kids" /\ st[k].at > LastAt(k) /\ st[k].saved # "threw"

\* A foreach of which nothing was selected is skipped.
ForeachEnds(k) ==
    /\ Ended(k) /\ Use(k) = "foreach"
    /\ Becomes(k, Puts(st[k], IF \E p \in 1 .. LastAt(k) : st[Src(k).kids[p]].out = "succeeded"
                              THEN "succeeded" ELSE "skipped"))
    /\ UNCHANGED <<run, eng, others>>

\* A loop that used up its rounds has failed; its last condition was a checkpoint too.
LoopEnds(k) ==
    /\ Ended(k) /\ Looping(k)
    /\ Becomes(k, Puts(Keeps(st[k], "over"),
                       IF st[k].items > Src(k).count THEN "failed" ELSE "succeeded"))
    /\ UNCHANGED <<run, eng, others>>

-----------------------------------------------------------------------------
(* Waiting: a timer, an event, a file.                                      *)

\* The native sleep or the native event; afterwards the Run must still be running.
Resume(k) ==
    /\ st[k].pc = "listen" /\ Use(k) \in {"wait", "wait_event"}
    /\ Use(k) = "wait_event" => evt.native # "none"
    /\ Becomes(k, Puts(st[k], IF run # "running" THEN "indeterminate"
                              ELSE IF Use(k) = "wait_event" /\ evt.native # evt.receipt
                              THEN "indeterminate" ELSE "succeeded"))
    /\ UNCHANGED <<run, eng, others>>

EventTimeout(k) ==
    /\ st[k].pc = "listen" /\ Use(k) = "wait_event"
    /\ Becomes(k, Puts(st[k], "failed"))
    /\ UNCHANGED <<run, eng, others>>

\* handleWaitEvent: the receipt binds the step to the first event that asks.
EventReceipt(e) ==
    /\ "events" \in work.does /\ Started /\ evt.sender[e] = "idle"
    /\ LET receipt == IF evt.receipt = "none" /\ run \in {"queued", "running"} THEN e
                      ELSE evt.receipt
       IN  evt' = [evt EXCEPT !.receipt = receipt,
                              !.sender[e] = IF receipt = e THEN "check" ELSE "refused"]
    /\ UNCHANGED <<fixed, run, eng, st, conn, gate, up, cx, comp, left>>

WaitStep == CHOOSE k \in Steps : Use(k) = "wait_event"

EventCheck(e) ==
    /\ evt.sender[e] = "check"
    /\ LET row == st[WaitStep].row
       IN  evt' = [evt EXCEPT !.sender[e] =
                     IF row = "succeeded" /\ evt.sent THEN "told"
                     ELSE IF run \notin {"queued", "running"} \/ row \notin {"none", "waiting"}
                     THEN "refused"
                     ELSE IF evt.sent THEN "told" ELSE "send"]
    /\ UNCHANGED <<fixed, run, eng, st, conn, gate, up, cx, comp, left>>

\* sendEvent; a lost answer leaves the event unmarked and the same event may be sent again.
EventSend(e) ==
    /\ evt.sender[e] = "send"
    /\ \/ /\ evt' = [evt EXCEPT !.native = e, !.sent = TRUE, !.sender[e] = "told"]
          /\ UNCHANGED left
       \/ /\ left.faults > 0 /\ left' = [left EXCEPT !.faults = @ - 1]
          /\ \E n \in {e, evt.native} : evt' = [evt EXCEPT !.native = n, !.sender[e] = "idle"]
    /\ UNCHANGED <<fixed, run, eng, st, conn, gate, up, cx, comp>>

FileStep == CHOOSE k \in Steps : Use(k) = "litterbox"

\* The owner's tool call uploads; the Run only waits for its receipt.
UploadReserve ==
    /\ "upload" \in work.does /\ Started /\ up = "idle"
    /\ \E k \in Steps : Use(k) = "litterbox"
    /\ up' = IF Reservable(FileStep) THEN "send" ELSE "refused"
    /\ IF Reservable(FileStep) THEN Becomes(FileStep, Fences(st[FileStep]))
       ELSE UNCHANGED st
    /\ UNCHANGED <<fixed, run, eng, conn, gate, evt, cx, comp, left>>

UploadSend ==
    /\ up = "send" /\ up' = "record"
    /\ \E e \in Effects : Becomes(FileStep, Affects(st[FileStep], e))
    /\ UNCHANGED <<fixed, run, eng, conn, gate, evt, cx, comp, left>>

UploadRecord ==
    /\ up = "record" /\ up' = "done"
    /\ \E o \in Answers(FileStep) :
          LET row == st[FileStep].row
          IN  Becomes(FileStep, Writes(st[FileStep],
                  IF row \in {"none", "waiting", "running"} THEN o ELSE row))
    /\ UNCHANGED <<fixed, run, eng, conn, gate, evt, cx, comp, left>>

FileMissing(k) == ~st[k].fenced

\* The wake or 180 seconds; the upload is assumed to have left before that wait is over.
FileWait(k) ==
    /\ st[k].pc = "listen" /\ Use(k) = "litterbox"
    /\ "upload" \in work.does => up \notin {"idle", "send"}
    /\ Becomes(k, Puts(st[k],
           IF FileMissing(k) THEN "failed"
           ELSE IF st[k].row \in {"succeeded", "failed", "indeterminate"} THEN st[k].row
           ELSE "indeterminate"))
    /\ UNCHANGED <<run, eng, others>>

-----------------------------------------------------------------------------
(* The runtime approval.                                                    *)

OpenGate(k) ==
    /\ st[k].pc = "gate"
    /\ gate' = [gate EXCEPT !.state = IF @ = "closed" THEN "open" ELSE @]
    /\ LET row == st[k].row
       IN  Becomes(k, Goes(Writes(st[k], IF gate.state = "closed" /\ row \in Active
                                         THEN "waiting_approval" ELSE row), "decide"))
    /\ UNCHANGED <<fixed, run, eng, conn, evt, up, cx, comp, left>>

Deadline == /\ gate.state = "open" /\ gate' = [gate EXCEPT !.state = "late"]
            /\ UNCHANGED <<fixed, run, eng, st, conn, evt, up, cx, comp, left>>

Approved == gate.decision = "approved"

\* Slip: only an answer or a cancellation wakes the waiting step.
Woken_Answered == gate.decision # "none" \/ run # "running"

Woken == gate.decision # "none" \/ gate.state = "late" \/ run # "running"

Decide(k) ==
    /\ st[k].pc = "decide" /\ Woken
    /\ Becomes(k, IF run = "running" /\ Approved THEN Goes(st[k], "consume")
                  ELSE Puts(st[k], "failed"))
    /\ UNCHANGED <<run, eng, others>>

Consume(k) ==
    /\ st[k].pc = "consume"
    /\ LET row == st[k].row
       IN  Becomes(k, IF run # "running" THEN Puts(st[k], "failed")
                      ELSE Goes(Writes(st[k], IF row = "waiting_approval" THEN "running" ELSE row),
                                "reserve"))
    /\ UNCHANGED <<run, eng, others>>

AtGate(k) == run = "running" /\ st[k].row = "waiting_approval"

\* approve reads first and stamps its decision with that time; the INSERT checks again.
Approve(k) ==
    /\ "approve" \in work.does /\ Started /\ Gated(k)
    /\ gate.request = "none" /\ gate.state = "open" /\ AtGate(k)
    /\ \E d \in {"approved", "denied"} : gate' = [gate EXCEPT !.request = d]
    /\ UNCHANGED <<fixed, run, eng, st, conn, evt, up, cx, comp, left>>

RecordApproval(k) ==
    /\ Started /\ Gated(k) /\ gate.request \in {"approved", "denied"}
    /\ gate' = [gate EXCEPT !.request = "told",
                            !.decision = IF AtGate(k) /\ (gate.state = "open" \/ "lag" \in work.does)
                                         THEN gate.request ELSE @]
    /\ UNCHANGED <<fixed, run, eng, st, conn, evt, up, cx, comp, left>>

-----------------------------------------------------------------------------
(* Cancellation, by the kind of the step it names.                          *)

Cancelling(k) == "cancel" \in work.does /\ Started /\ cx.pc = "idle"
Elsewhere(k, rows) == \E j \in DOMAIN st \ {k} : st[j].row \in rows

CancelAction(k) ==
    /\ Cancelling(k) /\ Use(k) \in Providers
    /\ cx' = [cx EXCEPT !.pc = "look", !.of = k, !.row = run \in {"queued", "running"}]
    /\ UNCHANGED <<fixed, run, eng, st, conn, gate, evt, up, comp, left>>

CancelLook ==
    /\ cx.pc = "look"
    /\ cx' = IF st[cx.of].fenced THEN [cx EXCEPT !.pc = "done", !.told = "dispatched"]
             ELSE [cx EXCEPT !.pc = "fence"]
    /\ UNCHANGED <<fixed, run, eng, st, conn, gate, evt, up, comp, left>>

CancelFence ==
    /\ cx.pc = "fence"
    /\ run' = IF run \in {"queued", "running"} /\ ~st[cx.of].fenced THEN "cancelled" ELSE run
    /\ cx' = [cx EXCEPT !.pc = "done", !.told = "requested"]
    /\ UNCHANGED <<fixed, eng, st, conn, gate, evt, up, comp, left>>

CancelEvent(k) ==
    /\ Cancelling(k) /\ Use(k) = "wait_event"
    /\ run = "running" /\ st[k].row = "waiting" /\ ~Elsewhere(k, {"running", "waiting"})
    /\ run' = "cancelled" /\ cx' = [cx EXCEPT !.pc = "mark", !.of = k]
    /\ UNCHANGED <<fixed, eng, st, conn, gate, evt, up, comp, left>>

CancelMark ==
    /\ cx.pc = "mark"
    /\ cx' = [cx EXCEPT !.pc = "terminate", !.told = "requested"]
    /\ IF st[cx.of].row = "waiting" THEN Becomes(cx.of, Writes(st[cx.of], "cancelled"))
       ELSE UNCHANGED st
    /\ UNCHANGED <<fixed, run, eng, conn, gate, evt, up, comp, left>>

\* compensateCancelledSessions: every step that can be undone, whatever it came to.
Fallback(comps) == [k \in DOMAIN comps |->
    IF "cancel" \in plan.saga THEN [comps[k] EXCEPT !.fallback = "reserve"] ELSE comps[k]]

\* terminate may be lost or report RollbackMissing; the fallback compensates in any case.
Terminate ==
    /\ cx.pc = "terminate" /\ cx' = [cx EXCEPT !.pc = "done"]
    /\ \E ends, rollsBack \in BOOLEAN :
          /\ eng' = IF ends THEN [eng EXCEPT !.pc = "over", !.wave = {}] ELSE eng
          /\ st' = IF ends THEN [k \in DOMAIN st |-> Goes(st[k], "idle")] ELSE st
          /\ comp' = Fallback([k \in DOMAIN comp |->
               IF "cancel" \in plan.saga /\ ends /\ rollsBack /\ st[k].row = "succeeded"
               THEN [comp[k] EXCEPT !.native = "reserve"] ELSE comp[k]])
    /\ UNCHANGED <<fixed, run, conn, gate, evt, up, left>>

\* Before the Attempt the cancellation wins; before its claim it is fenced, unverified.
CancelGate(k) ==
    /\ Cancelling(k) /\ Gated(k)
    /\ run = "running" /\ st[k].row \in {"waiting_approval", "running"}
    /\ ~Elsewhere(k, Active) /\ (st[k].acked => st[k].effect = "sent")
    /\ run' = "cancelled" /\ Becomes(k, Writes(st[k], "cancelled"))
    /\ cx' = [cx EXCEPT !.pc = "done", !.of = k,
                        !.told = IF st[k].fenced THEN "unverified" ELSE "requested"]
    /\ UNCHANGED <<fixed, eng, conn, gate, evt, up, comp, left>>

-----------------------------------------------------------------------------
(* Compensation: the native handler and the fallback share one receipt.     *)

Callers == {"native", "fallback"}

Compensable(k) == comp[k].row = "none" /\ st[k].row = "succeeded" /\ comp[k].live

CompensateReserve(k, c) ==
    /\ comp[k][c] = "reserve"
    /\ comp' = [comp EXCEPT ![k][c] = IF Compensable(k) THEN "post" ELSE "done",
                            ![k].row = IF Compensable(k) THEN "running" ELSE @]
    /\ UNCHANGED <<fixed, run, eng, st, conn, gate, evt, up, cx, left>>

CompensatePost(k, c) ==
    /\ comp[k][c] = "post"
    /\ \E e \in Effects : comp' = [comp EXCEPT ![k][c] = "record", ![k].effect = e]
    /\ UNCHANGED <<fixed, run, eng, st, conn, gate, evt, up, cx, left>>

CompensateRecord(k, c) ==
    /\ comp[k][c] = "record"
    /\ \E r \in CASE comp[k].effect = "applied" -> {"requested", "succeeded", "indeterminate"}
                  [] comp[k].effect = "refused" -> {"uncleared", "indeterminate"}
                  [] OTHER -> {"indeterminate"} :
          /\ r = "succeeded" => ~comp[k].live     \* terminal_confirmed
          /\ comp' = [comp EXCEPT ![k][c] = "done", ![k].row = r]
    /\ UNCHANGED <<fixed, run, eng, st, conn, gate, evt, up, cx, left>>

\* status repairs a receipt that was only requested, after the physical end.
StatusRepairs(k) ==
    /\ comp[k].row = "requested" /\ ~comp[k].live
    /\ comp' = [comp EXCEPT ![k].row = "succeeded"]
    /\ UNCHANGED <<fixed, run, eng, st, conn, gate, evt, up, cx, left>>

\* The end of a Session's job is verified and recorded, before or after the Run knew it ready.
SessionEnds(k) ==
    /\ Use(k) = "github.session" /\ st[k].effect = "applied" /\ ~st[k].over
    /\ Becomes(k, Closes(st[k]))
    /\ comp' = [j \in DOMAIN comp |->
                  IF j = k THEN [comp[j] EXCEPT !.live = FALSE] ELSE comp[j]]
    /\ UNCHANGED <<fixed, run, eng, conn, gate, evt, up, cx, left>>

-----------------------------------------------------------------------------
(* What status answers.                                                     *)

RunEnded == run \in {"succeeded", "failed", "indeterminate", "cancelled"}

\* A step whose row is still open when the Run has ended is in doubt.
StepView(k) ==
    IF st[k].row \in Outcomes \cup {"cancelled"} THEN st[k].row
    ELSE IF RunEnded THEN "indeterminate"
    ELSE IF st[k].row = "none" THEN "waiting" ELSE st[k].row

SagaTriggered == \/ run = "cancelled" /\ "cancel" \in plan.saga
                 \/ run \in {"failed", "indeterminate"} /\ "failure" \in plan.saga

CompensationView(k) ==
    IF comp[k].row = "succeeded" \/ (comp[k].row = "requested" /\ ~comp[k].live)
    THEN "succeeded"
    ELSE IF comp[k].row # "none" THEN comp[k].row
    ELSE IF SagaTriggered /\ st[k].row = "succeeded" THEN "unconfirmed" ELSE "not_required"

SagaView ==
    LET views == {CompensationView(k) : k \in DOMAIN comp}
    IN  IF ~SagaTriggered THEN "not_triggered"
        ELSE IF views \cap {"requested", "indeterminate", "unconfirmed", "running"} # {}
        THEN "incomplete"
        ELSE IF "uncleared" \in views THEN "partial" ELSE "settled"

-----------------------------------------------------------------------------
(* What goes wrong around it.                                               *)

Calling == {"prior", "discover", "reserve", "send", "reply"}

\* A checkpoint gives up on its callback, which may go on unheard.
Interrupt(k) ==
    /\ left.faults > 0 /\ left' = [left EXCEPT !.faults = @ - 1]
    /\ eng.pc = "exec" /\ k \in eng.wave /\ Checkpointed(k) /\ st[k].pc \in Calling
    /\ Becomes(k, Unheard(st[k]))
    /\ run' = IF run = "running" THEN "indeterminate" ELSE run
    /\ eng' = [eng EXCEPT !.pc = "over"]
    /\ UNCHANGED <<fixed, conn, gate, evt, up, cx, comp>>

\* In a foreach or a loop the controller hears of it, and reports the doubt.
KidTimeout(k) ==
    /\ left.faults > 0 /\ left' = [left EXCEPT !.faults = @ - 1]
    /\ st[k].pc = "kids" /\ st[k].at <= LastAt(k)
    /\ Checkpointed(Current(k)) /\ st[Current(k)].pc \in Calling
    /\ st' = [j \in DOMAIN st |-> IF j = k THEN Puts(st[j], "indeterminate")
                                 ELSE IF j = Current(k) THEN Unheard(st[j]) ELSE st[j]]
    /\ UNCHANGED <<fixed, run, eng, conn, gate, evt, up, cx, comp>>

\* The dispatch of a GitHub step throws, or outlives its 45 seconds and goes on unheard.
DispatchTimeout(k) ==
    /\ left.faults > 0 /\ left' = [left EXCEPT !.faults = @ - 1]
    /\ Use(k) \in GitHub /\ st[k].pc \in {"reserve", "send", "reply"}
    /\ ~st[k].acked /\ st[k].saved = "?"
    /\ Throws(k, Lingers(st[k], st[k].pc))
    /\ UNCHANGED <<fixed, run, eng, conn, gate, evt, up, cx, comp>>

\* The engine dies and replays run() from its start over what D1 and the checkpoints hold.
Crash ==
    /\ left.crashes > 0 /\ left' = [left EXCEPT !.crashes = @ - 1]
    /\ Started /\ eng.pc \in {"loop", "exec", "final", "throws"}
    /\ eng' = [Idle EXCEPT !.ctx = [k \in Steps |-> "?"]]
    /\ st' = [k \in DOMAIN st |-> Dies(st[k])]
    /\ UNCHANGED <<fixed, run, conn, gate, evt, up, cx, comp>>

-----------------------------------------------------------------------------
OfStep(k) ==
    \/ BeginCheckpointed(k) \/ BeginGitHub(k) \/ BeginWait(k) \/ BeginChild(k)
    \/ BeginForeach(k) \/ BeginLoop(k) \/ BeginItem(k) \/ BeginStage(k) \/ BeginRound(k)
    \/ KidEnds(k) \/ ForeachEnds(k) \/ LoopEnds(k) \/ StageThrows(k) \/ LoopThrows(k) \/ Put(k)
    \/ Prior(k) \/ DiscoverTool(k) \/ DiscoverDub(k) \/ DiscoverEnvshare(k) \/ DiscoverBark(k)
    \/ Reserve(k) \/ ReserveGitHub(k) \/ DispatchThrows(k)
    \/ CallTool(k) \/ SendHttp(k) \/ ExecuteAction(k) \/ DispatchGitHub(k)
    \/ Reply(k) \/ PollTask(k) \/ PollSession(k)
    \/ Resume(k) \/ EventTimeout(k) \/ FileWait(k)
    \/ OpenGate(k) \/ Decide(k) \/ Consume(k)

OfEngine == Publish \/ Top \/ Wave \/ WaveEnds \/ Final \/ Rollback
OfUpload == UploadReserve \/ UploadSend \/ UploadRecord
OfCompensation(k, c) == CompensateReserve(k, c) \/ CompensatePost(k, c) \/ CompensateRecord(k, c)
OfCancel == CancelLook \/ CancelFence \/ CancelMark \/ Terminate

Next ==
    \/ OfEngine \/ OfUpload \/ OfCancel \/ Revoke \/ Deadline \/ Crash
    \/ \E k \in DOMAIN st : \/ OfStep(k) \/ Land(k) \/ Approve(k) \/ RecordApproval(k)
                            \/ CancelAction(k) \/ CancelEvent(k) \/ CancelGate(k)
                            \/ Interrupt(k) \/ KidTimeout(k) \/ RegistrationFails(k)
                            \/ DispatchTimeout(k) \/ LateDispatch(k) \/ SessionEnds(k)
    \/ \E k \in DOMAIN comp : \/ StatusRepairs(k)
                              \/ \E c \in Callers : OfCompensation(k, c)
    \/ \E e \in {"e1", "e2"} : EventReceipt(e) \/ EventCheck(e) \/ EventSend(e)

Spec == Init /\ [][Next]_vars

\* The engine keeps executing, waits and calls end by their timeouts, deadlines pass, and a
\* request that began runs to its end.
FairSpec ==
    /\ Spec
    /\ WF_vars(OfEngine)
    /\ WF_vars(OfUpload)
    /\ WF_vars(Deadline)
    /\ WF_vars(\E k \in DOMAIN st : OfStep(k))
    /\ WF_vars(\E k \in DOMAIN comp : \E c \in Callers : OfCompensation(k, c))
    /\ WF_vars(OfCancel)

-----------------------------------------------------------------------------
(* Properties.                                                              *)

OpsOf(w) == {<<"do", k>> : k \in Keys(w.def)}
            \cup {<<"undo", k>> : k \in {j \in Ids(w.def) : Step(w.def, j).undo}}
Ops == UNION {OpsOf(w) : w \in {v \in Workloads : v.starts}}

\* A replay read in D1 that a Session came to something else than its row says, and the Run
\* goes by what it read.
Reread(k) == /\ Use(k) = "github.session" /\ st[k].row \in Outcomes
             /\ st[k].out \notin {"?", st[k].row}
Wavers == \E k \in Steps : Reread(k)
Known(k) == IF Reread(k) /\ st[k].out = "succeeded" THEN "succeeded" ELSE st[k].row

\* A fenced Session that is reported as failed may have run: all that is said is that it is
\* over.  In a Run that wavers a dispatched step may be shown as skipped, which says nothing.
StepLedger(k) ==
    CASE st[k].row = "succeeded" -> "done"
      [] st[k].row = "failed" /\ Use(k) = "github.session" /\ st[k].fenced -> "unknown"
      [] st[k].row = "skipped" /\ st[k].fenced /\ Wavers -> "unknown"
      [] st[k].row \in {"failed", "skipped"} -> "none"
      [] st[k].row = "indeterminate" /\ st[k].late = "no" -> "unknown"
      [] st[k].row = "cancelled" /\ ~st[k].fenced -> "none"
      [] OTHER -> IF st[k].fenced THEN "claimed" ELSE "new"

UndoLedger(k) ==
    CASE comp[k].row \in {"requested", "succeeded"} -> "done"
      [] comp[k].row = "uncleared" -> "none"
      [] comp[k].row = "indeterminate" -> "unknown"
      [] comp[k].row = "running" -> "claimed"
      [] OTHER -> "new"

Ledger == [o \in Ops |->
    CASE o[1] = "do" /\ o[2] \in DOMAIN st /\ Effectful(o[2]) -> StepLedger(o[2])
      [] o[1] = "undo" /\ o[2] \in DOMAIN comp -> UndoLedger(o[2])
      [] OTHER -> "new"]

Effect == [o \in Ops |->
    CASE o[1] = "do" /\ o[2] \in DOMAIN st -> st[o[2]].effect
      [] o[1] = "undo" /\ o[2] \in DOMAIN comp -> comp[o[2]].effect
      [] OTHER -> "untouched"]

Once == INSTANCE OnceEffect WITH ledger <- Ledger, effect <- Effect, Revisable <- FALSE

\* Every effect of a Run - a tool call, an HTTP POST, a provider call, a GitHub dispatch, a
\* file upload, a compensating cancellation - is fenced in D1 before it leaves, leaves at most
\* once across replays, and its row never claims more than is true of the other side.  A
\* dispatch that outlived its checkpoint counts as unsettled until it ends: it may still leave
\* when the row says indeterminate, but no more once it has ended.
ImplementsOnceEffect == Once!Spec

\* A Run that says it succeeded or failed has no doubt left anywhere below it: status shows
\* no step as unknown, and whatever any step or child fenced has a definite row of its own.
\* That is not so of a Run that wavers, where only a success still covers all its steps.
\* A Saga it shows as settled has left no Session alive that the Run had finished.
VerdictCovers ==
    /\ run = "succeeded" => \A k \in Steps : \/ StepView(k) \in {"succeeded", "skipped"}
                                             \/ Known(k) = "succeeded"
    /\ Saga /\ SagaView = "settled" =>
          \A k \in DOMAIN comp : st[k].row = "succeeded" => ~comp[k].live
    /\ ~Wavers =>
          /\ run = "failed" => \A k \in Steps : st[k].row \notin ({"indeterminate"} \cup Active)
          /\ run \in {"succeeded", "failed"} =>
                \A k \in DOMAIN st : st[k].fenced => st[k].row \in {"succeeded", "failed"}

\* A caller told that its cancellation was requested (and not that the effect may complete)
\* is never contradicted by an effect of that step, before or after.
CancelHonest == cx.told = "requested" => st[cx.of].effect = "untouched"

\* Nothing leaves without what authorizes it: the steps it needs succeeded (of a join at
\* least one branch did, and the others were skipped), the stages before a foreach's Task
\* succeeded for that item, and a gated step has the owner's recorded approval - not after
\* silence, a denial, a skipped branch, a cancellation or a replay.
EffectsAuthorized == \A k \in DOMAIN st : st[k].effect # "untouched" =>
    /\ Gated(k) => gate.decision = "approved"
    /\ LET rows == {Known(n) : n \in Src(k).needs}
       IN  IF Src(k).joins THEN "succeeded" \in rows /\ rows \subseteq {"succeeded", "skipped"}
           ELSE rows \subseteq {"succeeded"}
    /\ \A c \in Steps : \A p, q \in DOMAIN Src(c).kids :
          p < q /\ SameItem(c, p, q) /\ Src(c).kids[q] = k /\ Use(k) = "github.task" =>
              st[Src(c).kids[p]].row = "succeeded"

\* A plan the compiler accepts has no cycle and one row per step and child, fits the budget
\* in its largest expansion, and the runner executes it layer by layer and never gets stuck.
AcceptedPlansRun ==
    /\ run = "draft" /\ Accepts(plan) =>
          /\ Acyclic(plan) /\ Cardinality(Keys(plan)) <= MaxSteps
          /\ Cardinality(Keys(plan)) = Cardinality(AllKeys(plan))
    /\ eng.pc = "loop" /\ Pending # {} =>
          Ready # {} /\ (Cardinality(Ready) <= MaxParallel \/ Saga)

\* What a connection's revocation found unreserved is never sent, by this execution, by a
\* replay, or after the connection is enabled again.
RevokedNeverCalls ==
    [][\A k \in DOMAIN st :
          conn # "current" /\ Use(k) \in Mcp \cup Http /\ ~st[k].fenced
          => ~st'[k].fenced /\ st'[k].effect = "untouched"]_vars

\* Every started Run ends, through lost checkpoints, timeouts, silence and revocations.
RunSettles == []<>(run \notin {"queued", "running"})

\* A Saga that failed, or was cancelled while it waited, leaves no Session it had finished
\* alive without at least a claimed compensation, as long as the engine does not crash.
SagaCompensates == \A o \in Ops :
    [](o[1] = "undo" /\ o[2] \in DOMAIN comp /\ work.crashes = 0
       /\ st[o[2]].row = "succeeded" /\ run \in {"failed", "indeterminate", "cancelled"}
       /\ (IF run = "cancelled" THEN "cancel" ELSE "failure") \in plan.saga
       => <>(o[2] \in DOMAIN comp /\ (~comp[o[2]].live \/ comp[o[2]].row # "none")))

\* A step that is reported as failed has had no effect.
FailedMeansUntouched == \A k \in DOMAIN st :
    st[k].row = "failed" => st[k].effect \in {"untouched", "refused"}
=============================================================================
