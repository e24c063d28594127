-------------------------- MODULE RunAdmissionProofs --------------------------
(***************************************************************************)
(* Proofs about RunAdmission for every set of Runs, requests, keys and     *)
(* workflows and every capacity limit.                                     *)
(***************************************************************************)
EXTENDS RunAdmission, FiniteSetTheorems, TLAPS

-----------------------------------------------------------------------------
(* Type correctness *)

\* An idle request, before start or status is called, has well-typed locals.
LEMMA DefaultRequestType == DefaultRequest \in Request
<1>1. (CHOOSE w \in Workflows : TRUE) \in Workflows
  BY RunsFinite
<1>2. (CHOOSE r \in Runs : TRUE) \in Runs
  BY RunsFinite
<1> QED
  BY <1>1, <1>2 DEF DefaultRequest, Request, PCs, NoVersion, ActiveOutcome, NativeState

\* A fresh database, or one with leftover Runs of a retired version, is well typed.
LEMMA InitType == Init => TypeOK
<1> SUFFICES ASSUME Init PROVE TypeOK
  OBVIOUS
<1>1. NoRow \in Row
  BY RunsFinite, LimitAssumption DEF NoRow, Row, Versions, NoVersion, ActiveOutcome
<1>2. \A s \in {"start_unknown", "started"}, o \in {"queued", "failed"} :
         [NoRow EXCEPT !.start = s, !.outcome = o, !.stale = TRUE] \in Row
  BY <1>1 DEF Row, ActiveOutcome, Terminal
<1>3. runs \in [Runs -> Row]
  BY <1>1, <1>2 DEF Init
<1>4. wf \in [Workflows -> Workflow]
  BY LimitAssumption DEF Init, Workflow, NoVersion, Versions
<1>5. native \in [Runs -> NativeState]
  BY DEF Init, NativeState
<1> QED
  BY <1>3, <1>4, <1>5, DefaultRequestType DEF Init, TypeOK

\* A step that gives one request new locals of the right type.
LEMMA BecomeType ==
  ASSUME TypeOK, NEW c \in Callers, NEW req \in Request, Become(c, req)
  PROVE  caller' \in [Callers -> Request]
BY DEF TypeOK, Become

\* A request that answers its client and is done stays well typed.
LEMMA ReturnType ==
  ASSUME TypeOK, NEW c \in Callers, Return(c)
  PROVE  caller' \in [Callers -> Request]
BY DefaultRequestType, BecomeType DEF Return

\* A request that goes on to its next await with the same locals stays well typed.
LEMMA GotoType ==
  ASSUME TypeOK, NEW c \in Callers, NEW pc \in PCs, Goto(c, pc)
  PROVE  caller' \in [Callers -> Request]
BY DEF TypeOK, Goto, Request

\* What a request becomes after reconcileStart is well typed.
LEMMA ContinuedType ==
  ASSUME NEW q \in Request
  PROVE  Continued(q) \in Request
BY DefaultRequestType DEF Continued, Request, PCs

\* Handing a row to reconcileStart for a replay keeps the requests well typed.
LEMMA ReplayType ==
  ASSUME TypeOK, NEW c \in Callers, NEW r \in Runs, Replay(c, r)
  PROVE  caller' \in [Callers -> Request]
<1>1. CASE Reconcilable(r)
  <2>1. [DefaultRequest EXCEPT !.pc = "reconcile", !.todo = {r}, !.snap = runs[r].outcome]
           \in Request
    BY DefaultRequestType DEF Request, PCs, TypeOK, Row
  <2> QED BY <1>1, <2>1, BecomeType DEF Replay
<1>2. CASE ~Reconcilable(r)
  BY <1>2, ReturnType DEF Replay
<1> QED BY <1>1, <1>2

\* WORKFLOW.create leaves an engine state, whether it was accepted or lost.
LEMMA CreateEffectType ==
  ASSUME TypeOK, NEW r \in Runs, CreateEffect(r)
  PROVE  native' \in [Runs -> NativeState]
BY DEF TypeOK, CreateEffect, NativeState

\* An UPDATE of start_state keeps the runs table well typed.
LEMMA StartStateType ==
  ASSUME TypeOK, NEW r \in Runs,
         NEW s \in {"none", "reserved", "start_unknown", "started"},
         runs' = [runs EXCEPT ![r].start = s]
  PROVE  runs' \in [Runs -> Row]
BY DEF TypeOK, Row

\* An UPDATE of outcome keeps the runs table well typed.
LEMMA OutcomeType ==
  ASSUME TypeOK, NEW r \in Runs, NEW o \in ActiveOutcome \cup Terminal,
         runs' = [runs EXCEPT ![r].outcome = o]
  PROVE  runs' \in [Runs -> Row]
BY DEF TypeOK, Row

\* Every step of a request inside start or status preserves the types.
LEMMA ServeType ==
  ASSUME TypeOK, NEW c \in Callers, Serve(c)
  PROVE  TypeOK'
<1> DEFINE q == caller[c]
<1>q. q \in Request /\ q.rid \in Runs /\ q.todo \subseteq Runs
  BY DEF TypeOK, Request
<1>1. CASE ReconcileObserve(c)
  <2>1. PICK r \in q.todo, obs \in {"found", "missing", "unavailable"} :
          LET rest == [q EXCEPT !.todo = @ \ {r}, !.rid = r, !.snap = "queued"]
          IN  Become(c, CASE obs = "found" /\ ~Retired(r) -> [rest EXCEPT !.pc = "mark"]
                         [] obs = "missing" /\ ~Retired(r) /\ q.snap = "queued" ->
                              [rest EXCEPT !.pc = IF runs[r].stale THEN "expire" ELSE "create"]
                         [] OTHER -> Continued(rest))
    BY <1>1 DEF ReconcileObserve
  <2> DEFINE rest == [q EXCEPT !.todo = @ \ {r}, !.rid = r, !.snap = "queued"]
  <2>2. rest \in Request
    BY <1>q DEF Request, ActiveOutcome
  <2>3. Continued(rest) \in Request
    BY <2>2, ContinuedType
  <2>4. /\ [rest EXCEPT !.pc = "mark"] \in Request
        /\ [rest EXCEPT !.pc = IF runs[r].stale THEN "expire" ELSE "create"] \in Request
    BY <2>2 DEF Request, PCs
  <2> HIDE DEF rest
  <2>5. caller' \in [Callers -> Request]
    BY <2>1, <2>3, <2>4, BecomeType DEF rest
  <2> QED BY <1>1, <2>5 DEF ReconcileObserve, TypeOK
<1>2. CASE ReconcileCreate(c)
  <2>1. native' \in [Runs -> NativeState]
    BY <1>2, <1>q, CreateEffectType DEF ReconcileCreate
  <2>2. caller' \in [Callers -> Request]
    BY <1>2, GotoType DEF ReconcileCreate, PCs
  <2> QED BY <1>2, <2>1, <2>2 DEF ReconcileCreate, TypeOK
<1>3. CASE ReconcileObserveAgain(c)
  <2>1. Goto(c, "mark") \/ Goto(c, "expire") \/ Continue(c)
    BY <1>3 DEF ReconcileObserveAgain
  <2>2. caller' \in [Callers -> Request]
    BY <2>1, <1>q, GotoType, ContinuedType, BecomeType DEF PCs, Continue
  <2> QED BY <1>3, <2>2 DEF ReconcileObserveAgain, TypeOK
<1>4. CASE MarkStarted(c)
  <2>1. caller' \in [Callers -> Request]
    BY <1>4, <1>q, ReturnType, ContinuedType, BecomeType DEF MarkStarted, Continue
  <2>2. runs' \in [Runs -> Row]
    <3> DEFINE s == IF runs[q.rid].start \in Unstarted THEN "started" ELSE runs[q.rid].start
    <3>1. s \in {"none", "reserved", "start_unknown", "started"}
      BY <1>q DEF TypeOK, Row
    <3>2. runs' = [runs EXCEPT ![q.rid].start = s]
      BY <1>4 DEF MarkStarted
    <3> QED BY <3>1, <3>2, <1>q, StartStateType
  <2> QED BY <1>4, <2>1, <2>2 DEF MarkStarted, TypeOK
<1>5. CASE ExpireStart(c)
  <2>1. caller' \in [Callers -> Request]
    BY <1>5, <1>q, ContinuedType, BecomeType DEF ExpireStart, Continue
  <2>2. runs' \in [Runs -> Row]
    BY <1>5, <1>q DEF ExpireStart, TypeOK, Row, Terminal
  <2> QED BY <1>5, <2>1, <2>2 DEF ExpireStart, TypeOK
<1>6. CASE CapacityRead(c)
  <2> DEFINE busy == {r \in Runs : Active(r) /\ runs[r].start = "started"}
             list == IF CapacityUnits >= Limit THEN busy ELSE {}
             late == {r \in list : runs[r].seen # "null"}
  <2>1. list \subseteq Runs /\ late \subseteq Runs
    OBVIOUS
  <2>2. Become(c, [q EXCEPT !.pc = "settle", !.todo = list, !.seen = late])
    BY <1>6 DEF CapacityRead
  <2> HIDE DEF list, late
  <2>3. [q EXCEPT !.pc = "settle", !.todo = list, !.seen = late] \in Request
    BY <1>q, <2>1 DEF Request, PCs
  <2>4. caller' \in [Callers -> Request]
    BY <2>2, <2>3, BecomeType
  <2> QED BY <1>6, <2>4 DEF CapacityRead, TypeOK
<1>7. CASE StatusRead(c)
  <2> DEFINE late == IF runs[q.rid].seen # "null" THEN {q.rid} ELSE {}
  <2>1. [q EXCEPT !.pc = "settle", !.todo = {q.rid}, !.seen = late] \in Request
    BY <1>q DEF Request, PCs
  <2>2. \/ Become(c, [q EXCEPT !.pc = "settle", !.todo = {q.rid}, !.seen = late])
        \/ Return(c)
    BY <1>7 DEF StatusRead
  <2>3. caller' \in [Callers -> Request]
    BY <2>1, <2>2, BecomeType, ReturnType
  <2> QED BY <1>7, <2>3 DEF StatusRead, TypeOK
<1>8. CASE SettleObserve(c)
  <2>1. PICK r \in q.todo : \E obs \in {"found", "unavailable"} :
          LET rest == [q EXCEPT !.todo = @ \ {r}]
          IN  Become(c, IF obs = "found" /\ ~Retired(r)
                        THEN [rest EXCEPT !.pc = "natSettle", !.rid = r, !.obs = native[r]]
                        ELSE IF q.back = "status" THEN DefaultRequest ELSE rest)
    BY <1>8 DEF SettleObserve
  <2> DEFINE rest == [q EXCEPT !.todo = @ \ {r}]
             look == [rest EXCEPT !.pc = "natSettle", !.rid = r, !.obs = native[r]]
  <2>2. rest \in Request
    BY <1>q DEF Request, ActiveOutcome
  <2>3. look \in Request
    BY <2>2, <1>q DEF Request, PCs, TypeOK
  <2>4. Become(c, look) \/ Become(c, DefaultRequest) \/ Become(c, rest)
    BY <2>1
  <2> HIDE DEF rest, look
  <2>5. caller' \in [Callers -> Request]
    BY <2>2, <2>3, <2>4, BecomeType, DefaultRequestType
  <2> QED BY <1>8, <2>5 DEF SettleObserve, TypeOK
<1>9. CASE NativeSettle(c)
  <2>1. runs' \in [Runs -> Row]
    <3>1. ASSUME NEW row \in Row, NEW obs, NEW saw
          PROVE  SettledRow(row, obs, saw) \in Row
      BY DEF SettledRow, Row, Terminal
    <3>2. SettledRow(runs[q.rid], q.obs, q.rid \in q.seen) \in Row
      BY <3>1, <1>q DEF TypeOK
    <3> QED BY <1>9, <3>2, <1>q DEF NativeSettle, TypeOK
  <2>2. [q EXCEPT !.pc = "settle", !.rid = DefaultRequest.rid,
                  !.obs = DefaultRequest.obs, !.seen = @ \ {q.rid}] \in Request
    BY <1>q, DefaultRequestType DEF Request, PCs
  <2>3. caller' \in [Callers -> Request]
    BY <1>9, <2>2, ReturnType, BecomeType DEF NativeSettle
  <2> QED BY <1>9, <2>1, <2>3 DEF NativeSettle, TypeOK
<1>10. CASE Admit(c)
  <2> DEFINE next == [DefaultRequest EXCEPT !.pc = "insert", !.wf = q.wf, !.key = q.key,
                                            !.exp = q.exp, !.ver = wf[q.wf].ver]
  <2>1. wf[q.wf].ver \in Versions \cup {NoVersion}
    BY <1>q DEF TypeOK, Workflow, Request
  <2>2. next \in Request
    BY <2>1, <1>q, DefaultRequestType DEF Request, PCs
  <2>3. Become(c, next) \/ Return(c)
    BY <1>10 DEF Admit
  <2> HIDE DEF next
  <2>4. caller' \in [Callers -> Request]
    BY <2>2, <2>3, BecomeType, ReturnType
  <2> QED BY <1>10, <2>4 DEF Admit, TypeOK
<1>11. CASE InsertRun(c)
  <2>1. CASE InsertAdmits(q)
    <3>1. PICK r \in Runs :
             /\ runs' = [runs EXCEPT ![r] =
                   [wf |-> q.wf, ver |-> q.ver, key |-> q.key,
                    weight |-> PlanWeight(q.ver), start |-> "reserved",
                    outcome |-> "queued", stale |-> FALSE, seen |-> "null"]]
             /\ Become(c, [DefaultRequest EXCEPT !.pc = "create0", !.rid = r])
      BY <1>11, <2>1 DEF InsertRun
    <3>3. runs' \in [Runs -> Row]
      BY <3>1, <1>q DEF TypeOK, Row, PlanWeight, ActiveOutcome, Request
    <3>4. caller' \in [Callers -> Request]
      <4>1. [DefaultRequest EXCEPT !.pc = "create0", !.rid = r] \in Request
        BY DefaultRequestType DEF Request, PCs
      <4> QED BY <3>1, <4>1, BecomeType
    <3> QED BY <1>11, <3>3, <3>4 DEF InsertRun, TypeOK
  <2>2. CASE ~InsertAdmits(q)
    <3>1. (\E r \in Runs : Replay(c, r)) \/ Return(c)
      BY <1>11, <2>2 DEF InsertRun, KeyedRuns
    <3>2. caller' \in [Callers -> Request]
      BY <3>1, ReplayType, ReturnType
    <3> QED BY <1>11, <2>2, <3>2 DEF InsertRun, TypeOK
  <2> QED BY <2>1, <2>2
<1>12. CASE CreateNative(c)
  <2>1. native' \in [Runs -> NativeState]
    BY <1>12, <1>q, CreateEffectType DEF CreateNative
  <2>2. caller' \in [Callers -> Request]
    BY <1>12, GotoType DEF CreateNative, PCs
  <2> QED BY <1>12, <2>1, <2>2 DEF CreateNative, TypeOK
<1>13. CASE StartUnknown(c)
  <2>1. caller' \in [Callers -> Request]
    BY <1>13, <1>q, ReplayType DEF StartUnknown
  <2>2. runs' \in [Runs -> Row]
    <3> DEFINE s == IF runs[q.rid].start = "reserved" THEN "start_unknown"
                    ELSE runs[q.rid].start
    <3>1. s \in {"none", "reserved", "start_unknown", "started"}
      BY <1>q DEF TypeOK, Row
    <3>2. runs' = [runs EXCEPT ![q.rid].start = s]
      BY <1>13 DEF StartUnknown
    <3> QED BY <3>1, <3>2, <1>q, StartStateType
  <2> QED BY <1>13, <2>1, <2>2 DEF StartUnknown, TypeOK
<1> QED
  BY <1>1, <1>2, <1>3, <1>4, <1>5, <1>6, <1>7, <1>8, <1>9, <1>10, <1>11, <1>12, <1>13
  DEF Serve

\* Calling start or status, replaying a key and dying preserve the types.
LEMMA CallType ==
  ASSUME TypeOK, NEW c \in Callers,
         \/ RequestDies(c)
         \/ \E w \in Workflows, k \in Keys, p \in Origins : StartCall(c, w, k, p)
         \/ \E w \in Workflows, k \in Keys : StartReplay(c, w, k)
         \/ \E r \in Runs : StatusCall(c, r)
  PROVE  TypeOK'
<1>1. CASE RequestDies(c)
  BY <1>1, ReturnType DEF RequestDies, TypeOK
<1>2. ASSUME NEW w \in Workflows, NEW k \in Keys, NEW p \in Origins, StartCall(c, w, k, p)
      PROVE  TypeOK'
  <2> DEFINE old == {r \in Runs : /\ runs[r].start \in Unstarted
                                  /\ runs[r].outcome = "queued"
                                  /\ runs[r].stale}
             exp == Expected(p, w)
             req == [DefaultRequest EXCEPT !.pc = "reconcile", !.back = "capacity",
                        !.wf = w, !.key = k, !.exp = exp, !.todo = old]
  <2>1. exp \in Versions \cup {NoVersion} /\ old \subseteq Runs
    BY DEF TypeOK, Workflow, Expected
  <2>2. Become(c, req)
    BY <1>2 DEF StartCall
  <2> HIDE DEF exp, old
  <2>3. req \in Request
    BY <2>1, DefaultRequestType DEF Request, PCs
  <2>4. caller' \in [Callers -> Request]
    BY <2>2, <2>3, BecomeType
  <2> QED BY <1>2, <2>4 DEF StartCall, TypeOK
<1>3. ASSUME NEW w \in Workflows, NEW k \in Keys, StartReplay(c, w, k)
      PROVE  TypeOK'
  <2>1. \E r \in Runs : Replay(c, r)
    BY <1>3 DEF StartReplay, KeyedRuns
  <2>2. caller' \in [Callers -> Request]
    BY <2>1, ReplayType
  <2> QED BY <1>3, <2>2 DEF StartReplay, TypeOK
<1>4. ASSUME NEW r \in Runs, StatusCall(c, r)
      PROVE  TypeOK'
  <2> DEFINE todo == IF runs[r].start \in Unstarted THEN {r} ELSE {}
             req == [DefaultRequest EXCEPT !.pc = "reconcile", !.back = "status",
                        !.rid = r, !.todo = todo, !.snap = runs[r].outcome]
  <2>1. todo \subseteq Runs
    OBVIOUS
  <2>2. Become(c, req)
    BY <1>4 DEF StatusCall
  <2> HIDE DEF todo
  <2>3. req \in Request
    BY <2>1, DefaultRequestType DEF Request, PCs, TypeOK, Row
  <2>4. caller' \in [Callers -> Request]
    BY <2>2, <2>3, BecomeType
  <2> QED BY <1>4, <2>4 DEF StatusCall, TypeOK
<1> QED BY <1>1, <1>2, <1>3, <1>4

\* The owner's publish, pause, resume and delete preserve the types.
LEMMA OwnerType ==
  ASSUME TypeOK, NEW w \in Workflows,
         Publish(w) \/ Pause(w) \/ Resume(w) \/ Delete(w)
  PROVE  TypeOK'
<1>1. wf' \in [Workflows -> Workflow]
  <2>1. CASE Publish(w)
    <3> DEFINE v == wf[w].ver + 1
               s == IF wf[w].state = "paused" THEN "paused" ELSE "active"
    <3>1. v \in Versions \cup {NoVersion}
      BY <2>1, LimitAssumption DEF Publish, TypeOK, Workflow, Versions, NoVersion
    <3>2. wf' = [wf EXCEPT ![w].ver = v, ![w].state = s]
      BY <2>1 DEF Publish
    <3>3. s \in {"draft", "active", "paused"}
      OBVIOUS
    <3> HIDE DEF v, s
    <3> QED BY <3>1, <3>2, <3>3 DEF TypeOK, Workflow
  <2>2. CASE Pause(w)
    BY <2>2 DEF Pause, TypeOK, Workflow
  <2>3. CASE Resume(w)
    BY <2>3 DEF Resume, TypeOK, Workflow
  <2>4. CASE Delete(w)
    BY <2>4 DEF Delete, TypeOK, Workflow
  <2> QED BY <2>1, <2>2, <2>3, <2>4
<1> QED BY <1>1 DEF Publish, Pause, Resume, Delete, TypeOK

\* The engine, the instance's run() and the two windows preserve the types.
LEMMA EngineType ==
  ASSUME TypeOK, NEW r \in Runs,
         Engine(r) \/ StartWindowPasses(r) \/ SettleWindowPasses(r)
  PROVE  TypeOK'
<1>1. native' \in [Runs -> NativeState] /\ runner' \in [Runs -> {"off", "claim", "exec"}]
  BY DEF Engine, StartWindowPasses, SettleWindowPasses, InstanceAppears, RunnerLoad,
         RunnerClaim, RunnerFinish, RunnerThrows, EngineReplays, InstanceEnds, TypeOK, NativeState
<1>2. runs' \in [Runs -> Row]
  <2>1. CASE \/ InstanceAppears(r) \/ RunnerLoad(r) \/ EngineReplays(r)
             \/ \E how \in {"complete", "errored"} : InstanceEnds(r, how)
    BY <2>1 DEF InstanceAppears, RunnerLoad, EngineReplays, InstanceEnds, TypeOK
  <2>2. CASE RunnerClaim(r)
    <3>1. runs' = [runs EXCEPT ![r].outcome = "running"] \/ runs' = runs
      BY <2>2 DEF RunnerClaim
    <3> QED BY <3>1, OutcomeType DEF TypeOK, ActiveOutcome
  <2>3. CASE RunnerFinish(r)
    <3> DEFINE o == IF runs[r].outcome = "running" THEN "succeeded" ELSE runs[r].outcome
    <3>1. o \in ActiveOutcome \cup Terminal
      BY DEF TypeOK, Row, Terminal
    <3>2. runs' = [runs EXCEPT ![r].outcome = o]
      BY <2>3 DEF RunnerFinish
    <3> QED BY <3>1, <3>2, OutcomeType
  <2>4. CASE RunnerThrows(r)
    <3> DEFINE o == IF runs[r].outcome = "running" THEN "indeterminate" ELSE runs[r].outcome
    <3>1. o \in ActiveOutcome \cup Terminal
      BY DEF TypeOK, Row, Terminal
    <3>2. runs' = [runs EXCEPT ![r].outcome = o]
      BY <2>4 DEF RunnerThrows
    <3> QED BY <3>1, <3>2, OutcomeType
  <2>5. CASE StartWindowPasses(r)
    <3>1. runs' = [runs EXCEPT ![r].stale = TRUE]
      BY <2>5 DEF StartWindowPasses
    <3>2. runs[r] \in Row
      BY DEF TypeOK
    <3>3. [runs[r] EXCEPT !.stale = TRUE] \in Row
      BY <3>2 DEF Row
    <3>4. runs' = [runs EXCEPT ![r] = [runs[r] EXCEPT !.stale = TRUE]]
      BY <3>1
    <3> QED BY <3>3, <3>4 DEF TypeOK
  <2>6. CASE SettleWindowPasses(r)
    <3>1. runs' = [runs EXCEPT ![r].seen = "old"]
      BY <2>6 DEF SettleWindowPasses
    <3> QED BY <3>1 DEF TypeOK, Row
  <2> QED BY <2>1, <2>2, <2>3, <2>4, <2>5, <2>6 DEF Engine
<1> QED
  BY <1>1, <1>2
  DEF Engine, StartWindowPasses, SettleWindowPasses, InstanceAppears, RunnerLoad,
      RunnerClaim, RunnerFinish, RunnerThrows, EngineReplays, InstanceEnds, TypeOK

\* Every step preserves the types.
LEMMA NextType == TypeOK /\ [Next]_vars => TypeOK'
<1> SUFFICES ASSUME TypeOK, [Next]_vars PROVE TypeOK'
  OBVIOUS
<1>1. ASSUME NEW c \in Callers, Serve(c) \/ RequestDies(c)
      PROVE  TypeOK'
  BY <1>1, ServeType, CallType
<1>2. ASSUME NEW c \in Callers, NEW w \in Workflows, NEW k \in Keys, NEW p \in Origins,
             StartCall(c, w, k, p)
      PROVE  TypeOK'
  BY <1>2, CallType
<1>3. ASSUME NEW c \in Callers, NEW w \in Workflows, NEW k \in Keys, StartReplay(c, w, k)
      PROVE  TypeOK'
  BY <1>3, CallType
<1>4. ASSUME NEW c \in Callers, NEW r \in Runs, StatusCall(c, r)
      PROVE  TypeOK'
  BY <1>4, CallType
<1>5. ASSUME NEW w \in Workflows, Publish(w) \/ Pause(w) \/ Resume(w) \/ Delete(w)
      PROVE  TypeOK'
  BY <1>5, OwnerType
<1>6. ASSUME NEW r \in Runs, Engine(r) \/ StartWindowPasses(r) \/ SettleWindowPasses(r)
      PROVE  TypeOK'
  BY <1>6, EngineType
<1>7. CASE UNCHANGED vars
  BY <1>7 DEF vars, TypeOK
<1> QED BY <1>1, <1>2, <1>3, <1>4, <1>5, <1>6, <1>7 DEF Next

\* Every variable keeps its type, whatever the requests, the owner, the engine and
\* the clocks do.
THEOREM TypeCorrect == Spec => []TypeOK
BY InitType, NextType, PTL DEF Spec

-----------------------------------------------------------------------------
(* Execution belongs to the owner of the Run *)

\* Rows are never removed, an accepted instance stays accepted and an instance
\* that ended stays ended.
Mono == \A r \in Runs :
    /\ Exists(r) => Exists(r)'
    /\ native[r] # "absent" => native'[r] # "absent"
    /\ native[r] \in {"complete", "errored"} => native'[r] = native[r]

\* settleNativeOutcome only ever turns an active outcome into indeterminate, and only for
\* an instance reported complete or errored; the rest of the row is kept.
LEMMA SettledRowFacts ==
  ASSUME NEW row \in Row, NEW obs, NEW saw
  PROVE  LET new == SettledRow(row, obs, saw)
         IN  /\ new.start = row.start /\ new.weight = row.weight
             /\ new.wf = row.wf /\ new.ver = row.ver /\ new.key = row.key
             /\ new.outcome = row.outcome \/ (row.outcome \in ActiveOutcome
                                              /\ new.outcome = "indeterminate"
                                              /\ obs \in {"complete", "errored"})
<1>1. CASE row.outcome \notin ActiveOutcome
  BY <1>1 DEF SettledRow
<1>2. CASE row.outcome \in ActiveOutcome /\ obs = "errored"
  BY <1>2 DEF SettledRow, Row
<1>3. CASE row.outcome \in ActiveOutcome /\ obs = "complete" /\ ~saw
  BY <1>3 DEF SettledRow, Row
<1>4. CASE row.outcome \in ActiveOutcome /\ obs = "complete" /\ saw
  BY <1>4 DEF SettledRow, Row
<1>5. CASE row.outcome \in ActiveOutcome /\ obs \notin {"complete", "errored"}
  <2>1. SettledRow(row, obs, saw) = [row EXCEPT !.seen = IF saw THEN "null" ELSE @]
    BY <1>5 DEF SettledRow
  <2> QED BY <2>1 DEF Row
<1> QED BY <1>1, <1>2, <1>3, <1>4, <1>5

\* No step of the system takes back a row, an accepted instance or an end that was reached.
LEMMA Monotone ==
  ASSUME TypeOK, [Next]_vars,
         \A r \in Runs : runner[r] # "off" => native[r] = "live"
  PROVE  Mono
<1>1. ASSUME NEW c \in Callers, Serve(c)
      PROVE  Mono
  <2> DEFINE q == caller[c]
  <2>q. q \in Request /\ q.rid \in Runs
    BY DEF TypeOK, Request
  <2>1. CASE NativeSettle(c)
    <3>1. SettledRow(runs[q.rid], q.obs, q.rid \in q.seen).start = runs[q.rid].start
      BY <2>q, SettledRowFacts DEF TypeOK
    <3> QED BY <2>1, <2>q, <3>1 DEF NativeSettle, Mono, Exists, TypeOK
  <2>2. CASE ReconcileCreate(c) \/ CreateNative(c)
    BY <2>2, <2>q DEF ReconcileCreate, CreateNative, CreateEffect, Mono, Exists, TypeOK
  <2>3. CASE MarkStarted(c) \/ ExpireStart(c) \/ StartUnknown(c)
    <3>1. CASE MarkStarted(c)
      BY <3>1, <2>q DEF MarkStarted, Mono, Exists, TypeOK, Row, Unstarted
    <3>2. CASE ExpireStart(c)
      BY <3>2, <2>q DEF ExpireStart, Mono, Exists, TypeOK, Row
    <3>3. CASE StartUnknown(c)
      BY <3>3, <2>q DEF StartUnknown, Mono, Exists, TypeOK, Row
    <3> QED BY <2>3, <3>1, <3>2, <3>3
  <2>4. CASE InsertRun(c)
    BY <2>4, <2>q DEF InsertRun, Mono, Exists, TypeOK
  <2>5. CASE \/ ReconcileObserve(c) \/ ReconcileObserveAgain(c) \/ CapacityRead(c)
             \/ StatusRead(c) \/ SettleObserve(c) \/ Admit(c)
    BY <2>5 DEF ReconcileObserve, ReconcileObserveAgain, CapacityRead, StatusRead,
                SettleObserve, Admit, Mono, Exists
  <2> QED BY <1>1, <2>1, <2>2, <2>3, <2>4, <2>5 DEF Serve
<1>2. ASSUME NEW r \in Runs, Engine(r) \/ StartWindowPasses(r) \/ SettleWindowPasses(r)
      PROVE  Mono
  <2>1. CASE InstanceAppears(r) \/ EngineReplays(r)
    BY <2>1 DEF InstanceAppears, EngineReplays, Mono, Exists, TypeOK
  <2>2. CASE RunnerLoad(r)
    BY <2>2 DEF RunnerLoad, Mono, Exists, TypeOK
  <2>3. CASE RunnerClaim(r)
    <3>1. CASE runs[r].outcome = "queued"
      BY <2>3, <3>1 DEF RunnerClaim, Mono, Exists, TypeOK, Row
    <3>2. CASE runs[r].outcome # "queued"
      BY <2>3, <3>2 DEF RunnerClaim, Mono, Exists, TypeOK
    <3> QED BY <3>1, <3>2
  <2>4. CASE RunnerFinish(r)
    BY <2>4 DEF RunnerFinish, Mono, Exists, TypeOK, Row
  <2>5. CASE RunnerThrows(r)
    BY <2>5 DEF RunnerThrows, Mono, Exists, TypeOK, Row
  <2>6. CASE StartWindowPasses(r) \/ SettleWindowPasses(r)
    BY <2>6 DEF StartWindowPasses, SettleWindowPasses, Mono, Exists, TypeOK, Row
  <2>7. CASE \E how \in {"complete", "errored"} : InstanceEnds(r, how)
    BY <2>7 DEF InstanceEnds, Mono, Exists, TypeOK
  <2> QED BY <1>2, <2>1, <2>2, <2>3, <2>4, <2>5, <2>6, <2>7 DEF Engine
<1>3. CASE UNCHANGED <<runs, native>>
  BY <1>3 DEF Mono, Exists
<1>4. ASSUME NEW c \in Callers, RequestDies(c) PROVE UNCHANGED <<runs, native>>
  BY <1>4 DEF RequestDies
<1>5. ASSUME NEW c \in Callers, NEW w \in Workflows, NEW k \in Keys, NEW p \in Origins,
             StartCall(c, w, k, p)
      PROVE  UNCHANGED <<runs, native>>
  BY <1>5 DEF StartCall
<1>6. ASSUME NEW c \in Callers, NEW w \in Workflows, NEW k \in Keys, StartReplay(c, w, k)
      PROVE  UNCHANGED <<runs, native>>
  BY <1>6 DEF StartReplay
<1>7. ASSUME NEW c \in Callers, NEW r \in Runs, StatusCall(c, r)
      PROVE  UNCHANGED <<runs, native>>
  BY <1>7 DEF StatusCall
<1>8. ASSUME NEW w \in Workflows, Publish(w) \/ Pause(w) \/ Resume(w) \/ Delete(w)
      PROVE  UNCHANGED <<runs, native>>
  BY <1>8 DEF Publish, Pause, Resume, Delete
<1>9. CASE UNCHANGED vars
  BY <1>9, <1>3 DEF vars
<1> QED BY <1>1, <1>2, <1>3, <1>4, <1>5, <1>6, <1>7, <1>8, <1>9 DEF Next

\* The initial states satisfy the inductive invariant.
LEMMA InitInv == Init => AdmissionInv
<1> SUFFICES ASSUME Init PROVE AdmissionInv
  OBVIOUS
<1>1. \A c \in Callers : RequestKnows(caller[c], runs, native)
  BY DEF Init, RequestKnows, DefaultRequest
<1>2. \A r \in Runs : (~Exists(r) => native[r] = "absent") /\ runner[r] = "off"
  BY DEF Init
<1>3. StartedIsReal
  BY DEF Init, StartedIsReal
<1> QED BY <1>1, <1>2, <1>3 DEF AdmissionInv, ExecOwnsRun

\* What a request knows stays true while others act.
LEMMA KnowledgeStays ==
  ASSUME Mono, NEW q \in Request, RequestKnows(q, runs, native)
  PROVE  RequestKnows(q, runs', native')
BY DEF Mono, RequestKnows, Request, Exists

\* An idle request relies on nothing.
LEMMA DefaultKnows ==
  ASSUME NEW rows, NEW insts
  PROVE  RequestKnows(DefaultRequest, rows, insts)
BY DEF RequestKnows, DefaultRequest

Informed == \A c \in Callers : RequestKnows(caller[c], runs, native)

\* A request whose new locals are justified leaves the knowledge of all justified.
LEMMA BecomeKnows ==
  ASSUME TypeOK, Mono, Informed,
         NEW c \in Callers, NEW req, RequestKnows(req, runs', native'), Become(c, req)
  PROVE  Informed'
<1> SUFFICES ASSUME NEW d \in Callers PROVE RequestKnows(caller'[d], runs', native')
  BY DEF Informed
<1>1. CASE d = c
  BY <1>1 DEF Become, TypeOK
<1>2. CASE d # c
  <2>1. caller'[d] = caller[d] /\ caller[d] \in Request
    BY <1>2 DEF Become, TypeOK
  <2> QED BY <2>1, KnowledgeStays DEF Informed
<1> QED BY <1>1, <1>2

\* A step that leaves the requests alone.
LEMMA OthersKnow ==
  ASSUME TypeOK, Mono, Informed, caller' = caller
  PROVE  Informed'
<1> SUFFICES ASSUME NEW d \in Callers PROVE RequestKnows(caller'[d], runs', native')
  BY DEF Informed
<1>1. caller[d] \in Request
  BY DEF TypeOK
<1> QED BY <1>1, KnowledgeStays DEF Informed

\* A request that is about to look at its list only has to know that its rows exist.
LEMMA PlainKnows ==
  ASSUME NEW req, NEW rows, NEW insts, \A r \in req.todo : rows[r].start # "none",
         req.pc \notin {"create", "create0", "unknown", "mark", "mark0", "natSettle"}
  PROVE  RequestKnows(req, rows, insts)
BY DEF RequestKnows

\* A request that returns leaves the knowledge of all requests justified.
LEMMA ReturnKnows ==
  ASSUME TypeOK, Mono, Informed, NEW c \in Callers, Return(c)
  PROVE  Informed'
BY DefaultKnows, BecomeKnows DEF Return

\* After reconcileStart a request relies only on the rest of its list.
LEMMA ContinuedKnows ==
  ASSUME NEW q \in Request, NEW rows, NEW insts, \A r \in q.todo : rows[r].start # "none"
  PROVE  RequestKnows(Continued(q), rows, insts)
<1>1. CASE q.back = "client"
  BY <1>1, DefaultKnows DEF Continued
<1>2. CASE q.back = "status"
  BY <1>2, PlainKnows DEF Continued, Request
<1>3. CASE q.back = "capacity"
  BY <1>3, PlainKnows DEF Continued, Request
<1> QED BY <1>1, <1>2, <1>3 DEF Request

\* Going on after reconcileStart leaves the knowledge of all requests justified.
LEMMA ContinueKnows ==
  ASSUME TypeOK, Mono, Informed, NEW c \in Callers, Continue(c)
  PROVE  Informed'
<1>1. caller[c] \in Request /\ \A r \in caller[c].todo : runs'[r].start # "none"
  BY DEF TypeOK, Informed, RequestKnows, Mono, Exists, Request
<1> QED BY <1>1, ContinuedKnows, BecomeKnows DEF Continue

\* Handing an existing row to reconcileStart leaves the knowledge of all justified.
LEMMA ReplayKnows ==
  ASSUME TypeOK, Mono, Informed, NEW c \in Callers, NEW r \in Runs, Exists(r), Replay(c, r)
  PROVE  Informed'
<1>1. CASE Reconcilable(r)
  <2> DEFINE req == [DefaultRequest EXCEPT !.pc = "reconcile", !.todo = {r},
                                           !.snap = runs[r].outcome]
  <2>1. req.todo = {r} /\ req.pc = "reconcile"
    BY DEF DefaultRequest
  <2>2. Become(c, req)
    BY <1>1 DEF Replay
  <2>3. runs'[r].start # "none"
    BY DEF Mono, Exists
  <2> HIDE DEF req
  <2>4. RequestKnows(req, runs', native')
    BY <2>1, <2>3, PlainKnows
  <2> QED BY <2>2, <2>4, BecomeKnows
<1>2. CASE ~Reconcilable(r)
  BY <1>2, ReturnKnows DEF Replay
<1> QED BY <1>1, <1>2

\* A request that moves on with its locals unchanged, to a point that asks for no
\* knowledge or for knowledge it has.
LEMMA GotoKnows ==
  ASSUME TypeOK, Mono, Informed, NEW c \in Callers, NEW pc, Goto(c, pc),
         \/ pc \in {"observe2", "expire"}
         \/ pc = "unknown" /\ caller[c].pc = "create0"
         \/ pc \in {"mark", "mark0"} /\ native'[caller[c].rid] # "absent"
  PROVE  Informed'
<1> DEFINE req == [caller[c] EXCEPT !.pc = pc]
<1>1. caller[c] \in Request
  BY DEF TypeOK
<1>2. RequestKnows(caller[c], runs', native')
  BY <1>1, KnowledgeStays DEF Informed
<1>3. RequestKnows(req, runs', native')
  BY <1>1, <1>2 DEF RequestKnows, Request
<1>4. Become(c, req)
  BY <1>1 DEF Goto, Become, TypeOK
<1> HIDE DEF req
<1> QED BY <1>3, <1>4, BecomeKnows

\* A call of start or status relies only on rows it has read.
LEMMA CallKnows ==
  ASSUME TypeOK, Mono, Informed, NEW c \in Callers,
         \/ RequestDies(c)
         \/ \E w \in Workflows, k \in Keys, p \in Origins : StartCall(c, w, k, p)
         \/ \E w \in Workflows, k \in Keys : StartReplay(c, w, k)
         \/ \E r \in Runs : StatusCall(c, r)
  PROVE  Informed'
<1>1. CASE RequestDies(c)
  BY <1>1, ReturnKnows DEF RequestDies
<1>2. CASE \E w \in Workflows, k \in Keys, p \in Origins : StartCall(c, w, k, p)
  <2>p. PICK w \in Workflows, k \in Keys, p \in Origins : StartCall(c, w, k, p)
    BY <1>2
  <2> DEFINE stale == {r \in Runs : /\ runs[r].start \in Unstarted
                                    /\ runs[r].outcome = "queued"
                                    /\ runs[r].stale}
             req == [DefaultRequest EXCEPT
                       !.pc = "reconcile", !.back = "capacity", !.wf = w, !.key = k,
                       !.exp = Expected(p, w), !.todo = stale]
  <2>a. req.pc = "reconcile" /\ req.todo = stale
    BY DEF DefaultRequest
  <2>1. Become(c, req)
    BY <2>p DEF StartCall
  <2> HIDE DEF req
  <2>2. \A r \in req.todo : runs'[r].start # "none"
    BY <2>a DEF Mono, Exists, Unstarted
  <2>3. RequestKnows(req, runs', native')
    BY <2>a, <2>2, PlainKnows
  <2> QED BY <2>1, <2>3, BecomeKnows
<1>3. CASE \E w \in Workflows, k \in Keys : StartReplay(c, w, k)
  BY <1>3, ReplayKnows DEF StartReplay, KeyedRuns
<1>4. CASE \E r \in Runs : StatusCall(c, r)
  <2>1. PICK r \in Runs : StatusCall(c, r)
    BY <1>4
  <2> DEFINE list == IF runs[r].start \in Unstarted THEN {r} ELSE {}
             req == [DefaultRequest EXCEPT
                       !.pc = "reconcile", !.back = "status", !.rid = r,
                       !.todo = list, !.snap = runs[r].outcome]
  <2>a. req.pc = "reconcile" /\ req.todo = list
    BY DEF DefaultRequest
  <2>2. Become(c, req)
    BY <2>1 DEF StatusCall
  <2> HIDE DEF req
  <2>3. \A s \in req.todo : runs'[s].start # "none"
    BY <2>a DEF Mono, Exists, Unstarted
  <2>4. RequestKnows(req, runs', native')
    BY <2>a, <2>3, PlainKnows
  <2> QED BY <2>2, <2>4, BecomeKnows
<1> QED BY <1>1, <1>2, <1>3, <1>4

\* Every step inside start or status leaves the knowledge of all requests justified:
\* create is called for rows that exist, starts are recorded for accepted instances.
LEMMA ServeKnows ==
  ASSUME TypeOK, Mono, AdmissionInv, NEW c \in Callers, Serve(c)
  PROVE  Informed'
<1> DEFINE q == caller[c]
<1>i. Informed
  BY DEF AdmissionInv, Informed
<1>q. q \in Request /\ q.rid \in Runs /\ q.todo \subseteq Runs
  BY DEF TypeOK, Request
<1>t. \A r \in q.todo : runs'[r].start # "none"
  BY <1>i, <1>q DEF Informed, RequestKnows, Mono, Exists
<1>1. CASE ReconcileObserve(c)
  <2>1. PICK r \in q.todo, obs \in {"found", "missing", "unavailable"} :
          LET rest == [q EXCEPT !.todo = @ \ {r}, !.rid = r, !.snap = "queued"]
          IN  /\ obs \in Observations(r)
              /\ Become(c,
                   CASE obs = "found" /\ ~Retired(r) -> [rest EXCEPT !.pc = "mark"]
                     [] obs = "missing" /\ ~Retired(r) /\ q.snap = "queued" ->
                          [rest EXCEPT !.pc = IF runs[r].stale THEN "expire" ELSE "create"]
                     [] OTHER -> Continued(rest))
    BY <1>1 DEF ReconcileObserve
  <2> DEFINE rest == [q EXCEPT !.todo = @ \ {r}, !.rid = r, !.snap = "queued"]
  <2>2. rest \in Request /\ rest.rid = r /\ rest.todo = q.todo \ {r}
    BY <1>q DEF Request, ActiveOutcome
  <2>3. UNCHANGED <<runs, native>>
    BY <1>1 DEF ReconcileObserve
  <2> HIDE DEF rest
  <2>4. CASE obs = "found" /\ ~Retired(r)
    <3>1. native'[r] # "absent"
      BY <2>3, <2>4, <2>1 DEF Observations
    <3>2. RequestKnows([rest EXCEPT !.pc = "mark"], runs', native')
      BY <3>1, <2>2, <1>t DEF RequestKnows, Request
    <3>3. Become(c, [rest EXCEPT !.pc = "mark"])
      BY <2>1, <2>4 DEF rest
    <3> QED BY <3>2, <3>3, <1>i, BecomeKnows
  <2>5. CASE obs = "missing" /\ ~Retired(r) /\ q.snap = "queued"
    <3> DEFINE req == [rest EXCEPT !.pc = IF runs[r].stale THEN "expire" ELSE "create"]
    <3>2. RequestKnows(req, runs', native')
      BY <2>2, <1>t DEF RequestKnows, Request
    <3>3. Become(c, req)
      BY <2>1, <2>5 DEF rest
    <3> QED BY <3>2, <3>3, <1>i, BecomeKnows
  <2>6. CASE ~(obs = "found" /\ ~Retired(r)) /\ ~(obs = "missing" /\ ~Retired(r) /\ q.snap = "queued")
    <3>1. Become(c, Continued(rest))
      BY <2>1, <2>6 DEF rest
    <3>2. RequestKnows(Continued(rest), runs', native')
      BY <2>2, <1>t, ContinuedKnows
    <3> QED BY <3>1, <3>2, <1>i, BecomeKnows
  <2> QED BY <2>4, <2>5, <2>6
<1>2. CASE ReconcileCreate(c)
  BY <1>2, <1>i, GotoKnows DEF ReconcileCreate
<1>3. CASE ReconcileObserveAgain(c)
  <2>1. PICK obs \in Observations(q.rid) :
            CASE obs = "found" -> Goto(c, "mark")
                [] obs = "missing" /\ runs[q.rid].stale -> Goto(c, "expire")
                [] OTHER -> Continue(c)
    BY <1>3 DEF ReconcileObserveAgain
  <2>2. CASE obs = "found"
    <3>1. native'[q.rid] # "absent" /\ Goto(c, "mark")
      BY <1>3, <2>1, <2>2, <1>q DEF ReconcileObserveAgain, Observations
    <3> QED BY <3>1, <1>i, GotoKnows
  <2>3. CASE obs = "missing" /\ runs[q.rid].stale
    <3>1. Goto(c, "expire")
      BY <2>1, <2>3
    <3> QED BY <3>1, <1>i, GotoKnows
  <2>4. CASE obs # "found" /\ ~(obs = "missing" /\ runs[q.rid].stale)
    <3>1. Continue(c)
      BY <2>1, <2>4
    <3> QED BY <3>1, <1>i, ContinueKnows
  <2> QED BY <2>2, <2>3, <2>4
<1>4. CASE MarkStarted(c)
  BY <1>4, <1>i, ReturnKnows, ContinueKnows DEF MarkStarted
<1>5. CASE ExpireStart(c)
  BY <1>5, <1>i, ContinueKnows DEF ExpireStart
<1>6. CASE CapacityRead(c)
  <2> DEFINE busy == {r \in Runs : Active(r) /\ runs[r].start = "started"}
             list == IF CapacityUnits >= Limit THEN busy ELSE {}
             req == [q EXCEPT !.pc = "settle", !.todo = list,
                              !.seen = {r \in list : runs[r].seen # "null"}]
  <2>1. Become(c, req)
    BY <1>6 DEF CapacityRead
  <2>2. req.pc = "settle" /\ req.todo = list
    BY <1>q DEF Request
  <2>3. \A r \in list : runs'[r].start # "none"
    BY DEF Mono, Exists, Active
  <2> HIDE DEF req, list
  <2>4. RequestKnows(req, runs', native')
    BY <2>2, <2>3, PlainKnows
  <2> QED BY <2>1, <2>4, <1>i, BecomeKnows
<1>7. CASE StatusRead(c)
  <2>1. CASE runs[q.rid].start = "started" /\ Active(q.rid)
    <3> DEFINE req == [q EXCEPT !.pc = "settle", !.todo = {q.rid},
                                !.seen = IF runs[q.rid].seen # "null" THEN {q.rid} ELSE {}]
    <3>1. Become(c, req)
      BY <1>7, <2>1 DEF StatusRead
    <3>2. req.pc = "settle" /\ req.todo = {q.rid}
      BY <1>q DEF Request
    <3>3. runs'[q.rid].start # "none"
      BY <2>1, <1>q DEF Mono, Exists
    <3> HIDE DEF req
    <3>4. RequestKnows(req, runs', native')
      BY <3>2, <3>3, PlainKnows
    <3> QED BY <3>1, <3>4, <1>i, BecomeKnows
  <2>2. CASE ~(runs[q.rid].start = "started" /\ Active(q.rid))
    BY <1>7, <2>2, <1>i, ReturnKnows DEF StatusRead
  <2> QED BY <2>1, <2>2
<1>8. CASE SettleObserve(c)
  <2>1. PICK r \in q.todo, obs \in {"found", "unavailable"} :
          LET rest == [q EXCEPT !.todo = @ \ {r}]
          IN  Become(c, IF obs = "found" /\ ~Retired(r)
                        THEN [rest EXCEPT !.pc = "natSettle", !.rid = r, !.obs = native[r]]
                        ELSE IF q.back = "status" THEN DefaultRequest ELSE rest)
    BY <1>8 DEF SettleObserve
  <2> DEFINE rest == [q EXCEPT !.todo = @ \ {r}]
  <2>2. native' = native /\ q.pc = "settle"
    BY <1>8 DEF SettleObserve
  <2>3. RequestKnows(rest, runs', native')
    BY <1>q, <1>t, <2>2 DEF RequestKnows, Request
  <2>4. RequestKnows([rest EXCEPT !.pc = "natSettle", !.rid = r, !.obs = native[r]], runs', native')
    BY <1>q, <1>t, <2>2 DEF RequestKnows, Request
  <2> HIDE DEF rest
  <2> QED BY <2>1, <2>3, <2>4, <1>i, DefaultKnows, BecomeKnows DEF rest
<1>9. CASE NativeSettle(c)
  <2> DEFINE req == [q EXCEPT !.pc = "settle", !.rid = DefaultRequest.rid,
                              !.obs = DefaultRequest.obs, !.seen = @ \ {q.rid}]
  <2>1. Return(c) \/ Become(c, req)
    BY <1>9 DEF NativeSettle
  <2>2. req.pc = "settle" /\ req.todo = q.todo
    BY <1>q DEF Request
  <2> HIDE DEF req
  <2>3. RequestKnows(req, runs', native')
    BY <2>2, <1>t, PlainKnows
  <2> QED BY <2>1, <2>3, <1>i, BecomeKnows, ReturnKnows
<1>10. CASE Admit(c)
  <2> DEFINE req == [DefaultRequest EXCEPT !.pc = "insert", !.wf = q.wf, !.key = q.key,
                                           !.exp = q.exp, !.ver = wf[q.wf].ver]
  <2>1. Return(c) \/ Become(c, req)
    BY <1>10 DEF Admit
  <2>2. req.pc = "insert" /\ req.todo = {}
    BY DEF DefaultRequest
  <2> HIDE DEF req
  <2>3. RequestKnows(req, runs', native')
    BY <2>2, PlainKnows
  <2> QED BY <2>1, <2>3, <1>i, BecomeKnows, ReturnKnows
<1>11. CASE InsertRun(c)
  <2>1. CASE InsertAdmits(q)
    <3>0. PICK r \in Runs :
             /\ runs' = [runs EXCEPT ![r] =
                   [wf |-> q.wf, ver |-> q.ver, key |-> q.key,
                    weight |-> PlanWeight(q.ver), start |-> "reserved",
                    outcome |-> "queued", stale |-> FALSE, seen |-> "null"]]
             /\ Become(c, [DefaultRequest EXCEPT !.pc = "create0", !.rid = r])
      BY <1>11, <2>1 DEF InsertRun
    <3>1. runs'[r].start = "reserved"
      BY <3>0 DEF TypeOK
    <3>2. RequestKnows([DefaultRequest EXCEPT !.pc = "create0", !.rid = r], runs', native')
      BY <3>1 DEF RequestKnows, DefaultRequest
    <3> QED BY <3>0, <3>2, <1>i, BecomeKnows
  <2>2. CASE ~InsertAdmits(q)
    BY <1>11, <2>2, <1>i, ReplayKnows, ReturnKnows DEF InsertRun, KeyedRuns
  <2> QED BY <2>1, <2>2
<1>12. CASE CreateNative(c)
  <2>1. CASE Goto(c, "unknown")
    BY <1>12, <2>1, <1>i, GotoKnows DEF CreateNative
  <2>2. CASE native' # native /\ Goto(c, "mark0")
    <3>1. native'[q.rid] # "absent"
      BY <1>12, <2>2, <1>q DEF CreateNative, CreateEffect, TypeOK
    <3> QED BY <2>2, <3>1, <1>i, GotoKnows
  <2> QED BY <1>12, <2>1, <2>2 DEF CreateNative
<1>13. CASE StartUnknown(c)
  <2>1. Exists(q.rid) /\ Replay(c, q.rid)
    BY <1>13, <1>i DEF StartUnknown, Informed, RequestKnows, Exists
  <2> QED BY <2>1, <1>q, <1>i, ReplayKnows
<1> QED
  BY <1>1, <1>2, <1>3, <1>4, <1>5, <1>6, <1>7, <1>8, <1>9, <1>10, <1>11, <1>12, <1>13
  DEF Serve

\* The parts of the invariant that speak of a Run and its instance.
Owned == \A r \in Runs :
    /\ ~Exists(r) => native[r] = "absent"
    /\ runner[r] # "off" => native[r] = "live"
    /\ runner[r] = "exec" => runs[r].outcome = "running"
    /\ runs[r].start = "started" => native[r] # "absent"

\* The invariant is what the tables owe the instances and what the requests know.
LEMMA InvParts == AdmissionInv <=> Owned /\ Informed
BY DEF AdmissionInv, Owned, Informed, ExecOwnsRun, StartedIsReal

\* A row whose update keeps what the instance relies on.
LEMMA RowUpdateOwned ==
  ASSUME TypeOK, Owned, NEW s \in Runs, NEW row, runs' = [runs EXCEPT ![s] = row],
         UNCHANGED <<native, runner>>,
         row.start = "none" => runs[s].start = "none",
         row.start = "started" => runs[s].start = "started" \/ native[s] # "absent",
         runner[s] = "exec" => row.outcome = "running"
  PROVE  Owned'
BY DEF TypeOK, Owned, Exists

\* No step of a request takes a Run away from the instance that executes it.
LEMMA ServeOwned ==
  ASSUME TypeOK, AdmissionInv, NEW c \in Callers, Serve(c)
  PROVE  Owned'
<1> DEFINE q == caller[c]
<1>i. Owned /\ RequestKnows(q, runs, native)
  BY InvParts DEF Informed
<1>q. q \in Request /\ q.rid \in Runs /\ runs[q.rid] \in Row
  BY DEF TypeOK, Request
<1>e. runner[q.rid] = "exec" => runs[q.rid].outcome = "running"
  BY <1>i, <1>q DEF Owned
<1>1. CASE ReconcileCreate(c) \/ CreateNative(c)
  <2>1. Exists(q.rid) /\ CreateEffect(q.rid) /\ UNCHANGED <<runs, runner>>
    BY <1>1, <1>i DEF ReconcileCreate, CreateNative, RequestKnows, Exists
  <2> QED BY <2>1, <1>i, <1>q DEF CreateEffect, Owned, Exists, TypeOK
<1>2. CASE MarkStarted(c)
  <2> DEFINE row == [runs[q.rid] EXCEPT !.start = IF @ \in Unstarted THEN "started" ELSE @]
  <2>1. runs' = [runs EXCEPT ![q.rid] = row] /\ UNCHANGED <<native, runner>>
    BY <1>2 DEF MarkStarted
  <2>2. native[q.rid] # "absent"
    BY <1>2, <1>i DEF MarkStarted, RequestKnows
  <2>3. /\ row.start = "none" => runs[q.rid].start = "none"
        /\ row.outcome = runs[q.rid].outcome
    BY <1>q DEF Row, Unstarted
  <2> HIDE DEF row
  <2> QED BY <2>1, <2>2, <2>3, <1>i, <1>e, <1>q, RowUpdateOwned
<1>3. CASE ExpireStart(c)
  <2> DEFINE o == IF runs[q.rid].outcome = "queued" /\ runs[q.rid].start \in Unstarted
                     /\ runs[q.rid].stale
                  THEN "indeterminate" ELSE runs[q.rid].outcome
             row == [runs[q.rid] EXCEPT !.outcome = o]
  <2>1. runs' = [runs EXCEPT ![q.rid] = row] /\ UNCHANGED <<native, runner>>
    BY <1>3 DEF ExpireStart
  <2>2. row.start = runs[q.rid].start /\ (runs[q.rid].outcome = "running" => row.outcome = "running")
    BY <1>q DEF Row
  <2> HIDE DEF row
  <2> QED BY <2>1, <2>2, <1>i, <1>e, <1>q, RowUpdateOwned
<1>4. CASE NativeSettle(c)
  <2> DEFINE row == SettledRow(runs[q.rid], q.obs, q.rid \in q.seen)
  <2>1. runs' = [runs EXCEPT ![q.rid] = row] /\ UNCHANGED <<native, runner>>
    BY <1>4 DEF NativeSettle
  <2>2. /\ row.start = runs[q.rid].start
        /\ row.outcome = runs[q.rid].outcome \/ q.obs \in {"complete", "errored"}
    BY <1>q, SettledRowFacts
  <2>3. q.obs \in {"complete", "errored"} => native[q.rid] # "live"
    BY <1>4, <1>i DEF NativeSettle, RequestKnows
  <2>4. runner[q.rid] = "exec" => row.outcome = "running"
    BY <2>2, <2>3, <1>i, <1>q DEF Owned
  <2> HIDE DEF row
  <2> QED BY <2>1, <2>2, <2>4, <1>i, <1>q, RowUpdateOwned
<1>5. CASE InsertRun(c)
  <2>1. CASE InsertAdmits(q)
    <3>1. PICK r \in Runs :
             /\ ~Exists(r)
             /\ runs' = [runs EXCEPT ![r] =
                   [wf |-> q.wf, ver |-> q.ver, key |-> q.key,
                    weight |-> PlanWeight(q.ver), start |-> "reserved",
                    outcome |-> "queued", stale |-> FALSE, seen |-> "null"]]
      BY <1>5, <2>1 DEF InsertRun
    <3>2. UNCHANGED <<native, runner>>
      BY <1>5 DEF InsertRun
    <3>3. runner[r] # "exec"
      BY <3>1, <1>i DEF Owned
    <3> QED BY <3>1, <3>2, <3>3, <1>i, RowUpdateOwned
  <2>2. CASE ~InsertAdmits(q)
    BY <1>5, <2>2, <1>i DEF InsertRun, Owned, Exists
  <2> QED BY <2>1, <2>2
<1>6. CASE StartUnknown(c)
  <2> DEFINE row == [runs[q.rid] EXCEPT !.start = IF @ = "reserved" THEN "start_unknown" ELSE @]
  <2>1. runs' = [runs EXCEPT ![q.rid] = row] /\ UNCHANGED <<native, runner>>
    BY <1>6 DEF StartUnknown
  <2>3. /\ row.start = "none" => runs[q.rid].start = "none"
        /\ row.start = "started" => runs[q.rid].start = "started"
        /\ row.outcome = runs[q.rid].outcome
    BY <1>q DEF Row
  <2> HIDE DEF row
  <2> QED BY <2>1, <2>3, <1>i, <1>e, <1>q, RowUpdateOwned
<1>7. CASE \/ ReconcileObserve(c) \/ ReconcileObserveAgain(c) \/ CapacityRead(c)
           \/ StatusRead(c) \/ SettleObserve(c) \/ Admit(c)
  <2>1. UNCHANGED <<runs, native, runner>>
    BY <1>7 DEF ReconcileObserve, ReconcileObserveAgain, CapacityRead, StatusRead,
                SettleObserve, Admit
  <2> QED BY <2>1, <1>i DEF Owned, Exists
<1> QED BY <1>1, <1>2, <1>3, <1>4, <1>5, <1>6, <1>7 DEF Serve

\* An instance starts to execute only what it claimed, and stops when it ends.
LEMMA EngineOwned ==
  ASSUME TypeOK, Owned, NEW r \in Runs,
         Engine(r) \/ StartWindowPasses(r) \/ SettleWindowPasses(r)
  PROVE  Owned'
<1>r. runs[r] \in Row
  BY DEF TypeOK
<1>1. CASE InstanceAppears(r)
  BY <1>1 DEF InstanceAppears, Owned, Exists, TypeOK
<1>2. CASE RunnerLoad(r)
  <2>1. CASE ~Active(r) \/ Retired(r)
    BY <1>2, <2>1 DEF RunnerLoad, Owned, Exists, TypeOK
  <2>2. CASE Active(r) /\ ~Retired(r)
    <3>1. runs[r].outcome = "queued" \/ runs[r].outcome = "running"
      BY <2>2 DEF Active, ActiveOutcome
    <3> QED BY <1>2, <2>2, <3>1 DEF RunnerLoad, Owned, Exists, TypeOK
  <2> QED BY <2>1, <2>2
<1>3. CASE RunnerClaim(r)
  <2>1. CASE runs[r].outcome = "queued"
    BY <1>3, <2>1, <1>r DEF RunnerClaim, Owned, Exists, TypeOK, Row
  <2>2. CASE runs[r].outcome # "queued"
    BY <1>3, <2>2 DEF RunnerClaim, Owned, Exists, TypeOK
  <2> QED BY <2>1, <2>2
<1>4. CASE RunnerFinish(r)
  BY <1>4, <1>r DEF RunnerFinish, Owned, Exists, TypeOK, Row
<1>5. CASE RunnerThrows(r)
  BY <1>5, <1>r DEF RunnerThrows, Owned, Exists, TypeOK, Row
<1>6. CASE EngineReplays(r)
  BY <1>6 DEF EngineReplays, Owned, Exists, TypeOK
<1>7. CASE \E how \in {"complete", "errored"} : InstanceEnds(r, how)
  BY <1>7 DEF InstanceEnds, Owned, Exists, TypeOK
<1>8. CASE StartWindowPasses(r) \/ SettleWindowPasses(r)
  BY <1>8, <1>r DEF StartWindowPasses, SettleWindowPasses, Owned, Exists, TypeOK, Row
<1> QED BY <1>1, <1>2, <1>3, <1>4, <1>5, <1>6, <1>7, <1>8 DEF Engine

\* Every step preserves the inductive invariant.
LEMMA NextInv == TypeOK /\ AdmissionInv /\ [Next]_vars => AdmissionInv'
<1> SUFFICES ASSUME TypeOK, AdmissionInv, [Next]_vars PROVE AdmissionInv'
  OBVIOUS
<1>o. Owned /\ Informed
  BY InvParts
<1>m. Mono
  BY <1>o, Monotone DEF Owned
<1>s. ASSUME Owned', Informed' PROVE AdmissionInv'
  BY <1>s DEF AdmissionInv, Owned, Informed, ExecOwnsRun, StartedIsReal
<1>u. ASSUME UNCHANGED <<runs, native, runner>> PROVE Owned'
  BY <1>u, <1>o DEF Owned, Exists
<1>1. ASSUME NEW c \in Callers, Serve(c) PROVE AdmissionInv'
  BY <1>1, <1>m, <1>s, ServeOwned, ServeKnows
<1>2. ASSUME NEW c \in Callers,
             \/ RequestDies(c)
             \/ \E w \in Workflows, k \in Keys, p \in Origins : StartCall(c, w, k, p)
             \/ \E w \in Workflows, k \in Keys : StartReplay(c, w, k)
             \/ \E r \in Runs : StatusCall(c, r)
      PROVE  AdmissionInv'
  <2>1. UNCHANGED <<runs, native, runner>>
    BY <1>2 DEF RequestDies, StartCall, StartReplay, StatusCall
  <2> QED BY <1>2, <2>1, <1>m, <1>o, <1>s, <1>u, CallKnows
<1>3. ASSUME NEW w \in Workflows, Publish(w) \/ Pause(w) \/ Resume(w) \/ Delete(w)
      PROVE  AdmissionInv'
  <2>1. UNCHANGED <<runs, native, runner, caller>>
    BY <1>3 DEF Publish, Pause, Resume, Delete
  <2> QED BY <2>1, <1>m, <1>o, <1>s, <1>u, OthersKnow
<1>4. ASSUME NEW r \in Runs, Engine(r) \/ StartWindowPasses(r) \/ SettleWindowPasses(r)
      PROVE  AdmissionInv'
  <2>1. caller' = caller
    BY <1>4 DEF Engine, StartWindowPasses, SettleWindowPasses, InstanceAppears, RunnerLoad,
                RunnerClaim, RunnerFinish, RunnerThrows, EngineReplays, InstanceEnds
  <2> QED BY <1>4, <2>1, <1>m, <1>o, <1>s, EngineOwned, OthersKnow
<1>5. CASE UNCHANGED vars
  BY <1>5, <1>m, <1>o, <1>s, <1>u, OthersKnow DEF vars
<1> QED BY <1>1, <1>2, <1>3, <1>4, <1>5 DEF Next

\* The inductive invariant of admission: in every reachable state what a request learnt
\* about the engine before an await is still true when it acts on it.
THEOREM AdmissionInvariant == Spec => [](TypeOK /\ AdmissionInv)
<1>1. Init => TypeOK /\ AdmissionInv
  BY InitType, InitInv
<1>2. TypeOK /\ AdmissionInv /\ [Next]_vars => (TypeOK /\ AdmissionInv)'
  BY NextType, NextInv
<1> QED BY <1>1, <1>2, PTL DEF Spec

\* No business step runs for a Run D1 has given up, settled or not yet claimed, for
\* any number of requests, Runs and engine replays.
THEOREM ExecutionOwned == Spec => []ExecOwnsRun
<1>1. AdmissionInv => ExecOwnsRun
  BY DEF AdmissionInv
<1> QED BY <1>1, AdmissionInvariant, PTL

\* A start is only recorded for an instance the engine accepted.
THEOREM StartsAreReal == Spec => []StartedIsReal
<1>1. AdmissionInv => StartedIsReal
  BY DEF AdmissionInv
<1> QED BY <1>1, AdmissionInvariant, PTL
-----------------------------------------------------------------------------
(***************************************************************************)
(* The capacity limit and the quietness of deleted workflows, for every    *)
(* set of Runs, requests, keys and workflows and every limit.              *)
(*                                                                         *)
(* The argument: the guarded INSERT is the only step that makes a Run      *)
(* active or leaves its start open; every other step only settles.         *)
(***************************************************************************)

\* A step after which no more Runs are active or unstarted than before it.
Settles == \A r \in Runs :
    /\ runs'[r].wf = runs[r].wf /\ runs'[r].weight = runs[r].weight
    /\ runs'[r].start # "none" => runs[r].start # "none"
    /\ runs'[r].outcome \in ActiveOutcome => runs[r].outcome \in ActiveOutcome
    /\ runs'[r].start \in Unstarted => runs[r].start \in Unstarted

\* The step by which an admission takes its capacity.
Reserves == \E c \in Callers, r \in Runs :
    LET q == caller[c]
    IN  /\ InsertAdmits(q) /\ ~Exists(r) /\ wf' = wf
        /\ runs' = [runs EXCEPT ![r] =
              [wf |-> q.wf, ver |-> q.ver, key |-> q.key,
               weight |-> PlanWeight(q.ver), start |-> "reserved",
               outcome |-> "queued", stale |-> FALSE, seen |-> "null"]]

\* An update that leaves an active or unsettled row no more active or unsettled settles.
LEMMA RowSettles ==
  ASSUME TypeOK, NEW s \in Runs, NEW row, runs' = [runs EXCEPT ![s] = row],
         row.wf = runs[s].wf, row.weight = runs[s].weight,
         row.start # "none" => runs[s].start # "none",
         row.outcome \in ActiveOutcome => runs[s].outcome \in ActiveOutcome,
         row.start \in Unstarted => runs[s].start \in Unstarted
  PROVE  Settles
BY DEF TypeOK, Settles

\* A step that leaves the runs table alone settles.
LEMMA SameRowsSettle ==
  ASSUME runs' = runs
  PROVE  Settles
BY DEF Settles

\* A step of a request either settles rows or is the atomic reservation of start.
LEMMA ServeSettles ==
  ASSUME TypeOK, NEW c \in Callers, Serve(c)
  PROVE  Settles \/ Reserves
<1> DEFINE q == caller[c]
<1>q. q.rid \in Runs /\ runs[q.rid] \in Row
  BY DEF TypeOK, Request
<1>1. CASE MarkStarted(c)
  <2> DEFINE row == [runs[q.rid] EXCEPT !.start = IF @ \in Unstarted THEN "started" ELSE @]
  <2>1. runs' = [runs EXCEPT ![q.rid] = row]
    BY <1>1 DEF MarkStarted
  <2>2. /\ row.wf = runs[q.rid].wf /\ row.weight = runs[q.rid].weight
        /\ row.outcome = runs[q.rid].outcome
        /\ row.start # "none" => runs[q.rid].start # "none"
        /\ row.start \in Unstarted => runs[q.rid].start \in Unstarted
    BY <1>q DEF Row, Unstarted
  <2> HIDE DEF row
  <2> QED BY <2>1, <2>2, <1>q, RowSettles
<1>2. CASE ExpireStart(c)
  <2> DEFINE o == IF runs[q.rid].outcome = "queued" /\ runs[q.rid].start \in Unstarted
                     /\ runs[q.rid].stale
                  THEN "indeterminate" ELSE runs[q.rid].outcome
             row == [runs[q.rid] EXCEPT !.outcome = o]
  <2>1. runs' = [runs EXCEPT ![q.rid] = row]
    BY <1>2 DEF ExpireStart
  <2>2. /\ row.wf = runs[q.rid].wf /\ row.weight = runs[q.rid].weight
        /\ row.start = runs[q.rid].start
        /\ row.outcome \in ActiveOutcome => runs[q.rid].outcome \in ActiveOutcome
    BY <1>q DEF Row, ActiveOutcome
  <2> HIDE DEF row
  <2> QED BY <2>1, <2>2, <1>q, RowSettles
<1>3. CASE NativeSettle(c)
  <2> DEFINE row == SettledRow(runs[q.rid], q.obs, q.rid \in q.seen)
  <2>1. runs' = [runs EXCEPT ![q.rid] = row]
    BY <1>3 DEF NativeSettle
  <2>2. /\ row.wf = runs[q.rid].wf /\ row.weight = runs[q.rid].weight
        /\ row.start = runs[q.rid].start
        /\ row.outcome \in ActiveOutcome => runs[q.rid].outcome \in ActiveOutcome
    BY <1>q, SettledRowFacts
  <2> HIDE DEF row
  <2> QED BY <2>1, <2>2, <1>q, RowSettles
<1>4. CASE StartUnknown(c)
  <2> DEFINE row == [runs[q.rid] EXCEPT !.start = IF @ = "reserved" THEN "start_unknown" ELSE @]
  <2>1. runs' = [runs EXCEPT ![q.rid] = row]
    BY <1>4 DEF StartUnknown
  <2>2. /\ row.wf = runs[q.rid].wf /\ row.weight = runs[q.rid].weight
        /\ row.outcome = runs[q.rid].outcome
        /\ row.start # "none" => runs[q.rid].start # "none"
        /\ row.start \in Unstarted => runs[q.rid].start \in Unstarted
    BY <1>q DEF Row, Unstarted
  <2> HIDE DEF row
  <2> QED BY <2>1, <2>2, <1>q, RowSettles
<1>5. CASE InsertRun(c)
  <2>1. CASE InsertAdmits(q)
    BY <1>5, <2>1 DEF InsertRun, Reserves
  <2>2. CASE ~InsertAdmits(q)
    BY <1>5, <2>2, SameRowsSettle DEF InsertRun
  <2> QED BY <2>1, <2>2
<1>6. CASE \/ ReconcileObserve(c) \/ ReconcileObserveAgain(c) \/ CapacityRead(c)
           \/ StatusRead(c) \/ SettleObserve(c) \/ Admit(c)
           \/ ReconcileCreate(c) \/ CreateNative(c)
  BY <1>6, SameRowsSettle
  DEF ReconcileObserve, ReconcileObserveAgain, CapacityRead, StatusRead,
      SettleObserve, Admit, ReconcileCreate, CreateNative
<1> QED BY <1>1, <1>2, <1>3, <1>4, <1>5, <1>6 DEF Serve

\* The instance and the clocks never make a settled Run active again.
LEMMA EngineSettles ==
  ASSUME TypeOK, NEW r \in Runs,
         Engine(r) \/ StartWindowPasses(r) \/ SettleWindowPasses(r)
  PROVE  Settles
<1>r. runs[r] \in Row
  BY DEF TypeOK
<1>1. CASE RunnerClaim(r)
  BY <1>1, <1>r DEF RunnerClaim, Settles, TypeOK, Row, ActiveOutcome
<1>2. CASE RunnerFinish(r)
  BY <1>2, <1>r DEF RunnerFinish, Settles, TypeOK, Row, ActiveOutcome
<1>3. CASE RunnerThrows(r)
  BY <1>3, <1>r DEF RunnerThrows, Settles, TypeOK, Row, ActiveOutcome
<1>4. CASE StartWindowPasses(r)
  BY <1>4, <1>r DEF StartWindowPasses, Settles, TypeOK, Row
<1>5. CASE SettleWindowPasses(r)
  BY <1>5, <1>r DEF SettleWindowPasses, Settles, TypeOK, Row
<1>6. CASE \/ InstanceAppears(r) \/ RunnerLoad(r) \/ EngineReplays(r)
           \/ \E how \in {"complete", "errored"} : InstanceEnds(r, how)
  BY <1>6, SameRowsSettle DEF InstanceAppears, RunnerLoad, EngineReplays, InstanceEnds
<1> QED BY <1>1, <1>2, <1>3, <1>4, <1>5, <1>6 DEF Engine

\* Every step either settles rows or is the atomic reservation of start.
LEMMA StepSettles ==
  ASSUME TypeOK, [Next]_vars
  PROVE  Settles \/ Reserves
<1>1. ASSUME NEW c \in Callers, Serve(c) PROVE Settles \/ Reserves
  BY <1>1, ServeSettles
<1>2. ASSUME NEW c \in Callers, RequestDies(c) PROVE runs' = runs
  BY <1>2 DEF RequestDies
<1>3. ASSUME NEW c \in Callers, NEW w \in Workflows, NEW k \in Keys, NEW p \in Origins,
             StartCall(c, w, k, p) \/ StartReplay(c, w, k)
      PROVE  runs' = runs
  BY <1>3 DEF StartCall, StartReplay
<1>4. ASSUME NEW c \in Callers, NEW w \in Workflows, NEW k \in Keys, StartReplay(c, w, k)
      PROVE  runs' = runs
  BY <1>4 DEF StartReplay
<1>5. ASSUME NEW c \in Callers, NEW r \in Runs, StatusCall(c, r) PROVE runs' = runs
  BY <1>5 DEF StatusCall
<1>6. ASSUME NEW w \in Workflows, Publish(w) \/ Pause(w) \/ Resume(w) \/ Delete(w)
      PROVE  runs' = runs
  BY <1>6 DEF Publish, Pause, Resume, Delete
<1>7. ASSUME NEW r \in Runs, Engine(r) \/ StartWindowPasses(r) \/ SettleWindowPasses(r)
      PROVE  Settles
  BY <1>7, EngineSettles
<1>8. CASE UNCHANGED vars
  BY <1>8, SameRowsSettle DEF vars
<1> QED
  BY <1>1, <1>2, <1>3, <1>4, <1>5, <1>6, <1>7, <1>8, SameRowsSettle DEF Next

-----------------------------------------------------------------------------
(* Capacity *)

\* The capacity in use is a number.
LEMMA UnitsFinite == IsFiniteSet(Units) /\ Cardinality(Units) \in Nat
<1>1. IsFiniteSet({1, 2})
  <2>1. IsFiniteSet({1} \cup {2})
    BY FS_Singleton, FS_AddElement
  <2> QED BY <2>1
<1>2. IsFiniteSet(Runs \X {1, 2})
  BY <1>1, RunsFinite, FS_Product
<1>3. Units \in SUBSET (Runs \X {1, 2})
  BY DEF Units
<1> QED BY <1>2, <1>3, FS_Subset, FS_CardinalityType

\* Leftover Runs fit the limit.
LEMMA InitCapacity == Init => CapacityBound
<1> SUFFICES ASSUME Init PROVE CapacityUnits <= Limit
  BY DEF CapacityBound
<1>1. \A r \in Runs : (Exists(r) <=> r \in Legacy) /\ runs[r].weight = 1
  <2>1. NoRow.weight = 1
    BY DEF NoRow
  <2>2. \A s \in {"start_unknown", "started"}, o \in {"queued", "failed"} :
           [NoRow EXCEPT !.start = s, !.outcome = o, !.stale = TRUE].weight = 1
    BY DEF NoRow
  <2>3. ASSUME NEW r \in Runs PROVE runs[r].weight = 1
    <3>1. \/ runs[r] = NoRow
          \/ \E s \in {"start_unknown", "started"}, o \in {"queued", "failed"} :
                runs[r] = [NoRow EXCEPT !.start = s, !.outcome = o, !.stale = TRUE]
      BY DEF Init
    <3> QED BY <3>1, <2>1, <2>2
  <2> QED BY <2>3 DEF Init
<1>2. \A u \in Units : u = <<u[1], 1>> /\ u[1] \in Legacy
  BY <1>1 DEF Units, Active
<1> DEFINE f == [u \in Units |-> u[1]]
<1>3. f \in Injection(Units, Legacy)
  BY <1>2 DEF Injection, IsInjective
<1>4. IsFiniteSet(Legacy) /\ Cardinality(Legacy) \in Nat
  BY RunsFinite, LegacyAssumption, FS_Subset, FS_CardinalityType
<1>5. Cardinality(Units) <= Cardinality(Legacy)
  BY <1>3, <1>4, FS_Injection
<1> QED BY <1>4, <1>5, UnitsFinite, LegacyAssumption, LimitAssumption DEF CapacityUnits

\* No step exceeds the limit: only the reservation adds units, under its own predicate.
LEMMA NextCapacity == TypeOK /\ CapacityBound /\ [Next]_vars => CapacityBound'
<1> SUFFICES ASSUME TypeOK, CapacityBound, [Next]_vars PROVE CapacityUnits' <= Limit
  BY DEF CapacityBound
<1>f. IsFiniteSet(Units) /\ Cardinality(Units) \in Nat /\ CapacityUnits = Cardinality(Units)
  BY UnitsFinite DEF CapacityUnits
<1>1. CASE Settles
  <2>1. Units' \in SUBSET Units
    BY <1>1 DEF Settles, Units, Active, Exists
  <2>2. Cardinality(Units') <= Cardinality(Units) /\ Cardinality(Units') \in Nat
    BY <2>1, <1>f, FS_Subset, FS_CardinalityType
  <2> QED BY <2>2, <1>f, LimitAssumption DEF CapacityBound, CapacityUnits
<1>2. CASE Reserves
  <2>1. PICK c \in Callers, r \in Runs :
          LET q == caller[c]
          IN  /\ InsertAdmits(q) /\ ~Exists(r)
              /\ runs' = [runs EXCEPT ![r] =
                    [wf |-> q.wf, ver |-> q.ver, key |-> q.key,
                     weight |-> PlanWeight(q.ver), start |-> "reserved",
                     outcome |-> "queued", stale |-> FALSE, seen |-> "null"]]
    BY <1>2 DEF Reserves
  <2> DEFINE weight == PlanWeight(caller[c].ver)
             new == {<<r, 1>>} \cup (IF weight = 2 THEN {<<r, 2>>} ELSE {})
  <2>2. weight \in {1, 2}
    BY DEF PlanWeight
  <2>3. IsFiniteSet(new) /\ Cardinality(new) = weight
    <3>1. IsFiniteSet({<<r, 1>>}) /\ Cardinality({<<r, 1>>}) = 1
      BY FS_Singleton
    <3>2. CASE weight = 1
      <4>1. new = {<<r, 1>>}
        BY <3>2
      <4> QED BY <3>1, <3>2, <4>1
    <3>3. CASE weight = 2
      <4>1. new = {<<r, 1>>} \cup {<<r, 2>>} /\ <<r, 2>> \notin {<<r, 1>>}
        BY <3>3
      <4>2. /\ IsFiniteSet({<<r, 1>>} \cup {<<r, 2>>})
            /\ Cardinality({<<r, 1>>} \cup {<<r, 2>>}) = 1 + 1
        BY <3>1, <4>1, FS_AddElement
      <4> HIDE DEF new
      <4> QED BY <3>3, <4>1, <4>2
    <3> QED BY <2>2, <3>2, <3>3
  <2>4. Units' \subseteq Units \cup new
    <3> SUFFICES ASSUME NEW u \in Units', u[1] # r \/ u \notin new PROVE u \in Units
      BY DEF Units
    <3>1. u \in Runs \X {1, 2} /\ Active(u[1])' /\ u[2] <= runs'[u[1]].weight
      BY DEF Units
    <3>2. CASE u[1] # r
      BY <3>1, <3>2, <2>1 DEF Units, Active, Exists, TypeOK
    <3>3. CASE u[1] = r
      <4>1. runs'[r].weight = weight
        BY <2>1 DEF TypeOK
      <4>2. u = <<r, 1>> \/ u = <<r, 2>>
        BY <3>1, <3>3
      <4>3. u[2] <= weight
        BY <3>1, <3>3, <4>1
      <4>4. u = <<r, 1>> \/ (u = <<r, 2>> /\ weight = 2)
        BY <4>2, <4>3, <2>2
      <4>5. u \in new
        BY <4>4
      <4> QED BY <3>3, <4>5
    <3> QED BY <3>2, <3>3
  <2> HIDE DEF new, weight
  <2>5. IsFiniteSet(Units \cup new) /\ Cardinality(Units \cup new) <= Cardinality(Units) + weight
    <3>1. IsFiniteSet(Units \cap new) /\ Cardinality(Units \cap new) \in Nat
      BY <1>f, FS_Intersection, FS_CardinalityType
    <3>2. /\ IsFiniteSet(Units \cup new)
          /\ Cardinality(Units \cup new) =
                Cardinality(Units) + Cardinality(new) - Cardinality(Units \cap new)
      BY <1>f, <2>3, FS_Union
    <3> QED BY <3>1, <3>2, <1>f, <2>2, <2>3
  <2>6. Cardinality(Units') <= Cardinality(Units \cup new)
    BY <2>4, <2>5, FS_Subset
  <2>7. Cardinality(Units') \in Nat /\ Cardinality(Units \cup new) \in Nat
    BY <2>4, <2>5, FS_Subset, FS_CardinalityType
  <2>8. Cardinality(Units) + weight <= Limit
    BY <2>1 DEF InsertAdmits, CapacityAdmits, CapacityUnits, weight
  <2> QED BY <2>2, <2>5, <2>6, <2>7, <2>8, <1>f, LimitAssumption DEF CapacityUnits
<1> QED BY <1>1, <1>2, StepSettles

\* The active Runs never weigh more than the limit, for any number of concurrent
\* admissions, workflows and versions.
THEOREM CapacityRespected == Spec => []CapacityBound
<1>1. Init => TypeOK /\ CapacityBound
  BY InitType, InitCapacity
<1>2. TypeOK /\ CapacityBound /\ [Next]_vars => (TypeOK /\ CapacityBound)'
  BY NextType, NextCapacity
<1> QED BY <1>1, <1>2, PTL DEF Spec

-----------------------------------------------------------------------------
(* Deleted workflows *)

\* Only the owner's operations change the workflows table.
LEMMA OwnerOnly ==
  ASSUME [Next]_vars
  PROVE  \/ wf' = wf
         \/ runs' = runs /\ \E w \in Workflows : Publish(w) \/ Pause(w) \/ Resume(w) \/ Delete(w)
<1>1. ASSUME NEW c \in Callers, Serve(c) \/ RequestDies(c) PROVE wf' = wf
  BY <1>1 DEF Serve, RequestDies, ReconcileObserve, ReconcileCreate, ReconcileObserveAgain,
              MarkStarted, ExpireStart, CapacityRead, StatusRead, SettleObserve,
              NativeSettle, Admit, InsertRun, CreateNative, StartUnknown
<1>2. ASSUME NEW c \in Callers, NEW w \in Workflows, NEW k \in Keys, NEW p \in Origins,
             StartCall(c, w, k, p)
      PROVE  wf' = wf
  BY <1>2 DEF StartCall
<1>3. ASSUME NEW c \in Callers, NEW w \in Workflows, NEW k \in Keys, StartReplay(c, w, k)
      PROVE  wf' = wf
  BY <1>3 DEF StartReplay
<1>4. ASSUME NEW c \in Callers, NEW r \in Runs, StatusCall(c, r) PROVE wf' = wf
  BY <1>4 DEF StatusCall
<1>5. ASSUME NEW r \in Runs, Engine(r) \/ StartWindowPasses(r) \/ SettleWindowPasses(r)
      PROVE  wf' = wf
  BY <1>5 DEF Engine, StartWindowPasses, SettleWindowPasses, InstanceAppears, RunnerLoad,
              RunnerClaim, RunnerFinish, RunnerThrows, EngineReplays, InstanceEnds
<1>6. ASSUME NEW w \in Workflows, Publish(w) \/ Pause(w) \/ Resume(w) \/ Delete(w)
      PROVE  runs' = runs
  BY <1>6 DEF Publish, Pause, Resume, Delete
<1> QED BY <1>1, <1>2, <1>3, <1>4, <1>5, <1>6 DEF Next, vars

\* No step makes a deleted workflow busy: the reservation re-reads the workflow, the
\* tombstone re-reads the Runs.
LEMMA NextDeleted == TypeOK /\ DeletedIsQuiet /\ [Next]_vars => DeletedIsQuiet'
<1> SUFFICES ASSUME TypeOK, DeletedIsQuiet, [Next]_vars,
                    NEW w \in Workflows, wf'[w].deleted
             PROVE  Unsettled(w)' = {}
  BY DEF DeletedIsQuiet
<1>1. CASE wf' = wf /\ Settles
  <2>1. Unsettled(w)' \subseteq Unsettled(w)
    BY <1>1 DEF Settles, Unsettled, Exists
  <2>2. Unsettled(w) = {}
    BY <1>1 DEF DeletedIsQuiet
  <2> QED BY <2>1, <2>2
<1>2. CASE Reserves
  <2>1. PICK c \in Callers, r \in Runs :
          /\ ~wf[caller[c].wf].deleted /\ wf' = wf
          /\ runs' = [runs EXCEPT ![r] =
                [wf |-> caller[c].wf, ver |-> caller[c].ver, key |-> caller[c].key,
                 weight |-> PlanWeight(caller[c].ver), start |-> "reserved",
                 outcome |-> "queued", stale |-> FALSE, seen |-> "null"]]
    BY <1>2 DEF Reserves, InsertAdmits
  <2>2. caller[c].wf # w /\ Unsettled(w) = {}
    BY <2>1 DEF DeletedIsQuiet
  <2>3. runs'[r].wf # w /\ \A s \in Runs : s # r => runs'[s] = runs[s]
    BY <2>1, <2>2 DEF TypeOK
  <2> QED BY <2>2, <2>3 DEF Unsettled, Exists
<1>3. ASSUME runs' = runs, NEW v \in Workflows, Publish(v) \/ Pause(v) \/ Resume(v) \/ Delete(v)
      PROVE  Unsettled(w)' = {}
  <2>1. Unsettled(w)' = Unsettled(w)
    BY <1>3 DEF Unsettled, Exists
  <2>2. CASE Publish(v) \/ Pause(v) \/ Resume(v)
    <3>1. wf[w].deleted
      BY <2>2 DEF Publish, Pause, Resume, TypeOK, Workflow
    <3> QED BY <2>1, <3>1 DEF DeletedIsQuiet
  <2>3. CASE Delete(v)
    <3>1. CASE v = w
      BY <2>1, <2>3, <3>1 DEF Delete, Deletable
    <3>2. CASE v # w
      BY <2>1, <2>3, <3>2 DEF Delete, DeletedIsQuiet, TypeOK
    <3> QED BY <3>1, <3>2
  <2> QED BY <1>3, <2>2, <2>3
<1> QED BY <1>1, <1>2, <1>3, StepSettles, OwnerOnly

\* Nothing is deleted initially.
LEMMA InitDeleted == Init => DeletedIsQuiet
BY DEF Init, DeletedIsQuiet

\* A deleted workflow has nothing left that runs or may still start, whatever was
\* read of it before it was deleted.
THEOREM DeletedStaysQuiet == Spec => []DeletedIsQuiet
<1>1. Init => TypeOK /\ DeletedIsQuiet
  BY InitType, InitDeleted
<1>2. TypeOK /\ DeletedIsQuiet /\ [Next]_vars => (TypeOK /\ DeletedIsQuiet)'
  BY NextType, NextDeleted
<1> QED BY <1>1, <1>2, PTL DEF Spec

-----------------------------------------------------------------------------
(* Rows, keys and the Runs of retired versions *)

\* Where a request is about to write the row or to create the instance of its rid.
Writing == {"create", "observe2", "mark", "expire", "natSettle", "create0", "mark0", "unknown"}

\* A Run left over from a retired version is never touched: its row is as it was found, its
\* instance runs nothing, and no request is about to write or create it.
LegacyRow(r) ==
    /\ Exists(r) /\ runs[r].ver \in RetiredVersions /\ runs[r].stale /\ runs[r].seen = "null"
    /\ runner[r] = "off"
Harmless(req) == req.pc \in Writing => req.rid \notin Legacy
LegacySafe == /\ \A r \in Legacy : LegacyRow(r)
              /\ \A c \in Callers : Harmless(caller[c])

\* What D1 settled and what an admission bound stay, and no row appears.
Bound(r) ==
    /\ runs'[r].wf = runs[r].wf /\ runs'[r].ver = runs[r].ver
    /\ runs'[r].key = runs[r].key /\ runs'[r].weight = runs[r].weight
    /\ runs'[r].start = "none" <=> runs[r].start = "none"
    /\ runs[r].outcome \in Terminal => runs'[r].outcome = runs[r].outcome
    /\ runs[r].start = "started" => runs'[r].start = "started"

\* A step that updates rows; rows of retired versions stay as they are.
Updates == \A r \in Runs : Bound(r) /\ (r \in Legacy => runs'[r] = runs[r])

\* A step that keeps the instances of retired versions out of the engine.
Uncreated == \A r \in Legacy : native[r] = "absent" => native'[r] = "absent"

\* A guarded UPDATE of one row.
LEMMA RowUpdates ==
  ASSUME TypeOK, NEW s \in Runs, NEW row, runs' = [runs EXCEPT ![s] = row],
         s \in Legacy => row = runs[s],
         row.wf = runs[s].wf, row.ver = runs[s].ver, row.key = runs[s].key, row.weight = runs[s].weight,
         (row.start = "none") <=> (runs[s].start = "none"),
         runs[s].outcome \in Terminal => row.outcome = runs[s].outcome,
         runs[s].start = "started" => row.start = "started"
  PROVE  Updates
BY DEF TypeOK, Updates, Bound

\* A step that leaves the runs table alone.
LEMMA SameRowsUpdate ==
  ASSUME runs' = runs
  PROVE  Updates
BY DEF Updates, Bound

\* The four fields that name an admission, and the two that settle it.
LEMMA RowFields ==
  ASSUME NEW row \in Row
  PROVE  /\ \A v : LET p == [row EXCEPT !.start = v] IN
              /\ p.wf = row.wf /\ p.ver = row.ver /\ p.key = row.key /\ p.weight = row.weight
              /\ p.start = v /\ p.outcome = row.outcome /\ p.stale = row.stale /\ p.seen = row.seen
         /\ \A v : LET p == [row EXCEPT !.outcome = v] IN
              /\ p.wf = row.wf /\ p.ver = row.ver /\ p.key = row.key /\ p.weight = row.weight
              /\ p.start = row.start /\ p.outcome = v /\ p.stale = row.stale /\ p.seen = row.seen
         /\ \A v : LET p == [row EXCEPT !.stale = v] IN
              /\ p.wf = row.wf /\ p.ver = row.ver /\ p.key = row.key /\ p.weight = row.weight
              /\ p.start = row.start /\ p.outcome = row.outcome /\ p.stale = v /\ p.seen = row.seen
         /\ \A v : LET p == [row EXCEPT !.seen = v] IN
              /\ p.wf = row.wf /\ p.ver = row.ver /\ p.key = row.key /\ p.weight = row.weight
              /\ p.start = row.start /\ p.outcome = row.outcome /\ p.stale = row.stale /\ p.seen = v
BY DEF Row

\* The requests write rows that no retired version owns, and only by guarded updates or the
\* one INSERT.
LEMMA ServeUpdates ==
  ASSUME TypeOK, LegacySafe, NEW c \in Callers, Serve(c)
  PROVE  Updates \/ (Reserves /\ native' = native)
<1> DEFINE q == caller[c]
<1>q. q.rid \in Runs /\ runs[q.rid] \in Row /\ Harmless(q)
  BY DEF TypeOK, Request, LegacySafe
<1>1. CASE MarkStarted(c)
  <2> DEFINE v == IF runs[q.rid].start \in Unstarted THEN "started" ELSE runs[q.rid].start
             row == [runs[q.rid] EXCEPT !.start = v]
  <2>1. runs' = [runs EXCEPT ![q.rid] = row] /\ q.rid \notin Legacy
    BY <1>1, <1>q DEF MarkStarted, Harmless, Writing, TypeOK
  <2>2. /\ row.wf = runs[q.rid].wf /\ row.ver = runs[q.rid].ver /\ row.key = runs[q.rid].key
        /\ row.weight = runs[q.rid].weight /\ row.outcome = runs[q.rid].outcome /\ row.start = v
    BY <1>q, RowFields
  <2>3. /\ (v = "none") <=> (runs[q.rid].start = "none")
        /\ runs[q.rid].start = "started" => v = "started"
    BY DEF Unstarted
  <2> HIDE DEF row, v
  <2> QED BY <2>1, <2>2, <2>3, <1>q, RowUpdates
<1>2. CASE ExpireStart(c)
  <2> DEFINE v == IF runs[q.rid].outcome = "queued" /\ runs[q.rid].start \in Unstarted
                     /\ runs[q.rid].stale
                  THEN "indeterminate" ELSE runs[q.rid].outcome
             row == [runs[q.rid] EXCEPT !.outcome = v]
  <2>1. runs' = [runs EXCEPT ![q.rid] = row] /\ q.rid \notin Legacy
    BY <1>2, <1>q DEF ExpireStart, Harmless, Writing, TypeOK
  <2>2. /\ row.wf = runs[q.rid].wf /\ row.ver = runs[q.rid].ver /\ row.key = runs[q.rid].key
        /\ row.weight = runs[q.rid].weight /\ row.outcome = v /\ row.start = runs[q.rid].start
    BY <1>q, RowFields
  <2>3. runs[q.rid].outcome \in Terminal => v = runs[q.rid].outcome
    BY DEF Terminal
  <2> HIDE DEF row, v
  <2> QED BY <2>1, <2>2, <2>3, <1>q, RowUpdates
<1>3. CASE NativeSettle(c)
  <2> DEFINE row == SettledRow(runs[q.rid], q.obs, q.rid \in q.seen)
  <2>1. runs' = [runs EXCEPT ![q.rid] = row] /\ q.rid \notin Legacy
    BY <1>3, <1>q DEF NativeSettle, Harmless, Writing, TypeOK
  <2>2. /\ row.wf = runs[q.rid].wf /\ row.ver = runs[q.rid].ver /\ row.key = runs[q.rid].key
        /\ row.weight = runs[q.rid].weight /\ row.start = runs[q.rid].start
        /\ runs[q.rid].outcome \in Terminal => row.outcome = runs[q.rid].outcome
    BY <1>q, SettledRowFacts DEF Terminal, ActiveOutcome
  <2> HIDE DEF row
  <2> QED BY <2>1, <2>2, <1>q, RowUpdates
<1>4. CASE StartUnknown(c)
  <2> DEFINE v == IF runs[q.rid].start = "reserved" THEN "start_unknown" ELSE runs[q.rid].start
             row == [runs[q.rid] EXCEPT !.start = v]
  <2>1. runs' = [runs EXCEPT ![q.rid] = row] /\ q.rid \notin Legacy
    BY <1>4, <1>q DEF StartUnknown, Harmless, Writing, TypeOK
  <2>2. /\ row.wf = runs[q.rid].wf /\ row.ver = runs[q.rid].ver /\ row.key = runs[q.rid].key
        /\ row.weight = runs[q.rid].weight /\ row.outcome = runs[q.rid].outcome /\ row.start = v
    BY <1>q, RowFields
  <2>3. /\ (v = "none") <=> (runs[q.rid].start = "none")
        /\ runs[q.rid].start = "started" => v = "started"
    OBVIOUS
  <2> HIDE DEF row, v
  <2> QED BY <2>1, <2>2, <2>3, <1>q, RowUpdates
<1>5. CASE InsertRun(c)
  <2>1. CASE InsertAdmits(q)
    <3>1. /\ wf' = wf /\ native' = native
          /\ \E r \in Runs :
                /\ ~Exists(r)
                /\ runs' = [runs EXCEPT ![r] =
                      [wf |-> q.wf, ver |-> q.ver, key |-> q.key,
                       weight |-> PlanWeight(q.ver), start |-> "reserved",
                       outcome |-> "queued", stale |-> FALSE, seen |-> "null"]]
      BY <1>5, <2>1 DEF InsertRun
    <3> QED BY <2>1, <3>1 DEF Reserves
  <2>2. CASE ~InsertAdmits(q)
    <3>1. runs' = runs
      BY <1>5, <2>2 DEF InsertRun
    <3> QED BY <3>1, SameRowsUpdate
  <2> QED BY <2>1, <2>2
<1>6. CASE \/ ReconcileObserve(c) \/ ReconcileObserveAgain(c) \/ CapacityRead(c)
           \/ StatusRead(c) \/ SettleObserve(c) \/ Admit(c)
           \/ ReconcileCreate(c) \/ CreateNative(c)
  <2>1. runs' = runs
    BY <1>6 DEF ReconcileObserve, ReconcileObserveAgain, CapacityRead, StatusRead,
                SettleObserve, Admit, ReconcileCreate, CreateNative
  <2> QED BY <2>1, SameRowsUpdate
<1> QED BY <1>1, <1>2, <1>3, <1>4, <1>5, <1>6 DEF Serve

\* The engine's instance, run() and the two windows update only rows they still own; a Run of
\* a retired version never gets that far.
LEMMA EngineUpdates ==
  ASSUME TypeOK, LegacySafe, NEW r \in Runs,
         Engine(r) \/ StartWindowPasses(r) \/ SettleWindowPasses(r)
  PROVE  Updates
<1>r. runs[r] \in Row /\ (r \in Legacy => LegacyRow(r))
  BY DEF TypeOK, LegacySafe
<1>u. \A o : \/ runs[r].outcome \notin Terminal \/ o = runs[r].outcome
             => (r \notin Legacy /\ runs' = [runs EXCEPT ![r].outcome = o] => Updates)
  <2>1. SUFFICES ASSUME NEW o, runs[r].outcome \notin Terminal \/ o = runs[r].outcome, r \notin Legacy,
                        runs' = [runs EXCEPT ![r].outcome = o]
                 PROVE  Updates
    OBVIOUS
  <2> DEFINE row == [runs[r] EXCEPT !.outcome = o]
  <2>2. runs' = [runs EXCEPT ![r] = row]
    BY <2>1 DEF TypeOK
  <2>3. /\ row.wf = runs[r].wf /\ row.ver = runs[r].ver /\ row.key = runs[r].key
        /\ row.weight = runs[r].weight /\ row.outcome = o /\ row.start = runs[r].start
    BY <1>r, RowFields
  <2> HIDE DEF row
  <2> QED BY <2>1, <2>2, <2>3, RowUpdates
<1>1. CASE RunnerClaim(r)
  <2>1. r \notin Legacy
    BY <1>1, <1>r DEF RunnerClaim, LegacyRow
  <2> QED BY <1>1, <1>u, <2>1, SameRowsUpdate DEF RunnerClaim, Terminal
<1>2. CASE RunnerFinish(r) \/ RunnerThrows(r)
  <2>1. r \notin Legacy
    BY <1>2, <1>r DEF RunnerFinish, RunnerThrows, LegacyRow
  <2>2. \E o : /\ runs[r].outcome \notin Terminal \/ o = runs[r].outcome
               /\ runs' = [runs EXCEPT ![r].outcome = o]
    BY <1>2 DEF RunnerFinish, RunnerThrows, Terminal
  <2> QED BY <1>u, <2>1, <2>2
<1>4. CASE StartWindowPasses(r)
  <2> DEFINE row == [runs[r] EXCEPT !.stale = TRUE]
  <2>1. runs' = [runs EXCEPT ![r] = row] /\ r \notin Legacy
    BY <1>4, <1>r DEF StartWindowPasses, LegacyRow, TypeOK
  <2>2. /\ row.wf = runs[r].wf /\ row.ver = runs[r].ver /\ row.key = runs[r].key
        /\ row.weight = runs[r].weight /\ row.outcome = runs[r].outcome /\ row.start = runs[r].start
    BY <1>r, RowFields
  <2> HIDE DEF row
  <2> QED BY <2>1, <2>2, RowUpdates
<1>5. CASE SettleWindowPasses(r)
  <2> DEFINE row == [runs[r] EXCEPT !.seen = "old"]
  <2>1. runs' = [runs EXCEPT ![r] = row] /\ r \notin Legacy
    BY <1>5, <1>r DEF SettleWindowPasses, LegacyRow, TypeOK
  <2>2. /\ row.wf = runs[r].wf /\ row.ver = runs[r].ver /\ row.key = runs[r].key
        /\ row.weight = runs[r].weight /\ row.outcome = runs[r].outcome /\ row.start = runs[r].start
    BY <1>r, RowFields
  <2> HIDE DEF row
  <2> QED BY <2>1, <2>2, RowUpdates
<1>6. CASE \/ InstanceAppears(r) \/ RunnerLoad(r) \/ EngineReplays(r)
           \/ \E how \in {"complete", "errored"} : InstanceEnds(r, how)
  BY <1>6, SameRowsUpdate DEF InstanceAppears, RunnerLoad, EngineReplays, InstanceEnds
<1> QED BY <1>1, <1>2, <1>4, <1>5, <1>6 DEF Engine

\* A request with harmless locals leaves all of them harmless.
LEMMA BecomeHarmless ==
  ASSUME TypeOK, LegacySafe, NEW c \in Callers, NEW req, Harmless(req), Become(c, req)
  PROVE  \A d \in Callers : Harmless(caller'[d])
BY DEF TypeOK, LegacySafe, Become

\* A request that moves on with its locals, to a place where it writes nothing or from one
\* where it might already.
LEMMA GotoHarmless ==
  ASSUME TypeOK, LegacySafe, NEW c \in Callers, NEW pc, Goto(c, pc),
         pc \notin Writing \/ caller[c].pc \in Writing
  PROVE  \A d \in Callers : Harmless(caller'[d])
<1> DEFINE req == [caller[c] EXCEPT !.pc = pc]
<1>1. req.pc = pc /\ req.rid = caller[c].rid
  BY DEF TypeOK, Request
<1>2. Harmless(req)
  BY <1>1 DEF LegacySafe, Harmless
<1>3. Become(c, req)
  BY DEF Goto, Become, TypeOK
<1> HIDE DEF req
<1> QED BY <1>2, <1>3, BecomeHarmless

\* Returning, going on and replaying write nothing.
LEMMA NextHarmless ==
  ASSUME TypeOK, LegacySafe, NEW c \in Callers
  PROVE  /\ Return(c) => \A d \in Callers : Harmless(caller'[d])
         /\ \A q \in Request : Harmless(Continued(q))
         /\ Continue(c) => \A d \in Callers : Harmless(caller'[d])
         /\ \A r \in Runs : Replay(c, r) => \A d \in Callers : Harmless(caller'[d])
<1>1. Harmless(DefaultRequest)
  BY DEF Harmless, DefaultRequest, Writing
<1>2. Return(c) => \A d \in Callers : Harmless(caller'[d])
  BY <1>1, BecomeHarmless DEF Return
<1>3. ASSUME NEW q \in Request PROVE Harmless(Continued(q))
  <2>1. CASE q.back = "client"
    BY <1>1, <2>1 DEF Continued
  <2>2. CASE q.back = "status"
    BY <2>2 DEF Continued, Harmless, Writing, Request
  <2>3. CASE q.back = "capacity"
    BY <2>3 DEF Continued, Harmless, Writing, Request
  <2> QED BY <2>1, <2>2, <2>3 DEF Request
<1>4. Continue(c) => \A d \in Callers : Harmless(caller'[d])
  <2>1. caller[c] \in Request
    BY DEF TypeOK
  <2> QED BY <1>3, <2>1, BecomeHarmless DEF Continue
<1>5. ASSUME NEW r \in Runs, Replay(c, r) PROVE \A d \in Callers : Harmless(caller'[d])
  <2> DEFINE req == [DefaultRequest EXCEPT !.pc = "reconcile", !.todo = {r}, !.snap = runs[r].outcome]
  <2>1. req.pc = "reconcile"
    BY DEF DefaultRequest
  <2>2. Harmless(req)
    BY <2>1 DEF Harmless, Writing
  <2>3. Return(c) \/ Become(c, req)
    BY <1>5 DEF Replay
  <2> HIDE DEF req
  <2> QED BY <1>2, <2>2, <2>3, BecomeHarmless
<1> QED BY <1>2, <1>3, <1>4, <1>5

\* The requests never come to write or create a Run of a retired version: reconcileStart and
\* the native settlement look at the version of the row first.
LEMMA ServeHarmless ==
  ASSUME TypeOK, LegacySafe, NEW c \in Callers, Serve(c)
  PROVE  \A d \in Callers : Harmless(caller'[d])
<1> DEFINE q == caller[c]
<1>q. q \in Request /\ q.rid \in Runs /\ q.todo \subseteq Runs
  BY DEF TypeOK, Request
<1>l. \A r \in Legacy : Retired(r) /\ Exists(r)
  BY DEF LegacySafe, LegacyRow, Retired
<1>h. Harmless(DefaultRequest)
  BY DEF Harmless, DefaultRequest, Writing
<1>1. CASE ReconcileObserve(c)
  <2>1. PICK r \in q.todo, obs \in {"found", "missing", "unavailable"} :
          LET rest == [q EXCEPT !.todo = q.todo \ {r}, !.rid = r, !.snap = "queued"]
          IN  Become(c, CASE obs = "found" /\ ~Retired(r) -> [rest EXCEPT !.pc = "mark"]
                          [] obs = "missing" /\ ~Retired(r) /\ q.snap = "queued" ->
                               [rest EXCEPT !.pc = IF runs[r].stale THEN "expire" ELSE "create"]
                          [] OTHER -> Continued(rest))
    BY <1>1 DEF ReconcileObserve
  <2> DEFINE rest == [q EXCEPT !.todo = q.todo \ {r}, !.rid = r, !.snap = "queued"]
  <2>2. rest \in Request /\ rest.rid = r
    BY <1>q DEF Request, ActiveOutcome
  <2>3. \A pc : [rest EXCEPT !.pc = pc].rid = r
    BY <2>2 DEF Request
  <2>4. Harmless(Continued(rest))
    BY <2>2, NextHarmless
  <2>5. ~Retired(r) => \A pc : Harmless([rest EXCEPT !.pc = pc])
    BY <1>l, <2>3 DEF Harmless
  <2> HIDE DEF rest
  <2>6. \E req : Harmless(req) /\ Become(c, req)
    BY <2>1, <2>4, <2>5 DEF rest
  <2> QED BY <2>6, BecomeHarmless
<1>2. CASE ReconcileCreate(c)
  BY <1>2, GotoHarmless DEF ReconcileCreate, Writing
<1>3. CASE ReconcileObserveAgain(c)
  <2>1. q.pc \in Writing
    BY <1>3 DEF ReconcileObserveAgain, Writing
  <2>2. Goto(c, "mark") \/ Goto(c, "expire") \/ Continue(c)
    BY <1>3 DEF ReconcileObserveAgain
  <2> QED BY <2>1, <2>2, GotoHarmless, NextHarmless
<1>4. CASE MarkStarted(c) \/ ExpireStart(c)
  <2>1. Return(c) \/ Continue(c)
    BY <1>4 DEF MarkStarted, ExpireStart
  <2> QED BY <2>1, NextHarmless
<1>5. CASE CapacityRead(c)
  <2>1. \E list, seen : Become(c, [q EXCEPT !.pc = "settle", !.todo = list, !.seen = seen])
    BY <1>5 DEF CapacityRead
  <2>2. \A list, seen : [q EXCEPT !.pc = "settle", !.todo = list, !.seen = seen].pc = "settle"
    BY <1>q DEF Request
  <2> QED BY <2>1, <2>2, BecomeHarmless DEF Harmless, Writing
<1>6. CASE StatusRead(c)
  <2>1. Return(c) \/ \E list, seen : Become(c, [q EXCEPT !.pc = "settle", !.todo = list, !.seen = seen])
    BY <1>6 DEF StatusRead
  <2>2. \A list, seen : [q EXCEPT !.pc = "settle", !.todo = list, !.seen = seen].pc = "settle"
    BY <1>q DEF Request
  <2>3. Return(c) \/ \E req : Harmless(req) /\ Become(c, req)
    BY <2>1, <2>2 DEF Harmless, Writing
  <2> QED BY <2>3, BecomeHarmless, NextHarmless
<1>7. CASE SettleObserve(c)
  <2>1. PICK r \in q.todo, obs \in {"found", "unavailable"} :
          LET rest == [q EXCEPT !.todo = q.todo \ {r}]
          IN  Become(c, IF obs = "found" /\ ~Retired(r)
                        THEN [rest EXCEPT !.pc = "natSettle", !.rid = r, !.obs = native[r]]
                        ELSE IF q.back = "status" THEN DefaultRequest ELSE rest)
    BY <1>7 DEF SettleObserve
  <2> DEFINE rest == [q EXCEPT !.todo = q.todo \ {r}]
             look == [rest EXCEPT !.pc = "natSettle", !.rid = r, !.obs = native[r]]
  <2>2. rest.pc = "settle" /\ look.rid = r
    BY <1>7, <1>q DEF SettleObserve, Request
  <2>3. Harmless(rest) /\ (~Retired(r) => Harmless(look))
    BY <1>l, <2>2 DEF Harmless, Writing
  <2> HIDE DEF rest, look
  <2>4. \E req : Harmless(req) /\ Become(c, req)
    BY <1>h, <2>1, <2>3 DEF rest, look
  <2> QED BY <2>4, BecomeHarmless
<1>8. CASE NativeSettle(c)
  <2>1. Return(c) \/ \E req : req.pc = "settle" /\ Become(c, req)
    BY <1>8, <1>q DEF NativeSettle, Request
  <2> QED BY <2>1, BecomeHarmless, NextHarmless DEF Harmless, Writing
<1>9. CASE Admit(c)
  <2> DEFINE req == [DefaultRequest EXCEPT !.pc = "insert", !.wf = q.wf, !.key = q.key,
                                           !.exp = q.exp, !.ver = wf[q.wf].ver]
  <2>1. Return(c) \/ Become(c, req)
    BY <1>9 DEF Admit
  <2>2. req.pc = "insert"
    BY DEF DefaultRequest
  <2> HIDE DEF req
  <2> QED BY <2>1, <2>2, BecomeHarmless, NextHarmless DEF Harmless, Writing
<1>10. CASE InsertRun(c)
  <2>1. \/ Return(c)
        \/ \E r \in Runs : Replay(c, r)
        \/ \E r \in Runs : ~Exists(r) /\ Become(c, [DefaultRequest EXCEPT !.pc = "create0", !.rid = r])
    BY <1>10 DEF InsertRun, KeyedRuns
  <2>2. \A r : [DefaultRequest EXCEPT !.pc = "create0", !.rid = r].rid = r
    BY DEF DefaultRequest
  <2>3. \A r \in Runs : ~Exists(r) => Harmless([DefaultRequest EXCEPT !.pc = "create0", !.rid = r])
    BY <1>l, <2>2 DEF Harmless
  <2> QED BY <2>1, <2>3, BecomeHarmless, NextHarmless
<1>11. CASE CreateNative(c)
  BY <1>11, GotoHarmless DEF CreateNative, Writing
<1>12. CASE StartUnknown(c)
  BY <1>12, <1>q, NextHarmless DEF StartUnknown
<1> QED BY <1>1, <1>2, <1>3, <1>4, <1>5, <1>6, <1>7, <1>8, <1>9, <1>10, <1>11, <1>12 DEF Serve

\* A step that never leaves a request about to write; the calls of start and status, and a
\* request that dies.
LEMMA CallHarmless ==
  ASSUME TypeOK, LegacySafe, NEW c \in Callers,
         \/ RequestDies(c)
         \/ \E w \in Workflows, k \in Keys, p \in Origins : StartCall(c, w, k, p)
         \/ \E w \in Workflows, k \in Keys : StartReplay(c, w, k)
         \/ \E r \in Runs : StatusCall(c, r)
  PROVE  UNCHANGED <<wf, runs, native, runner>> /\ \A d \in Callers : Harmless(caller'[d])
<1>1. CASE RequestDies(c)
  BY <1>1, NextHarmless DEF RequestDies
<1>2. ASSUME NEW w \in Workflows, NEW k \in Keys, NEW p \in Origins, StartCall(c, w, k, p)
      PROVE  UNCHANGED <<wf, runs, native, runner>> /\ \A d \in Callers : Harmless(caller'[d])
  <2> DEFINE req == [DefaultRequest EXCEPT
                !.pc = "reconcile", !.back = "capacity", !.wf = w, !.key = k, !.exp = Expected(p, w),
                !.todo = {r \in Runs : /\ runs[r].start \in Unstarted
                                       /\ runs[r].outcome = "queued" /\ runs[r].stale}]
  <2>1. Become(c, req) /\ UNCHANGED <<wf, runs, native, runner>>
    BY <1>2 DEF StartCall
  <2>2. req.pc = "reconcile"
    BY DEF DefaultRequest
  <2> HIDE DEF req
  <2> QED BY <2>1, <2>2, BecomeHarmless DEF Harmless, Writing
<1>3. ASSUME NEW w \in Workflows, NEW k \in Keys, StartReplay(c, w, k)
      PROVE  UNCHANGED <<wf, runs, native, runner>> /\ \A d \in Callers : Harmless(caller'[d])
  BY <1>3, NextHarmless DEF StartReplay, KeyedRuns
<1>4. ASSUME NEW r \in Runs, StatusCall(c, r)
      PROVE  UNCHANGED <<wf, runs, native, runner>> /\ \A d \in Callers : Harmless(caller'[d])
  <2> DEFINE req == [DefaultRequest EXCEPT
                !.pc = "reconcile", !.back = "status", !.rid = r,
                !.todo = IF runs[r].start \in Unstarted THEN {r} ELSE {}, !.snap = runs[r].outcome]
  <2>1. Become(c, req) /\ UNCHANGED <<wf, runs, native, runner>>
    BY <1>4 DEF StatusCall
  <2>2. req.pc = "reconcile"
    BY DEF DefaultRequest
  <2> HIDE DEF req
  <2> QED BY <2>1, <2>2, BecomeHarmless DEF Harmless, Writing
<1> QED BY <1>1, <1>2, <1>3, <1>4

\* Every step of the system updates rows or reserves one, creates no instance of a retired
\* Run and lets no instance execute one.
LEMMA StepUpdates ==
  ASSUME TypeOK, LegacySafe, [Next]_vars
  PROVE  /\ Updates \/ (Reserves /\ native' = native)
         /\ Uncreated
         /\ \A r \in Legacy : runner'[r] = "off"
         /\ \A d \in Callers : Harmless(caller'[d])
<1>0. \A r \in Legacy : LegacyRow(r) /\ Retired(r) /\ r \in Runs
  BY LegacyAssumption DEF LegacySafe, LegacyRow, Retired
<1>1. ASSUME NEW c \in Callers, Serve(c)
      PROVE  /\ (Updates \/ (Reserves /\ native' = native)) /\ Uncreated
             /\ runner' = runner /\ \A d \in Callers : Harmless(caller'[d])
  <2>1. runner' = runner
    BY <1>1 DEF Serve, ReconcileObserve, ReconcileCreate, ReconcileObserveAgain,
              MarkStarted, ExpireStart, CapacityRead, StatusRead, SettleObserve,
              NativeSettle, Admit, InsertRun, CreateNative, StartUnknown
  <2>2. Uncreated
    <3>1. CASE ReconcileCreate(c) \/ CreateNative(c)
      <4>1. caller[c].rid \notin Legacy /\ CreateEffect(caller[c].rid)
        BY <3>1 DEF ReconcileCreate, CreateNative, LegacySafe, Harmless, Writing
      <4> QED BY <1>0, <4>1 DEF CreateEffect, Uncreated, TypeOK
    <3>2. CASE ~ReconcileCreate(c) /\ ~CreateNative(c)
      <4>1. native' = native
        BY <1>1, <3>2 DEF Serve, ReconcileObserve, ReconcileObserveAgain,
              MarkStarted, ExpireStart, CapacityRead, StatusRead, SettleObserve,
              NativeSettle, Admit, InsertRun, StartUnknown
      <4> QED BY <4>1 DEF Uncreated
    <3> QED BY <3>1, <3>2
  <2> QED BY <1>1, <2>1, <2>2, ServeUpdates, ServeHarmless
<1>2. ASSUME NEW r \in Runs, Engine(r) \/ StartWindowPasses(r) \/ SettleWindowPasses(r)
      PROVE  Updates /\ Uncreated /\ caller' = caller /\ \A s \in Legacy : runner'[s] = "off"
  <2>0. caller' = caller
    BY <1>2 DEF Engine, StartWindowPasses, SettleWindowPasses, InstanceAppears, RunnerLoad,
         RunnerClaim, RunnerFinish, RunnerThrows, EngineReplays, InstanceEnds
  <2>a. native' = native \/ (native[r] # "absent" /\ \E n : native' = [native EXCEPT ![r] = n])
                        \/ runner[r] # "off"
    BY <1>2 DEF Engine, StartWindowPasses, SettleWindowPasses, InstanceAppears, RunnerLoad,
         RunnerClaim, RunnerFinish, RunnerThrows, EngineReplays, InstanceEnds
  <2>b. \E n : native' = [native EXCEPT ![r] = n]
    <3>1. native = [native EXCEPT ![r] = native[r]]
      BY DEF TypeOK
    <3> QED BY <1>2, <3>1 DEF Engine, StartWindowPasses, SettleWindowPasses, InstanceAppears, RunnerLoad,
         RunnerClaim, RunnerFinish, RunnerThrows, EngineReplays, InstanceEnds
  <2>1. caller' = caller /\ Uncreated
    BY <1>0, <2>0, <2>a, <2>b DEF Uncreated, LegacyRow, TypeOK
  <2>2. ASSUME NEW s \in Legacy PROVE runner'[s] = "off"
    <3>1. runner[s] = "off" /\ Retired(s)
      BY <1>0 DEF LegacyRow
    <3> QED BY <1>0, <1>2, <3>1 DEF Engine, StartWindowPasses, SettleWindowPasses, InstanceAppears, RunnerLoad,
         RunnerClaim, RunnerFinish, RunnerThrows, EngineReplays, InstanceEnds, TypeOK
  <2> QED BY <1>2, <2>1, <2>2, EngineUpdates
<1>3. CASE UNCHANGED <<runs, native, runner>> /\ \A d \in Callers : Harmless(caller'[d])
  BY <1>0, <1>3, SameRowsUpdate DEF Uncreated, LegacyRow
<1>4. ASSUME NEW w \in Workflows, Publish(w) \/ Pause(w) \/ Resume(w) \/ Delete(w)
      PROVE  UNCHANGED <<runs, native, runner, caller>>
  BY <1>4 DEF Publish, Pause, Resume, Delete
<1>5. UNCHANGED vars => UNCHANGED <<runs, native, runner, caller>>
  BY DEF vars
<1>6. caller' = caller => \A d \in Callers : Harmless(caller'[d])
  BY DEF LegacySafe
<1>7. ASSUME NEW c \in Callers,
         \/ RequestDies(c)
         \/ \E w \in Workflows, k \in Keys, p \in Origins : StartCall(c, w, k, p)
         \/ \E w \in Workflows, k \in Keys : StartReplay(c, w, k)
         \/ \E r \in Runs : StatusCall(c, r)
      PROVE  UNCHANGED <<runs, native, runner>> /\ \A d \in Callers : Harmless(caller'[d])
  BY <1>7, CallHarmless
<1>8. CASE \E c \in Callers : Serve(c)
  BY <1>0, <1>1, <1>8 DEF LegacyRow
<1>9. CASE \E r \in Runs : Engine(r) \/ StartWindowPasses(r) \/ SettleWindowPasses(r)
  BY <1>2, <1>6, <1>9
<1> QED BY <1>3, <1>4, <1>5, <1>6, <1>7, <1>8, <1>9 DEF Next

\* Runs of retired versions stay untouched.
LEMMA NextLegacy == TypeOK /\ LegacySafe /\ [Next]_vars => LegacySafe'
<1> SUFFICES ASSUME TypeOK, LegacySafe, [Next]_vars PROVE LegacySafe'
  OBVIOUS
<1>1. \A r \in Legacy : r \in Runs /\ LegacyRow(r)
  BY LegacyAssumption DEF LegacySafe
<1>2. ASSUME NEW r \in Legacy PROVE runs'[r] = runs[r]
  <2>1. CASE Updates
    BY <1>1, <2>1 DEF Updates
  <2>2. CASE Reserves
    BY <1>1, <2>2 DEF Reserves, LegacyRow, TypeOK
  <2> QED BY <2>1, <2>2, StepUpdates
<1>3. \A r \in Legacy : LegacyRow(r)'
  BY <1>1, <1>2, StepUpdates DEF LegacyRow, Exists
<1>4. \A d \in Callers : Harmless(caller'[d])
  BY StepUpdates
<1> QED BY <1>3, <1>4 DEF LegacySafe

\* They are untouched initially.
LEMMA InitLegacy == Init => LegacySafe
<1> SUFFICES ASSUME Init PROVE LegacySafe
  OBVIOUS
<1>1. ASSUME NEW r \in Legacy PROVE LegacyRow(r)
  <2>1. r \in Runs /\ Exists(r) /\ 1 \in RetiredVersions /\ runner[r] = "off"
    BY LegacyAssumption DEF Init
  <2>2. runs[r] # NoRow
    BY <2>1 DEF Exists, NoRow
  <2>3. \E s \in {"start_unknown", "started"}, o \in {"queued", "failed"} :
           runs[r] = [NoRow EXCEPT !.start = s, !.outcome = o, !.stale = TRUE]
    BY <2>1, <2>2 DEF Init
  <2>4. \A s, o : LET row == [NoRow EXCEPT !.start = s, !.outcome = o, !.stale = TRUE]
                  IN  row.ver = 1 /\ row.stale /\ row.seen = "null"
    BY DEF NoRow
  <2>5. runs[r].ver = 1 /\ runs[r].stale /\ runs[r].seen = "null"
    BY <2>3, <2>4
  <2> QED BY <2>1, <2>5 DEF LegacyRow
<1>2. \A c \in Callers : Harmless(caller[c])
  BY DEF Init, Harmless, DefaultRequest, Writing
<1> QED BY <1>1, <1>2 DEF LegacySafe

\* What D1 settled stays settled and an admission keeps what it was bound to, whatever is
\* republished, replayed or repaired; a Run of a retired version is never rewritten and its
\* instance never created again.
THEOREM RowsAreStable == Spec => RowsStay
<1> DEFINE Stable == \A r \in Runs : SettledStays(r) /\ LegacyFrozen(r)
<1>1. TypeOK /\ LegacySafe /\ [Next]_vars => Stable
  <2> SUFFICES ASSUME TypeOK, LegacySafe, [Next]_vars, NEW r \in Runs
               PROVE  SettledStays(r) /\ LegacyFrozen(r)
    OBVIOUS
  <2>1. CASE Updates
    BY <2>1, StepUpdates DEF Updates, Bound, Uncreated, SettledStays, LegacyFrozen, Exists
  <2>2. CASE Reserves
    <3>1. Exists(r) => runs'[r] = runs[r]
      BY <2>2 DEF Reserves, TypeOK
    <3>2. r \in Legacy => Exists(r)
      BY DEF LegacySafe, LegacyRow
    <3> QED BY <3>1, <3>2, StepUpdates DEF Uncreated, SettledStays, LegacyFrozen
  <2> QED BY <2>1, <2>2, StepUpdates
<1>2. TypeOK /\ LegacySafe /\ [Next]_vars => (TypeOK /\ LegacySafe)' /\ [Stable]_vars
  BY <1>1, NextType, NextLegacy
<1> HIDE DEF Stable
<1>3. Spec => [][Stable]_vars
  BY <1>2, InitType, InitLegacy, PTL DEF Spec
<1> QED BY <1>3 DEF RowsStay, Stable

-----------------------------------------------------------------------------
(* Idempotency keys *)

\* A key is bound to one row of its workflow.
KeysUnique == \A r, s \in Runs :
    Exists(r) /\ Exists(s) /\ runs[r].key # NoKey /\ runs[r].wf = runs[s].wf /\ runs[r].key = runs[s].key
        => r = s

\* Only the guarded INSERT binds a key, and only one that is free.
LEMMA NextKeys == TypeOK /\ LegacySafe /\ KeysUnique /\ [Next]_vars => KeysUnique'
<1> SUFFICES ASSUME TypeOK, LegacySafe, KeysUnique, [Next]_vars PROVE KeysUnique'
  OBVIOUS
<1>1. CASE Updates
  BY <1>1 DEF Updates, Bound, KeysUnique, Exists
<1>2. CASE Reserves
  <2>1. PICK c \in Callers, r \in Runs :
          /\ KeyedRuns(caller[c].wf, caller[c].key) = {} /\ ~Exists(r)
          /\ runs' = [runs EXCEPT ![r] =
                [wf |-> caller[c].wf, ver |-> caller[c].ver, key |-> caller[c].key,
                 weight |-> PlanWeight(caller[c].ver), start |-> "reserved",
                 outcome |-> "queued", stale |-> FALSE, seen |-> "null"]]
    BY <1>2 DEF Reserves, InsertAdmits
  <2>2. /\ \A s \in Runs \ {r} : runs'[s] = runs[s]
        /\ runs'[r].wf = caller[c].wf /\ runs'[r].key = caller[c].key
    BY <2>1 DEF TypeOK
  <2>3. \A s \in Runs : Exists(s) /\ caller[c].key # NoKey /\ runs[s].wf = caller[c].wf => runs[s].key # caller[c].key
    BY <2>1 DEF KeyedRuns
  <2> QED BY <2>2, <2>3 DEF KeysUnique, Exists
<1> QED BY <1>1, <1>2, StepUpdates

\* Leftover Runs carry no key.
LEMMA InitKeys == Init => KeysUnique
<1> SUFFICES ASSUME Init, NEW r \in Runs PROVE runs[r].key = NoKey
  BY DEF KeysUnique
<1>1. \/ runs[r] = NoRow
      \/ \E s \in {"start_unknown", "started"}, o \in {"queued", "failed"} :
            runs[r] = [NoRow EXCEPT !.start = s, !.outcome = o, !.stale = TRUE]
  BY DEF Init
<1>2. NoRow.key = NoKey
  BY DEF NoRow
<1>3. ASSUME NEW s, NEW o, runs[r] = [NoRow EXCEPT !.start = s, !.outcome = o, !.stale = TRUE]
      PROVE  runs[r].key = NoKey
  BY <1>3 DEF NoRow
<1> QED BY <1>1, <1>2, <1>3

\* One idempotency key starts at most one engine instance, whatever the replays, crashes and
\* concurrent admissions.
THEOREM KeyExecutesOnce == Spec => []OneExecutionPerKey
<1> DEFINE Inv == TypeOK /\ LegacySafe /\ KeysUnique
<1>1. Init => Inv
  BY InitType, InitLegacy, InitKeys
<1>2. Inv /\ [Next]_vars => Inv'
  BY NextType, NextLegacy, NextKeys
<1>3. ASSUME Inv PROVE OneExecutionPerKey
  <2> SUFFICES ASSUME NEW w \in Workflows, NEW k \in Keys
               PROVE  Cardinality({r \in KeyedRuns(w, k) : native[r] # "absent"}) <= 1
    BY DEF OneExecutionPerKey
  <2> DEFINE S == {r \in KeyedRuns(w, k) : native[r] # "absent"}
  <2>1. \A r, s \in S : r = s
    BY <1>3 DEF KeysUnique, KeyedRuns
  <2>2. CASE S = {}
    BY <2>2, FS_EmptySet
  <2>3. CASE S # {}
    <3>1. PICK r \in S : S = {r}
      BY <2>1, <2>3
    <3>2. Cardinality({r}) = 1
      BY FS_Singleton
    <3> QED BY <3>1, <3>2
  <2> QED BY <2>2, <2>3
<1> QED BY <1>1, <1>2, <1>3, PTL DEF Spec
===============================================================================
