----------------------------- MODULE RunAdmission -----------------------------
(***************************************************************************)
(* Admission of top-level Runs by the Workflow MCP Worker.                 *)
(*                                                                         *)
(* Store.start reserves a Run row in D1, asks the durable Workflow engine  *)
(* to create the instance with the Run's own id and records the start.     *)
(* The request can die between any two calls, the engine can lose the      *)
(* acknowledgement or make an accepted instance visible late, and other    *)
(* requests (start, status, publish, pause, delete) and the instance       *)
(* itself run concurrently.  Every D1 statement or batch is one action;    *)
(* every call of the engine is an action of its own.                       *)
(*                                                                         *)
(* Clocks are abstracted to the comparisons the code makes: a row is       *)
(* `stale' once START_RECONCILE_WINDOW_MS has passed since created_at,     *)
(* and native_complete_seen_at is "null", "recent" or "old" (older than    *)
(* OUTCOME_SETTLE_WINDOW_MS).                                              *)
(***************************************************************************)
EXTENDS Naturals, FiniteSets

CONSTANTS
    Workflows,        \* workflow ids
    Runs,             \* Run ids (random UUIDs: a bound on how many are drawn)
    Callers,          \* concurrent requests inside the Worker
    Keys,             \* the idempotency keys requests carry, NoKey for none
    NoKey,
    Origins,          \* who starts Runs: the owner's tool call and the triggers
    MaxVersion,       \* bound on the versions published per workflow
    HeavyVersions,    \* versions with an awaited child: capacity weight 2
    RetiredVersions,  \* versions with a retired Weixin action
    Legacy,           \* Runs of a retired version left over from earlier
    Limit             \* RUN_CAPACITY_LIMIT

ASSUME RunsFinite == IsFiniteSet(Runs) /\ Runs # {} /\ Workflows # {}
ASSUME LegacyAssumption == /\ Legacy \subseteq Runs
                           /\ Cardinality(Legacy) <= Limit
                           /\ Legacy # {} => 1 \in RetiredVersions \ HeavyVersions
ASSUME LimitAssumption == Limit \in Nat /\ MaxVersion \in Nat /\ MaxVersion >= 1
ASSUME OriginsAssumption == Origins \subseteq {"owner", "cron", "webhook", "github_event"}
ASSUME VersionAssumption == /\ HeavyVersions \subseteq 1..MaxVersion
                            /\ RetiredVersions \subseteq 1..MaxVersion

VARIABLES
    wf,       \* the workflows table
    runs,     \* the runs table
    native,   \* the engine's instance of each Run
    runner,   \* where the instance's run() stands
    caller    \* the requests being served

vars == <<wf, runs, native, runner, caller>>

NoVersion == 0
Versions == 1..MaxVersion

Terminal == {"succeeded", "failed", "indeterminate", "cancelled"}
ActiveOutcome == {"queued", "running"}
Unstarted == {"reserved", "start_unknown"}

Workflow == [state: {"draft", "active", "paused"},
             ver: Versions \cup {NoVersion},
             deleted: BOOLEAN]

\* start = "none" is the absence of a row.
Row == [wf: Workflows, ver: Versions \cup {NoVersion}, key: Keys \cup {NoKey}, weight: {1, 2},
        start: {"none", "reserved", "start_unknown", "started"},
        outcome: ActiveOutcome \cup Terminal,
        stale: BOOLEAN, seen: {"null", "recent", "old"}]

NativeState == {"absent", "pending", "live", "complete", "errored"}

PCs == {"idle", "reconcile", "create", "observe2", "mark", "expire",
        "settle", "natSettle", "insert", "create0", "mark0", "unknown"}

\* The locals of one request.  todo holds the rows of a list it still has to visit
\* (one row for a replay or a status), snap the outcome those rows had when they
\* were read, seen those whose native_complete_seen_at was not null then; back says
\* what follows the reconciliation.
Request == [pc: PCs, back: {"client", "capacity", "status"},
            wf: Workflows, key: Keys \cup {NoKey}, exp: Versions \cup {NoVersion},
            ver: Versions \cup {NoVersion}, rid: Runs,
            snap: ActiveOutcome \cup Terminal,
            todo: SUBSET Runs, seen: SUBSET Runs, obs: NativeState]

\* The type of every variable.
TypeOK ==
    /\ wf \in [Workflows -> Workflow]
    /\ runs \in [Runs -> Row]
    /\ native \in [Runs -> NativeState]
    /\ runner \in [Runs -> {"off", "claim", "exec"}]
    /\ caller \in [Callers -> Request]

-----------------------------------------------------------------------------
(* Rows and capacity *)

Exists(r) == runs[r].start # "none"
Active(r) == Exists(r) /\ runs[r].outcome \in ActiveOutcome
\* Slip: nothing is retired.
Retired_Never(r) == FALSE
Retired(r) == runs[r].ver \in RetiredVersions

\* One token per unit of capacity_weight of a queued or running Run:
\* Cardinality(Units) is SUM(capacity_weight).
Units == {u \in Runs \X {1, 2} : Active(u[1]) /\ u[2] <= runs[u[1]].weight}
CapacityUnits == Cardinality(Units)

PlanWeight(v) == IF v \in HeavyVersions THEN 2 ELSE 1

\* Slip: every Run counted as one unit.
CapacityAdmits_Unweighted(weight) == CapacityUnits + 1 <= Limit
\* capacityAdmissionPredicate(weight) and the trigger runs_top_level_capacity_guard
CapacityAdmits(weight) == CapacityUnits + weight <= Limit

\* The row a (workflow_id, admission_key) pair is bound to, if any.
KeyedRuns(w, k) ==
    {r \in Runs : Exists(r) /\ k # NoKey /\ runs[r].wf = w /\ runs[r].key = k}

-----------------------------------------------------------------------------
(* The engine, seen through get(id).status(): only the exact not-found marker *)
(* counts as missing, and an accepted instance may not be visible yet.        *)

Observations(r) ==
    CASE native[r] \in {"absent", "pending"} -> {"missing", "unavailable"}
      [] OTHER -> {"found", "unavailable"}

\* WORKFLOW.create: a duplicate id changes nothing, a lost request neither.
CreateEffect(r) ==
    native' \in {native, [native EXCEPT ![r] = IF @ = "absent" THEN "pending" ELSE @]}

-----------------------------------------------------------------------------
(* Requests *)

DefaultRequest ==
    [pc |-> "idle", back |-> "client",
     wf |-> CHOOSE w \in Workflows : TRUE, key |-> NoKey, exp |-> NoVersion,
     ver |-> NoVersion, rid |-> CHOOSE r \in Runs : TRUE, snap |-> "queued",
     todo |-> {}, seen |-> {}, obs |-> "absent"]

Become(c, req) == caller' = [caller EXCEPT ![c] = req]
Goto(c, pc) == caller' = [caller EXCEPT ![c].pc = pc]
Return(c) == Become(c, DefaultRequest)

\* What a request is once reconcileStart is done with a row: answered, or on to the
\* rest of the list and what back says.
Continued(q) ==
    CASE q.back = "client" -> DefaultRequest
      [] q.back = "status" -> [q EXCEPT !.pc = "reconcile"]
      [] q.back = "capacity" -> [q EXCEPT !.pc = "reconcile", !.rid = DefaultRequest.rid]
Continue(c) == Become(c, Continued(caller[c]))

\* reconcileStart(row) returns at once for a started row and for a retired one.
Reconcilable(r) == runs[r].start # "started" /\ ~Retired(r)

\* Call reconcileStart for the single row r and answer the client with the result.
Replay(c, r) ==
    IF Reconcilable(r)
    THEN Become(c, [DefaultRequest EXCEPT !.pc = "reconcile", !.todo = {r},
                                          !.snap = runs[r].outcome])
    ELSE Return(c)

\* Store.start on an idempotency key that is bound already: the accepted admission
\* is replayed.  Its refusals (other inputs, another expected version, a retired
\* version) only answer the client.
StartReplay(c, w, k) ==
    /\ caller[c].pc = "idle"
    /\ \E r \in KeyedRuns(w, k) : Reconcilable(r) /\ Replay(c, r)
    /\ UNCHANGED <<wf, runs, native, runner>>

\* What a trigger reads before it calls start: the active version of the workflow, whose
\* plan has (any plan may have) the one trigger the request is for.
Triggered(w) == wf[w].ver # NoVersion /\ ~wf[w].deleted /\ wf[w].state = "active"

\* admitScheduledCron: the key is the scheduled minute, so a tick delivered twice replays.
CronStarts(w, k) == Triggered(w) /\ k # NoKey
\* handleWorkflowWebhook: the key is the caller's event id, or a random one nobody repeats.
WebhookStarts(w, k) == Triggered(w)
\* handleGithubEvent: the key is the run id in the job's signed token.
PushStarts(w, k) == Triggered(w) /\ k # NoKey

\* The requests that reach start.  Only a trigger pins the version it has read.
Starts(origin, w, k) ==
    \/ origin = "owner"
    \/ origin = "cron" /\ CronStarts(w, k)
    \/ origin = "webhook" /\ WebhookStarts(w, k)
    \/ origin = "github_event" /\ PushStarts(w, k)
Expected(origin, w) == IF origin = "owner" THEN NoVersion ELSE wf[w].ver

\* Store.start on a free key: read the list of stale starts.  The lookup of the key
\* decides nothing here (the INSERT decides again), so it is part of this step.
StartCall(c, w, k, origin) ==
    /\ caller[c].pc = "idle"
    /\ Starts(origin, w, k)
    /\ KeyedRuns(w, k) = {}
    /\ Become(c, [DefaultRequest EXCEPT
          !.pc = "reconcile", !.back = "capacity", !.wf = w, !.key = k,
          !.exp = Expected(origin, w),
          !.todo = {r \in Runs : /\ runs[r].start \in Unstarted
                                 /\ runs[r].outcome = "queued"
                                 /\ runs[r].stale}])
    /\ UNCHANGED <<wf, runs, native, runner>>

\* Store.status on a Run: an unstarted row is reconciled before anything else.
StatusCall(c, r) ==
    /\ caller[c].pc = "idle"
    /\ Exists(r) /\ ~Retired(r)
    /\ Become(c, [DefaultRequest EXCEPT
          !.pc = "reconcile", !.back = "status", !.rid = r,
          !.todo = IF runs[r].start \in Unstarted THEN {r} ELSE {},
          !.snap = runs[r].outcome])
    /\ UNCHANGED <<wf, runs, native, runner>>

\* reconcileStart for the next row of the list: its first look at the engine, and
\* what the answer and the row as it was read let it do.
ReconcileObserve(c) ==
    LET q == caller[c]
    IN  /\ q.pc = "reconcile"
        /\ \E r \in q.todo, obs \in {"found", "missing", "unavailable"} :
              LET rest == [q EXCEPT !.todo = @ \ {r}, !.rid = r, !.snap = "queued"]
              IN  /\ obs \in Observations(r)
                  /\ Become(c,
                       CASE obs = "found" /\ ~Retired(r) -> [rest EXCEPT !.pc = "mark"]
                         [] obs = "missing" /\ ~Retired(r) /\ q.snap = "queued" ->
                              [rest EXCEPT !.pc = IF runs[r].stale THEN "expire" ELSE "create"]
                         [] OTHER -> Continued(rest))
        /\ UNCHANGED <<wf, runs, native, runner>>

\* Positive missing evidence inside the window: create with the original id.
ReconcileCreate(c) ==
    /\ caller[c].pc = "create"
    /\ CreateEffect(caller[c].rid)
    /\ Goto(c, "observe2")
    /\ UNCHANGED <<wf, runs, runner>>

\* The second look, after that create.
ReconcileObserveAgain(c) ==
    LET r == caller[c].rid
    IN  /\ caller[c].pc = "observe2"
        /\ \E obs \in Observations(r) :
              CASE obs = "found" -> Goto(c, "mark")
                [] obs = "missing" /\ runs[r].stale -> Goto(c, "expire")
                [] OTHER -> Continue(c)
        /\ UNCHANGED <<wf, runs, native, runner>>

\* UPDATE runs SET start_state='started' WHERE start_state IN (reserved, start_unknown)
MarkStarted(c) ==
    LET r == caller[c].rid
    IN  /\ caller[c].pc \in {"mark", "mark0"}
        /\ runs' = [runs EXCEPT ![r].start = IF @ \in Unstarted THEN "started" ELSE @]
        /\ IF caller[c].pc = "mark0" THEN Return(c) ELSE Continue(c)
        /\ UNCHANGED <<wf, native, runner>>

\* UPDATE runs SET outcome='indeterminate' for an unconfirmed start, under the
\* CAS on outcome, start_state and created_at.
ExpireStart(c) ==
    LET r == caller[c].rid
    IN  /\ caller[c].pc = "expire"
        /\ runs' = [runs EXCEPT ![r].outcome =
              IF @ = "queued" /\ runs[r].start \in Unstarted /\ runs[r].stale
              THEN "indeterminate" ELSE @]
        /\ Continue(c)
        /\ UNCHANGED <<wf, native, runner>>

\* start, once the stale starts are done: when every unit is taken, list the started
\* Runs that are still active.
CapacityRead(c) ==
    LET busy == {r \in Runs : Active(r) /\ runs[r].start = "started"}
        list == IF CapacityUnits >= Limit THEN busy ELSE {}
    IN  /\ caller[c].pc = "reconcile" /\ caller[c].todo = {} /\ caller[c].back = "capacity"
        /\ Become(c, [caller[c] EXCEPT !.pc = "settle", !.todo = list,
                         !.seen = {r \in list : runs[r].seen # "null"}])
        /\ UNCHANGED <<wf, runs, native, runner>>

\* status, once the start is reconciled: read the row again.
StatusRead(c) ==
    LET r == caller[c].rid
    IN  /\ caller[c].pc = "reconcile" /\ caller[c].todo = {} /\ caller[c].back = "status"
        /\ IF runs[r].start = "started" /\ Active(r)
           THEN Become(c, [caller[c] EXCEPT !.pc = "settle", !.todo = {r},
                              !.seen = IF runs[r].seen # "null" THEN {r} ELSE {}])
           ELSE Return(c)
        /\ UNCHANGED <<wf, runs, native, runner>>

\* The next started Run of the list: observeInstance; anything but found settles
\* nothing, and a Run of a retired version keeps its slot unobserved.
SettleObserve(c) ==
    LET q == caller[c]
    IN  /\ q.pc = "settle"
        /\ \E r \in q.todo, obs \in {"found", "unavailable"} :
              LET rest == [q EXCEPT !.todo = @ \ {r}]
              IN  /\ obs \in Observations(r)
                  /\ Become(c, IF obs = "found" /\ ~Retired(r)
                               THEN [rest EXCEPT !.pc = "natSettle", !.rid = r, !.obs = native[r]]
                               ELSE IF q.back = "status" THEN DefaultRequest ELSE rest)
        /\ UNCHANGED <<wf, runs, native, runner>>

\* Slip: a failed instance settles nothing.
SettledRow_IgnoresErrors(row, obs, sawBefore) ==
    IF row.outcome \notin ActiveOutcome THEN row ELSE
    CASE obs = "complete" /\ ~sawBefore ->
            [row EXCEPT !.seen = IF @ = "null" THEN "recent" ELSE @]
      [] obs = "complete" /\ sawBefore ->
            [row EXCEPT !.outcome = IF row.seen = "old" THEN "indeterminate" ELSE @]
      [] OTHER -> [row EXCEPT !.seen = IF sawBefore THEN "null" ELSE @]

\* settleNativeOutcome: what the engine's status makes of a row, each UPDATE guarded
\* by the outcome (and the mark) it expects; sawBefore is from the row as read.
SettledRow(row, obs, sawBefore) ==
    IF row.outcome \notin ActiveOutcome THEN row ELSE
    CASE obs = "errored" -> [row EXCEPT !.outcome = "indeterminate"]
      [] obs = "complete" /\ ~sawBefore ->
            [row EXCEPT !.seen = IF @ = "null" THEN "recent" ELSE @]
      [] obs = "complete" /\ sawBefore ->
            [row EXCEPT !.outcome = IF row.seen = "old" THEN "indeterminate" ELSE @]
      [] OTHER -> [row EXCEPT !.seen = IF sawBefore THEN "null" ELSE @]

NativeSettle(c) ==
    LET r == caller[c].rid
    IN  /\ caller[c].pc = "natSettle"
        /\ runs' = [runs EXCEPT ![r] = SettledRow(@, caller[c].obs, r \in caller[c].seen)]
        /\ IF caller[c].back = "status" THEN Return(c)
           ELSE Become(c, [caller[c] EXCEPT !.pc = "settle", !.rid = DefaultRequest.rid,
                                            !.obs = DefaultRequest.obs, !.seen = @ \ {r}])
        /\ UNCHANGED <<wf, native, runner>>

\* start: the workflow row, and the refusals that come before any reservation.
Admit(c) ==
    LET q == caller[c]
        w == wf[q.wf]
    IN  /\ q.pc = "settle" /\ q.todo = {} /\ q.back = "capacity"
        /\ IF /\ ~w.deleted /\ w.state = "active" /\ w.ver # NoVersion
              /\ q.exp \in {NoVersion, w.ver}
              /\ w.ver \notin RetiredVersions
           THEN Become(c, [DefaultRequest EXCEPT !.pc = "insert", !.wf = q.wf, !.key = q.key,
                                                 !.exp = q.exp, !.ver = w.ver])
           ELSE Return(c)
        /\ UNCHANGED <<wf, runs, native, runner>>

\* Slip: the UNIQUE(workflow_id, admission_key) index is not consulted.
InsertAdmits_AnyKey(q) ==
    /\ wf[q.wf].state = "active" /\ ~wf[q.wf].deleted /\ wf[q.wf].ver = q.ver
    /\ CapacityAdmits(PlanWeight(q.ver))
\* The predicate of INSERT OR IGNORE INTO runs ... SELECT ... WHERE.
InsertAdmits(q) ==
    /\ wf[q.wf].state = "active" /\ ~wf[q.wf].deleted /\ wf[q.wf].ver = q.ver
    /\ KeyedRuns(q.wf, q.key) = {}
    /\ CapacityAdmits(PlanWeight(q.ver))

\* The atomic reservation, or the replay of the admission that won the key.
InsertRun(c) ==
    LET q == caller[c]
    IN  /\ q.pc = "insert"
        /\ \/ /\ InsertAdmits(q)
              /\ \E r \in Runs :
                    /\ ~Exists(r)
                    /\ runs' = [runs EXCEPT ![r] =
                          [wf |-> q.wf, ver |-> q.ver, key |-> q.key,
                           weight |-> PlanWeight(q.ver), start |-> "reserved",
                           outcome |-> "queued", stale |-> FALSE, seen |-> "null"]]
                    /\ Become(c, [DefaultRequest EXCEPT !.pc = "create0", !.rid = r])
           \/ /\ ~InsertAdmits(q)
              /\ UNCHANGED runs
              /\ \/ \E r \in KeyedRuns(q.wf, q.key) :
                       IF q.exp \in {NoVersion, runs[r].ver} THEN Replay(c, r) ELSE Return(c)
                 \/ KeyedRuns(q.wf, q.key) = {} /\ Return(c)
        /\ UNCHANGED <<wf, native, runner>>

\* Slip: a create that threw is recorded as a start.
CreateNative_ErrorIsStart(c) ==
    /\ caller[c].pc = "create0"
    /\ CreateEffect(caller[c].rid)
    /\ Goto(c, "mark0")
    /\ UNCHANGED <<wf, runs, runner>>

\* start: WORKFLOW.create for the new Run; an error says nothing about acceptance.
CreateNative(c) ==
    LET r == caller[c].rid
    IN  /\ caller[c].pc = "create0"
        /\ CreateEffect(r)
        /\ Goto(c, "unknown") \/ (native' # native /\ Goto(c, "mark0"))
        /\ UNCHANGED <<wf, runs, runner>>

\* start's catch: reserved becomes start_unknown, then the row is reconciled.
StartUnknown(c) ==
    LET r == caller[c].rid
    IN  /\ caller[c].pc = "unknown"
        /\ runs' = [runs EXCEPT ![r].start = IF @ = "reserved" THEN "start_unknown" ELSE @]
        /\ Replay(c, r)
        /\ UNCHANGED <<wf, native, runner>>

\* The isolate serving a request dies (or a call throws out of the handler): what it
\* wrote stays, what it meant to do next is lost.
RequestDies(c) ==
    /\ caller[c].pc # "idle"
    /\ Return(c)
    /\ UNCHANGED <<wf, runs, native, runner>>

-----------------------------------------------------------------------------
(* The owner's lifecycle operations: the final statement of each.            *)

\* Publish: a fresh version becomes active; a paused workflow stays paused.
Publish(w) ==
    /\ ~wf[w].deleted
    /\ wf[w].ver < MaxVersion
    /\ wf[w].ver + 1 \notin RetiredVersions
    /\ wf' = [wf EXCEPT ![w].ver = @ + 1,
                        ![w].state = IF @ = "paused" THEN "paused" ELSE "active"]
    /\ UNCHANGED <<runs, native, runner, caller>>

Pause(w) ==
    /\ wf[w].state = "active" /\ ~wf[w].deleted
    /\ wf' = [wf EXCEPT ![w].state = "paused"]
    /\ UNCHANGED <<runs, native, runner, caller>>

Resume(w) ==
    /\ wf[w].state = "paused" /\ ~wf[w].deleted
    /\ wf[w].ver \notin RetiredVersions \cup {NoVersion}
    /\ wf' = [wf EXCEPT ![w].state = "active"]
    /\ UNCHANGED <<runs, native, runner, caller>>

\* The runs a tombstone has to wait for.
Unsettled(w) ==
    {r \in Runs : /\ Exists(r) /\ runs[r].wf = w
                  /\ runs[r].outcome \in ActiveOutcome \/ runs[r].start \in Unstarted}

\* Slip: a paused workflow is deleted whatever its Runs are doing.
Deletable_UnderRuns(w) == wf[w].state \in {"draft", "paused"}
\* The atomic predicate of the tombstone, as far as Runs are concerned.
Deletable(w) == wf[w].state \in {"draft", "paused"} /\ Unsettled(w) = {}

Delete(w) ==
    /\ ~wf[w].deleted
    /\ Deletable(w)
    /\ wf' = [wf EXCEPT ![w].deleted = TRUE, ![w].state = "paused"]
    /\ UNCHANGED <<runs, native, runner, caller>>

-----------------------------------------------------------------------------
(* The engine and the instance: WorkflowOrchestrator.run up to its first step *)
(* and its final write.                                                       *)

\* An accepted create becomes visible and the engine calls run().
InstanceAppears(r) ==
    /\ native[r] = "pending"
    /\ native' = [native EXCEPT ![r] = "live"]
    /\ UNCHANGED <<wf, runs, runner, caller>>

\* run() reads its row: a terminal row ends the instance, a retired one throws.
RunnerLoad(r) ==
    /\ native[r] = "live" /\ runner[r] = "off"
    /\ \/ /\ ~Active(r)
          /\ native' = [native EXCEPT ![r] = "complete"]
          /\ UNCHANGED runner
       \/ /\ Active(r) /\ Retired(r)
          /\ native' = [native EXCEPT ![r] = "errored"]
          /\ UNCHANGED runner
       \/ /\ Active(r) /\ ~Retired(r)
          /\ runner' = [runner EXCEPT ![r] =
                IF runs[r].outcome = "queued" THEN "claim" ELSE "exec"]
          /\ UNCHANGED native
    /\ UNCHANGED <<wf, runs, caller>>

\* Slip: the transition to running does not look at the outcome again.
RunnerClaim_Blind(r) ==
    /\ runner[r] = "claim"
    /\ runner' = [runner EXCEPT ![r] = "exec"]
    /\ runs' = [runs EXCEPT ![r].outcome = IF @ = "queued" THEN "running" ELSE @]
    /\ UNCHANGED <<wf, native, caller>>

\* The CAS queued -> running; an instance that loses it never runs a step.
RunnerClaim(r) ==
    /\ runner[r] = "claim"
    /\ IF runs[r].outcome = "queued"
       THEN /\ runs' = [runs EXCEPT ![r].outcome = "running"]
            /\ runner' = [runner EXCEPT ![r] = "exec"]
            /\ UNCHANGED native
       ELSE /\ runner' = [runner EXCEPT ![r] = "off"]
            /\ native' = [native EXCEPT ![r] = "complete"]
            /\ UNCHANGED runs
    /\ UNCHANGED <<wf, caller>>

\* The final UPDATE ... WHERE outcome='running'; "succeeded" stands for succeeded,
\* failed and indeterminate alike, nothing here tells them apart.  The instance ends
\* later (InstanceEnds): at once, by a Saga's deliberate failure or after its Session watch.
RunnerFinish(r) ==
    /\ runner[r] = "exec"
    /\ runs' = [runs EXCEPT ![r].outcome = IF @ = "running" THEN "succeeded" ELSE @]
    /\ runner' = [runner EXCEPT ![r] = "off"]
    /\ UNCHANGED <<wf, native, caller>>

\* The catch of run(): execution_interrupted, and the instance fails.
RunnerThrows(r) ==
    /\ runner[r] = "exec"
    /\ runs' = [runs EXCEPT ![r].outcome = IF @ = "running" THEN "indeterminate" ELSE @]
    /\ runner' = [runner EXCEPT ![r] = "off"]
    /\ native' = [native EXCEPT ![r] = "errored"]
    /\ UNCHANGED <<wf, caller>>

\* The engine replays run() from its beginning (hibernation, eviction).
EngineReplays(r) ==
    /\ native[r] = "live" /\ runner[r] # "off"
    /\ runner' = [runner EXCEPT ![r] = "off"]
    /\ UNCHANGED <<wf, runs, native, caller>>

\* The instance ends in the engine, without run() having written an outcome: it
\* crashed or was terminated (told apart by nothing below), or completion is reported
\* that D1 does not show; or it ends after run() wrote one.
InstanceEnds(r, how) ==
    /\ native[r] = "live"
    /\ native' = [native EXCEPT ![r] = how]
    /\ runner' = [runner EXCEPT ![r] = "off"]
    /\ UNCHANGED <<wf, runs, caller>>

-----------------------------------------------------------------------------
(* Time *)

StartWindowPasses(r) ==
    /\ runs[r].start \in Unstarted /\ ~runs[r].stale
    /\ runs' = [runs EXCEPT ![r].stale = TRUE]
    /\ UNCHANGED <<wf, native, runner, caller>>

SettleWindowPasses(r) ==
    /\ Active(r) /\ runs[r].seen = "recent"
    /\ runs' = [runs EXCEPT ![r].seen = "old"]
    /\ UNCHANGED <<wf, native, runner, caller>>

-----------------------------------------------------------------------------
NoRow == [wf |-> CHOOSE w \in Workflows : TRUE, ver |-> 1, key |-> NoKey, weight |-> 1,
          start |-> "none", outcome |-> "queued", stale |-> FALSE, seen |-> "null"]

\* Workflows start as drafts, except that with Legacy Runs they carry the
\* retired first version those Runs were admitted under.
Init ==
    /\ wf = [w \in Workflows |->
          IF Legacy = {} THEN [state |-> "draft", ver |-> NoVersion, deleted |-> FALSE]
          ELSE [state |-> "active", ver |-> 1, deleted |-> FALSE]]
    /\ runs \in [Runs -> {NoRow} \cup {[NoRow EXCEPT !.start = s, !.outcome = o, !.stale = TRUE] :
                                         s \in {"start_unknown", "started"}, o \in {"queued", "failed"}}]
    /\ \A r \in Runs : Exists(r) <=> r \in Legacy
    /\ native \in [Runs -> {"absent", "live", "errored"}]
    /\ \A r \in Runs : /\ r \notin Legacy => native[r] = "absent"
                       /\ runs[r].start = "started" => native[r] # "absent"
                       /\ native[r] = "errored" <=> runs[r].outcome = "failed"
    /\ runner = [r \in Runs |-> "off"]
    /\ caller = [c \in Callers |-> DefaultRequest]

\* A step of the code that serves request c.
Serve(c) ==
    \/ ReconcileObserve(c) \/ ReconcileCreate(c) \/ ReconcileObserveAgain(c)
    \/ MarkStarted(c) \/ ExpireStart(c) \/ CapacityRead(c) \/ StatusRead(c)
    \/ SettleObserve(c) \/ NativeSettle(c)
    \/ Admit(c) \/ InsertRun(c) \/ CreateNative(c) \/ StartUnknown(c)

\* A step of the engine or of the instance it runs.
Engine(r) ==
    \/ InstanceAppears(r) \/ RunnerLoad(r) \/ RunnerClaim(r)
    \/ RunnerFinish(r) \/ RunnerThrows(r) \/ EngineReplays(r)
    \/ \E how \in {"complete", "errored"} : InstanceEnds(r, how)

Next ==
    \/ \E c \in Callers : Serve(c) \/ RequestDies(c)
    \/ \E c \in Callers, w \in Workflows, k \in Keys, origin \in Origins :
          StartCall(c, w, k, origin)
    \/ \E c \in Callers, w \in Workflows, k \in Keys : StartReplay(c, w, k)
    \/ \E c \in Callers, r \in Runs : StatusCall(c, r)
    \/ \E w \in Workflows : Publish(w) \/ Pause(w) \/ Resume(w) \/ Delete(w)
    \/ \E r \in Runs : Engine(r) \/ StartWindowPasses(r) \/ SettleWindowPasses(r)

Spec == Init /\ [][Next]_vars

\* An engine lookup that answers at all.
ObserveAnswered(c) ==
    \/ ReconcileObserve(c) /\ caller'[c].pc \in {"mark", "create", "expire"}
    \/ ReconcileObserveAgain(c) /\ caller'[c].pc \in {"mark", "expire"}
    \/ SettleObserve(c) /\ caller'[c].pc = "natSettle"

\* Fairness: requests are served to their end (an isolate may die, but not every
\* time), the owner keeps asking for the status of a Run and the engine's lookup does
\* not fail for ever, the engine keeps driving the instances it accepted, and
\* clocks advance.  Nothing is assumed of start, publish, pause, resume or delete:
\* the code has no scheduler of its own that would reconcile a Run unasked.
Fairness ==
    /\ \A c \in Callers :
          /\ WF_vars(Serve(c))
          /\ SF_vars(ObserveAnswered(c)) /\ SF_vars(MarkStarted(c))
          /\ SF_vars(ExpireStart(c)) /\ SF_vars(StatusRead(c)) /\ SF_vars(NativeSettle(c))
    /\ \A c \in Callers, r \in Runs : SF_vars(StatusCall(c, r))
    /\ \A r \in Runs :
          /\ WF_vars(InstanceAppears(r)) /\ WF_vars(StartWindowPasses(r))
          /\ WF_vars(SettleWindowPasses(r))
          /\ SF_vars(RunnerLoad(r)) /\ SF_vars(RunnerClaim(r))
          /\ SF_vars(RunnerFinish(r))

FairSpec == Spec /\ Fairness

-----------------------------------------------------------------------------
(* Properties *)

\* The queued and running Runs never weigh more than RUN_CAPACITY_LIMIT, however
\* many requests read the capacity and insert at the same time.
CapacityBound == CapacityUnits <= Limit

\* A business step runs only while D1 says the Run is running: an instance that
\* becomes visible after its start was given up as unconfirmed, or whose Run was
\* settled from the engine's status, executes nothing.
ExecOwnsRun == \A r \in Runs : runner[r] = "exec" => runs[r].outcome = "running"

\* start_state='started' is only ever recorded for an instance the engine accepted;
\* no timeout, lost answer or failed lookup is taken for a start.
StartedIsReal == \A r \in Runs : runs[r].start = "started" => native[r] # "absent"

\* A tombstoned workflow has no Run that is active or whose start is unsettled,
\* although admission reads the workflow long before it inserts.
DeletedIsQuiet == \A w \in Workflows : wf[w].deleted => Unsettled(w) = {}

\* One idempotency key starts at most one engine instance, whatever the replays,
\* crashes and concurrent admissions.
OneExecutionPerKey ==
    \A w \in Workflows, k \in Keys :
        Cardinality({r \in KeyedRuns(w, k) : native[r] # "absent"}) <= 1

\* What D1 settled stays settled, an admission keeps its workflow, version, key and weight
\* across republish, replay and repair, and no repair, status or replay rewrites a Run of a
\* retired version or creates its instance again.
SettledStays(r) ==
    Exists(r) =>
        /\ runs[r].outcome \in Terminal => runs'[r].outcome = runs[r].outcome
        /\ runs[r].start = "started" => runs'[r].start = "started"
        /\ <<runs'[r].wf, runs'[r].ver, runs'[r].key, runs'[r].weight>> =
              <<runs[r].wf, runs[r].ver, runs[r].key, runs[r].weight>>

LegacyFrozen(r) ==
    r \in Legacy => /\ runs'[r] = runs[r]
                    /\ native[r] = "absent" => native'[r] = "absent"

RowsStay == [][\A r \in Runs : SettledStays(r) /\ LegacyFrozen(r)]_vars

\* Every admitted Run leaves the capacity it holds: a lost create, a late instance,
\* a dead engine and a missing final write are all settled in the end.
AdmissionSettles == \A r \in Runs \ Legacy : Active(r) ~> ~Active(r)

-----------------------------------------------------------------------------
(* The inductive invariant behind ExecOwnsRun and StartedIsReal.  A request    *)
(* only works on rows that exist, only records a start for an instance it      *)
(* knows to be accepted, and the final engine status it holds is still true    *)
(* when it settles the row with it.                                            *)

RequestKnows(q, rows, insts) ==
    /\ \A r \in q.todo : rows[r].start # "none"
    /\ q.pc \in {"create", "create0", "unknown"} => rows[q.rid].start # "none"
    /\ q.pc \in {"mark", "mark0"} => insts[q.rid] # "absent"
    /\ q.pc = "natSettle" /\ q.obs \in {"complete", "errored"} => insts[q.rid] = q.obs

AdmissionInv ==
    /\ \A r \in Runs : ~Exists(r) => native[r] = "absent"
    /\ \A r \in Runs : runner[r] # "off" => native[r] = "live"
    /\ ExecOwnsRun
    /\ StartedIsReal
    /\ \A c \in Callers : RequestKnows(caller[c], runs, native)
===============================================================================
