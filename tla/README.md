# TLA+ models of mcp-workers

The repository holds eight Cloudflare Workers that expose tools over MCP. Four of
them are thin clients of an API. The Workflow Worker is a durable workflow service,
and three others (remote control, SSH, browser) keep state of their own that must
survive restarts and late answers. This directory models that state and the steps
that change it. TLC checks small instances; TLAPS proves theorems about every part,
for every instance.

## 1. Inventory

### Workflow Worker (`src/apps/workflow-mcp-worker`)

State lives in one D1 database. A request is a sequence of SQL statements, each
atomic, with calls of other services between them. A Run is executed by a
Cloudflare Workflows instance with the Run's id: the engine logs the result of
every `step.do`, may interrupt `run()` at any moment and replays it from the
beginning, and a `step.do` that times out does not stop the code inside it.

| Component | State | Operations | What makes it correct |
|---|---|---|---|
| Run admission (`store.ts`, `runner.ts`, `instance-observation.ts`, `scheduled.ts`, `webhook.ts`, `github-event.ts`) | `workflows`, `runs` | start, status, reconcileStart, settleNativeOutcome, publish, pause, resume, delete; the instance's claim and last write | the capacity limit, one execution per idempotency key, no execution of a settled Run, no start recorded on an error, every Run settles |
| Child Runs (`child-capacity.ts`, `child-cancel.ts`, `runner.ts`) | the child's row of `runs`, the parent's weight, `child_cancellations` | reserve, start, poll, expire, cancel, terminate | capacity is transferred and never duplicated, one creator, one terminate, a cancelled child runs nothing, a reservation is given back |
| GitHub Tasks and Sessions (`github-action-*.ts`, `saga.ts`, `session-device-*.ts`) | `step_attempts`, `session_executions`, `github_action_cancellations`, `callback_receipts` | reserve a slot, dispatch, claim, ready, task result, settle, status, watch, cancel, force, compensate, admit a device action | slots cover the physical jobs, one dispatch and one cancel POST per job, outcomes are the job's own, a cancellation fences everything later |
| Plan compiler (`plan.ts`, `store.ts`) | none | compilePlan, publish's grants | an accepted plan can be executed, under unique ids and within its budgets |
| Step scheduler and Saga (`runner.ts`, `saga.ts`) | `run_steps`, compensation receipts | waves, conditions, joins, foreach, loops, compensation | the verdict covers every step, each effect at most once, nothing without what it needs |
| Approval gate (`runtime-approval.ts`) | `runtime_approval_gates`, `runtime_approvals` | open, decide, wait, consume, cancel | no effect of a gated step without the decision |
| Dispatch fences (`portal-authorization.ts`, `http-*.ts`, `*-action-executor.ts`, `litterbox-executor.ts`) | `portal_connection_auth`, `http_connection_auth`, `mcp_dispatch_fences`, `cloudflare_action_invocations` | reserve a call, revoke, enable, record the outcome | one external effect per step, none after revocation |
| Event waits (`event-wait.ts`, `wait-event-ingress.ts`) | `wait_event_receipts` | deliver, wait, time out, cancel | the wait ends, a cancelled wait is not completed |

The components meet on the `runs` table. Admission decides whether a Run exists and
how much capacity it holds; the scheduler executes it; a child step inserts a second
Run and gives it one of its parent's units; a GitHub step keeps a physical job whose
life is independent of its Run; cancellation enters through one tool and goes to
whichever of them owns the step.

### Other Workers and packages

* SSH (`ssh-mcp-worker/src/operations.ts`): a Durable Object with operation receipts,
  connection leases (four in all, two per host) and live shells.
* Browser (`browser-mcp-worker`): a Durable Object with endpoints and an intent ledger
  (admitted, dispatching, completed, failed, expired, unknown); an extension carries
  the intents out and has a Stop of its own.
* Remote control (`remote-control-mcp-worker`): a Durable Object with pending pairings,
  devices, session epochs and nonces; a WebSocket per device; Session devices are
  authorised by the Workflow Worker over RPC.
* Database, GitHub discovery, IMA, Raindrop: one upstream call per tool, no state.
* `portal-auth` compares a bearer token; `scripts/` holds release tooling.

### What is hard here

Nothing in D1 is locked across an `await`, and a Durable Object lets another handler
in at every `await`. The hard behaviours are a condition that is read, then stale
when it is used; an answer that is lost although the call had its effect; an
instance, job or socket that appears after it was given up; a durable step that runs
on after its timeout while its successor starts; a lost checkpoint, after which code
that already called out runs again; and a unit, slot or lease that nobody gives back.
`PROJECT.json` lists each hazard at its line with the properties that would catch it.

## 2. Modules

| Module | Models | State |
|---|---|---|
| `RunAdmission` | admission, reconciliation and settlement of top-level Runs | `wf`, `runs` (tables), `native` (engine), `runner` (instance), `caller` (requests) |
| `ChildRun` | one `flow.child` step | `parent`, `child`, `intent`, `native`, `runner`, `proc`, `calls`, ... |
| `GitHubAction` | GitHub Tasks and Sessions | `run`, `parent`, `session`, `attempt`, `cancel`, `saga`, `job`, `proc`, `hist` |
| `PlanRules` | `compilePlan` and publish's grants, as operators on drafts | none |
| `RunSteps` | one Run of a published plan, with every fence, gate, wait and compensation | `plan`, `run`, `eng`, `st`, `conn`, `gate`, `evt`, `up`, `cx`, `comp` |
| `SshOperations` | the SSH Durable Object | `call`, `op`, `sess`, `lease`, `unresolved`, `saved` |
| `BrowserIntents` | one browser endpoint and its extension | `ep`, `att`, `stop`, `sock`, `op`, `reading`, `look`, `page`, `ext` |
| `RemoteControl` | the remote-control Durable Object | `dev`, `nonce`, `epoch`, `fenced`, `chal`, `login`, `sock`, `req`, `revoke`, `intent`, `attempts` |
| `OnceEffect` | the abstract promise of every effectful path | `ledger`, `effect` |
| `MC...` | the instances of each for TLC | |
| `RunAdmissionProofs`, `ChildRunProofs`, `GitHubActionProofs`, `PlanRulesProofs`, `RunStepsProofs`, `SshOperationsProofs`, `BrowserIntentsProofs`, `RemoteControlProofs` | theorems about the module they extend | |

Conventions:

* In the workflow modules one action is one D1 statement, one D1 batch, or one call of
  the engine, a provider or GitHub. In the Durable Object modules one action is one
  turn of a handler, which ends at an `await` wherever the code goes on with what it
  read before. A request is a process with a program counter whose locals are what the
  code keeps across an `await`.
* A predicate that a SQL statement or a check evaluates is an operator
  (`InsertAdmits`, `Registers`, `PortalFence`, `Free`, `Chosen`, ...); the action
  applies it at the moment the code does.
* Clocks are abstracted to the comparisons the code makes; time may pass at any moment.
  Only `RemoteControl` counts ticks, because deadlines are compared with each other.
* An external call has every outcome the code distinguishes, and its effect is
  chosen separately from its answer.
* `SshOperations`, `BrowserIntents`, `RemoteControl` and `RunSteps` begin in one of
  several workloads (who calls what, which faults may happen). A workload restricts who
  takes part and never what a handler does.
* An operator whose comment begins with "Slip" is a plausible mistake. No
  specification uses it; substituting it for the operator after it must break the
  property `PROJECT.json` names, which shows that the property depends on that code.

### RunAdmission

`StartCall` is the head of `WorkflowService.start`, called by the owner, by a cron tick,
by a webhook or by a GitHub push (`Origins`), which differ in their keys and in the
version they pin: the replay of an idempotency key or the list of stale starts.
`ReconcileObserve`, `ReconcileCreate`, `ReconcileObserveAgain`, `MarkStarted` and
`ExpireStart` are `reconcileStart`. `CapacityRead`, `SettleObserve` and `NativeSettle` are
the repair at the limit, `Admit` and `InsertRun` the checks and the conditional INSERT,
`CreateNative` and `StartUnknown` the rest. `RunnerLoad`, `RunnerClaim`, `RunnerFinish` and
`RunnerThrows` are `run()` of the instance with the plan's steps left out. `Publish`,
`Pause`, `Resume` and `Delete` are the owner's tools, as far as Runs depend on them.
`Legacy` Runs belong to a version with a retired action.

### ChildRun

The parent's loop (`AdmitChild`, `StartAttempt`, `ParentStatus`, `ParentVerdict`)
and the code of its start steps (`Attempt...`) are separate processes, because a
step that timed out runs on. `Cancel...` is `cancelAwaitedChild`, called by the owner
and by the parent's own poll. `other` stands for the capacity of all other Runs.

### GitHubAction

The dispatch step (`Reserve`, `Register`, `Refuse`, `Post`, `Record`), the parent's
check step and up to two requests run beside `run()` (`RunStep`) and the job. Status,
watch, check and cancellation share the reconciliation (`Inspect`, `SettleClaimed`,
`SettleUnclaimed`, `Compare`, `Release`), as in the code. `Answer` and `Stamp` carry
the answer of a cancellation to its caller or to the saga's receipt. `Claim` and
`ClaimRefused` are the ingress of the job's signed claim, whose three questions
(`MayClaim`, `AlreadyClaimed`, `ClaimPending`) are asked with separate reads. A job's id
is recorded at most once, by the dispatch that was confirmed, so an attempt either has
its candidate or has none, and no other id occurs.

### PlanRules and RunSteps

`PlanRules` states what `compilePlan` accepts: the shape of every step kind, the
expansion of repeats, foreach and loops into steps with generated ids, closed needs,
unique ids, budgets, the references a step may make to an earlier one, the
Saga's restrictions, and the layers of at most `maxParallel` steps. `Required` and
`Publishable` are the grants that publish demands. An id is a sequence of tokens, so that
generated and written ids can coincide as they can in the code. The rules are
checked against a reference definition (`Acyclic`, and one row per key) and against
the runner itself (`AcceptedPlansRun`).

`RunSteps` begins with a draft. `Publish` compiles it, `Top`, `Wave`, `WaveEnds`, `Final` and
`Rollback` are `run()`. A step's callback goes through `Begin...`, `Discover...`, its fence
(`PortalFence`, `HttpFence`, `ActionFence`, `FileFence`, `GitHubFence`), the call, and
`Finish` and `Put`; a foreach and a loop go through their children the same way. `Crash`
loses the memory of the execution and any checkpoint not yet written, after which
everything not checkpointed runs again. Beside the engine act the owner's
approval, the event senders, the upload, `Revoke`, the cancellation call (one
action per statement) and the requests that compensate Sessions. A child Run and a
dispatched GitHub job appear here as one answer; `ChildRun` and `GitHubAction` have
their lives.

A GitHub step is no checkpoint of its own. Its dispatch is one (`ReserveGitHub`, with `NoSlot`
for the refusals of a Session, `DispatchGitHub`, `Reply`), which may throw (`DispatchThrows`) or
outlive its 45 seconds (`DispatchTimeout`): the step is then indeterminate, while the abandoned
callback goes on (`LateDispatch`) and may still register and send. What a Task came to is
kept in the checkpoint of its last check (`PollTask`); whether a Session is ready or has
ended is kept in none, so that each replay reads it anew (`PollSession`, `SessionEnds`). The
controller of several stages hears what its Task throws, the controller of one does not (`Throws`).

### SshOperations

Each call is `Arrive`, then the turns of its handler: `Claim` (receipt and lease in one
transaction), credentials, `OpenSocket`, `Dispatch`, `Result` or a deadline, `Persist`,
`Leave`. Shells add `Register` and `Alarm`; inputs and stops queue on their session
(`MyTurn`). `FinishSession`, `Disconnect`, `DeadlinePasses` and `SweepSession` are what
happens to a live shell; `Restart` loses memory and sockets and turns open receipts
unknown. `OperationStatus` and `SessionStatus` answer queries. Any storage statement may throw
(`StorageFaults`), the alarm that ends a stop and every statement of an emergency stop too.

On the wire a refused argument, an unreadable or conflicting receipt and a full lease table
have the status `failed` as well, also when the retry or query is about an operation that an
earlier call carried out. The model names such a reply by its error (`CallErrors`), and
`WireStatus` gives its status back: `HonestReplies` reads a `failed` together with its error. As
the outcome of an operation it means never carried out; with one of `CallErrors` it speaks of
the call alone, which sent nothing itself. A client that looks only at the status cannot tell
the two apart (see the remarks in section 4).

### BrowserIntents

Activation (`Begin`, `Authorize`, `Poll`, `CompleteRead`, `CompleteCommit`, and in the
extension the answer: checked in `CompleteAnswer`, persisted in `GrantPersists`, compared once
more in `GrantSettles`), Stop of either side (`StopRead`, `StopWrite`, `StopAnswer`), `Revoke`,
`Expire`, sockets, and the life of an intent: `Mutate`, `Admit`, `ExtensionPrepares`, `Prepared`,
`Dispatch`, `ExtensionConsumes`, `ExtensionChecks`, `ExtensionAuthorizes` (the last check),
`ExtensionExecutes`, `Finalize`, with `MutationTimeout`, `OperationStatus` and restarts of both
sides. Each of the extension's denials (a click on Stop or Revoke, or the word of its socket)
blocks memory at once (`StopClick`, `RevokeClick`, `ToldOff`), then waits for the disk
(`DenialPersists`) and only then closes the network (`DenialClears`): `ext.asked` and
`ext.written` hold the denials that are so far. An observation is `Read`, then
the extension's steps: the tab list at once; for a snapshot `Extracts` and `ValidatesText`;
for a screenshot `Surveys`, `Watches`, `ChecksAgain`, `Captures` and `ValidatesPicture`; then
`Clears`, `Sends` and `ReadResult`. Meanwhile the tab may load another document
(`Navigates`) or be hidden and come back (`SwitchesTab`).

### RemoteControl

Enrolment (`RegisterPending`, `Approve`, `GrantSession`), login (`Challenge`, `Verify`,
`Commit`, `Recheck`, `ReadEpoch`, `Attach`), sockets (`Probe`, `SocketCloses`, `Inform`),
commands (`Ask`, `Read`, `Dispatch`, `Result`, `Timeout`), revocation (`RevokeCommit`,
`RevokeTell`, `CleanupEnds`, `RevokeEnd`), the device's own stop and resume
(`IntentChallenge`, `IntentCommit`), deadlines, listing and renaming. A check of a Session
device asks the Workflow Worker and takes a turn of its own.

### OnceEffect and its three implementations

`OnceEffect` says what every effectful path promises: an operation is claimed in a
durable ledger before anything leaves, leaves at most once, and is settled with a
verdict that is true of the outside world and stays so, or with "unknown", after which it
is never sent. `ImplementsOnceEffect` in `SshOperations` (receipts of commands, file changes
and inputs), `BrowserIntents` (the intent ledger) and `RunSteps` (every fenced step and
every compensation) is the abstract specification under a refinement mapping. Only
the browser may revise "unknown" by a late observation (`Revisable`).

## 3. Runs

| Run | Instance | Properties |
|---|---|---|
| `admission` | 2 requests of every origin, 2 Runs and 1 left over, 1 key or none, versions of weight 1 and 2, limit 3 | `ExecOwnsRun`, `StartedIsReal`, `OneExecutionPerKey`, `CapacityBound`, `DeletedIsQuiet`, `RowsStay` |
| `admission_settles` | 1 request, 1 Run, fairness | `AdmissionSettles` |
| `child` | both modes, 2 attempts, 1 canceller, 1 other unit, limit 2, every fault | `FamilyCapacity`, `SingleCreator`, `CancelSafe`, `ChildHistory` |
| `child_leak` (violation) | 1 attempt, step timeouts, fairness | `ClaimReleases` |
| `github_safety` | 1 step of either type, 2 dispatch executions, 2 requests of any kind, every fault | `SlotCoversJob`, `OncePosted`, `AnswersArePhysical`, `SessionHistory` |
| `github_returns` | 2 Sessions, 1 slot, 1 request, fairness | `PhysicalQuota`, `SlotReturns` |
| `ssh` | 3 calls, 3 hosts, 2 leases in all and 1 per host, 3 storage faults, 1 restart, 10 workloads | `HonestReplies`, `ConnectionsBounded`, `StoppedIsQuiet`, `ImplementsOnceEffect`, `LeasesReturn` |
| `remote` | 2 devices, 2 logins, 2 commands, 2 intents, 1 restart, 6 workloads | `OneGrantPerKey`, `SentToCurrent`, `ResultsAreCurrent`, `StopFreezesDeadline`, `EverythingAnswered` |
| `browser` | 2 intents, 2 observations, 3 documents, 2 sockets, 2 activations, 1 Stop of each side, 12 workloads | `OneAtATime`, `OffStaysOff`, `PagesAreGuarded`, `ImplementsOnceEffect`, `DispatchEnds` |
| `browser_revoke` (violation) | 1 activation, 1 Stop, 1 Revoke | `RevokedStays` |
| `runsteps` | about 9000 drafts that are only compiled, and 25 Runs | `VerdictCovers`, `CancelHonest`, `EffectsAuthorized`, `AcceptedPlansRun`, `ImplementsOnceEffect`, `RevokedNeverCalls`, `RunSettles`, `SagaCompensates` |
| `steps_replay` (violation) | 1 MCP write, 1 crash, a tool that changes | `FailedMeansUntouched` |

### Why these bounds suffice

Every race in this code is between two statements of two actors on one row, with one
more actor (the instance, the job, the socket or the extension) behind it; the runs
have two requests and that actor, and the histories count to two, which is where
"at most once" fails. Limits are as small as they can be and still be met by the
second request: two weight-2 Runs do not fit 3 units, two calls to one host meet
`HostLimit` and three calls `TotalLimit`.

Constraints, all in the MC modules:

* `OneKind` (admission): the admissions of one behaviour all carry the key or none
  does; at most one of the two requests is a status; the instance of the leftover Run
  has ended when another Run is admitted. Admissions without a key compete only with
  each other.
* `TwoInFlight` (child, GitHub): two of the executions, requests or claims of a step are
  alive at a time; the third may begin when one ends. The child's competing Run comes
  and goes while no process is in flight, since the INSERT reads the units at once.
* `LastPoll` bounds the polling loops, `Horizon` the clock of `RemoteControl`, `Restarts`,
  `StorageFaults`, `faults` and `crashes` the faults of one behaviour.
* In `RunSteps` the limits of a plan are scaled down (6 steps, 2 in parallel, 2 repeats,
  3 stages), and the drafts include every graph over three steps, every written id
  that meets a generated one, every step kind with every extra, and every reference to
  the outputs of three kinds of steps.

The workloads of one run are separate families of behaviours, not a product. `ssh`:
commands with a retry; one id with other arguments; three connections for two leases; a
command that needs the lease of a shell; an input and its retry; an input against a
stop; a stop and its retry; queries of a command, of a file change and of a shell. `remote`: reconnection and revocation; stop and resume;
a revoked Session device whose job enrols again; one key on two ways in; full limits;
a grant from before the deadlines (device information is sent only in the last two). `browser`:
two intents over two sockets; ageing of keys and receipts; the extension's Stop; two
activations and the owner's Stop; an intent and two activations against a Revoke; activation
against Stop and restart; lost answers; failing alarms;
a temporary pairing; late observations beside an intent; an observation against Stop, restart
and a user who changes pages and tabs. In `runsteps` no workload combines a crash with a tool that
changes (that is `steps_replay`), with an approval that commits late (which has a workload
without a crash), or with the cancellation of a provider step beside a top-level step that calls
out, and the child step has none, because the answer of a child may differ on replay. A Session is
combined with one crash, but not where another Session needs it. Section 5 says why, and what is
proved of those Runs as well.

Deadlock is not checked: every system here may come to rest when nobody asks. Symmetry
is used for interchangeable requests, attempts and dispatches, and only in runs
without liveness.

### Fairness

* `admission_settles`: a request that was begun is served (an isolate may die, but
  not every time, hence SF), the owner keeps asking for the status, the engine
  drives what it accepted, and time passes. Nothing is assumed of start, publish,
  pause or delete. The polling owner is necessary: the Worker has no scheduler that
  reconciles a Run unasked.
* `child_leak`: the engine runs the parent and the child, and calls that began go on.
* `github_returns`: per Session, a request that has begun goes on, and the owner asks
  for the status again and again. Nothing is assumed of `run()`, the dispatch, the watch or
  GitHub; the promise starts when the job has ended provably.
* `ssh`: handlers go on, timers and alarms fire, a peer answers or its connection
  breaks. A `channel.write` returns or throws.
* `remote`: a handler that waits for storage, for the workflow or for one of its timers
  goes on. Devices need not answer.
* `browser`: the timer of a dispatched intent fires while the Durable Object lives.
  The extension need not answer and the owner need not ask.
* `runsteps`: the engine keeps executing, every wait and call ends by its timeout,
  deadlines pass, and a request that began runs to its end. Nobody has to approve,
  send an event, upload, revoke or cancel.

## 4. Findings

* `child_leak`. `child-capacity.ts` promises that a worker lost between claim and
  create() does not hold its reservation for ever. The expiry that keeps the promise
  runs inside the parent's start step, and one failed durable step ends the parent's
  loop. No other code looks at a child that has not started, so it stays queued.
* `browser_revoke`. `/stop` checks the endpoint's state, waits for an alarm to be set and
  then writes `stopped` unconditionally. A Revoke that commits in between is undone.
* `steps_replay`. When the checkpoint of an MCP step is lost after the call, the step's
  second execution looks the tool up again before it meets its own fence. A failure
  there is recorded as `failed`, although the first execution may have had its effect.

### Remarks without a run

Admission and children:
* The target of a child step is read outside any durable step (`runner.ts:689-692`). A
  replay after the child was admitted and its workflow paused reports
  `child_target_unavailable`, a "known rejection", although the child exists.
* A published parent may name a child workflow that was deleted while publish
  was under way; the next start of that step is refused.

GitHub:
* A job that succeeds without its claim, ends ambiguously or was dispatched without an
  answer keeps its Session's slot for ever. The code does so on purpose; `SlotReturns`
  is stated for the jobs whose end is provable.
* A dispatch recorded between the first and the last read of the claim handler gets a
  valid job the answer `claim_denied` and not `claim_pending`.

Runs:
* An approval stamped before its deadline may commit after the waiter timed out. The
  row says failed; after a crash the replay finds the approval and dispatches.
* What a Session came to is read from D1 on every replay (`github-action-session.ts:321-339`).
  After a crash a Run may go on as if a Session succeeded whose row says `indeterminate`, or the other
  way round, and end `succeeded` over that row. `Put` keeps the first word in the row
  (`runner.ts:1010`), so that the Run and its step's status then differ. `Wavers` names such a
  Run, and the properties say what holds of it. In such a Run a step that the first execution
  skipped may be dispatched and stay shown as `skipped`, or one that was dispatched be skipped.
* When the checkpoint of a Session's dispatch is lost and its job has ended before the replay, the
  slot is `terminated`, the reservation is refused (`denied`) and the step ends as `failed`,
  although its job ran; so does a Session that ended before the waiter saw it ready
  (`ended_before_ready`), even if it had been. A failed Session is over, not undone:
  `StepLedger` counts a fenced one as "unknown".
* The dispatch of a GitHub step may register and send after its 45 seconds are over and the step
  is recorded as `indeterminate`. It is never sent twice. `ImplementsOnceEffect` counts the step
  as claimed until the abandoned callback has ended.
* A dispatch that throws below a foreach of several stages leaves the row of the Task
  `running`; only the controller's row says `indeterminate`.
* `CancelGate` is one action where `store.ts:557-665` has the batches of a step with and
  without an Attempt; an Attempt whose dispatch was not answered may be cancelled as unverified.
* `WorkflowService.cancel` of a Run is modelled here (`CancelAction`, `CancelEvent`,
  `CancelGate`) and, for children, in `ChildRun`; the requests of `RunAdmission` do not cancel.
* A crash makes the replay forget which steps were under way. When the cancellation of a
  provider step that was not dispatched commits before the replay's first wave, `runner.ts:857-868`
  marks every step it does not know to have ended as `skipped`, one that had been dispatched
  before the crash included, whose row said `running`. The comment there speaks of steps that
  have not begun; `tests/github-action-task.test.ts:236` keeps a dispatched step of a cancelled
  Run unknown. One crash, a GitHub Task and a provider step in one wave are enough to see it.
* `saga.ts` and the engine compensate when the final write is followed by the throw at
  `runner.ts:1025`. A crash between the two makes the replay return early
  (`runner.ts:816`), so `SagaCompensates` is stated for executions without a crash.
* The waiter of a Litterbox file may report that no file was submitted while a stalled
  upload still reserves; the model assumes the upload left within the wait.
* A replayed event wait that had timed out turns a failed step into an indeterminate Run.
* A generated checkpoint name such as `workflow-a-snapshot` is also the name of a step
  with the id `a-snapshot`.
* The static check of references does not look into foreach and loop templates.

SSH: a lease whose DELETE fails twice stays taken until a restart (`leaked`); a
failing alarm after the registration of a shell turns its completed receipt into failed; a
retry or a query of an operation that was carried out may be answered with the status
`failed` and the error `receipt_store_unavailable`, `receipt_conflict` or `capacity_reached`,
which says nothing of the operation. A login or a host key that the SSH library refuses after
the dispatch was marked is answered `failed` (`ExecResults`): the model takes it that the
library, which is external, raises these errors only before the server has taken a command.

Remote control: `acceptAuthenticatedSocket` asks the workflow between reading the epoch
and accepting the socket; a command of a Session device that passed its check may leave
after a revocation, and its result is not reported; the status of a revoked identity
deletes the device's row although it is described as read-only; temporary and Session
devices never get `last_verified_online_at`, so the list shows them offline.

Browser: `/local-stop` that read "stopped" while an Enable commits advances only the
stop epoch; the extension compensates through its pending activations. An intent marked
unknown may still be executing in the extension while the next one runs. An effect the browser
was asked for may still happen after a Stop, as `mutations.js:38-39` says; `PagesAreGuarded` is
about the last check, and about what leaves. A Stop or Revoke clicked between the check at
`background.js:191` and the write at 218 or 220 is overwritten on disk: memory keeps the
extension off, and the comparison at 228 makes `stopLocal` write "stopped" again (also over the
"revoked" of a Revoke, with the credential written back). A service worker suspended between the
two comes back enabled, although the comment at `background.js:53` says that a Stop or Revoke invalidates it.
`OffStaysOff` makes its promise but for that window, `Overwritten`.

## 5. Proofs

Every theorem holds for all values of the constants its module declares: any number of
Runs, requests, steps, calls, intents, devices and processes, any limit, every draft, every workload
and every combination of faults. The only hypotheses are the named assumptions of the component's
module. TLC evaluates each of them in the runs. Most give a constant its type, keep sets of processes
apart, or make a set finite that has a capacity counted over it. Five say more:

* `LegacyAssumption` (`RunAdmission`): leftover Runs fit the limit and belong to a retired
  version. They were admitted under the same limit.
* `BoundAssumption` (`ChildRun`): the limit has room for the parent's two units, without which
  `start` does not admit it, and what the other Runs use at first fits under the limit.
* `WorkloadAssumption` (`RemoteControl`): targets are devices, and the grants that existed
  before the deadlines are personal, have different keys and fit the device limit. The code
  that enrolled them made the checks it makes today; without it the initial state could
  already violate `OneGrantPerKey`.
* `LimitsAssumption` (`PlanRules`): the limits of a plan are positive, and a repeat, foreach
  or loop has at most eight rounds, whose digits an author may also write in an id. The code's
  limit is eight (`plan.ts`, `PLAN_LIMITS`); the digits are what makes a written id able to
  meet a generated one.
* `WorkloadsAssumption` (`RunSteps`): a draft is `Parsed`: what `compilePlan` has settled
  before any of its rules is looked at (steps and templates are lists, ids match `SAFE_ID`, so
  that no author can write the token a loop puts in its children's ids, counts are numbers).
  Everything the rules themselves decide is left open: rejected drafts are workloads too.

| Module | Theorems (property) |
|---|---|
| `RunAdmissionProofs` | `TypeCorrect`, `AdmissionInvariant`, `ExecutionOwned` (`ExecOwnsRun`), `StartsAreReal` (`StartedIsReal`), `CapacityRespected` (`CapacityBound`), `DeletedStaysQuiet` (`DeletedIsQuiet`), `RowsAreStable` (`RowsStay`), `KeyExecutesOnce` (`OneExecutionPerKey`) |
| `ChildRunProofs` | `ChildTypeCorrect`, `OneCreator` (`SingleCreator`), `CancellationHolds` (`CancelSafe`), `FamilyFits` (`FamilyCapacity`), `HistoryStays` (`ChildHistory`) |
| `GitHubActionProofs` | `GitHubTypeCorrect`, `SlotsCoverJobs` (`SlotCoversJob`), `QuotaIsPhysical` (`PhysicalQuota`), `PostsOnce` (`OncePosted`), `AnswersArePhysicallyTrue` (`AnswersArePhysical`), `HistoryNeverReturns` (`SessionHistory`) |
| `PlanRulesProofs` | `AcceptedPlansFit` (and, as lemmas, `AcceptedAcyclic`, `BudgetCovers`) |
| `RunStepsProofs` | `TypeCorrect`, `CancellationHonest` (`CancelHonest`), `RevocationHolds` (`RevokedNeverCalls`), `PlansRun` (`AcceptedPlansRun`), `EffectsLeaveOnce`, `RecordsStay`, `SuccessesAreReal`, `ApprovalsHold`, `CompensationsOnce`, `SettledSagasEnd` |
| `SshOperationsProofs` | `SshTypeCorrect`, `RepliesAreHonest` (`HonestReplies`), `ConnectionsWithinLimits` (`ConnectionsBounded`), `StopsAreFinal` (`StoppedIsQuiet`), `OperationsOnce` (`ImplementsOnceEffect`) |
| `BrowserIntentsProofs` | `BrowserTypeCorrect`, `EndpointExclusive` (`OneAtATime`), `StopHolds` (`OffStaysOff`), `PagesGuarded` (`PagesAreGuarded`), `IntentsOnce` (`ImplementsOnceEffect`) |
| `RemoteControlProofs` | `RemoteTypeCorrect`, `RemoteInvariant`, `GrantsAreExclusive` (`OneGrantPerKey`), `CommandsGoToCurrent` (`SentToCurrent`), `AnswersStayCurrent` (`ResultsAreCurrent`), `DeadlinesStayFrozen` (`StopFreezesDeadline`) |

None of the properties is inductive. Each proof has an invariant that is, and what it adds
says why the code is right:

* `RunAdmission`. A request that is about to write holds an observation made earlier.
  `AdmissionInv` adds that it is still true: the row it works on exists, the instance it is
  about to record as started was accepted, a final engine status is still the engine's. The
  proof splits it into `Owned` (rows, engine, instances) and `Informed` (requests); `Monotone`
  states what every step preserves and `OthersKnow` lifts it to the requests that do not move.
  For capacity and deletion every step either `Settles` (no Run becomes active, no weight
  grows) or `Reserves` (one INSERT whose own predicate found room). For the rows `LegacySafe`
  adds that no request in flight writes a leftover Run and that none executes; `Updates`
  classifies the writes of a row, each of which keeps a terminal outcome. For
  the keys `KeysUnique` is stronger than the property: a key is bound to one row, whatever the engine
  knows of it, because the INSERT asks for the key again.
* `ChildRun`. `Creation`: one attempt at a time stands between the dispatch and the write after
  create(), and the row's start state tells that one may. `Termination`: whoever terminates
  seized the cancellation, and "cancelled" is recorded of a terminated instance or of one that
  never was. `Execution` fences the child's claim against the recorded intent, `Verdicts` the parent's
  success, `Detachment` keeps a detached child's attempts out of the awaited code. Capacity is
  a second, independent invariant: an admission moves a unit or finds room.
* `GitHubAction`. The rows of a step are written by that step alone, so the invariant is one
  predicate per step (`StepInv`) and one about pairs (`Distinct`: occupied slots differ, which
  only `Reserve` can disturb). `Posted` ties every POST to the row that admits it and `Unique`
  lets one process be on its way there; `Physical` ties the attempt to the job; `Slotted` says
  that a slot is released only on a row that rules a live job out. `Sound` adds what each process
  still knows where it stands. The quota is the injection of live Sessions into slots.
* `PlanRules`. The rounds that place the steps only grow, so the first round that meets a set
  of steps holds one that needs none of the set: that is acyclicity, and it makes the rounds
  the layers the runner takes. Ids of steps differ because the expansion is as large as its
  set of ids, a foreach's children because the compiler compares them, a loop's because they
  contain a token no author can write; the budget counts a set of rounds and stages that
  every child comes from.
* `RunSteps`. `Basic` carries the accepted draft along (`Origin`), so that every fact of the
  compiler is a fact of the running plan, and says of every record where a step of its kind can stand
  (`Fits`). Every action rewrites its record `Safe`ly: well formed, the fence kept,
  and a new fence only where the INSERT was admitted. `CancelFits` is what the cancellation call
  knows between its statements: the step was not fenced when its cancellation row was
  written, and since then nothing can fence it, because the fence's own predicate asks
  for that row and for a Run that goes on. `InLayers` says that the finished steps are a union of
  the compiler's layers and a wave is the rest of the next one. `Honest` is about what
  records claim: a success, in the row, the checkpoint or the outcome in memory, only of what was
  carried out (`Earned`); a step between its gate and its answer, or fenced, only with
  the approval; the call itself only before anything left; a claimed receipt of a
  compensation with one caller (`Repaid`). Every action moves each record so that what is
  sent was reserved and had not left, and a settled row keeps its verdict (`Follows`, `Repays`).
* `SshOperations`. A call works only under a receipt it inserted, which nobody settles in the
  meantime; the verdict it is about to store is already true (`OwnerSound`, `ReceiptSound`,
  `ToldSound`), and a call whose reply carries one of `CallErrors` is over and sent nothing
  itself (`DenialSound`). A receipt may only be pruned when no call works under it or is about to ask for it. `ShellSound`,
  `ViewSound` and `StopSound` say that a shell is called closing after its socket closed and
  that it never accepts input again. `LeaseHeld` and `LeasesBounded` bound the sockets by the leases.
* `BrowserIntents`. `SoundIntent` relates the row, the message on its way, the extension's part
  and the effect of one intent; `Alone` is the mutual exclusion of intents and reads;
  `ExtensionSound` says that a denial leaves no activation, that an answer being persisted is of
  an older epoch while memory blocks what the disk may say, and that a disk which says "enabled"
  has somebody who puts that right; `SoundLook` says that a picture of something else was noticed before it is validated.
* `RemoteControl`. `RowSound` (a stopped device is personal and has a deadline, a Session's grant
  ends with its attempt), `EpochSound` (a stop takes the epoch), `GrantsSound` (differing keys and
  attempts, the limit). Each write of a row is classified once (`RowMove`); `NoneRevives` shows that
  none of them, nor the passing of time, makes an expired grant live again, so that only the three guarded ways
  in can add one.
* The refinements. `OnceMove` is what `OnceEffect` lets the record of one operation do; every
  step moves every operation so, under the invariants above. The initial states map to
  initial states. `OperationsOnce` and `IntentsOnce` are theorems. Of the third implementation
  `CompensationsOnce` proves the compensations; of the steps see below.

TLC checked each inductive invariant on the runs' instances before it was proved. The proofs changed the models in
these places:

* `CASE` expressions with overlapping guards were rewritten as `IF`, because TLA+ leaves the
  choice open where the code does not; the records got named sets; `RemoteControl` got its
  `WorkloadAssumption`.
* `RunSteps` names the ways a step's record is rewritten (`Puts`, `Ends`, `Fences`, ...), which
  the proof reasons about one at a time.
* In `RunSteps` a loop that had ended could fail when a crash made it run again: the model
  forgot that the loop's last condition is a checkpoint too. `LoopEnds` now keeps it.
* Two ready steps of a Saga were taken in any order. The code takes the first of the stored
  plan, whose order is by layer and then by id (`Before`).
* `PlanRules` counts its budget as a set (`Reserved`), and says of ids what the parser does (`Token`,
  `Parsed`).

Only model-checked:

* Liveness, which rests on fairness and is out of the prover's reach: `AdmissionSettles`,
  `SlotReturns`, `LeasesReturn`, `DispatchEnds`, `EverythingAnswered`, `RunSettles`,
  `SagaCompensates`, and the violated `ClaimReleases`.
* `VerdictCovers`, `EffectsAuthorized` and `RunSteps`'s `ImplementsOnceEffect` as a whole. They are
  true only of Runs whose replays repeat what the first execution saw. An approval that commits
  after its waiter timed out (`lag`), a child Run whose answer is read outside any checkpoint,
  an MCP tool that changes (`drift`), the cancellation of another step, and a Session before
  another one make a replay reach another outcome than the row, and the run's workloads keep them
  apart from a crash (section 3; the third is the finding `steps_replay`, the last two are
  remarks in section 4).
  So there is no theorem of them without a hypothesis on the workload. What holds of them for
  every workload is proved: an effect leaves once and behind its fence
  (`EffectsLeaveOnce`), a settled row stays (`RecordsStay`), "succeeded" is true (`SuccessesAreReal`),
  the compensations implement `OnceEffect` in full (`CompensationsOnce`), what `EffectsAuthorized`
  says of approvals (`ApprovalsHold`), and the part of `VerdictCovers`
  about Sagas (`SettledSagasEnd`). What is left is whether "failed" and "skipped" are true, whether
  the steps a dispatched step needs did succeed, and whether a Run's verdict covers its steps.

## 6. Plan

What is left of the proofs are these three properties, under the hypothesis that no workload
combines a crash with one of those five. The invariant they need relates, while the Run goes on,
the outcome in memory, the checkpoint and the row of every step, by kind: a settled row agrees
with what the execution holds or will replay, and tells why it settled.

## 7. Not modelled

* Workflow: draft revisions (create and update compare and set the revision, nothing
  else reads it), the cron matcher, expression syntax and the depth and size limits of
  values, argument contents, `capabilities.ts` and `tools.ts` (descriptions). How Bark
  resolves the Session or download it cites is a refusal that may happen at either check.
* GitHub: Sessions in fixed mode (a second uniqueness rule on the same INSERT), locator
  URLs and runtime data, `cancel_ack` and `force_ack` (written, and read by nothing
  modelled), artifacts, review and discovery of Actions, and the checks on OIDC tokens,
  which decide only who may call.
* Remote control: rate budgets, installer routes, argument contents.
* SSH: output paging, host decryption, address classification.
* Browser: LAN and private permissions, rename, list, tab location, distribution pages,
  what a page contains (visible text, elements, sensitive fields), the focus of windows,
  Access tokens, migration of old profiles.
* The API clients without state (database, GitHub discovery, IMA, Raindrop), release
  scripts, `portal-auth`: one request is one upstream call, and no state outlives it.
