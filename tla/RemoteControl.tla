---------------------------- MODULE RemoteControl -----------------------------
(***************************************************************************)
(* V2OwnerCoordinator (apps/remote-control-mcp-worker/src): the Durable    *)
(* Object that enrols an owner's devices, lets them log in over signed     *)
(* WebSockets, forwards commands to them, and takes their grants away.     *)
(*                                                                         *)
(* A handler runs in turns between its awaits.  A storage transaction is   *)
(* one turn; so is a read together with what is done before the next      *)
(* await.  For a Session device every check of a grant asks the workflow   *)
(* Worker over RPC, which takes a turn of its own wherever the code goes   *)
(* on with what it read before.  A login is named after the epoch it       *)
(* commits and the socket it gets.  Signatures hold for their own key;     *)
(* rate budgets and the contents of arguments are left out.  Who takes     *)
(* part is a workload, chosen initially.                                   *)
(***************************************************************************)
EXTENDS Integers, FiniteSets

CONSTANTS
    Devices,      \* device ids, one for every enrolment that may be approved
    Logins, Requests, Intents,
    Workloads,
    None,
    DeviceLimit,  \* 64 live grants
    PendingLimit, \* 24 pending enrolments
    ReadLimit,    \* 4 commands in flight
    Window,       \* idleMs and the life of a temporary grant, in ticks
    SessionEnd,   \* the deadline the workflow gives a Session attempt
    Horizon,      \* bound: the last tick
    Restarts      \* bound: restarts of the Durable Object

ASSUME LimitAssumption ==
    /\ {DeviceLimit, PendingLimit, ReadLimit, SessionEnd, Restarts} \subseteq Nat
    /\ {Window, Horizon} \subseteq Nat \ {0}
    /\ IsFiniteSet(Devices) /\ None \notin Devices \cup Logins

\* Targets are devices, and the rows from before the deadlines were enrolled under the same
\* checks as today's: they are personal, their keys differ and they fit under the limit.
ASSUME WorkloadAssumption ==
    \A w \in Workloads :
        /\ \A l \in Logins : w.login[l] \in Devices \cup {None}
        /\ \A r \in Requests : w.ask[r].dev \in Devices \cup {None}
        /\ \A i \in Intents : w.intent[i].dev \in Devices \cup {None}
        /\ w.legacy \subseteq Devices /\ Cardinality(w.legacy) <= DeviceLimit
        /\ \A d \in w.legacy : w.enrol[d].kind = "permanent"
        /\ \A d, e \in w.legacy : d # e => w.enrol[d].key # w.enrol[e].key

VARIABLES
    work,      \* keys and kinds of the enrolments, targets of logins, requests and intents,
               \* which logins only recover an id or also send device information, which rows
               \* are from before the deadlines
    now,
    dev,       \* pending and device rows, by device id
    nonce,     \* session:nonce:<id>: the login that holds it
    epoch,     \* session:epoch:<id>: the login that committed it
    fenced,    \* attempts under session:revoked-attempt
    chal,      \* owner:intent:nonce:<id>
    login, sock,
    req,       \* requests: where they are, the epoch they read, what the caller was told
    revoke,    \* revokeDevice, by device
    intent,    \* stop and resume: where they are, the generation they saw
    attempts,  \* Session attempts the workflow still allows
    restarts

stored == <<dev, nonce, epoch, fenced, chal>>
vars == <<work, now, dev, nonce, epoch, fenced, chal, login, sock, req, revoke, intent,
          attempts, restarts>>

Kind(d) == work.enrol[d].kind
Key(d) == work.enrol[d].key
Attempt(d) == work.enrol[d].attempt
Of(l) == work.login[l]
Target(r) == work.ask[r].dev
Tool(r) == work.ask[r].tool
Recovers(l) == l \in work.recover

\* A device: the pending request, then the row of the grant.
Row == [stage: {"new", "asked", "pending", "reviewed", "granted", "gone"},
        name: {"given", "new"}, info: Logins \cup {None},
        owner: {"run", "stopped", "resuming"}, gen: Nat,
        last: 0..Horizon, idle: 0..(Horizon + Window),
        until: 0..(Horizon + Window) \cup {SessionEnd}]

\* A call of a tool: where its handler is, the epoch it read, its frame, its answer.
Command == [pc: {"idle", "reading", "checking", "waiting", "done"},
            seen: Logins \cup {None}, frame: {"none", "sent", "run"},
            told: {"none", "completed", "unknown", "unavailable", "error", "rejected"}]

\* A stop or a resume: where its handler is, the generation its challenge names.
Console == [pc: {"idle", "challenged", "verified", "done"}, gen: Nat]

\* The type of every variable.
TypeOK ==
    /\ work \in Workloads /\ now \in 1..Horizon
    /\ dev \in [Devices -> Row]
    /\ nonce \in [Devices -> Logins \cup {None}] /\ epoch \in [Devices -> Logins \cup {None}]
    /\ fenced \subseteq {Attempt(d) : d \in Devices}
    /\ chal \in [Devices -> Intents \cup {None}]
    /\ login \in [Logins -> {"idle", "asked", "challenged", "verified", "committed", "admitted",
                             "checking", "done"}]
    /\ sock \in [Logins -> {"none", "open", "closing", "closed"}]
    /\ req \in [Requests -> Command]
    /\ revoke \in [Devices -> {"idle", "committed", "cleaning", "done"}]
    /\ intent \in [Intents -> Console]
    /\ attempts \subseteq {Attempt(d) : d \in Devices} /\ restarts \in 0..Restarts

Init ==
    /\ work \in Workloads /\ now = 1
    /\ dev = [d \in Devices |-> [stage |-> IF d \in work.legacy THEN "granted" ELSE "new",
                                 name |-> "given", info |-> None, owner |-> "run", gen |-> 0,
                                 last |-> 0, idle |-> 0, until |-> 0]]
    /\ nonce = [d \in Devices |-> None] /\ epoch = [d \in Devices |-> None]
    /\ fenced = {} /\ chal = [d \in Devices |-> None]
    /\ login = [l \in Logins |-> "idle"] /\ sock = [l \in Logins |-> "none"]
    /\ req = [r \in Requests |-> [pc |-> "idle", seen |-> None, frame |-> "none", told |-> "none"]]
    /\ revoke = [d \in Devices |-> "idle"]
    /\ intent = [i \in Intents |-> [pc |-> "idle", gen |-> 0]]
    /\ attempts = {Attempt(d) : d \in Devices} \ {None} /\ restarts = Restarts

-----------------------------------------------------------------------------
(* Tools, and what their caller is told *)

Told(r, what) == req' = [req EXCEPT ![r] = [@ EXCEPT !.pc = "done", !.told = what]]

ReadTools == {"read_file", "read_files", "list_directory", "stat_file", "search_files",
              "search_next", "stop_search", "list_sessions", "read_session_output"}
Mutations == {"write_file", "create_directory", "replace_text", "move_file", "delete_file",
              "run_command", "send_input", "stop_session"}
OperationTools == Mutations \cup {"get_operation_status"}

\* The Agent keeps its own names for some of the tools.
AgentTool(t) ==
    CASE t = "read_files" -> "read_multiple_files"
      [] t = "stat_file" -> "get_file_info"
      [] t = "search_files" -> "start_search"
      [] t = "search_next" -> "get_more_search_results"
      [] t = "replace_text" -> "edit_block"
      [] t = "run_command" -> "start_process"
      [] t = "read_session_output" -> "read_process_output"
      [] t = "send_input" -> "interact_with_process"
      [] t = "stop_session" -> "force_terminate"
      [] OTHER -> t

\* callOperationId: what the Agent keeps a receipt of, or is asked about.
NamesOperation(tool) ==
    tool \in {AgentTool(t) : t \in Mutations} \cup {"get_operation_status"}

\* parseLocalCall: the tool is known and its arguments fit.
Parses(r) == work.ask[r].fits /\ Tool(r) \in ReadTools \cup OperationTools

\* What the owner's client is told when the object has no result for it.  A mutation may
\* have happened whatever went wrong.
CallOperation(r) == IF Tool(r) \in Mutations THEN "unknown" ELSE "unavailable"
CallRead(r) == "error"
Unanswered(r) == IF NamesOperation(AgentTool(Tool(r))) THEN CallOperation(r) ELSE CallRead(r)
Ended(r) == Told(r, Unanswered(r))

\* The answers an Agent may give, as the owner is told them.
Reported(r) == {"completed", Unanswered(r)}

-----------------------------------------------------------------------------
(* Grants *)

\* permanentDeadline: the persisted offline deadline, or a window after the last proof; a
\* row with neither is from before and counts for nothing until it is migrated.
Deadline(d) ==
    IF Kind(d) # "permanent" THEN dev[d].until
    ELSE IF dev[d].idle # 0 THEN dev[d].idle
    ELSE IF dev[d].last # 0 THEN dev[d].last + Window ELSE 0

StillGranted(d) == dev[d].stage = "granted" /\ now < Deadline(d)
Authorized(d) == StillGranted(d) /\ dev[d].owner = "run"

\* sessionAllowedByWorkflow: the answers the RPC can give; an unreachable workflow denies.
Answers(d) == IF Kind(d) # "session" THEN {TRUE}
              ELSE {FALSE} \cup (IF Attempt(d) \in attempts THEN {TRUE} ELSE {})

\* What verifyProof and the login's transaction ask of the row: a resumed device may log in.
MayLogIn(d) == Authorized(d) \/ (StillGranted(d) /\ dev[d].owner = "resuming")

\* migratePermanentGrant: a legacy row gets its first deadline, once.
Legacy(d) == /\ dev[d].stage = "granted" /\ Kind(d) = "permanent"
             /\ dev[d].idle = 0 /\ dev[d].last = 0
Migrated(d) == IF Legacy(d) THEN [dev[d] EXCEPT !.idle = now + Window] ELSE dev[d]

\* The rows, nonces and epochs after listLiveGrants and its lazy sweep.
Live == {d \in Devices : StillGranted(d) \/ Legacy(d)}
Expired(d) == dev[d].stage = "granted" /\ d \notin Live
Swept == [d \in Devices |-> IF Expired(d) THEN [dev[d] EXCEPT !.stage = "gone"] ELSE Migrated(d)]
SweptOf(f) == [d \in Devices |-> IF Expired(d) THEN None ELSE f[d]]
SweptFences == {a \in fenced : now < SessionEnd}
Pending == {d \in Devices : dev[d].stage \in {"pending", "reviewed"}}

Listed(rows) == /\ dev' = rows /\ nonce' = SweptOf(nonce) /\ epoch' = SweptOf(epoch)
                /\ fenced' = SweptFences

-----------------------------------------------------------------------------
(* Enrolment *)

\* registerPending: capacity and the key are checked, an older request of the key is dropped.
RegisterPending(d) ==
    /\ dev[d].stage = "new" /\ Kind(d) \in {"permanent", "temporary"}
    /\ LET mine == {e \in Pending : Key(e) = Key(d)}
           fits == /\ Cardinality(Live) < DeviceLimit
                   /\ \A e \in Live : Key(e) # Key(d)
           free == fits /\ Cardinality(Pending \ mine) < PendingLimit
       IN  Listed([e \in Devices |->
                     CASE e = d -> [dev[d] EXCEPT !.stage = IF free THEN "pending" ELSE "gone"]
                       [] e \in mine /\ fits -> [dev[e] EXCEPT !.stage = "gone"]
                       [] OTHER -> Swept[e]])
    /\ UNCHANGED <<work, now, chal, login, sock, req, revoke, intent, attempts, restarts>>

\* The ten minutes of a pairing code pass.
PendingExpires(d) ==
    /\ d \in Pending
    /\ dev' = [dev EXCEPT ![d].stage = "gone"]
    /\ UNCHANGED <<work, now, nonce, epoch, fenced, chal, login, sock, req, revoke, intent,
                   attempts, restarts>>

\* pairing_lookup: the owner sees the request behind a code.
Lookup(d) ==
    /\ dev[d].stage = "pending"
    /\ dev' = [dev EXCEPT ![d].stage = "reviewed"]
    /\ UNCHANGED <<work, now, nonce, epoch, fenced, chal, login, sock, req, revoke, intent,
                   attempts, restarts>>

\* Slip: the key was checked when the request was registered.
Approvable_Registered(d) == Cardinality(Live) < DeviceLimit
Approvable(d) == Cardinality(Live) < DeviceLimit /\ \A e \in Live : Key(e) # Key(d)

\* pairing_approve names the id, the fingerprint and the kind of grant that were looked up.
Named(d) == dev[d].stage = "reviewed"

\* approvePendingKey.
Approve(d) ==
    /\ Named(d)
    /\ Listed([Swept EXCEPT ![d] =
          IF Approvable(d)
          THEN [dev[d] EXCEPT !.stage = "granted",
                              !.idle = IF Kind(d) = "permanent" THEN now + Window ELSE 0,
                              !.until = now + Window]
          ELSE dev[d]])
    /\ UNCHANGED <<work, now, chal, login, sock, req, revoke, intent, attempts, restarts>>

\* registerSessionDevice: the workflow verified the job's token.
AskSession(d) ==
    /\ dev[d].stage = "new" /\ Kind(d) = "session" /\ TRUE \in Answers(d)
    /\ dev' = [dev EXCEPT ![d].stage = "asked"]
    /\ UNCHANGED <<work, now, nonce, epoch, fenced, chal, login, sock, req, revoke, intent,
                   attempts, restarts>>

Enrollable(d) ==
    /\ Attempt(d) \notin SweptFences
    /\ Cardinality(Live) < DeviceLimit
    /\ \A e \in Live : Key(e) # Key(d) /\ Attempt(e) # Attempt(d)
    /\ now < SessionEnd

\* Its transaction.  The checks that follow only decide what the job is told.
GrantSession(d) ==
    /\ dev[d].stage = "asked"
    /\ Listed([Swept EXCEPT ![d] =
          [dev[d] EXCEPT !.stage = IF Enrollable(d) THEN "granted" ELSE "gone",
                         !.until = SessionEnd]])
    /\ UNCHANGED <<work, now, chal, login, sock, req, revoke, intent, attempts, restarts>>

\* checkRevokedIdentity, asked before a device pairs again: a row that is not authorized goes.
RePairStatus(d) ==
    /\ dev[d].stage = "granted" /\ ~Authorized(d)
    /\ dev' = [dev EXCEPT ![d].stage = "gone"]
    /\ nonce' = [nonce EXCEPT ![d] = None] /\ epoch' = [epoch EXCEPT ![d] = None]
    /\ UNCHANGED <<work, now, fenced, chal, login, sock, req, revoke, intent, attempts, restarts>>

MayRename(d) == d \in work.rename

\* renameDevice changes the label of an authorized device and nothing else.
Rename(d) ==
    /\ MayRename(d) /\ Authorized(d)
    /\ dev' = [dev EXCEPT ![d].name = "new"]
    /\ UNCHANGED <<work, now, nonce, epoch, fenced, chal, login, sock, req, revoke, intent,
                   attempts, restarts>>

\* What list_devices shows of a device.  It is online with an open socket of the current
\* epoch and a proof younger than 16 minutes, which is less than a tick.
Listing(d) ==
    IF ~StillGranted(d) THEN "absent"
    ELSE IF \E l \in Logins : /\ Of(l) = d /\ sock[l] = "open" /\ epoch[d] = l
                              /\ dev[d].last = now
         THEN "online" ELSE "offline"

\* listApprovedDevices: it sweeps what has expired.
ListDevices ==
    /\ Listed(Swept)
    /\ UNCHANGED <<work, now, chal, login, sock, req, revoke, intent, attempts, restarts>>

-----------------------------------------------------------------------------
(* Logins *)

Moves(l, pc) == login' = [login EXCEPT ![l] = pc]

\* issueSessionChallenge: the row, found by its id or among the live grants by its key, is
\* checked, then the nonce is stored, whatever happened since.
AskChallenge(l) ==
    /\ login[l] = "idle" /\ Of(l) # None /\ TRUE \in Answers(Of(l))
    /\ MayLogIn(Of(l)) \/ Legacy(Of(l))
    /\ Moves(l, "asked")
    /\ \/ Recovers(l) /\ Listed(Swept)
       \/ /\ ~Recovers(l) /\ dev' = [dev EXCEPT ![Of(l)] = Migrated(Of(l))]
          /\ UNCHANGED <<nonce, epoch, fenced>>
    /\ UNCHANGED <<work, now, chal, sock, req, revoke, intent, attempts, restarts>>

Challenge(l) ==
    /\ login[l] = "asked"
    /\ nonce' = [nonce EXCEPT ![Of(l)] = l] /\ Moves(l, "challenged")
    /\ UNCHANGED <<work, now, dev, epoch, fenced, chal, sock, req, revoke, intent, attempts,
                   restarts>>

\* Only a socket may be opened for a device that was resumed.
Proves(l) == IF Recovers(l) THEN Authorized(Of(l)) ELSE MayLogIn(Of(l))

\* verifyProof and the check before the transaction.
Verify(l) ==
    /\ login[l] = "challenged"
    /\ \E yes \in Answers(Of(l)) :
         Moves(l, IF yes /\ Proves(l) /\ nonce[Of(l)] = l THEN "verified" ELSE "done")
    /\ UNCHANGED <<work, now, stored, sock, req, revoke, intent, attempts, restarts>>

\* The transaction of consumeAuthorizedProof: the nonce goes, the epoch is the login's.
Commit(l) ==
    LET d == Of(l) IN
    /\ login[l] = "verified" /\ ~Recovers(l)
    /\ IF nonce[d] = l /\ Proves(l)
       THEN /\ nonce' = [nonce EXCEPT ![d] = None] /\ epoch' = [epoch EXCEPT ![d] = l]
            /\ dev' = IF Kind(d) = "permanent"
                      THEN [dev EXCEPT ![d] = [@ EXCEPT !.last = now, !.idle = 0, !.owner = "run"]]
                      ELSE dev
            /\ Moves(l, "committed")
       ELSE Moves(l, "done") /\ UNCHANGED <<nonce, epoch, dev>>
    /\ UNCHANGED <<work, now, fenced, chal, sock, req, revoke, intent, attempts, restarts>>

\* authorizeSession: the same proof only tells a device its id and displaces no socket.
Recover(l) ==
    LET d == Of(l) IN
    /\ login[l] = "verified" /\ Recovers(l) /\ Moves(l, "done")
    /\ nonce' = IF nonce[d] = l /\ Proves(l) THEN [nonce EXCEPT ![d] = None] ELSE nonce
    /\ UNCHANGED <<work, now, dev, epoch, fenced, chal, sock, req, revoke, intent, attempts,
                   restarts>>

\* The grant is read once more.
Recheck(l) ==
    /\ login[l] = "committed"
    /\ \E yes \in Answers(Of(l)) :
         Moves(l, IF yes /\ Authorized(Of(l)) THEN "admitted" ELSE "done")
    /\ UNCHANGED <<work, now, stored, sock, req, revoke, intent, attempts, restarts>>

\* acceptWebSocket, and the close of the device's other sockets.  If it throws they stay.
Attach(l) ==
    /\ Moves(l, "done")
    /\ \/ sock' = [s \in Logins |->
                     IF s = l THEN "open"
                     ELSE IF Of(s) = Of(l) /\ sock[s] = "open" THEN "closing" ELSE sock[s]]
       \/ sock' = [sock EXCEPT ![l] = "closed"]

\* acceptAuthenticatedSocket reads epoch and device.  Only a Session waits for the workflow
\* before it goes on.
ReadEpoch(l) ==
    /\ login[l] = "admitted"
    /\ \/ /\ ~(epoch[Of(l)] = l /\ Authorized(Of(l)))
          /\ Moves(l, "done") /\ UNCHANGED sock
       \/ /\ epoch[Of(l)] = l /\ Authorized(Of(l)) /\ Kind(Of(l)) = "session"
          /\ Moves(l, "checking") /\ UNCHANGED sock
       \/ /\ epoch[Of(l)] = l /\ Authorized(Of(l)) /\ Kind(Of(l)) # "session"
          /\ Attach(l)
    /\ UNCHANGED <<work, now, stored, req, revoke, intent, attempts, restarts>>

SessionAnswered(l) ==
    /\ login[l] = "checking"
    /\ \/ TRUE \in Answers(Of(l)) /\ Attach(l)
       \/ Moves(l, "done") /\ UNCHANGED sock
    /\ UNCHANGED <<work, now, stored, req, revoke, intent, attempts, restarts>>

\* handleDeviceInfoMessage: what a socket may say once, and only for the current epoch.
Inform(l) ==
    LET d == Of(l) IN
    /\ l \in work.inform /\ sock[l] = "open"
    /\ \E yes \in Answers(d) :
         IF yes /\ Authorized(d) /\ epoch[d] = l /\ dev[d].info # l
         THEN dev' = [dev EXCEPT ![d].info = l] /\ UNCHANGED sock
         ELSE sock' = [sock EXCEPT ![l] = "closing"] /\ UNCHANGED dev
    /\ UNCHANGED <<work, now, nonce, epoch, fenced, chal, login, req, revoke, intent, attempts,
                   restarts>>

\* handleIdleSocketMessage: the Agent's probe moves the deadline of the current epoch.
Probe(l) ==
    LET d == Of(l) IN
    /\ sock[l] = "open"
    /\ \E yes \in Answers(d) :
         IF yes /\ Authorized(d) /\ epoch[d] = l
         THEN /\ Kind(d) = "permanent"
              /\ dev' = [dev EXCEPT ![d] = [@ EXCEPT !.last = now, !.idle = 0]] /\ UNCHANGED sock
         ELSE sock' = [sock EXCEPT ![l] = "closing"] /\ UNCHANGED dev
    /\ UNCHANGED <<work, now, nonce, epoch, fenced, chal, login, req, revoke, intent, attempts,
                   restarts>>

\* Slip: every close starts the offline window of its device.
CloseCounts_Any(l) == Kind(Of(l)) = "permanent" /\ dev[Of(l)].stage = "granted"
\* recordVerifiedSocketClose: only the current epoch of an authorized device that is online.
CloseCounts(l) ==
    LET d == Of(l) IN
    /\ Kind(d) = "permanent" /\ epoch[d] = l /\ dev[d].idle = 0 /\ Authorized(d)

\* webSocketClose and webSocketError: commands in flight on the socket are rejected; the
\* record of the close may be lost.
SocketCloses(l) ==
    /\ sock[l] \in {"open", "closing"}
    /\ sock' = [sock EXCEPT ![l] = "closed"]
    /\ req' = [r \in Requests |-> IF req[r].pc = "waiting" /\ req[r].seen = l
                                  THEN [req[r] EXCEPT !.pc = "done", !.told = Unanswered(r)] ELSE req[r]]
    /\ \/ dev' = IF CloseCounts(l) THEN [dev EXCEPT ![Of(l)].idle = now + Window] ELSE dev
       \/ dev' = dev
    /\ UNCHANGED <<work, now, nonce, epoch, fenced, chal, login, revoke, intent, attempts, restarts>>

-----------------------------------------------------------------------------
(* Commands *)

Waiting == {r \in Requests : req[r].pc = "waiting"}

\* tools/call of handleMcp: a tool needs a device and arguments that fit.
Routed(r) == Target(r) # None /\ Parses(r)

\* A call that is routed reaches readFile, which looks at its limit before it reads.
Ask(r) ==
    /\ req[r].pc = "idle" /\ Tool(r) # None
    /\ \/ ~Routed(r) /\ Told(r, "rejected")
       \/ /\ Routed(r)
          /\ IF Cardinality(Waiting) < ReadLimit
             THEN req' = [req EXCEPT ![r].pc = "reading"] ELSE Ended(r)
    /\ UNCHANGED <<work, now, stored, login, sock, revoke, intent, attempts, restarts>>

\* Slip: any open socket of the device will do.
Chosen_Any(r, e) == {l \in Logins : sock[l] = "open" /\ Of(l) = Target(r)}
\* The open socket whose attachment carries epoch e.
Chosen(r, e) == {l \in Logins : sock[l] = "open" /\ l = e}

HasRoom == Cardinality(Waiting) < ReadLimit

\* The limit again, the entry in pendingReads and the send, which may throw.
Dispatch(r, e) ==
    \/ (Chosen(r, e) = {} \/ ~HasRoom) /\ Ended(r)
    \/ /\ HasRoom
       /\ \E l \in Chosen(r, e) :
            \/ req' = [req EXCEPT ![r] = [@ EXCEPT !.pc = "waiting", !.seen = l, !.frame = "sent"]]
            \/ Ended(r)

\* Device and epoch are read.  A personal device goes on in the same turn; a Session waits
\* for the workflow.
Read(r) ==
    LET d == Target(r) IN
    /\ req[r].pc = "reading"
    /\ \/ (~Authorized(d) \/ epoch[d] = None) /\ Ended(r)
       \/ /\ Authorized(d) /\ epoch[d] # None /\ Kind(d) # "session"
          /\ Dispatch(r, epoch[d])
       \/ /\ Authorized(d) /\ epoch[d] # None /\ Kind(d) = "session"
          /\ req' = [req EXCEPT ![r] = [@ EXCEPT !.pc = "checking", !.seen = epoch[d]]]
    /\ UNCHANGED <<work, now, stored, login, sock, revoke, intent, attempts, restarts>>

SessionChecked(r) ==
    /\ req[r].pc = "checking"
    /\ \/ TRUE \in Answers(Target(r)) /\ Dispatch(r, req[r].seen)
       \/ Ended(r)
    /\ UNCHANGED <<work, now, stored, login, sock, revoke, intent, attempts, restarts>>

\* The Agent carries the command out; whether its answer gets through is another matter.
AgentRuns(r) ==
    /\ req[r].frame = "sent" /\ sock[req[r].seen] # "closed"
    /\ req' = [req EXCEPT ![r].frame = "run"]
    /\ UNCHANGED <<work, now, stored, login, sock, revoke, intent, attempts, restarts>>

\* Slip: the pending entry is proof enough.
ResultCounts_Pending(r) == TRUE
ResultCounts(r) == dev[Target(r)].stage = "granted" /\ epoch[Target(r)] = req[r].seen

\* handleReadResult: an answer on the socket of a command that still waits.
Result(r) ==
    /\ req[r].pc = "waiting" /\ req[r].frame = "run" /\ sock[req[r].seen] \in {"open", "closing"}
    /\ \/ ResultCounts(r) /\ \E what \in Reported(r) : Told(r, what)
       \/ ~ResultCounts(r) /\ Ended(r)
    /\ UNCHANGED <<work, now, stored, login, sock, revoke, intent, attempts, restarts>>

\* Five seconds pass.
Timeout(r) ==
    /\ req[r].pc = "waiting" /\ Ended(r)
    /\ UNCHANGED <<work, now, stored, login, sock, revoke, intent, attempts, restarts>>

-----------------------------------------------------------------------------
(* Revocation, stop and resume *)

MayRevoke(d) == d \in work.revoke

\* The transaction of revokeDevice: grant, nonce and epoch go, the attempt is fenced.
RevokeCommit(d) ==
    /\ revoke[d] = "idle" /\ MayRevoke(d) /\ dev[d].stage = "granted"
    /\ dev' = [dev EXCEPT ![d].stage = "gone"]
    /\ nonce' = [nonce EXCEPT ![d] = None] /\ epoch' = [epoch EXCEPT ![d] = None]
    /\ fenced' = IF Kind(d) = "session" /\ now < SessionEnd THEN fenced \cup {Attempt(d)} ELSE fenced
    /\ revoke' = [revoke EXCEPT ![d] = "committed"]
    /\ UNCHANGED <<work, now, chal, login, sock, req, intent, attempts, restarts>>

CloseAll(d) == sock' = [l \in Logins |-> IF Of(l) = d /\ sock[l] = "open" THEN "closing" ELSE sock[l]]

\* Commands in flight are rejected, then the socket of the old epoch is asked to clean up.
RevokeTell(d) ==
    /\ revoke[d] = "committed"
    /\ req' = [r \in Requests |-> IF req[r].pc = "waiting" /\ Target(r) = d
                                  THEN [req[r] EXCEPT !.pc = "done", !.told = Unanswered(r)] ELSE req[r]]
    /\ \/ /\ \E l \in Logins : Of(l) = d /\ sock[l] = "open"
          /\ revoke' = [revoke EXCEPT ![d] = "cleaning"] /\ UNCHANGED sock
       \/ revoke' = [revoke EXCEPT ![d] = "done"] /\ CloseAll(d)
    /\ UNCHANGED <<work, now, stored, login, intent, attempts, restarts>>

\* Slip: the cleanup ends with the Agent's acknowledgement.
CleanupEnds_Acked(d) == \E l \in Logins : Of(l) = d /\ sock[l] = "open"
\* It is acknowledged, its socket closes, or 2.5 seconds pass.
CleanupEnds(d) == TRUE

RevokeEnd(d) ==
    /\ revoke[d] = "cleaning" /\ CleanupEnds(d)
    /\ revoke' = [revoke EXCEPT ![d] = "done"] /\ CloseAll(d)
    /\ UNCHANGED <<work, now, stored, login, req, intent, attempts, restarts>>

IDev(i) == work.intent[i].dev
Resumes(i) == work.intent[i].resume

\* issueOwnerIntentChallenge, from the console of the device itself.
IntentChallenge(i) ==
    LET d == IDev(i) IN
    /\ intent[i].pc = "idle" /\ d # None /\ Kind(d) = "permanent"
    /\ StillGranted(d) \/ Legacy(d)
    /\ Resumes(i) => dev[d].owner = "stopped"
    /\ chal' = [chal EXCEPT ![d] = i]
    /\ intent' = [intent EXCEPT ![i] = [pc |-> "challenged", gen |-> dev[d].gen]]
    /\ dev' = [dev EXCEPT ![d] = Migrated(d)]
    /\ UNCHANGED <<work, now, nonce, epoch, fenced, login, sock, req, revoke, attempts, restarts>>

\* commitOwnerIntent up to the signature.
IntentVerify(i) ==
    /\ intent[i].pc = "challenged"
    /\ intent' = [intent EXCEPT ![i].pc =
                     IF StillGranted(IDev(i)) /\ chal[IDev(i)] = i THEN "verified" ELSE "done"]
    /\ UNCHANGED <<work, now, stored, login, sock, req, revoke, attempts, restarts>>

\* Its transaction.  A stop takes epoch and nonce and keeps the earlier deadline; a resume
\* waits for a new login.
IntentCommit(i) ==
    LET d == IDev(i)
        valid == StillGranted(d) /\ dev[d].gen = intent[i].gen /\ chal[d] = i
        expiry == IF dev[d].owner = "stopped" \/ Deadline(d) < now + Window
                  THEN Deadline(d) ELSE now + Window
    IN
    /\ intent[i].pc = "verified"
    /\ intent' = [intent EXCEPT ![i].pc = "done"]
    /\ chal' = IF valid THEN [chal EXCEPT ![d] = None] ELSE chal
    /\ \/ ~valid /\ UNCHANGED <<dev, nonce, epoch>>
       \/ /\ valid /\ ~Resumes(i)
          /\ dev' = IF dev[d].owner = "stopped" THEN dev
                    ELSE [dev EXCEPT ![d] = [dev[d] EXCEPT !.owner = "stopped",
                                                            !.gen = dev[d].gen + 1, !.idle = expiry]]
          /\ nonce' = [nonce EXCEPT ![d] = None] /\ epoch' = [epoch EXCEPT ![d] = None]
       \/ /\ valid /\ Resumes(i) /\ dev[d].owner = "stopped"
          /\ dev' = [dev EXCEPT ![d] = [dev[d] EXCEPT !.owner = "resuming", !.gen = dev[d].gen + 1]]
          /\ epoch' = [epoch EXCEPT ![d] = None] /\ UNCHANGED nonce
    /\ UNCHANGED <<work, now, fenced, login, sock, req, revoke, attempts, restarts>>

-----------------------------------------------------------------------------
(* The environment *)

Tick == /\ now < Horizon /\ now' = now + 1
        /\ UNCHANGED <<work, stored, login, sock, req, revoke, intent, attempts, restarts>>

\* The workflow cancels an attempt, or its job ends.
AttemptEnds(a) ==
    /\ a \in attempts /\ attempts' = attempts \ {a}
    /\ UNCHANGED <<work, now, stored, login, sock, req, revoke, intent, restarts>>

\* The object is evicted: sockets and handlers are gone, callers see an error.
Restart ==
    /\ restarts > 0 /\ restarts' = restarts - 1
    /\ sock' = [l \in Logins |-> IF sock[l] = "none" THEN "none" ELSE "closed"]
    /\ login' = [l \in Logins |-> IF login[l] \in {"idle", "challenged"} THEN login[l] ELSE "done"]
    /\ req' = [r \in Requests |-> IF req[r].pc \in {"idle", "done"} THEN req[r]
                                  ELSE [req[r] EXCEPT !.pc = "done", !.told = Unanswered(r)]]
    /\ revoke' = [d \in Devices |-> IF revoke[d] = "idle" THEN "idle" ELSE "done"]
    /\ intent' = [i \in Intents |-> IF intent[i].pc = "verified" THEN [intent[i] EXCEPT !.pc = "done"]
                                    ELSE intent[i]]
    /\ UNCHANGED <<work, now, stored, attempts>>

Serves(r) == Read(r) \/ SessionChecked(r) \/ Result(r) \/ Timeout(r)
LogsIn(l) == \/ Challenge(l) \/ Verify(l) \/ Commit(l) \/ Recover(l) \/ Recheck(l)
             \/ ReadEpoch(l) \/ SessionAnswered(l)
Revokes(d) == RevokeTell(d) \/ RevokeEnd(d)

\* The tools of the owner that need no command to a device.
OwnerTool(d) == Lookup(d) \/ Approve(d) \/ Rename(d) \/ RevokeCommit(d)

\* What a device may post without the owner's token.
Posts(d) == \/ RegisterPending(d) \/ AskSession(d) \/ RePairStatus(d)
            \/ \E l \in Logins : Of(l) = d /\ AskChallenge(l)
            \/ \E i \in Intents : IDev(i) = d /\ (IntentChallenge(i) \/ IntentVerify(i))

\* webSocketMessage, for the frames that answer nothing.
SocketMessage(l) == Inform(l) \/ Probe(l)

Next ==
    \/ \E d \in Devices : OwnerTool(d) \/ Posts(d) \/ PendingExpires(d) \/ GrantSession(d) \/ Revokes(d)
    \/ \E l \in Logins : LogsIn(l) \/ SocketMessage(l) \/ SocketCloses(l)
    \/ \E r \in Requests : Ask(r) \/ AgentRuns(r) \/ Serves(r)
    \/ \E i \in Intents : IntentCommit(i)
    \/ ListDevices \/ Tick \/ Restart
    \/ \E a \in attempts : AttemptEnds(a)

Spec == Init /\ [][Next]_vars

\* A handler that waits for storage, for the workflow or for one of its timers goes on.
FairSpec == /\ Spec
            /\ \A r \in Requests : WF_vars(Serves(r))
            /\ \A d \in Devices : WF_vars(Revokes(d))

-----------------------------------------------------------------------------
(* Properties *)

\* A command leaves for a personal device only over the socket of its current epoch and
\* while the device is authorized: a revocation, a stop or a newer login that is committed
\* has the last word, although older sockets may still be open.  And a device that
\* list_devices shows online is one that a command would reach.
SentToCurrent ==
    [][/\ \A r \in Requests :
            req[r].frame = "none" /\ req'[r].frame = "sent" /\ Kind(Target(r)) # "session"
                => Authorized(Target(r)) /\ epoch[Target(r)] = req'[r].seen
       /\ \A d \in Devices : Listing(d) = "online" => Authorized(d)]_vars

\* No result is reported for a device that was revoked, stopped, resumed or logged in again
\* after the command left: the caller is told timeout_unknown.  A mutation that may have
\* run is never answered as if it had not.
ResultsAreCurrent ==
    [][\A r \in Requests :
        req[r].told = "none" /\ req'[r].told # "none" =>
            /\ req'[r].told = "completed" =>
                  /\ dev[Target(r)].stage = "granted" /\ dev[Target(r)].owner = "run"
                  /\ epoch[Target(r)] = req[r].seen
            /\ Tool(r) \in Mutations /\ req[r].frame # "none" =>
                  req'[r].told \in {"completed", "unknown"}]_vars

\* However codes, jobs and approvals interleave, a key has one live grant, and an attempt
\* the owner revoked has none.
OneGrantPerKey ==
    /\ \A d, e \in Live : d # e => Key(d) # Key(e)
    /\ \A d \in Live : Kind(d) = "session" => Attempt(d) \notin fenced
    /\ Cardinality(Live) <= DeviceLimit

\* A stop freezes the deadline: neither a probe, the close of a socket from before, nor a
\* resume that no login followed gives the device more time.  No listing, migration or
\* second close puts off a deadline that is set.
StopFreezesDeadline ==
    [][\A d \in Devices : dev[d].stage = "granted" /\ dev'[d].stage = "granted" =>
        /\ dev[d].owner # "run" /\ dev'[d].owner # "run" =>
              dev'[d].idle # 0 /\ dev'[d].idle <= Deadline(d)
        /\ dev[d].idle # 0 => dev'[d].idle <= dev[d].idle]_vars

\* Every command is answered and every revocation comes to its end.
EverythingAnswered ==
    /\ \A r \in Requests : (req[r].pc # "idle") ~> (req[r].pc = "done")
    /\ \A d \in Devices : (revoke[d] # "idle") ~> (revoke[d] = "done")

===============================================================================
