---------------------------- MODULE BrowserIntents ----------------------------
(***************************************************************************)
(* One endpoint of apps/browser-mcp-worker: the BrowserOwner Durable       *)
(* Object (src/coordinator.ts) with its intent ledger (src/intents.ts),    *)
(* and the extension that carries the intents out (its background.js and   *)
(* mutations.js).                                                          *)
(*                                                                         *)
(* A handler runs in turns between its awaits: a turn ends wherever the    *)
(* code goes on with something it read before.  Deadlines, heartbeats and  *)
(* ages are passed at any time.  An intent has at most one message under   *)
(* way, for each message of its protocol answers the one before; what was  *)
(* sent on a socket may still arrive after the socket was closed.  The     *)
(* endpoint is the first one this profile pairs.  Observations are of one  *)
(* tab, whose documents may follow one another and be hidden meanwhile.    *)
(* Page contents, targets of intents, proofs, credentials, LAN and private *)
(* permissions and budgets are left out.                                   *)
(***************************************************************************)
EXTENDS Naturals, FiniteSets

CONSTANTS
    Intents,       \* intent keys
    Reads,         \* observations asked for
    Documents,     \* documents the observed tab may load, one after the other
    Sockets,       \* WebSockets the extension may open, in this order
    Attempts,      \* activations the owner may begin
    OwnerStops, LocalStops, \* Stop requests of the owner and of the extension
    UnknownLimit,  \* 100 unknown intents
    Workloads      \* which of them, and which of the Events, take part; how often alarms
                   \* and connections fail (faults) and either side restarts (restarts)

Stops == OwnerStops \cup LocalStops
Events == {"local stop", "revoke", "expire", "age", "drop", "page"}

ASSUME BrowserAssumption ==
    /\ Sockets \in Nat /\ UnknownLimit \in Nat /\ Documents \in Nat
    /\ Workloads \subseteq [takes: SUBSET (Intents \cup Reads \cup Attempts \cup Stops \cup Events),
                           faults: Nat, restarts: Nat, temporary: BOOLEAN]
    /\ OwnerStops \cap LocalStops = {} /\ 0 \notin Attempts

VARIABLES
    work,     \* the workload, chosen initially
    ep,       \* the endpoints row: state, generation, revision, stop_epoch
    att,      \* activation_attempts rows and the request that completes each
    stop,     \* Stop handlers: where they are and the state they read
    sock,     \* WebSockets by number: their state and attachment
    op,       \* browser_intents rows with what memory, wire and extension hold of them
    reading,  \* pendingReads
    look,     \* observations: their request, and how far the extension is with them
    page,     \* the observed tab: its document, whether that may be read, and is in view
    ext,      \* the extension, on disk and in memory, with the denials it is about to
              \* write and those it wrote; off says that the user's last word was a Stop
              \* or Revoke, and whether that is done (history)
    faults, restarts

seeing == <<reading, look, page>>
vars == <<work, ep, att, stop, sock, op, seeing, ext, faults, restarts>>

Temporary == work.temporary   \* pairing_mode = "temporary"
Known == {"completed", "failed", "expired"}

\* The rows of the Durable Object and the records of its memory and of the extension.
Endpoint == [state: {"absent", "enabled", "stopped", "revoked"}, gen: Nat, rev: Nat, stops: Nat]
Attempt == [row: {"none", "pending", "verified", "consumed"}, fresh: BOOLEAN,
            stops: Nat, rev: Nat, epoch: Nat,
            call: {"idle", "sent", "read", "granted", "refused"}]
StopCall == [pc: {"idle", "read", "written", "done"}, seen: {"absent", "enabled", "stopped"}]
Socket == [state: {"unused", "open", "read", "live", "closed"}, gen: Nat, rev: Nat]
Intent == [row: {"none", "admitted", "dispatching", "unknown", "swept"} \cup Known,
           old: BOOLEAN, pc: {"idle", "admitting", "hashing"},
           gen: Nat, rev: Nat, sock: 0..Sockets, pending: {"no", "preparing", "dispatched"},
           wire: {"none", "prepare", "accepted", "refused", "execute", "completed",
                  "failed", "unknown"},
           run: {"none", "stored", "running", "cleared", "acting", "over"},
           effect: {"untouched", "sent", "applied", "refused"}]
Observation == [pc: {"none", "asked", "checked", "surveyed", "watched", "capturing", "taken",
                     "ended", "cleared", "sent", "over"},
                tool: {"tabs", "snapshot", "screenshot"}, sock: 0..Sockets, gen: Nat,
                doc: 0..Documents, switched: BOOLEAN, got: {"nothing", "list", "target", "other"}]
\* What turns the extension off: a click on Stop or Revoke, or what its socket was told.
Denials == {"stop", "revoke", "stopped", "revoked"}
Extension == [auth: {"unpaired", "enabled", "stopped", "revoked"}, paired: BOOLEAN,
              blocked: BOOLEAN, pendingStop: BOOLEAN, off: {"no", "asked", "yes"},
              socket: 0..Sockets, gen: Nat, epoch: Nat, attempt: Attempts \cup {0},
              polling: Attempts \cup {0}, answer: {"none", "accepted", "written"},
              told: {"none", "stopped", "revoked"}, asked: SUBSET Denials, written: SUBSET Denials]

TypeOK ==
    /\ work \in Workloads /\ faults \in 0..work.faults /\ restarts \in 0..work.restarts
    /\ ep \in Endpoint
    /\ att \in [Attempts -> Attempt]
    /\ stop \in [Stops -> StopCall]
    /\ sock \in [1..Sockets -> Socket]
    /\ op \in [Intents -> Intent]
    /\ reading \subseteq Reads
    /\ look \in [Reads -> Observation]
    /\ page \in [doc: 0..Documents, open: BOOLEAN, shown: BOOLEAN]
    /\ ext \in Extension

Init ==
    /\ work \in Workloads
    /\ ep = [state |-> "absent", gen |-> 0, rev |-> 0, stops |-> 0]
    /\ att = [a \in Attempts |-> [row |-> "none", fresh |-> FALSE, stops |-> 0, rev |-> 0,
                                  epoch |-> 0, call |-> "idle"]]
    /\ stop = [k \in Stops |-> [pc |-> "idle", seen |-> "absent"]]
    /\ sock = [s \in 1..Sockets |-> [state |-> "unused", gen |-> 0, rev |-> 0]]
    /\ op = [i \in Intents |-> [row |-> "none", old |-> FALSE, pc |-> "idle", gen |-> 0, rev |-> 0,
                                sock |-> 0, pending |-> "no", wire |-> "none", run |-> "none",
                                effect |-> "untouched"]]
    /\ reading = {} /\ page = [doc |-> 0, open |-> TRUE, shown |-> TRUE]
    /\ look = [r \in Reads |-> [pc |-> "none", tool |-> "tabs", sock |-> 0, gen |-> 0, doc |-> 0,
                                switched |-> FALSE, got |-> "nothing"]]
    /\ ext = [auth |-> "unpaired", paired |-> FALSE, blocked |-> FALSE, pendingStop |-> FALSE,
              off |-> "no", socket |-> 0, gen |-> 0, epoch |-> 0, attempt |-> 0, polling |-> 0,
              answer |-> "none", told |-> "none", asked |-> {}, written |-> {}]
    /\ faults = 0 /\ restarts = 0

-----------------------------------------------------------------------------
(* The ledger: what each statement does to a row. *)

Abort(o) == [o EXCEPT !.row = IF @ = "admitted" THEN "failed" ELSE @]
MarkUnknown(o) == [o EXCEPT !.row = IF @ = "dispatching" THEN "unknown" ELSE @]

\* Slip: an intent that was dispatched is given up as one that never left.
Terminated_Aborts(o) ==
    IF o.pending = "no" THEN o
    ELSE [o EXCEPT !.pending = "no",
                   !.row = IF @ \in {"admitted", "dispatching"} THEN "failed" ELSE @]

\* terminateMutation: memory forgets the intent, the ledger keeps what may have happened.
Terminated(o) ==
    IF o.pending = "no" THEN o
    ELSE LET p == [o EXCEPT !.pending = "no"]
         IN IF o.pending = "dispatched" THEN MarkUnknown(p) ELSE Abort(p)

\* reconcile: rows that waited for more than eight seconds.
Reconciled(o) ==
    IF o.row = "admitted" /\ o.gen # 0 THEN Abort(o) ELSE MarkUnknown(o)

\* sweep: old known outcomes are deleted, old admissions expire, unknown ones stay.
Swept(o) ==
    IF ~o.old THEN o
    ELSE [o EXCEPT !.row = CASE @ \in Known -> "swept" [] @ = "admitted" -> "expired" [] OTHER -> @]

Dispatching == {i \in Intents : op[i].row = "dispatching"}

Live(s) == sock[s].state = "live"
CurrentSockets == {s \in 1..Sockets : Live(s) /\ sock[s].gen = ep.gen}

\* close(): every pending intent is terminated, every socket of the endpoint is told and closed.
ClosedSockets == [s \in 1..Sockets |-> IF Live(s) THEN [sock[s] EXCEPT !.state = "closed"] ELSE sock[s]]
CloseAll(reason) ==
    /\ op' = [i \in Intents |-> Terminated(op[i])]
    /\ sock' = ClosedSockets
    /\ ext' = IF ext.socket # 0 /\ Live(ext.socket) THEN [ext EXCEPT !.told = reason] ELSE ext

AlarmFails == faults < work.faults /\ faults' = faults + 1

-----------------------------------------------------------------------------
(* Activation: the owner turns the endpoint on, and its fences against Stop. *)

\* /activate-begin accepts the first pairing, and the later ones of an endpoint not revoked.
Pairable == IF ext.paired THEN ep.state # "revoked" ELSE ep.state = "absent"

\* state(): while memory blocks it, the extension is off whatever the disk says.
Enabled == ext.auth = "enabled" /\ ~ext.blocked

\* What a click on the toolbar turns off; on an extension that is off it begins an activation.
On == Enabled \/ ext.attempt # 0

\* beginActivation: the attempt remembers the stop_epoch of its endpoint.
Begin(a) ==
    /\ a \in work.takes /\ att[a].row = "none" /\ ~On /\ ~ext.pendingStop /\ Pairable
    /\ ext' = [ext EXCEPT !.attempt = a, !.off = "no"]
    /\ att' = [att EXCEPT ![a] = [@ EXCEPT !.row = "pending", !.fresh = ~ext.paired,
                                               !.stops = ep.stops, !.epoch = ext.epoch]]
    /\ UNCHANGED <<work, ep, stop, sock, op, seeing, faults, restarts>>

\* /activate-authorize: the owner proved their identity on the verification page.
Authorize(a) ==
    /\ att[a].row = "pending"
    /\ att' = [att EXCEPT ![a].row = "verified"]
    /\ UNCHANGED <<work, ep, stop, sock, op, seeing, ext, faults, restarts>>

\* /activate-cancel, which a Stop sends without waiting for it.
Cancel(a) ==
    /\ att[a].row \in {"pending", "verified"} /\ ext.attempt # a
    /\ att' = [att EXCEPT ![a].row = "consumed"]
    /\ UNCHANGED <<work, ep, stop, sock, op, seeing, ext, faults, restarts>>

\* pollActivation asks for the grant.
Poll(a) ==
    /\ ext.attempt = a /\ ~Enabled /\ ~ext.pendingStop
    /\ ext.polling = 0 /\ att[a].call = "idle"
    /\ ext' = [ext EXCEPT !.polling = a]
    /\ att' = [att EXCEPT ![a].call = "sent"]
    /\ UNCHANGED <<work, ep, stop, sock, op, seeing, faults, restarts>>

\* The connection breaks while the cloud goes on with the request.
PollFails(a) ==
    /\ ext.polling = a /\ ext.answer = "none" /\ AlarmFails
    /\ ext' = [ext EXCEPT !.polling = 0]
    /\ UNCHANGED <<work, ep, att, stop, sock, op, seeing, restarts>>

Grantable(a) ==
    /\ att[a].row = "verified"
    /\ att[a].fresh \/ (ep.state \in {"enabled", "stopped"} /\ ep.stops = att[a].stops)

\* /activate-complete up to its last await: the revision it goes on with.
CompleteRead(a) ==
    /\ att[a].call = "sent"
    /\ att' = [att EXCEPT ![a] = [@ EXCEPT !.call = IF Grantable(a) THEN "read" ELSE "refused",
                                               !.rev = ep.rev]]
    /\ UNCHANGED <<work, ep, stop, sock, op, seeing, ext, faults, restarts>>

\* The row is read again and the UPDATE repeats the comparison.
GrantStands(a) ==
    IF att[a].fresh THEN ep.state = "absent"
    ELSE ep.state # "revoked" /\ ep.stops = att[a].stops /\ ep.rev = att[a].rev

\* A new endpoint whose alarm cannot be set is revoked at once.
CompleteCommit(a) ==
    /\ att[a].call = "read"
    /\ \/ /\ att[a].row # "verified"
          /\ att' = [att EXCEPT ![a].call = "refused"]
          /\ UNCHANGED <<ep, faults>>
       \/ /\ att[a].row = "verified" /\ GrantStands(a)
          /\ ep' = [ep EXCEPT !.state = "enabled", !.rev = @ + 1]
          /\ att' = [att EXCEPT ![a] = [@ EXCEPT !.row = "consumed", !.call = "granted"]]
          /\ UNCHANGED faults
       \/ /\ att[a].row = "verified" /\ ~GrantStands(a)
          /\ att' = [att EXCEPT ![a] = [@ EXCEPT !.row = "consumed", !.call = "refused"]]
          /\ UNCHANGED <<ep, faults>>
       \/ /\ att[a].row = "verified" /\ att[a].fresh /\ GrantStands(a) /\ AlarmFails
          /\ ep' = [ep EXCEPT !.state = "revoked", !.rev = @ + 1]
          /\ att' = [att EXCEPT ![a] = [@ EXCEPT !.row = "consumed", !.call = "refused"]]
    /\ UNCHANGED <<work, stop, sock, op, seeing, ext, restarts>>

\* Slip: the extension compares only the attempt with the one it still holds.
DeniedSince_Never(a) == FALSE

\* localDenialEpoch differs from the one the attempt began in: a denial or a restart.
DeniedSince(a) == ext.epoch # att[a].epoch

\* The attempt that was answered is not the one the extension waits for.
Overtaken(a) == ext.attempt # a \/ DeniedSince(a)

\* The answer reaches the extension, unless it stopped waiting.  A grant that was overtaken
\* is taken back: an endpoint that was paired before is stopped (pendingStop sends it), a
\* new one is revoked.  Any other grant is accepted, and the wait for the disk begins.
CompleteAnswer(a) ==
    /\ att[a].call \in {"granted", "refused"}
    /\ att' = [att EXCEPT ![a].call = "idle"]
    /\ \/ /\ ext.polling # a \/ ext.answer # "none"
          /\ UNCHANGED <<ep, ext>>
       \/ /\ ext.polling = a /\ ext.answer = "none" /\ att[a].call = "refused"
          /\ ext' = [ext EXCEPT !.polling = 0]
          /\ UNCHANGED ep
       \/ /\ ext.polling = a /\ ext.answer = "none" /\ att[a].call = "granted"
          /\ Overtaken(a) /\ ~att[a].fresh
          /\ ext' = [ext EXCEPT !.polling = 0, !.pendingStop = TRUE]
          /\ UNCHANGED ep
       \/ /\ ext.polling = a /\ ext.answer = "none" /\ att[a].call = "granted"
          /\ Overtaken(a) /\ att[a].fresh
          /\ ep' = [ep EXCEPT !.state = "revoked", !.rev = @ + 1]
          /\ ext' = [ext EXCEPT !.polling = 0]
       \/ /\ ext.polling = a /\ ext.answer = "none" /\ att[a].call = "granted" /\ ~Overtaken(a)
          /\ ext' = [ext EXCEPT !.answer = "accepted"]
          /\ UNCHANGED ep
    /\ UNCHANGED <<work, stop, sock, op, seeing, faults, restarts>>

\* The grant is persisted, also over a denial that was persisted since it was accepted.
GrantPersists(a) ==
    /\ ext.polling = a /\ ext.answer = "accepted"
    /\ ext' = [ext EXCEPT !.auth = "enabled", !.paired = TRUE, !.pendingStop = FALSE, !.answer = "written"]
    /\ UNCHANGED <<work, ep, att, stop, sock, op, seeing, faults, restarts>>

\* What every denial does before it first waits: it blocks the extension and outdates its
\* attempt, which a click also removes.
Deny(x, d) ==
    [x EXCEPT !.blocked = TRUE, !.epoch = @ + 1, !.asked = @ \cup {d},
              !.attempt = IF d \in {"stop", "revoke"} THEN 0 ELSE @]

\* The attempt is removed and its epoch compared once more: a grant that was denied while it
\* was persisted ends in stopLocal, any other one turns the extension on.
GrantSettles(a) ==
    /\ ext.polling = a /\ ext.answer = "written"
    /\ LET done == [ext EXCEPT !.polling = 0, !.answer = "none", !.attempt = 0]
       IN ext' = IF DeniedSince(a) THEN Deny(done, "stop") ELSE [done EXCEPT !.blocked = FALSE]
    /\ UNCHANGED <<work, ep, att, stop, sock, op, seeing, faults, restarts>>

\* The extension drops an attempt after five minutes.
AttemptExpires(a) ==
    /\ ext.attempt = a /\ ext.polling = 0
    /\ ext' = [ext EXCEPT !.attempt = 0]
    /\ att' = [att EXCEPT ![a].row = "consumed"]
    /\ UNCHANGED <<work, ep, stop, sock, op, seeing, faults, restarts>>

-----------------------------------------------------------------------------
(* Stop, Revoke and expiry. *)

\* stopLocal and revokeLocal, until they first wait.
StopClick ==
    /\ "local stop" \in work.takes /\ On
    /\ ext' = [Deny(ext, "stop") EXCEPT !.off = "asked"]
    /\ UNCHANGED <<work, ep, att, stop, sock, op, seeing, faults, restarts>>

RevokeClick ==
    /\ "revoke" \in work.takes /\ ext.paired /\ "revoke" \notin ext.asked
    /\ ext' = [Deny(ext, "revoke") EXCEPT !.off = "asked"]
    /\ UNCHANGED <<work, ep, att, stop, sock, op, seeing, faults, restarts>>

\* The denial is persisted; stopLocal leaves a note that the cloud must hear of it, a revoke
\* forgets the credential (its call of the cloud may come at any time, or never).
DenialPersists(d) ==
    /\ d \in ext.asked
    /\ ext' = [ext EXCEPT !.asked = @ \ {d}, !.written = @ \cup {d},
                          !.auth = IF d \in {"stop", "stopped"} THEN "stopped" ELSE "revoked",
                          !.paired = @ /\ d \in {"stop", "stopped"},
                          !.pendingStop = IF d = "stop" THEN ext.paired ELSE @ /\ d # "revoke"]
    /\ UNCHANGED <<work, ep, att, stop, sock, op, seeing, faults, restarts>>

\* clearNetwork: the socket is closed on this side and its generation forgotten.
NoNetwork(x) == [x EXCEPT !.socket = 0, !.gen = 0, !.told = "none"]

\* Only then is the network closed.
DenialClears(d) ==
    /\ d \in ext.written
    /\ ext' = NoNetwork([ext EXCEPT !.written = @ \ {d},
                                    !.off = IF @ = "asked" /\ ext.asked = {} THEN "yes" ELSE @])
    /\ UNCHANGED <<work, ep, att, stop, sock, op, seeing, faults, restarts>>

\* What a Stop writes; one that read "stopped" only advances stop_epoch.
StopWrites(k, seen) ==
    /\ ep' = IF seen = "stopped" THEN [ep EXCEPT !.stops = @ + 1]
             ELSE [ep EXCEPT !.state = "stopped", !.rev = @ + 1, !.stops = @ + 1]
    /\ CloseAll("stopped")
    /\ stop' = [stop EXCEPT ![k].pc = "written"]
    /\ UNCHANGED faults

\* /stop and /local-stop read the row.  They go on with it after hashing the credential
\* and after setting the alarm; the owner's Stop of a stopped endpoint waits for neither.
StopRead(k) ==
    /\ k \in work.takes /\ stop[k].pc = "idle" /\ ep.state \in {"enabled", "stopped"}
    /\ k \in LocalStops => ext.pendingStop
    /\ \/ /\ k \in LocalStops \/ (ep.state = "enabled" /\ ~Temporary)
          /\ stop' = [stop EXCEPT ![k] = [pc |-> "read", seen |-> ep.state]]
          /\ UNCHANGED <<ep, sock, op, ext, faults>>
       \/ /\ k \in OwnerStops /\ (ep.state = "stopped" \/ Temporary)
          /\ StopWrites(k, ep.state)
    /\ UNCHANGED <<work, att, seeing, restarts>>

StopWrite(k) ==
    /\ stop[k].pc = "read"
    /\ \/ StopWrites(k, stop[k].seen)
       \/ /\ stop[k].seen = "enabled" /\ ~Temporary /\ AlarmFails
          /\ ep' = [ep EXCEPT !.state = "revoked", !.rev = @ + 1, !.stops = @ + 1]
          /\ CloseAll("revoked")
          /\ stop' = [stop EXCEPT ![k].pc = "written"]
    /\ UNCHANGED <<work, att, seeing, restarts>>

\* pendingCloudActivations = 0
StopConfirmed == ext.polling = 0 \/ ext.answer # "none"

\* The extension hears that the cloud stopped.  A lost answer leaves pendingStop set;
\* syncPendingStop repeats the call.
StopAnswer(k) ==
    /\ k \in LocalStops /\ stop[k].pc = "written"
    /\ \/ ext' = [ext EXCEPT !.pendingStop = @ /\ ~StopConfirmed] /\ UNCHANGED faults
       \/ AlarmFails /\ UNCHANGED ext
    /\ stop' = [stop EXCEPT ![k].pc = "done"]
    /\ UNCHANGED <<work, ep, att, sock, op, seeing, restarts>>

\* /revoke and /local-revoke: the owner ends the pairing.
Revoke ==
    /\ "revoke" \in work.takes /\ ep.state \in {"enabled", "stopped"}
    /\ ep' = [ep EXCEPT !.state = "revoked", !.rev = @ + 1]
    /\ CloseAll("revoked")
    /\ UNCHANGED <<work, att, stop, seeing, faults, restarts>>

\* expireTemporary: the lease of a temporary pairing ends.
LeaseMayEnd == Temporary /\ ep.state = "enabled"

\* reconcileRemembered: an OFF period or an offline period of a permanent one ends.
PeriodMayEnd == ~Temporary /\ (ep.state = "stopped" \/ (ep.state = "enabled" /\ CurrentSockets = {}))

Expire ==
    /\ "expire" \in work.takes /\ (LeaseMayEnd \/ PeriodMayEnd)
    /\ ep' = [ep EXCEPT !.state = "revoked", !.rev = @ + 1]
    /\ CloseAll("revoked")
    /\ UNCHANGED <<work, att, stop, seeing, faults, restarts>>

-----------------------------------------------------------------------------
(* Sockets. *)

\* openSocket accepts the connection, not yet authenticated.
OpenSocket(s) == sock' = [sock EXCEPT ![s].state = "open"]

\* connect(): an enabled extension without a socket opens the next one.
Connect(s) ==
    /\ Enabled /\ ext.socket = 0
    /\ sock[s].state = "unused" /\ \A t \in 1..(s - 1) : sock[t].state # "unused"
    /\ OpenSocket(s)
    /\ ext' = [ext EXCEPT !.socket = s]
    /\ UNCHANGED <<work, ep, att, stop, op, seeing, faults, restarts>>

\* "authenticate" is read, and the credential hashed.
AuthenticateRead(s) ==
    /\ sock[s].state = "open"
    /\ sock' = [sock EXCEPT ![s] = IF ep.state = "enabled"
                                   THEN [state |-> "read", gen |-> ep.gen, rev |-> ep.rev]
                                   ELSE [@ EXCEPT !.state = "closed"]]
    /\ UNCHANGED <<work, ep, att, stop, op, seeing, ext, faults, restarts>>

AuthenticationStands(s) ==
    ep.state = "enabled" /\ ep.rev = sock[s].rev /\ ep.gen = sock[s].gen

\* The new generation supersedes the older sockets and what was pending on them.
AuthenticateCommit(s) ==
    /\ sock[s].state = "read"
    /\ \/ /\ ~AuthenticationStands(s)
          /\ sock' = [sock EXCEPT ![s] = [@ EXCEPT !.state = "closed", !.gen = 0]]
          /\ UNCHANGED <<ep, op>>
       \/ /\ AuthenticationStands(s)
          /\ ep' = [ep EXCEPT !.gen = @ + 1]
          /\ sock' = [ClosedSockets EXCEPT ![s] = [sock[s] EXCEPT !.state = "live", !.gen = ep.gen + 1]]
          /\ op' = [i \in Intents |-> Terminated(op[i])]
    /\ UNCHANGED <<work, att, stop, seeing, ext, faults, restarts>>

\* ws.onmessage "authenticated": the extension learns the generation of its socket.
Authenticated(s) ==
    /\ ext.socket = s /\ ext.gen = 0 /\ sock[s].state \in {"live", "closed"} /\ sock[s].gen > 0
    /\ ext' = [ext EXCEPT !.gen = sock[s].gen]
    /\ UNCHANGED <<work, ep, att, stop, sock, op, seeing, faults, restarts>>

\* scheduleEarlierAlarm fails after an authentication or in reconcileRemembered: a grant that
\* nothing would end any more is revoked.
AuditFails ==
    /\ ep.state = "enabled" \/ (ep.state = "stopped" /\ ~Temporary)
    /\ AlarmFails
    /\ ep' = [ep EXCEPT !.state = "revoked", !.rev = @ + 1]
    /\ CloseAll("revoked")
    /\ UNCHANGED <<work, att, stop, seeing, restarts>>

\* webSocketClose: the network dropped the socket, or the extension closed it.
SocketCloses(s) ==
    /\ Live(s) /\ (ext.socket # s \/ "drop" \in work.takes)
    /\ sock' = [sock EXCEPT ![s].state = "closed"]
    /\ op' = [i \in Intents |-> IF op[i].sock = s THEN Terminated(op[i]) ELSE op[i]]
    /\ reading' = {r \in reading : look[r].sock # s}
    /\ UNCHANGED <<work, ep, att, stop, look, page, ext, faults, restarts>>

\* It fails after a close, and the endpoint has not connected again.
CloseAlarmFails(s) ==
    /\ sock[s].state = "closed" /\ ep.state = "enabled" /\ sock[s].gen = ep.gen /\ ep.gen > 0
    /\ AlarmFails
    /\ ep' = [ep EXCEPT !.state = "revoked", !.rev = @ + 1]
    /\ CloseAll("revoked")
    /\ UNCHANGED <<work, att, stop, seeing, restarts>>

\* ws.onmessage "stopped" or "revoked", until it first waits.
ToldOff ==
    /\ ext.socket # 0 /\ ext.told # "none"
    /\ ext' = [Deny(ext, ext.told) EXCEPT !.told = "none"]
    /\ UNCHANGED <<work, ep, att, stop, sock, op, seeing, faults, restarts>>

\* ws.onclose: the extension asks /extension/state before it connects again.
SeesClose ==
    /\ ext.socket # 0 /\ sock[ext.socket].state = "closed"
    /\ \/ ext' = NoNetwork(ext)
       \/ /\ ep.state \in {"stopped", "revoked"} /\ Enabled
          /\ ext' = NoNetwork([ext EXCEPT !.auth = ep.state, !.paired = @ /\ ep.state = "stopped"])
    /\ UNCHANGED <<work, ep, att, stop, sock, op, seeing, faults, restarts>>

-----------------------------------------------------------------------------
(* Intents. *)

Admitting == {i \in Intents : op[i].pc = "admitting"}
Pending == {i \in Intents : op[i].pending # "no"}

\* Slip: a read does not see the intent whose admission is being hashed.
Busy_NotAdmitting == reading # {} \/ Pending # {} \/ Dispatching # {}

Busy == reading # {} \/ Admitting # {} \/ Pending # {} \/ Dispatching # {}

\* A key without a row is admissible for five minutes after the time it carries.
Admissible(i) == op[i].row \in {"none", "swept"} /\ ~op[i].old

\* /mutate: a key that has a row is only answered.  The endpoint is reserved while the
\* commitment is computed.
Mutate(i) ==
    /\ i \in work.takes /\ op[i].pc = "idle" /\ Admissible(i) /\ ep.state = "enabled" /\ ~Busy
    /\ \E s \in CurrentSockets :
        op' = [op EXCEPT ![i] = [@ EXCEPT !.pc = "admitting", !.gen = ep.gen, !.rev = ep.rev, !.sock = s]]
    /\ UNCHANGED <<work, ep, att, stop, sock, seeing, ext, faults, restarts>>

Current(i) == ep.state = "enabled" /\ ep.gen = op[i].gen /\ ep.rev = op[i].rev

\* Unknown outcomes are kept, and count against the limit for as long as they are young.
UnknownFull == Cardinality({i \in Intents : op[i].row = "unknown" /\ ~op[i].old}) >= UnknownLimit

\* admit commits the row, then the endpoint is read again, the row bound to its
\* generation and revision, and the extension asked to prepare.  A send on a closed
\* socket throws.
Admit(i) ==
    LET swept == [j \in Intents |-> Swept(op[j])]
        fresh == [swept[i] EXCEPT !.pc = "idle"]
    IN /\ i \in Admitting
       /\ op' = [swept EXCEPT ![i] =
                   IF UnknownFull THEN [fresh EXCEPT !.gen = 0]
                   ELSE IF Current(i) /\ Live(op[i].sock)
                   THEN [fresh EXCEPT !.row = "admitted", !.pending = "preparing", !.wire = "prepare"]
                   ELSE [fresh EXCEPT !.row = "failed"]]
       /\ UNCHANGED <<work, ep, att, stop, sock, seeing, ext, faults, restarts>>

\* ws.onmessage "prepare_request": the target is valid and the command stored, or not.
ExtensionPrepares(i) ==
    /\ op[i].wire = "prepare" /\ ext.socket = op[i].sock /\ ext.gen = op[i].gen
    /\ \/ /\ Enabled
          /\ op' = [op EXCEPT ![i] = [@ EXCEPT !.wire = "accepted", !.run = "stored"]]
       \/ op' = [op EXCEPT ![i].wire = "refused"]
    /\ UNCHANGED <<work, ep, att, stop, sock, seeing, ext, faults, restarts>>

\* A frame of socket s counts while the endpoint is enabled at the generation of s.
FromCurrent(i) == ep.state = "enabled" /\ ep.gen = op[i].gen

\* bindPrepare and matchesPrepare: the row still is what was prepared, under this grant.
MatchesPrepare(i) == Current(i) /\ op[i].row = "admitted"

\* "prepare_result": memory must still hold the preparation on this socket, the row its
\* revision.  Then the execute token is hashed.
Prepared(i) ==
    /\ op[i].wire \in {"accepted", "refused"}
    /\ op' = [op EXCEPT ![i] =
                LET o == [@ EXCEPT !.wire = "none"]
                IN IF ~FromCurrent(i) \/ o.pending # "preparing" THEN o
                   ELSE IF ~MatchesPrepare(i) \/ op[i].wire = "refused" \/ Dispatching # {}
                   THEN Terminated(o) ELSE [o EXCEPT !.pc = "hashing"]]
    /\ UNCHANGED <<work, ep, att, stop, sock, seeing, ext, faults, restarts>>

\* The UPDATE of dispatch finds the row as it was, and no other intent in dispatch.
StillAdmitted(i) == op[i].row = "admitted" /\ Dispatching = {}

\* dispatch commits, the grant is read again, and only then the request leaves.
Dispatch(i) ==
    /\ op[i].pc = "hashing"
    /\ op' = [op EXCEPT ![i] =
                LET o == [@ EXCEPT !.pc = "idle"]
                    d == [o EXCEPT !.row = "dispatching",
                                   !.pending = IF @ = "no" THEN "no" ELSE "dispatched"]
                IN CASE ~StillAdmitted(i) -> Terminated(o)
                     [] StillAdmitted(i) /\ ~(Current(i) /\ Live(o.sock)) -> Terminated(d)
                     [] OTHER -> [d EXCEPT !.wire = "execute", !.effect = "sent"]]
    /\ UNCHANGED <<work, ep, att, stop, sock, seeing, ext, faults, restarts>>

\* The eight-second timer of a pending intent.
MutationTimeout(i) ==
    /\ op[i].pending # "no"
    /\ op' = [op EXCEPT ![i] = Terminated(@)]
    /\ UNCHANGED <<work, ep, att, stop, sock, seeing, ext, faults, restarts>>

\* /operation-status, /activity-summary and /mutate settle the rows that waited too long.
OperationStatus(i) ==
    /\ op[i].pc = "idle" /\ op[i].row \in {"admitted", "dispatching"}
    /\ op' = [op EXCEPT ![i] = Reconciled(@)]
    /\ UNCHANGED <<work, ep, att, stop, sock, seeing, ext, faults, restarts>>

Consumable(i) == op[i].run = "stored"

\* ws.onmessage "execute_request": the preparation is consumed before any page is touched.
\* What is not current, enabled and stored is dropped without an answer.
ExtensionConsumes(i) ==
    /\ op[i].wire = "execute" /\ ext.socket = op[i].sock /\ ext.gen = op[i].gen
    /\ op' = [op EXCEPT ![i] = [@ EXCEPT !.wire = "none",
                        !.run = IF Consumable(i) /\ Enabled THEN "running" ELSE op[i].run]]
    /\ UNCHANGED <<work, ep, att, stop, sock, seeing, ext, faults, restarts>>

\* An answer leaves if the socket is still the current one.
Reply(o, verdict) ==
    [o EXCEPT !.run = "over", !.wire = IF ext.socket = o.sock THEN verdict ELSE @]

\* browserValidateMutation, and the first half of authorized(): the authorization.
ExtensionChecks(i) ==
    /\ op[i].run = "running"
    /\ \/ Enabled /\ op' = [op EXCEPT ![i].run = "cleared"]
       \/ op' = [op EXCEPT ![i] = Reply([@ EXCEPT !.effect = "refused"], "failed")]
    /\ UNCHANGED <<work, ep, att, stop, sock, seeing, ext, faults, restarts>>

\* Slip: the effect goes ahead on the authorization read before the await.
Authorized_Read(i) == TRUE

\* The second half of authorized(): the socket and its generation.
Authorized(i) == ext.socket = op[i].sock /\ ext.gen = op[i].gen

\* The last authorization: after it the browser is asked to act, which cannot be taken back.
ExtensionAuthorizes(i) ==
    /\ op[i].run = "cleared"
    /\ op' = [op EXCEPT ![i] = IF Authorized(i) THEN [@ EXCEPT !.run = "acting"]
                               ELSE Reply([@ EXCEPT !.effect = "refused"], "failed")]
    /\ UNCHANGED <<work, ep, att, stop, sock, seeing, ext, faults, restarts>>

\* What is reported of a page or tab that was acted on, or was not: done, an error that
\* proves nothing, or the page's own word that it refused.
Verdicts(effect) == {"unknown", IF effect = "applied" THEN "completed" ELSE "failed"}

\* The browser acted, or did not: whatever was stopped meanwhile.
ExtensionExecutes(i) ==
    /\ op[i].run = "acting"
    /\ \E effect \in {"applied", "refused"} : \E verdict \in Verdicts(effect) :
          op' = [op EXCEPT ![i] = Reply([@ EXCEPT !.effect = effect], verdict)]
    /\ UNCHANGED <<work, ep, att, stop, sock, seeing, ext, faults, restarts>>

Finalizable(i) == FromCurrent(i) /\ op[i].row \in {"dispatching", "unknown"}

\* "execute_result": finalize takes the verdict of the generation that was asked, also
\* when the row is unknown by now.  Its UPDATE repeats the state it read before hashing.
Finalize(i) ==
    /\ op[i].wire \in {"completed", "failed", "unknown"}
    /\ op' = [op EXCEPT ![i] =
                LET o == [@ EXCEPT !.wire = "none"]
                IN IF Finalizable(i)
                   THEN [o EXCEPT !.row = op[i].wire, !.pending = "no"] ELSE o]
    /\ UNCHANGED <<work, ep, att, stop, sock, seeing, ext, faults, restarts>>

-----------------------------------------------------------------------------
(* Observations: the tab list, a snapshot of the text, a screenshot. *)

\* /read: one observation at a time, and none while an intent is under way.
Read(r) ==
    /\ r \in work.takes /\ look[r].pc = "none" /\ ep.state = "enabled" /\ ~Busy
    /\ \E s \in CurrentSockets, tool \in {"tabs", "snapshot", "screenshot"} :
        look' = [look EXCEPT ![r] = [@ EXCEPT !.pc = "asked", !.tool = tool, !.sock = s, !.gen = ep.gen]]
    /\ reading' = reading \cup {r}
    /\ UNCHANGED <<work, ep, att, stop, sock, op, page, ext, faults, restarts>>

\* The five-second timer; an answer that comes later finds no request.
ReadTimeout(r) ==
    /\ r \in reading /\ reading' = reading \ {r}
    /\ UNCHANGED <<work, ep, att, stop, sock, op, look, page, ext, faults, restarts>>

\* The extension is busy with the request.
Looking == {"checked", "surveyed", "watched", "capturing", "taken", "ended", "cleared"}

\* Slip: a picture is judged by what is in view before and after it only.
Watching_Never(l) == FALSE

\* browserScreenshot's listeners: from before the last look at the tab until the picture is there.
Watching(l) == l.pc \in {"watched", "capturing"}
Noticed == [r \in Reads |-> IF Watching(look[r]) THEN [look[r] EXCEPT !.switched = TRUE] ELSE look[r]]

\* The tab loads another document, perhaps one the extension keeps out of.
Navigates ==
    /\ "page" \in work.takes /\ page.doc < Documents
    /\ \E open \in BOOLEAN : page' = [page EXCEPT !.doc = @ + 1, !.open = open]
    /\ look' = Noticed
    /\ UNCHANGED <<work, ep, att, stop, sock, op, reading, ext, faults, restarts>>

\* The user turns to another tab of the window, or comes back, which no listener minds.  (That
\* the window has the focus is checked in the same places, and left out.)
SwitchesTab ==
    /\ "page" \in work.takes
    /\ page' = [page EXCEPT !.shown = ~@]
    /\ look' = IF page.shown THEN Noticed ELSE look
    /\ UNCHANGED <<work, ep, att, stop, sock, op, reading, ext, faults, restarts>>

\* browserAllowedTab, and for a picture that the tab is the active one.
Accessible(l) == page.open /\ (l.tool = "screenshot" => page.shown)

\* authorized(): the request is current and the extension still on.
MayLook(l) == ext.socket = l.sock /\ ext.gen = l.gen /\ Enabled

\* An error is all that will be answered.
Refused(l) == [l EXCEPT !.pc = "ended", !.got = "nothing"]

\* One step of the extension's work on r: either it stops with an error or becomes `next`.
Step(r, fine, next) ==
    /\ look' = [look EXCEPT ![r] = IF fine THEN next ELSE Refused(@)]
    /\ UNCHANGED <<work, ep, att, stop, sock, op, reading, page, ext, faults, restarts>>

\* browserTabList, and the document a snapshot or a screenshot is about.
TabList(l) == [l EXCEPT !.pc = "ended", !.got = "list"]
Frame(l) == [l EXCEPT !.pc = "checked", !.doc = page.doc]

\* executeBrowserRead.
Execute(r, l) ==
    IF l.tool = "tabs" THEN Step(r, MayLook(l), TabList(l))
    ELSE Step(r, MayLook(l) /\ Accessible(l), Frame(l))

\* ws.onmessage "read_request".
ExtensionLooks(r) ==
    LET l == look[r] IN l.pc = "asked" /\ ext.socket = l.sock /\ ext.gen = l.gen /\ Execute(r, l)

\* A script runs in that document, or fails.
InDocument(l) == MayLook(l) /\ page.doc = l.doc

\* It extracts the visible text.
Extracts(r) ==
    LET l == look[r]
    IN /\ l.pc = "checked" /\ l.tool = "snapshot"
       /\ \E fine \in BOOLEAN :
            Step(r, fine /\ InDocument(l), [l EXCEPT !.pc = "taken", !.got = "target"])

\* It looks for what a picture must not show, and may find it.
Surveys(r) ==
    LET l == look[r]
    IN /\ l.pc = "checked" /\ l.tool = "screenshot"
       /\ \E fine \in BOOLEAN : Step(r, fine /\ InDocument(l), [l EXCEPT !.pc = "surveyed"])

\* The listeners are set.
Watches(r) ==
    LET l == look[r]
    IN l.pc = "surveyed" /\ Step(r, Accessible(l), [l EXCEPT !.pc = "watched"])

\* The last look at the tab before the picture.
ChecksAgain(r) ==
    LET l == look[r]
    IN l.pc = "watched" /\ Step(r, Accessible(l) /\ MayLook(l) /\ ~l.switched, [l EXCEPT !.pc = "capturing"])

\* captureVisibleTab takes what its window shows.
Captures(r) ==
    LET l == look[r]
        seen == IF page.shown /\ page.doc = l.doc THEN "target" ELSE "other"
    IN l.pc = "capturing" /\ Step(r, TRUE, [l EXCEPT !.pc = "taken", !.got = seen])

\* The final validations: the tab still has the document, and for a picture showed nothing else.
ValidatesText(r) ==
    LET l == look[r]
    IN /\ l.pc = "taken" /\ l.tool = "snapshot"
       /\ Step(r, Accessible(l) /\ InDocument(l), [l EXCEPT !.pc = "ended"])

ValidatesPicture(r) ==
    LET l == look[r]
    IN /\ l.pc = "taken" /\ l.tool = "screenshot"
       /\ Step(r, Accessible(l) /\ page.doc = l.doc /\ ~l.switched, [l EXCEPT !.pc = "ended"])

\* The authorization is read once more; without it nothing is answered.
Clears(r) ==
    LET l == look[r]
    IN l.pc = "ended" /\ Step(r, TRUE, [l EXCEPT !.pc = IF MayLook(l) THEN "cleared" ELSE "over"])

\* The tab must be accessible still.  A send on a socket that was closed meanwhile is lost.
Sends(r) ==
    LET l == look[r]
    IN /\ l.pc = "cleared"
       /\ Step(r, TRUE, [l EXCEPT !.pc = IF ext.socket = l.sock THEN "sent" ELSE "over",
                                  !.got = IF @ = "list" \/ page.open THEN @ ELSE "nothing"])

\* "read_result" ends the observation that waits for it.
ReadResult(r) ==
    /\ look[r].pc = "sent"
    /\ look' = [look EXCEPT ![r].pc = "over"]
    /\ reading' = IF ep.state = "enabled" /\ ep.gen = look[r].gen THEN reading \ {r} ELSE reading
    /\ UNCHANGED <<work, ep, att, stop, sock, op, page, ext, faults, restarts>>


-----------------------------------------------------------------------------
(* Time and crashes. *)

\* The key leaves its window and the row its retention.
GrowsOld(i) ==
    /\ "age" \in work.takes /\ ~op[i].old /\ op[i].pc = "idle" /\ op[i].pending = "no" /\ op[i].row # "none"
    /\ op[i].run \notin {"running", "cleared", "acting"}
    /\ op[i].wire = "none" \/ ext.socket # op[i].sock
    /\ op' = [op EXCEPT ![i].old = TRUE]
    /\ UNCHANGED <<work, ep, att, stop, sock, seeing, ext, faults, restarts>>

\* Slip: rows in dispatch are left as they are.
Recovered_Same(o) == [o EXCEPT !.pc = "idle", !.pending = "no"]

\* recoverUnknown: what was dispatched may have happened.
Recovered(o) == MarkUnknown([o EXCEPT !.pc = "idle", !.pending = "no"])

\* The Durable Object is constructed anew: its memory and its handlers are gone, its
\* authenticated sockets hibernate through it.
Restart ==
    /\ restarts < work.restarts /\ restarts' = restarts + 1
    /\ op' = [i \in Intents |-> Recovered(op[i])]
    /\ att' = [a \in Attempts |-> IF att[a].call \in {"sent", "read"}
                                  THEN [att[a] EXCEPT !.call = "refused"] ELSE att[a]]
    /\ stop' = [k \in Stops |-> IF stop[k].pc = "read" THEN [stop[k] EXCEPT !.pc = "done"] ELSE stop[k]]
    /\ sock' = [s \in 1..Sockets |-> IF sock[s].state \in {"open", "read"}
                                     THEN [sock[s] EXCEPT !.state = "closed"] ELSE sock[s]]
    /\ reading' = {}
    /\ UNCHANGED <<work, ep, look, page, ext, faults>>

\* A grant was persisted over a denial, and stopLocal has not put that right yet.
Overwritten == ext.auth = "enabled" /\ (ext.answer = "written" \/ "stop" \in ext.asked)

\* The service worker of the extension is suspended: what it was doing is lost, what it
\* stored is not, and what the browser was asked to do may still be done.
Suspended(o, landed) ==
    IF o.run \in {"running", "cleared", "acting"}
    THEN [o EXCEPT !.run = "over", !.effect = IF landed /\ o.run = "acting" THEN "applied" ELSE "refused"]
    ELSE o

ExtensionRestart ==
    /\ restarts < work.restarts /\ restarts' = restarts + 1
    /\ ext' = NoNetwork([ext EXCEPT !.blocked = FALSE, !.epoch = 0, !.polling = 0, !.answer = "none",
                                    !.asked = {}, !.written = {},
                                    !.off = IF Overwritten \/ (@ = "asked" /\ ext.asked # {}) THEN "no"
                                            ELSE IF @ = "asked" THEN "yes" ELSE @])
    /\ \E landed \in BOOLEAN : op' = [i \in Intents |-> Suspended(op[i], landed)]
    /\ look' = [r \in Reads |-> IF look[r].pc \in Looking THEN [look[r] EXCEPT !.pc = "over"] ELSE look[r]]
    /\ UNCHANGED <<work, ep, att, stop, sock, reading, page, faults>>

-----------------------------------------------------------------------------
Next ==
    \/ \E a \in Attempts : \/ Begin(a) \/ Authorize(a) \/ Cancel(a) \/ Poll(a) \/ CompleteRead(a)
                           \/ CompleteCommit(a) \/ CompleteAnswer(a) \/ PollFails(a)
                           \/ GrantPersists(a) \/ GrantSettles(a) \/ AttemptExpires(a)
    \/ StopClick \/ RevokeClick
    \/ \E d \in Denials : DenialPersists(d) \/ DenialClears(d)
    \/ \E k \in Stops : StopRead(k) \/ StopWrite(k) \/ StopAnswer(k)
    \/ Revoke \/ Expire
    \/ \E s \in 1..Sockets : \/ Connect(s) \/ AuthenticateRead(s) \/ AuthenticateCommit(s)
                             \/ Authenticated(s) \/ SocketCloses(s) \/ CloseAlarmFails(s)
    \/ AuditFails \/ ToldOff \/ SeesClose
    \/ \E i \in Intents : \/ Mutate(i) \/ Admit(i) \/ ExtensionPrepares(i) \/ Prepared(i)
                          \/ Dispatch(i) \/ MutationTimeout(i) \/ OperationStatus(i)
                          \/ ExtensionConsumes(i) \/ ExtensionChecks(i) \/ ExtensionAuthorizes(i)
                          \/ ExtensionExecutes(i) \/ Finalize(i) \/ GrowsOld(i)
    \/ \E r \in Reads : \/ Read(r) \/ ReadTimeout(r) \/ ExtensionLooks(r) \/ Extracts(r) \/ Surveys(r)
                        \/ Watches(r) \/ ChecksAgain(r) \/ Captures(r) \/ ValidatesText(r)
                        \/ ValidatesPicture(r) \/ Clears(r) \/ Sends(r) \/ ReadResult(r)
    \/ Navigates \/ SwitchesTab
    \/ Restart \/ ExtensionRestart

Spec == Init /\ [][Next]_vars

\* setTimeout fires while the Durable Object lives.
FairSpec == Spec /\ \A i \in Intents : WF_vars(MutationTimeout(i))

-----------------------------------------------------------------------------
(* Properties *)

\* An intent is carried out at most once, only after it was dispatched and never once the
\* ledger said "failed" or "expired"; "completed" is said only of what happened, and a key
\* whose receipt was swept does not run again (mutate, dispatch, finalize, sweep).
Ledger(i) ==
    CASE op[i].row = "none" -> "new"
      [] op[i].row \in {"admitted", "dispatching"} -> "claimed"
      [] op[i].row = "completed" -> "done"
      [] op[i].row \in {"failed", "expired"} -> "none"
      [] op[i].row = "swept" -> "forgotten"
      [] OTHER -> "unknown"

Once == INSTANCE OnceEffect WITH
            Ops <- Intents, Revisable <- TRUE,
            ledger <- [i \in Intents |-> Ledger(i)],
            effect <- [i \in Intents |-> op[i].effect]

ImplementsOnceEffect == Once!Spec

\* The endpoint does one thing at a time: an observation never runs beside an intent that
\* is being admitted, prepared or dispatched, nor do two such intents (the reservation of
\* admittingEndpoints, the pending maps and the unique index together).
OneAtATime ==
    Cardinality(Admitting \cup Pending \cup Dispatching) + Cardinality(reading) <= 1

\* Once the user's Stop or Revoke is written and the network closed, no intent passes its
\* last check any more and nothing of a page leaves the browser, whatever was received,
\* consumed, checked or captured before; only what the browser was already asked to do may
\* still be done ("already-dispatched events remain in-flight", mutations.js).  And what
\* leaves shows the document that was checked, also when the user changes tabs or pages.
Leaves(r) == look'[r].pc = "sent" /\ look[r].pc # "sent" /\ look'[r].got # "nothing"
PagesAreGuarded ==
    [][/\ ext.off = "yes" => /\ \A i \in Intents : op'[i].run = "acting" => op[i].run = "acting"
                             /\ \A r \in Reads : ~Leaves(r)
       /\ \A r \in Reads : Leaves(r) => look'[r].got # "other"]_vars

\* Once the user turned it off, the extension comes on only by an activation begun after
\* that: the answer to an earlier one, however late, and also one that is persisted over the
\* Stop, does not undo it.  (A service worker that is suspended before stopLocal has put such
\* a write right comes back on: Overwritten, which ends the promise.)
OffStaysOff == ext.off = "yes" => ~Enabled

\* A dispatched intent does not stay so: an answer, its timer, or the restart that lost the
\* timer settles it, also when nobody asks for its status.
DispatchEnds == \A i \in Intents : (op[i].row = "dispatching") ~> (op[i].row # "dispatching")

\* "explicit Stop/Revoke cannot regain access" (coordinator.ts): a revoked endpoint stays so.
RevokedStays == [][ep.state = "revoked" => ep'.state = "revoked"]_vars
===============================================================================
