---------------------------- MODULE SshOperations -----------------------------
(***************************************************************************)
(* SshOperationsDO (apps/ssh-mcp-worker/src/operations.ts): one Durable    *)
(* Object that admits commands, file changes and managed shells under      *)
(* durable receipts, shares a few connection leases among them, and owns   *)
(* the TCP sockets.                                                        *)
(*                                                                         *)
(* A call runs in turns between the awaits of its handler; every turn is   *)
(* one action.  Storage statements may throw, deadlines fire while the     *)
(* call waits, the object may restart (losing memory and sockets, keeping  *)
(* its tables), saved hosts change and receipts grow old.  Who calls what  *)
(* is a workload, chosen initially.  Digests, output and file contents are *)
(* left out: two calls with one operation id agree or differ in `arg'.     *)
(***************************************************************************)
EXTENDS Naturals, FiniteSets

CONSTANTS
    Calls, Ops, Hosts,
    Workloads,     \* functions from Calls to what each call asks for
    None,
    TotalLimit, HostLimit,   \* TOTAL_CONNECTION_LIMIT, HOST_CONNECTION_LIMIT
    StorageFaults, \* bound: storage statements that throw
    Restarts       \* bound: restarts of the Durable Object

Effects == {"exec", "sftp"}               \* run one effect over a connection of their own
Connecting == Effects \cup {"read", "start"}
Queries == {"status", "view"}             \* of an operation, of a shell: dispatch nothing
Kinds == Connecting \cup {"input", "stop"} \cup Queries

ASSUME WorkloadAssumption ==
    /\ Workloads \subseteq [Calls -> [op: Ops, kind: Kinds, host: Hosts, on: Ops,
                                      arg: 0..1, valid: BOOLEAN]]
    /\ None \notin Calls
ASSUME LimitAssumption == {TotalLimit, HostLimit, StorageFaults, Restarts} \subseteq Nat

VARIABLES
    work,        \* the workload
    call,        \* where each call stands, its reply, its own verdict, its TCP socket
    op,          \* operations: receipt, the call that inserted it, age, and what the
                 \* remote side saw of the effect (history)
    sess,        \* managed shells by the operation that started them: the in-memory
                 \* LiveSession, the managed_sessions row, sessionEffects
    lease,       \* connection_leases, by the call that holds one
    leaked,      \* history: leases whose DELETE failed twice
    unresolved,  \* unresolvedOutcomes
    saved,       \* version of each saved host record; 2 means it is gone
    faults, restarts

vars == <<work, call, op, sess, lease, leaked, unresolved, saved, faults, restarts>>

Op(c) == work[c].op
Kind(c) == work[c].kind
Host(c) == work[c].host
On(c) == work[c].on
Sessions == {work[c].op : c \in {d \in Calls : work[d].kind = "start"}}

Verdicts == {"completed", "failed", "unknown"}
\* The errors of a reply with status `failed' that repeats no receipt: a refused argument, a
\* table that cannot be read or written, a lease or a receipt that is not to be had.
CallErrors == {"invalid_input", "receipt_store_unavailable", "capacity_reached",
               "receipt_conflict", "session_not_found", "session_not_live"}
Status == {"absent", "admitted", "running"} \cup Verdicts

\* A call under way, an operation's receipt with its history, and a managed shell.
Call == [pc: {"idle", "sweep", "connect", "busy", "close", "alarm", "check",
              "settle", "write", "stop", "estop", "done", "dead"},
         told: Verdicts \cup CallErrors
                    \cup {"none", "running", "live", "closing", "closed", "lost", "operation_not_found"},
         fate: Verdicts \cup {"none"}, sock: {"none", "open", "closed"}]
Operation == [receipt: Status, by: Calls \cup {None}, old: BOOLEAN,
              effect: {"untouched", "applied", "refused"}]
Shell == [mem: {"none", "live", "closing", "closed", "lost"},
          row: {"none", "live", "closing", "closed", "lost"},
          goal: {"closed", "lost"}, due: BOOLEAN, gen: 0..2, busy: Calls \cup {None}]

\* The type of every variable.
TypeOK ==
    /\ work \in Workloads
    /\ call \in [Calls -> Call]
    /\ op \in [Ops -> Operation]
    /\ sess \in [Ops -> Shell]
    /\ lease \subseteq Calls /\ leaked \subseteq Calls /\ unresolved \subseteq Ops
    /\ saved \in [Hosts -> 0..2]
    /\ faults \in 0..StorageFaults /\ restarts \in 0..Restarts

Init ==
    /\ work \in Workloads
    /\ call = [c \in Calls |-> [pc |-> "idle", told |-> "none", fate |-> "none", sock |-> "none"]]
    /\ op = [o \in Ops |-> [receipt |-> "absent", by |-> None, old |-> FALSE,
                            effect |-> "untouched"]]
    /\ sess = [o \in Ops |-> [mem |-> "none", row |-> "none", goal |-> "closed", due |-> FALSE,
                              gen |-> 0, busy |-> None]]
    /\ lease = {} /\ leaked = {} /\ unresolved = {}
    /\ saved = [h \in Hosts |-> 0]
    /\ faults = StorageFaults /\ restarts = Restarts

-----------------------------------------------------------------------------
(* Storage *)

\* n storage statements in a row throw.
Spend(n) == n <= faults /\ faults' = faults - n

\* persistUncertainOutcome after n throwing statements: the receipt says unknown, or the
\* object remembers it until it restarts.
Uncertain(o, n) ==
    IF n >= 2
    THEN [receipt |-> op[o].receipt, unresolved |-> unresolved \cup {o}]
    ELSE [receipt |-> "unknown", unresolved |-> unresolved \ {o}]

\* storeEffectResult and persistMutationReceipt after n throwing statements.
Stored(o, verdict, n) ==
    IF n = 0 THEN [receipt |-> verdict, unresolved |-> unresolved \ {o}] ELSE Uncertain(o, n - 1)

\* execute only tries once and leaves its row running.
ExecStored(o, verdict, n) ==
    [receipt |-> IF n = 0 THEN verdict ELSE op[o].receipt, unresolved |-> unresolved]

\* releaseLease: a DELETE that is retried once.
Release(c, throws) ==
    /\ lease' = IF throws THEN lease ELSE lease \ {c}
    /\ leaked' = IF throws THEN leaked \cup {c} ELSE leaked

\* Slip: every old receipt is pruned, the unknown ones too.
Prunable_Unknown(o) == op[o].old /\ op[o].receipt \in Verdicts
\* The receipts claimOperation deletes first: known outcomes past their retention.
Prunable(o) == op[o].old /\ op[o].receipt \in {"completed", "failed"}

Pruned == [o \in Ops |-> IF Prunable(o) THEN [op[o] EXCEPT !.receipt = "absent"] ELSE op[o]]

\* Slip: the per-host count is forgotten.
Free_TotalOnly(h) == Cardinality(lease) < TotalLimit
\* Admission over connection_leases.
Free(h) == /\ Cardinality(lease) < TotalLimit
           /\ Cardinality({c \in lease : Host(c) = h}) < HostLimit

\* canonicalOperationDigest: the tool, the host, the shell and the arguments.
SameIntent(c, d) ==
    /\ Kind(c) = Kind(d) /\ Host(c) = Host(d) /\ work[c].arg = work[d].arg
    /\ Kind(c) \in {"input", "stop"} => On(c) = On(d)

\* What a retry is told of an existing receipt (existingStartReply, existingMutationReply
\* and the same lines of execute).
Replay(c) ==
    LET r == op[Op(c)].receipt IN
    IF ~SameIntent(op[Op(c)].by, c) THEN "receipt_conflict"
    ELSE IF Op(c) \in unresolved \/ r = "admitted" THEN "unknown"
    ELSE IF r = "running" /\ Kind(c) = "sftp" THEN "unknown" ELSE r

\* A reply is named by its error when that is one of CallErrors, and by its status otherwise.
Answer(c, reply) == call' = [call EXCEPT ![c] = [@ EXCEPT !.pc = "done", !.told = reply]]

-----------------------------------------------------------------------------
(* Shells *)

Starter(s) == op[s].by

\* settleSession and the first half of finishSession: the row turns closing and closeShell
\* closes the socket at once.  A throwing UPDATE of the row changes nothing that follows.
Settling(s, status) ==
    IF sess[s].mem = "live"
    THEN [sess[s] EXCEPT !.mem = "closing", !.goal = status,
                         !.row = IF @ = "live" THEN "closing" ELSE @]
    ELSE sess[s]

\* The calls after the shell of s was closed and c moved on to pc with a verdict.
ClosedBy(c, s, pc, fate) ==
    [d \in Calls |->
        LET moved == IF d = c THEN [call[d] EXCEPT !.pc = pc, !.fate = fate] ELSE call[d] IN
        IF d = Starter(s) THEN [moved EXCEPT !.sock = "closed"] ELSE moved]

\* Slip: a shell is judged by its place in the map, from which nothing is ever removed.
OwnedLive_InMap(s) == sess[s].mem # "none"
OwnedLive(s) == sess[s].mem = "live"

\* enforceSessionDeadlines: a request goes on once no shell is past its deadline.
SweepDone == \A s \in Sessions : ~(sess[s].mem = "live" /\ sess[s].due)

\* Slip: the shell is settled and its lease forgotten.
FinishSession_KeepsLease(s) ==
    /\ sess[s].mem = "closing"
    /\ sess' = [sess EXCEPT ![s] = [@ EXCEPT !.mem = sess[s].goal, !.row = sess[s].goal]]
    /\ UNCHANGED <<work, call, op, lease, leaked, unresolved, saved, faults, restarts>>

\* The second half of finishSession: row and lease go in one transaction, tried twice.
FinishSession(s) ==
    /\ sess[s].mem = "closing"
    /\ \E throws \in BOOLEAN :
         /\ Spend(IF throws THEN 2 ELSE 0)
         /\ Release(Starter(s), throws)
         /\ sess' = [sess EXCEPT ![s] = [@ EXCEPT !.mem = sess[s].goal,
                                 !.row = IF throws THEN sess[s].row ELSE sess[s].goal]]
    /\ UNCHANGED <<work, call, op, unresolved, saved, restarts>>

\* The shell exits, its output ends or its socket closes.
Disconnect(s) ==
    /\ sess[s].mem = "live"
    /\ sess' = [sess EXCEPT ![s] = Settling(s, "lost")]
    /\ call' = [call EXCEPT ![Starter(s)].sock = "closed"]
    /\ UNCHANGED <<work, op, lease, leaked, unresolved, saved, faults, restarts>>

\* The idle or the absolute deadline passes.
DeadlinePasses(s) ==
    /\ sess[s].mem = "live" /\ ~sess[s].due
    /\ sess' = [sess EXCEPT ![s].due = TRUE]
    /\ UNCHANGED <<work, call, op, lease, leaked, unresolved, saved, faults, restarts>>

\* sweepSessions, from the alarm or from a request, in the shell's own queue.
SweepSession(s) ==
    /\ sess[s].mem = "live" /\ sess[s].due /\ sess[s].busy = None
    /\ sess' = [sess EXCEPT ![s] = Settling(s, "closed")]
    /\ call' = [call EXCEPT ![Starter(s)].sock = "closed"]
    /\ UNCHANGED <<work, op, lease, leaked, unresolved, saved, faults, restarts>>

-----------------------------------------------------------------------------
(* Commands, file changes, reads and the start of a shell *)

\* The validation of validation.ts: a call it refuses never reaches the object.
Valid(c) == work[c].valid

\* Clients use a fresh id for each intention and stop retrying one whose known receipt has
\* expired, as the README asks.
MayAsk(c) == Kind(c) \in Queries \/ ~(op[Op(c)].old /\ op[Op(c)].receipt \in {"absent", "completed", "failed"})

\* A tool of tools.ts validates its arguments and calls the object.
Arrive(c) ==
    /\ call[c].pc = "idle" /\ MayAsk(c)
    /\ IF Valid(c) THEN call' = [call EXCEPT ![c].pc = "sweep"] ELSE Answer(c, "invalid_input")
    /\ UNCHANGED <<work, op, sess, lease, leaked, unresolved, saved, faults, restarts>>

\* The status a handler writes right after its claim.
Admitted(c, status) == [Pruned EXCEPT ![Op(c)] = [@ EXCEPT !.receipt = status, !.by = c]]

Claimable(c) == Pruned[Op(c)].receipt = "absent"

\* claimOperation and the UPDATE to running that follows it in the same turn.  A claim that
\* throws leaves nothing; an UPDATE that throws leaves an admitted row and gives up.
Claim(c) ==
    /\ call[c].pc = "sweep" /\ SweepDone
    /\ \/ Spend(1) /\ Answer(c, "receipt_store_unavailable") /\ UNCHANGED <<op, lease, leaked>>
       \/ /\ ~Claimable(c)
          /\ op' = Pruned /\ Answer(c, Replay(c)) /\ UNCHANGED <<lease, leaked, faults>>
       \/ /\ Claimable(c) /\ ~Free(Host(c))
          /\ op' = Pruned /\ Answer(c, "capacity_reached") /\ UNCHANGED <<lease, leaked, faults>>
       \/ /\ Claimable(c) /\ Free(Host(c))
          /\ \/ /\ op' = Admitted(c, "running") /\ lease' = lease \cup {c}
                /\ call' = [call EXCEPT ![c].pc = "connect"] /\ UNCHANGED <<leaked, faults>>
             \/ /\ op' = Admitted(c, "admitted") /\ Answer(c, "receipt_store_unavailable")
                /\ \/ Spend(1) /\ UNCHANGED <<lease, leaked>>
                   \/ Spend(3) /\ lease' = lease \cup {c} /\ leaked' = leaked \cup {c}
    /\ UNCHANGED <<work, sess, unresolved, saved, restarts>>

\* The heads of execute, startSession and runMutatingSftp.
ExecClaim(c) == Kind(c) = "exec" /\ Claim(c)
StartClaim(c) == Kind(c) = "start" /\ Claim(c)
SftpClaim(c) == Kind(c) = "sftp" /\ Claim(c)

\* runSftp: a read takes a lease and no receipt.
ReserveConnection(c) ==
    /\ call[c].pc = "sweep" /\ Kind(c) = "read" /\ SweepDone
    /\ \/ Spend(1) /\ Answer(c, "receipt_store_unavailable") /\ UNCHANGED lease
       \/ ~Free(Host(c)) /\ Answer(c, "capacity_reached") /\ UNCHANGED <<lease, faults>>
       \/ /\ Free(Host(c)) /\ lease' = lease \cup {c}
          /\ call' = [call EXCEPT ![c].pc = "connect"] /\ UNCHANGED faults
    /\ UNCHANGED <<work, op, sess, leaked, unresolved, saved, restarts>>

\* getSshHostCredentials: the current record of a saved host, unless it is gone.
HasCredentials(h) == saved[h] # 2

\* sessionSecurityDigest: which version of the host's record it is.
SecurityDigest(h) == saved[h]

\* openSocket, within the deadline.  A shell keeps the digest of the record it was opened with.
OpenSocket(c) ==
    /\ call[c].pc = "connect" /\ call[c].sock = "none" /\ HasCredentials(Host(c))
    /\ call' = [call EXCEPT ![c].sock = "open"]
    /\ sess' = IF Kind(c) = "start" THEN [sess EXCEPT ![Op(c)].gen = SecurityDigest(Host(c))] ELSE sess
    /\ UNCHANGED <<work, op, lease, leaked, unresolved, saved, faults, restarts>>

\* The record is missing or untrusted, the target is not public, the peer refuses or its
\* key differs: nothing was dispatched.
Refused(c) ==
    /\ call[c].pc = "connect"
    /\ call' = [call EXCEPT ![c] = [@ EXCEPT !.pc = "close", !.fate = "failed"]]
    /\ UNCHANGED <<work, op, sess, lease, leaked, unresolved, saved, faults, restarts>>

\* The effect o leaves the worker; the remote side carries it out or refuses it.
Sent(o) ==
    \E e \in {"applied", "refused"} :
        op' = [op EXCEPT ![o].effect = IF @ = "untouched" THEN e ELSE "twice"]

\* The connection is up and the deadline has not passed: the command is spawned, the SFTP
\* mutation is marked and sent, the shell is asked for.
Dispatch(c) ==
    /\ call[c].pc = "connect" /\ call[c].sock = "open"
    /\ call' = [call EXCEPT ![c].pc = "busy"]
    /\ IF Kind(c) \in Effects THEN Sent(Op(c)) ELSE UNCHANGED op
    /\ UNCHANGED <<work, sess, lease, leaked, unresolved, saved, faults, restarts>>

\* A file is read to its end unless it is too long or not UTF-8, or cannot be read.
ReadResults == {"completed", "failed"}

\* A definitive SFTP status is a failure; a connection that breaks after the dispatch, or
\* any other status, leaves the change unknown.
SftpResults(c) == {"unknown", IF op[Op(c)].effect = "applied" THEN "completed" ELSE "failed"}

\* The command ran to its end, the connection broke, or, after the dispatch was marked, the
\* library still refused the host's key or the login, which it does before a command is taken.
ExecResults(c) ==
    {"unknown", IF op[Op(c)].effect = "applied" THEN "completed" ELSE "failed"}

\* The peer answers, or the connection breaks.
Results(c) ==
    CASE Kind(c) = "read" -> ReadResults
      [] Kind(c) = "start" -> {"failed"}
      [] Kind(c) = "exec" -> ExecResults(c)
      [] OTHER -> SftpResults(c)

Result(c) ==
    /\ call[c].pc = "busy"
    /\ \E v \in Results(c) : call' = [call EXCEPT ![c] = [@ EXCEPT !.pc = "close", !.fate = v]]
    /\ UNCHANGED <<work, op, sess, lease, leaked, unresolved, saved, faults, restarts>>

\* Slip: a deadline is taken for a failure even after the dispatch.
TimedOut_Failed(c) == "failed"
\* What the deadline makes of a call: dispatchStarted and outcome.mutating decide.
TimedOut(c) == IF call[c].pc = "busy" /\ Kind(c) \in Effects THEN "unknown" ELSE "failed"

\* A timer fires: the socket is closed, and nothing can be dispatched any more.
Deadline(c) ==
    /\ call' = [call EXCEPT ![c] = [@ EXCEPT !.pc = "close", !.fate = TimedOut(c),
                            !.sock = IF call[c].sock = "open" THEN "closed" ELSE call[c].sock]]
    /\ UNCHANGED <<work, op, sess, lease, leaked, unresolved, saved, faults, restarts>>

\* The timers of runSshExec and runBoundedSftp run from the start of the call, that of
\* openManagedShell from the request for the shell.
ExecDeadline(c) == Kind(c) = "exec" /\ call[c].pc \in {"connect", "busy"} /\ Deadline(c)
SftpDeadline(c) == Kind(c) \in {"sftp", "read"} /\ call[c].pc \in {"connect", "busy"} /\ Deadline(c)
ShellDeadline(c) == Kind(c) = "start" /\ call[c].pc = "busy" /\ Deadline(c)

\* Cleanup is over: the receipt is written and the lease deleted in one turn.
Persist(c) ==
    /\ call[c].pc = "close"
    /\ \E n \in 0..3, throws \in BOOLEAN :
         /\ Spend(n + (IF throws THEN 2 ELSE 0))
         /\ n > 0 => Kind(c) # "read"
         /\ n > 1 => Kind(c) # "exec"
         /\ n > 2 => call[c].fate # "unknown" \/ Kind(c) = "sftp"
         /\ LET fate == call[c].fate
                s == CASE Kind(c) = "exec" -> ExecStored(Op(c), fate, n)
                       [] Kind(c) = "start" /\ fate = "unknown" -> Uncertain(Op(c), n)
                       [] OTHER -> Stored(Op(c), fate, n)
            IN  /\ call' = [call EXCEPT ![c] = [@ EXCEPT !.pc = "done", !.sock = "closed",
                                        !.told = IF n = 0 THEN fate ELSE "unknown"]]
                /\ IF Kind(c) = "read" THEN UNCHANGED <<op, unresolved>>
                   ELSE /\ op' = [op EXCEPT ![Op(c)].receipt = s.receipt]
                        /\ unresolved' = s.unresolved
         /\ Release(c, throws)
    /\ UNCHANGED <<work, sess, saved, restarts>>

\* startSession with its channel: row, receipt and map in one turn.  If the transaction
\* throws, the shell is closed and the outcome is uncertain.
Register(c) ==
    /\ call[c].pc = "busy" /\ Kind(c) = "start"
    /\ \/ /\ sess' = [sess EXCEPT ![Op(c)] = [@ EXCEPT !.mem = "live", !.row = "live"]]
          /\ op' = [op EXCEPT ![Op(c)].receipt = "completed"]
          /\ call' = [call EXCEPT ![c].pc = "alarm"]
          /\ UNCHANGED faults
       \/ /\ Spend(1)
          /\ call' = [call EXCEPT ![c] = [@ EXCEPT !.pc = "close", !.fate = "unknown", !.sock = "closed"]]
          /\ UNCHANGED <<op, sess>>
    /\ UNCHANGED <<work, lease, leaked, unresolved, saved, restarts>>

\* scheduleSessionAlarm: if it throws, the shell is closed and the receipt turns failed.
Alarm(c) ==
    /\ call[c].pc = "alarm"
    /\ \/ Answer(c, "completed") /\ UNCHANGED faults
       \/ /\ Spend(1)
          /\ call' = [call EXCEPT ![c] = [@ EXCEPT !.pc = "close", !.fate = "failed", !.sock = "closed"]]
    /\ UNCHANGED <<work, op, sess, lease, leaked, unresolved, saved, restarts>>

-----------------------------------------------------------------------------
(* Input to a shell and its stop, one at a time per shell (enqueueSession) *)

MyTurn(c) == call[c].pc = "sweep" /\ sess[On(c)].busy = None

\* performInput up to its first await after the claim.  sessionExpired is the same test as
\* the sweep's.
InputBegin(c) ==
    LET s == On(c)
        Failed(n) == [receipt |-> IF n < 3 THEN (IF n = 0 THEN "failed" ELSE "unknown")
                                  ELSE "running",
                      unresolved |-> IF n < 3 THEN unresolved \ {Op(c)}
                                     ELSE unresolved \cup {Op(c)}]
    IN
    /\ MyTurn(c) /\ Kind(c) = "input" /\ SweepDone
    /\ \/ Spend(1) /\ Answer(c, "receipt_store_unavailable") /\ UNCHANGED <<op, sess, unresolved>>
       \/ /\ sess[s].row = "none"
          /\ Answer(c, "session_not_found") /\ UNCHANGED <<op, sess, unresolved, faults>>
       \/ /\ sess[s].row # "none" /\ ~Claimable(c)
          /\ op' = Pruned /\ Answer(c, Replay(c)) /\ UNCHANGED <<sess, unresolved, faults>>
       \/ /\ sess[s].row # "none" /\ Claimable(c) /\ OwnedLive(s)
          /\ \/ /\ op' = Admitted(c, "running") /\ call' = [call EXCEPT ![c].pc = "check"]
                /\ sess' = [sess EXCEPT ![s].busy = c] /\ UNCHANGED <<unresolved, faults>>
             \/ \E n \in 1..3 :     \* the UPDATE to running throws: persistUncertainOutcome
                  /\ Spend(n)
                  /\ op' = Admitted(c, IF n < 3 THEN "unknown" ELSE "admitted")
                  /\ unresolved' = IF n < 3 THEN unresolved ELSE unresolved \cup {Op(c)}
                  /\ Answer(c, "unknown") /\ UNCHANGED sess
       \/ /\ sess[s].row # "none" /\ Claimable(c) /\ ~OwnedLive(s)
          /\ \E n \in 0..3 :        \* session_not_live
               /\ Spend(n)
               /\ op' = Admitted(c, Failed(n).receipt) /\ unresolved' = Failed(n).unresolved
               /\ Answer(c, IF n = 0 THEN "failed" ELSE "unknown") /\ UNCHANGED sess
    /\ UNCHANGED <<work, lease, leaked, saved, restarts>>

\* Storing the verdict of c and leaving the queue of s, after n throwing statements.
Leave(c, s, n, stored, told, after) ==
    /\ Spend(n)
    /\ op' = [op EXCEPT ![Op(c)].receipt = stored.receipt]
    /\ unresolved' = stored.unresolved
    /\ call' = [call EXCEPT ![c] = [@ EXCEPT !.pc = "done", !.told = IF n = 0 THEN told ELSE "unknown"]]
    /\ sess' = [sess EXCEPT ![s] = [after EXCEPT !.busy = None]]

\* rejectInputIfTargetChanged is back; the write follows in the same turn.
InputCheck(c) ==
    LET s == On(c) IN
    /\ call[c].pc = "check"
    /\ \/ /\ SecurityDigest(Host(c)) # sess[s].gen    \* changed or gone: the shell is closed first
          /\ sess' = [sess EXCEPT ![s] = Settling(s, "closed")]
          /\ call' = ClosedBy(c, s, "settle", "failed")
          /\ UNCHANGED <<op, unresolved, faults>>
       \/ \E n \in 0..3 :                    \* the catalogue is unavailable, or not live
            Leave(c, s, n, Stored(Op(c), "failed", n), "failed", sess[s])
       \/ /\ SecurityDigest(Host(c)) = sess[s].gen /\ OwnedLive(s)
          /\ Sent(Op(c))
          /\ call' = [call EXCEPT ![c].pc = "write"]
          /\ UNCHANGED <<sess, unresolved, faults>>
    /\ UNCHANGED <<work, lease, leaked, saved, restarts>>

\* channel.write returns: accepted bytes move the idle deadline; a rejected write ends the shell.
InputWritten(c) ==
    LET s == On(c) IN
    /\ call[c].pc = "write"
    /\ \/ /\ op[Op(c)].effect = "applied"
          /\ \E n \in 0..3, due \in {sess[s].due, FALSE} :
               Leave(c, s, n, Stored(Op(c), "completed", n), "completed",
                     [sess[s] EXCEPT !.due = due])
       \/ /\ sess' = [sess EXCEPT ![s] = Settling(s, "lost")]
          /\ call' = ClosedBy(c, s, "settle", "unknown")
          /\ UNCHANGED <<op, unresolved, faults>>
    /\ UNCHANGED <<work, lease, leaked, saved, restarts>>

\* The shell that c had to close is settled.
InputSettled(c) ==
    LET s == On(c) IN
    /\ call[c].pc = "settle" /\ sess[s].mem # "closing"
    /\ \E n \in 0..3 :
         /\ n = 3 => call[c].fate = "failed"
         /\ Leave(c, s, n, IF call[c].fate = "failed" THEN Stored(Op(c), "failed", n)
                           ELSE Uncertain(Op(c), n), call[c].fate, sess[s])
    /\ UNCHANGED <<work, lease, leaked, saved, restarts>>

\* performStop up to the close it starts.  When its row cannot be read or claimed, a live
\* shell is closed all the same (emergencyStop).
StopBegin(c) ==
    LET s == On(c)
        Close(pc, fate) ==
            /\ call' = ClosedBy(c, s, pc, fate)
            /\ sess' = [sess EXCEPT ![s] = [Settling(s, "closed") EXCEPT !.busy = c]]
    IN
    /\ MyTurn(c) /\ Kind(c) = "stop"
    /\ \/ /\ Spend(1) /\ UNCHANGED <<op, unresolved>>
          /\ IF OwnedLive(s) THEN Close("estop", "unknown")
             ELSE Answer(c, "session_not_live") /\ UNCHANGED sess
       \/ /\ sess[s].row = "none"
          /\ Answer(c, "session_not_found") /\ UNCHANGED <<op, sess, unresolved, faults>>
       \/ /\ sess[s].row # "none" /\ ~Claimable(c)
          /\ op' = Pruned /\ Answer(c, Replay(c)) /\ UNCHANGED <<sess, unresolved, faults>>
       \/ /\ sess[s].row # "none" /\ Claimable(c) /\ ~OwnedLive(s)
          /\ \E n \in 0..3 :
               /\ Spend(n)
               /\ op' = Admitted(c, CASE n = 0 -> "failed" [] n = 3 -> "admitted" [] OTHER -> "unknown")
               /\ unresolved' = IF n = 3 THEN unresolved \cup {Op(c)} ELSE unresolved
               /\ Answer(c, IF n = 0 THEN "failed" ELSE "unknown") /\ UNCHANGED sess
       \/ /\ sess[s].row # "none" /\ Claimable(c) /\ OwnedLive(s)
          /\ \/ op' = Admitted(c, "running") /\ Close("stop", "completed") /\ UNCHANGED faults
             \/ op' = Admitted(c, "admitted") /\ Close("stop", "unknown") /\ Spend(1)
          /\ UNCHANGED unresolved
    /\ UNCHANGED <<work, lease, leaked, saved, restarts>>

\* The shell is settled: the stop is recorded, as unknown when the alarm that ends the close
\* could not be set, or in an emergency, if it can be recorded at all.
StopEnd(c) ==
    LET s == On(c) IN
    /\ sess[s].mem # "closing"
    /\ \/ /\ call[c].pc = "stop"
          /\ \E n \in 0..3 : Leave(c, s, n, Stored(Op(c), call[c].fate, n), call[c].fate, sess[s])
       \/ /\ call[c].pc = "stop" /\ call[c].fate = "completed" /\ Spend(1)
          /\ call' = [call EXCEPT ![c].fate = "unknown"] /\ UNCHANGED <<op, sess, unresolved>>
       \/ /\ call[c].pc = "estop"
          /\ sess' = [sess EXCEPT ![s].busy = None] /\ Answer(c, "unknown")
          /\ \/ Claimable(c) /\ \E n \in 0..3 :
                  /\ Spend(n)
                  /\ op' = Admitted(c, IF n < 3 THEN "unknown" ELSE "admitted")
                  /\ unresolved' = IF n < 3 THEN unresolved \ {Op(c)} ELSE unresolved \cup {Op(c)}
             \/ ~Claimable(c) /\ op' = Pruned /\ UNCHANGED <<unresolved, faults>>
             \/ Spend(1) /\ UNCHANGED <<op, unresolved>>
    /\ UNCHANGED <<work, lease, leaked, saved, restarts>>

-----------------------------------------------------------------------------
(* Queries *)

\* getOperationStatus: what the receipt of an operation lets a client know.
KnownStatus(o) == IF o \in unresolved \/ op[o].receipt = "admitted" THEN "unknown" ELSE op[o].receipt

\* A sweep that throws, or a receipt that is not there, says nothing of the operation.
OperationStatus(c) ==
    /\ Kind(c) = "status" /\ call[c].pc = "sweep" /\ SweepDone
    /\ \/ Spend(1) /\ Answer(c, "receipt_store_unavailable")
       \/ /\ Answer(c, IF op[Op(c)].receipt = "absent" THEN "operation_not_found"
                       ELSE KnownStatus(Op(c)))
          /\ UNCHANGED faults
    /\ UNCHANGED <<work, op, sess, lease, leaked, unresolved, saved, restarts>>

\* sessionView for a shell the object holds, storedSessionView for one it only has a row of.
SessionView(s) == IF sess[s].mem # "none" THEN sess[s].mem ELSE sess[s].row

\* readSessionStatus answers at once of a shell that is closing; like readSessionOutput it
\* lets the deadlines act first otherwise.
SessionStatus(c) ==
    /\ Kind(c) = "view" /\ call[c].pc = "sweep" /\ (SweepDone \/ sess[On(c)].mem = "closing")
    /\ \/ Spend(1) /\ Answer(c, "receipt_store_unavailable")
       \/ /\ Answer(c, IF SessionView(On(c)) = "none" THEN "session_not_found"
                       ELSE SessionView(On(c)))
          /\ UNCHANGED faults
    /\ UNCHANGED <<work, op, sess, lease, leaked, unresolved, saved, restarts>>

-----------------------------------------------------------------------------
(* The environment *)

\* What the constructor makes of a receipt.
Recovered(r) == IF r \in {"admitted", "running"} THEN "unknown" ELSE r

\* The object restarts: sockets and memory are gone, the constructor repairs the tables.
Restart ==
    /\ restarts > 0 /\ restarts' = restarts - 1
    /\ op' = [o \in Ops |-> [op[o] EXCEPT !.receipt = Recovered(@)]]
    /\ sess' = [s \in Ops |-> [sess[s] EXCEPT !.mem = "none", !.busy = None, !.due = FALSE,
                                 !.row = IF @ \in {"live", "closing"} THEN "lost" ELSE @]]
    /\ lease' = {} /\ leaked' = {} /\ unresolved' = {}
    /\ call' = [c \in Calls |-> [call[c] EXCEPT !.pc = IF @ \in {"idle", "done"} THEN @ ELSE "dead",
                                   !.sock = IF @ = "open" THEN "closed" ELSE @]]
    /\ UNCHANGED <<work, saved, faults>>

\* The owner edits or deletes a saved host a shell is open on.
HostChanges(h) ==
    /\ saved[h] = 0 /\ \E s \in Sessions : sess[s].mem = "live" /\ Host(Starter(s)) = h
    /\ \E v \in {1, 2} : saved' = [saved EXCEPT ![h] = v]
    /\ UNCHANGED <<work, call, op, sess, lease, leaked, unresolved, faults, restarts>>

\* Thirty days pass over a receipt that someone may still ask about.
GrowsOld(o) ==
    /\ op[o].receipt \in Verdicts /\ ~op[o].old
    /\ \A c \in Calls : Op(c) = o => call[c].pc \in {"idle", "done", "dead"}
    /\ \E c \in Calls : Op(c) = o /\ call[c].pc = "idle"
    /\ op' = [op EXCEPT ![o].old = TRUE]
    /\ UNCHANGED <<work, call, sess, lease, leaked, unresolved, saved, faults, restarts>>

Works(c) ==
    \/ ExecClaim(c) \/ StartClaim(c) \/ SftpClaim(c) \/ ReserveConnection(c)
    \/ OpenSocket(c) \/ Refused(c) \/ Dispatch(c) \/ Result(c)
    \/ ExecDeadline(c) \/ SftpDeadline(c) \/ ShellDeadline(c)
    \/ Persist(c) \/ Register(c) \/ Alarm(c)
    \/ InputBegin(c) \/ InputCheck(c) \/ InputWritten(c) \/ InputSettled(c)
    \/ StopBegin(c) \/ StopEnd(c)
    \/ OperationStatus(c) \/ SessionStatus(c)

Next ==
    \/ \E c \in Calls : Arrive(c) \/ Works(c)
    \/ \E s \in Sessions : FinishSession(s) \/ Disconnect(s) \/ DeadlinePasses(s) \/ SweepSession(s)
    \/ Restart
    \/ \E h \in Hosts : HostChanges(h)
    \/ \E o \in Ops : GrowsOld(o)

Spec == Init /\ [][Next]_vars

\* Handlers go on, timers and alarms fire, a peer answers or its connection breaks; nobody
\* has to call, to disconnect or to edit a host, and nothing has to fail.
Fairness ==
    /\ \A c \in Calls : WF_vars(Works(c))
    /\ \A s \in Ops : /\ WF_vars(s \in Sessions /\ FinishSession(s))
                      /\ WF_vars(s \in Sessions /\ DeadlinePasses(s))
                      /\ WF_vars(s \in Sessions /\ SweepSession(s))

FairSpec == Spec /\ Fairness

-----------------------------------------------------------------------------
(* Properties *)

AtMostOnce == {o \in Ops : \A c \in Calls : work[c].op = o => work[c].kind \in Effects \cup {"input", "status"}}

\* What a reply is about: a query asks about the call that claimed the operation.
About(c) == IF Kind(c) = "status" THEN Kind(op[Op(c)].by) ELSE Kind(c)

\* The status a reply carries on the wire.
WireStatus(reply) == IF reply \in CallErrors THEN "failed" ELSE reply

\* A client is told the truth.  A command, file change or input of which a call or a query says
\* "completed" was carried out by the host.  A "failed" that is the outcome of the operation
\* means that it was not carried out and never will be; a "failed" with one of CallErrors means
\* it of this call only: whoever is told so sent nothing itself, though an earlier call under
\* the same id may have.  A shell said to be gone has no connection any more.  All of it holds
\* whatever timed out, threw, restarted or was retried in between.
HonestReplies ==
    \A c \in Calls :
        LET status == WireStatus(call[c].told)
            ofOthers == call[c].told \in CallErrors /\ op[Op(c)].by # c
        IN
        /\ status \in {"completed", "failed"} /\ ~ofOthers /\ About(c) \in Effects \cup {"input"} =>
            /\ status = "completed" => op[Op(c)].effect = "applied"
            /\ status = "failed" => op[Op(c)].effect \in {"untouched", "refused"}
        /\ Kind(c) = "view" /\ call[c].told \in {"closing", "closed", "lost"} =>
            call[Starter(On(c))].sock # "open"

\* The sockets the object really holds never exceed the total and the per-host limits,
\* whichever mix of commands, file calls and shells opened them.
ConnectionsBounded ==
    LET open == {c \in Calls : call[c].sock = "open"} IN
    /\ Cardinality(open) <= TotalLimit
    /\ \A h \in Hosts : Cardinality({c \in open : Host(c) = h}) <= HostLimit

\* Once a stop is answered "completed", no byte is written to that shell any more, even by
\* an input that was queued before it.
StoppedIsQuiet ==
    [][\A c, d \in Calls :
        (/\ Kind(c) = "stop" /\ call[c].told = "completed"
         /\ Kind(d) = "input" /\ On(d) = On(c) /\ op[Op(d)].by = d)
            => op'[Op(d)].effect = op[Op(d)].effect]_vars

\* Commands, file changes and inputs implement OnceEffect: claimed before they are sent,
\* sent at most once over retries and restarts, settled once and truthfully.
Ledger(o) ==
    CASE op[o].receipt = "absent" -> (IF op[o].by = None THEN "new" ELSE "forgotten")
      [] op[o].receipt \in {"admitted", "running"} -> "claimed"
      [] op[o].receipt = "completed" -> "done"
      [] op[o].receipt = "failed" -> "none"
      [] OTHER -> "unknown"

Once == INSTANCE OnceEffect WITH
            Ops <- Ops, Revisable <- FALSE,
            ledger <- [o \in Ops |-> IF o \in AtMostOnce THEN Ledger(o) ELSE "new"],
            effect <- [o \in Ops |-> IF o \in AtMostOnce THEN op[o].effect ELSE "untouched"]

ImplementsOnceEffect == Once!Spec

\* Every lease comes back, the lease of a shell by its deadline at the latest, unless its
\* DELETE threw twice.
LeasesReturn == \A c \in Calls : (c \in lease) ~> (c \notin lease \/ c \in leaked)
===============================================================================
