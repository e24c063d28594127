-------------------------- MODULE SshOperationsProofs --------------------------
(***************************************************************************)
(* Proofs about SshOperations for every number of calls, operations and    *)
(* hosts, every workload, every pair of connection limits and every number *)
(* of storage faults and restarts.                                         *)
(***************************************************************************)
EXTENDS SshOperations, FiniteSetTheorems, TLAPS

Effectful == Effects \cup {"input"}      \* the kinds that act on a host at most once
Known == {"completed", "failed"}
Over == {"closing", "closed", "lost"}    \* what a view says of a shell without a connection
Working == {"connect", "busy", "close", "alarm", "check", "settle", "write", "stop"}
Resting == {"idle", "done", "dead"}

\* The shell of s exists, or did, and takes no more input.
Gone(s) == sess[s].row # "none" /\ sess[s].mem # "live"

\* A known verdict is true of what the remote side saw.
True(verdict, effect) ==
    /\ verdict = "completed" => effect = "applied"
    /\ verdict = "failed" => effect \in {"untouched", "refused"}

-----------------------------------------------------------------------------
(* The inductive invariant *)

\* The place of a call in its handler is one its kind has; a call that cleans up has a
\* verdict to store, and one that dispatched had a socket.
PlaceSound(c) ==
    /\ call[c].pc \in {"connect", "busy", "close", "alarm"} => Kind(c) \in Connecting
    /\ call[c].pc = "alarm" => Kind(c) = "start"
    /\ call[c].pc \in {"check", "settle", "write"} => Kind(c) = "input"
    /\ call[c].pc \in {"stop", "estop"} => Kind(c) = "stop"
    /\ call[c].pc \in {"close", "settle", "stop"} => call[c].fate # "none"
    /\ call[c].pc = "busy" => call[c].sock # "none"

\* A call works only under a receipt it inserted, which nobody settles in the meantime, and
\* sends nothing before its dispatch; the verdict it goes to store is true.
OwnerSound(c) ==
    /\ call[c].pc \in Working /\ Kind(c) # "read" => op[Op(c)].by = c
    /\ op[Op(c)].by = c => call[c].pc \notin {"idle", "sweep", "estop"}
    /\ call[c].pc \in Working /\ Kind(c) \in Effectful =>
        /\ op[Op(c)].receipt \in {"admitted", "running"}
        /\ call[c].pc \in {"connect", "check"} => op[Op(c)].effect = "untouched"
        /\ call[c].pc \in {"close", "settle"} => True(call[c].fate, op[Op(c)].effect)

\* A receipt belongs to the call that inserted it, holds a true verdict once that call is
\* over, and is pruned only when nobody works under it or is about to ask for it.
ReceiptSound(o) ==
    /\ op[o].by = None => op[o].receipt = "absent" /\ op[o].effect = "untouched" /\ ~op[o].old
    /\ op[o].by # None =>
        /\ Op(op[o].by) = o /\ Kind(op[o].by) \notin Queries \cup {"read"}
        /\ op[o].receipt = "absent" => op[o].old
        /\ Kind(op[o].by) \in Effectful /\ op[o].receipt \in Verdicts =>
             call[op[o].by].pc \in {"done", "dead"} /\ True(op[o].receipt, op[o].effect)
    /\ op[o].old =>
        /\ call[op[o].by].pc \in {"done", "dead"} /\ op[o].receipt \in Verdicts \cup {"absent"}
        /\ op[o].receipt # "unknown" =>
             \A c \in Calls : Op(c) = o /\ Kind(c) \notin Queries => call[c].pc \in Resting

\* What a client was told of an operation is about a claim that is over, and true.
ToldSound(c) ==
    call[c].told \in Known /\ Kind(c) # "read" =>
        /\ op[Op(c)].by # None
        /\ About(c) \in Effectful => /\ call[op[Op(c)].by].pc \in {"done", "dead"}
                                     /\ True(call[c].told, op[Op(c)].effect)

\* Whoever is told an error of its own call is done and sent nothing under its own claim.
DenialSound(c) ==
    call[c].told \in CallErrors /\ Kind(c) # "read" =>
        call[c].pc = "done" /\ (op[Op(c)].by = c => op[Op(c)].effect = "untouched")

\* A shell has a row as soon as it has a place in memory, its starter is past the dispatch,
\* and its socket is closed before anybody calls it closing.
ShellSound(s) ==
    /\ sess[s].row = "none" => sess[s].mem = "none"
    /\ sess[s].row # "none" =>
        /\ Starter(s) # None /\ Kind(Starter(s)) = "start"
        /\ call[Starter(s)].pc \in {"alarm", "close", "done", "dead"}
        /\ call[Starter(s)].sock # "none"
        /\ {sess[s].mem, sess[s].row} \cap Over # {} => call[Starter(s)].sock = "closed"

\* A view that says a shell is closing or gone was given after its socket closed.
ViewSound(c) ==
    Kind(c) = "view" /\ call[c].told \in Over =>
        Starter(On(c)) # None /\ call[Starter(On(c))].sock = "closed"

\* A stop that closed its shell, and one that was told so, finds it gone for good.
StopSound(c) ==
    Kind(c) = "stop" /\ (\/ call[c].pc = "stop" \/ call[c].told = "completed"
                         \/ op[Op(c)].by = c /\ op[Op(c)].receipt = "completed") => Gone(On(c))

\* Whoever may hold a socket holds a lease.
LeaseHeld(c) == call[c].sock = "open" \/ call[c].pc \in {"connect", "busy"} => c \in lease

\* Admission keeps the leases within both limits.
LeasesBounded ==
    /\ IsFiniteSet(lease) /\ Cardinality(lease) <= TotalLimit
    /\ \A h \in Hosts : Cardinality({c \in lease : Host(c) = h}) <= HostLimit

PlacesSound == \A c \in Calls : PlaceSound(c)
OwnersSound == \A c \in Calls : OwnerSound(c)
ReceiptsSound == \A o \in Ops : ReceiptSound(o)
RepliesSound == \A c \in Calls : ToldSound(c)
DenialsSound == \A c \in Calls : DenialSound(c)
ShellsSound == \A s \in Ops : ShellSound(s)
ViewsSound == \A c \in Calls : ViewSound(c)
StopsSound == \A c \in Calls : StopSound(c)
LeasesHeld == \A c \in Calls : LeaseHeld(c)

-----------------------------------------------------------------------------
(* Type correctness *)

\* What a workload asks for is well typed.
LEMMA WorkTypes ==
  ASSUME TypeOK, NEW c \in Calls
  PROVE  /\ Op(c) \in Ops /\ Kind(c) \in Kinds /\ Host(c) \in Hosts /\ On(c) \in Ops
         /\ call[c] \in Call /\ op[Op(c)] \in Operation /\ sess[On(c)] \in Shell
         /\ sess[Op(c)] \in Shell /\ None \notin Calls
<1>1. work \in [Calls -> [op: Ops, kind: Kinds, host: Hosts, on: Ops, arg: 0..1, valid: BOOLEAN]]
  BY WorkloadAssumption DEF TypeOK
<1>2. work[c] \in [op: Ops, kind: Kinds, host: Hosts, on: Ops, arg: 0..1, valid: BOOLEAN]
  BY <1>1
<1>3. Op(c) \in Ops /\ Kind(c) \in Kinds /\ Host(c) \in Hosts /\ On(c) \in Ops
  BY <1>2 DEF Op, Kind, Host, On
<1> QED BY <1>3, WorkloadAssumption DEF TypeOK

\* A receipt stays a row of the table when it is pruned or claimed.
LEMMA ReceiptTypes ==
  ASSUME TypeOK
  PROVE  /\ Pruned \in [Ops -> Operation]
         /\ \A c \in Calls, status \in Status : Admitted(c, status) \in [Ops -> Operation]
<1>1. ASSUME NEW o \in Ops PROVE Pruned[o] \in Operation
  BY DEF TypeOK, Pruned, Operation, Status
<1>2. Pruned \in [Ops -> Operation]
  BY <1>1 DEF Pruned
<1>3. ASSUME NEW c \in Calls, NEW status \in Status
      PROVE  [Pruned[Op(c)] EXCEPT !.receipt = status, !.by = c] \in Operation
  BY <1>2, WorkTypes DEF Operation
<1>4. ASSUME NEW c \in Calls, NEW status \in Status
      PROVE  Admitted(c, status) \in [Ops -> Operation]
  BY <1>2, <1>3, <1>4 DEF Admitted
<1> QED BY <1>2, <1>4

\* A shell stays well typed when it is settled, and the calls when its socket closes.
LEMMA ShellTypes ==
  ASSUME TypeOK, NEW s \in Ops
  PROVE  /\ \A status \in {"closed", "lost"} : Settling(s, status) \in Shell
         /\ \A c \in Calls, pc \in {"settle", "stop", "estop"}, fate \in Verdicts :
               ClosedBy(c, s, pc, fate) \in [Calls -> Call]
<1>1. sess[s] \in Shell
  BY DEF TypeOK
<1>2. \A status \in {"closed", "lost"} : Settling(s, status) \in Shell
  BY <1>1 DEF Settling, Shell
<1>3. ASSUME NEW c \in Calls, NEW pc \in {"settle", "stop", "estop"}, NEW fate \in Verdicts, NEW d \in Calls
      PROVE  ClosedBy(c, s, pc, fate)[d] \in Call
  <2>1. call[d] \in Call
    BY DEF TypeOK
  <2>2. [call[d] EXCEPT !.pc = pc, !.fate = fate] \in Call
    BY <2>1 DEF Call
  <2>3. \A k \in Call : [k EXCEPT !.sock = "closed"] \in Call
    BY DEF Call
  <2> QED BY <2>1, <2>2, <2>3 DEF ClosedBy
<1>4. ASSUME NEW c \in Calls, NEW pc \in {"settle", "stop", "estop"}, NEW fate \in Verdicts
      PROVE  ClosedBy(c, s, pc, fate) \in [Calls -> Call]
  BY <1>3, <1>4 DEF ClosedBy
<1> QED BY <1>2, <1>4

Told == Verdicts \cup CallErrors
           \cup {"none", "running", "live", "closing", "closed", "lost", "operation_not_found"}

\* A reply ends a call.
LEMMA AnswerTypes ==
  ASSUME TypeOK, NEW c \in Calls
  PROVE  \A reply \in Told : Answer(c, reply) => call' \in [Calls -> Call]
<1>1. \A reply \in Told : [call[c] EXCEPT !.pc = "done", !.told = reply] \in Call
  BY WorkTypes DEF Call, Told
<1> QED BY <1>1 DEF Answer, TypeOK

\* What is told of a receipt, an operation or a shell is one of the replies.
LEMMA ReplyTypes ==
  ASSUME TypeOK, NEW c \in Calls
  PROVE  /\ ~Claimable(c) => Replay(c) \in Told
         /\ op[Op(c)].receipt # "absent" => KnownStatus(Op(c)) \in Told
         /\ SessionView(On(c)) \in Told
<1>1. Pruned[Op(c)].receipt = op[Op(c)].receipt \/ Pruned[Op(c)].receipt = "absent"
  BY WorkTypes DEF Pruned, Operation
<1>2. ~Claimable(c) => op[Op(c)].receipt # "absent"
  BY WorkTypes DEF Claimable, Pruned, Operation
<1>3. op[Op(c)].receipt \in Status
  BY WorkTypes DEF Operation
<1>4. op[Op(c)].receipt # "absent" => Replay(c) \in Told
  BY <1>3 DEF Replay, Told, CallErrors, Status, Verdicts
<1>5. op[Op(c)].receipt # "absent" => KnownStatus(Op(c)) \in Told
  BY <1>3 DEF KnownStatus, Told, Status, Verdicts
<1>6. SessionView(On(c)) \in Told
  BY WorkTypes DEF SessionView, Shell, Told
<1> QED BY <1>2, <1>4, <1>5, <1>6

\* Throwing statements use up faults.
LEMMA SpendTypes ==
  ASSUME TypeOK, NEW n \in 0..5, Spend(n)
  PROVE  faults' \in 0..StorageFaults
BY LimitAssumption DEF TypeOK, Spend

\* Storing a verdict gives a receipt, whatever throws.
LEMMA StoredTypes ==
  ASSUME TypeOK, NEW c \in Calls, NEW verdict \in Verdicts, NEW n \in 0..3
  PROVE  /\ Stored(Op(c), verdict, n).receipt \in Status
         /\ Stored(Op(c), verdict, n).unresolved \subseteq Ops
         /\ Uncertain(Op(c), n).receipt \in Status
         /\ Uncertain(Op(c), n).unresolved \subseteq Ops
         /\ ExecStored(Op(c), verdict, n).receipt \in Status
         /\ ExecStored(Op(c), verdict, n).unresolved \subseteq Ops
<1>1. Op(c) \in Ops /\ op[Op(c)].receipt \in Status /\ verdict \in Status /\ unresolved \subseteq Ops
  BY WorkTypes DEF Operation, Status, TypeOK
<1>2. \A m \in Nat : Uncertain(Op(c), m).receipt \in Status /\ Uncertain(Op(c), m).unresolved \subseteq Ops
  BY <1>1 DEF Uncertain, Status, Verdicts
<1>3. n # 0 => n - 1 \in Nat
  OBVIOUS
<1> QED BY <1>1, <1>2, <1>3 DEF Stored, ExecStored

\* One call, receipt or shell is rewritten.
LEMMA UpdateTypes ==
  ASSUME TypeOK, NEW c \in Calls
  PROVE  /\ \A k \in Call : [call EXCEPT ![c] = k] \in [Calls -> Call]
         /\ \A p \in Operation : [op EXCEPT ![Op(c)] = p] \in [Ops -> Operation]
         /\ \A s \in Ops, l \in Shell : [sess EXCEPT ![s] = l] \in [Ops -> Shell]
         /\ \A r \in Status : [op EXCEPT ![Op(c)].receipt = r] \in [Ops -> Operation]
<1>1. \A r \in Status : [op[Op(c)] EXCEPT !.receipt = r] \in Operation
  BY WorkTypes DEF Operation
<1> QED BY <1>1, WorkTypes DEF TypeOK

\* A first effect is applied or refused.
LEMMA SentTypes ==
  ASSUME TypeOK, NEW c \in Calls, op[Op(c)].effect = "untouched", Sent(Op(c))
  PROVE  /\ op' \in [Ops -> Operation]
         /\ \E e \in {"applied", "refused"} : op' = [op EXCEPT ![Op(c)] = [op[Op(c)] EXCEPT !.effect = e]]
<1>1. PICK e \in {"applied", "refused"} :
         op' = [op EXCEPT ![Op(c)].effect = IF @ = "untouched" THEN e ELSE "twice"]
  BY DEF Sent
<1>2. op' = [op EXCEPT ![Op(c)] = [op[Op(c)] EXCEPT !.effect = e]]
  BY <1>1, WorkTypes DEF TypeOK
<1>3. [op[Op(c)] EXCEPT !.effect = e] \in Operation
  BY WorkTypes DEF Operation
<1> QED BY <1>2, <1>3, UpdateTypes

\* Claims, connections and verdicts keep the types.
LEMMA ConnectionTypes ==
  ASSUME TypeOK, PlacesSound, OwnersSound, NEW c \in Calls,
         \/ Arrive(c) \/ ExecClaim(c) \/ StartClaim(c) \/ SftpClaim(c) \/ ReserveConnection(c)
         \/ OpenSocket(c) \/ Refused(c) \/ Dispatch(c) \/ Result(c)
         \/ ExecDeadline(c) \/ SftpDeadline(c) \/ ShellDeadline(c)
         \/ Persist(c) \/ Register(c) \/ Alarm(c)
  PROVE  TypeOK'
<1> USE WorkTypes
<1>s. \A n \in 0..5 : Spend(n) => faults' \in 0..StorageFaults
  BY SpendTypes
<1>a. \A reply \in Told : Answer(c, reply) => call' \in [Calls -> Call]
  BY AnswerTypes
<1>t. {"completed", "failed", "unknown"} \cup CallErrors \subseteq Told
  BY DEF Told, Verdicts
<1>u. /\ \A k \in Call : [call EXCEPT ![c] = k] \in [Calls -> Call]
      /\ \A r \in Status : [op EXCEPT ![Op(c)].receipt = r] \in [Ops -> Operation]
      /\ \A l \in Shell : [sess EXCEPT ![Op(c)] = l] \in [Ops -> Shell]
  BY UpdateTypes
<1>1. CASE Arrive(c)
  <2>1. call' \in [Calls -> Call]
    BY <1>1, <1>a, <1>t DEF Arrive, TypeOK, Call, CallErrors
  <2> QED BY <1>1, <2>1 DEF Arrive, TypeOK
<1>2. CASE Claim(c)
  <2>1. call' \in [Calls -> Call]
    BY <1>2, <1>a, <1>t, ReplyTypes DEF Claim, TypeOK, Call, CallErrors
  <2>2. op' \in [Ops -> Operation]
    BY <1>2, ReceiptTypes DEF Claim, TypeOK, Status
  <2>3. faults' \in 0..StorageFaults
    BY <1>2, <1>s DEF Claim, TypeOK
  <2>4. lease' \subseteq Calls /\ leaked' \subseteq Calls
    BY <1>2 DEF Claim, TypeOK
  <2> QED BY <1>2, <2>1, <2>2, <2>3, <2>4 DEF Claim, TypeOK
<1>3. CASE ReserveConnection(c)
  <2>1. call' \in [Calls -> Call]
    BY <1>3, <1>a, <1>t DEF ReserveConnection, TypeOK, Call, CallErrors
  <2>2. faults' \in 0..StorageFaults
    BY <1>3, <1>s DEF ReserveConnection, TypeOK
  <2>3. lease' \subseteq Calls
    BY <1>3 DEF ReserveConnection, TypeOK
  <2> QED BY <1>3, <2>1, <2>2, <2>3 DEF ReserveConnection, TypeOK
<1>4. CASE OpenSocket(c)
  <2>1. [call[c] EXCEPT !.sock = "open"] \in Call
    BY DEF Call
  <2>2. call' \in [Calls -> Call]
    BY <1>4, <2>1 DEF OpenSocket, TypeOK
  <2>3. saved[Host(c)] \in 0..2
    BY DEF TypeOK
  <2>4. [sess[Op(c)] EXCEPT !.gen = saved[Host(c)]] \in Shell
    BY <2>3 DEF Shell
  <2>5. sess' \in [Ops -> Shell]
    BY <1>4, <2>4 DEF OpenSocket, SecurityDigest, TypeOK
  <2> QED BY <1>4, <2>2, <2>5 DEF OpenSocket, TypeOK
<1>5. CASE Refused(c)
  <2>1. [call[c] EXCEPT !.pc = "close", !.fate = "failed"] \in Call
    BY DEF Call, Verdicts
  <2> QED BY <1>5, <2>1, <1>u DEF Refused, TypeOK
<1>6. CASE Dispatch(c)
  <2>1. [call[c] EXCEPT !.pc = "busy"] \in Call
    BY DEF Call
  <2>2. call' \in [Calls -> Call]
    BY <1>6, <2>1 DEF Dispatch, TypeOK
  <2>3. Kind(c) \in Effects => op[Op(c)].effect = "untouched"
    BY <1>6 DEF Dispatch, OwnersSound, OwnerSound, Working, Effectful
  <2>4. op' \in [Ops -> Operation]
    BY <1>6, <2>3, SentTypes DEF Dispatch, TypeOK
  <2> QED BY <1>6, <2>2, <2>4 DEF Dispatch, TypeOK
<1>7. CASE Result(c)
  <2>1. Results(c) \subseteq Verdicts
    BY DEF Results, ReadResults, ExecResults, SftpResults, Verdicts
  <2>2. \A v \in Results(c) : [call[c] EXCEPT !.pc = "close", !.fate = v] \in Call
    BY <2>1 DEF Call
  <2> QED BY <1>7, <2>2, <1>u DEF Result, TypeOK
<1>8. CASE Deadline(c)
  <2>1. [call[c] EXCEPT !.pc = "close", !.fate = TimedOut(c),
                        !.sock = IF call[c].sock = "open" THEN "closed" ELSE call[c].sock] \in Call
    BY DEF Call, TimedOut, Verdicts
  <2> QED BY <1>8, <2>1, <1>u DEF Deadline, TypeOK
<1>9. CASE Persist(c)
  <2>1. PICK n \in 0..3, throws \in BOOLEAN :
          /\ Spend(n + (IF throws THEN 2 ELSE 0))
          /\ call' = [call EXCEPT ![c] = [@ EXCEPT !.pc = "done", !.sock = "closed",
                                  !.told = IF n = 0 THEN call[c].fate ELSE "unknown"]]
          /\ LET fate == call[c].fate
                 s == CASE Kind(c) = "exec" -> ExecStored(Op(c), fate, n)
                        [] Kind(c) = "start" /\ fate = "unknown" -> Uncertain(Op(c), n)
                        [] OTHER -> Stored(Op(c), fate, n)
             IN  IF Kind(c) = "read" THEN UNCHANGED <<op, unresolved>>
                 ELSE /\ op' = [op EXCEPT ![Op(c)].receipt = s.receipt]
                      /\ unresolved' = s.unresolved
          /\ Release(c, throws)
    BY <1>9 DEF Persist
  <2>2. call[c].fate \in Verdicts
    BY <1>9 DEF Persist, PlacesSound, PlaceSound, Call
  <2>3. [call[c] EXCEPT !.pc = "done", !.sock = "closed",
                        !.told = IF n = 0 THEN call[c].fate ELSE "unknown"] \in Call
    BY <2>2 DEF Call, Verdicts
  <2>4. call' \in [Calls -> Call]
    BY <2>1, <2>3, <1>u
  <2>5. op' \in [Ops -> Operation] /\ unresolved' \subseteq Ops
    <3>1. CASE Kind(c) = "read"
      BY <2>1, <3>1 DEF TypeOK
    <3>2. CASE Kind(c) # "read"
      <4> DEFINE s == CASE Kind(c) = "exec" -> ExecStored(Op(c), call[c].fate, n)
                        [] Kind(c) = "start" /\ call[c].fate = "unknown" -> Uncertain(Op(c), n)
                        [] OTHER -> Stored(Op(c), call[c].fate, n)
      <4>1. s.receipt \in Status /\ s.unresolved \subseteq Ops
        BY <2>2, StoredTypes
      <4>2. op' = [op EXCEPT ![Op(c)].receipt = s.receipt] /\ unresolved' = s.unresolved
        BY <2>1, <3>2
      <4> QED BY <4>1, <4>2, <1>u
    <3> QED BY <3>1, <3>2
  <2>6. lease' \subseteq Calls /\ leaked' \subseteq Calls
    BY <2>1 DEF Release, TypeOK
  <2>7. faults' \in 0..StorageFaults
    <3>1. n + (IF throws THEN 2 ELSE 0) \in 0..5
      OBVIOUS
    <3> QED BY <2>1, <3>1, <1>s
  <2> QED BY <1>9, <2>4, <2>5, <2>6, <2>7 DEF Persist, TypeOK
<1>10. CASE Register(c)
  <2>1. [sess[Op(c)] EXCEPT !.mem = "live", !.row = "live"] \in Shell
    BY DEF Shell
  <2>2. /\ [call[c] EXCEPT !.pc = "alarm"] \in Call
        /\ [call[c] EXCEPT !.pc = "close", !.fate = "unknown", !.sock = "closed"] \in Call
    BY DEF Call, Verdicts
  <2>3. call' \in [Calls -> Call]
    BY <1>10, <2>2 DEF Register, TypeOK
  <2>4. op' \in [Ops -> Operation]
    BY <1>10, <1>u DEF Register, TypeOK, Status, Verdicts
  <2>5. sess' \in [Ops -> Shell]
    BY <1>10, <2>1, <1>u DEF Register, TypeOK
  <2>6. faults' \in 0..StorageFaults
    BY <1>10, <1>s DEF Register, TypeOK
  <2> QED BY <1>10, <2>3, <2>4, <2>5, <2>6 DEF Register, TypeOK
<1>11. CASE Alarm(c)
  <2>1. [call[c] EXCEPT !.pc = "close", !.fate = "failed", !.sock = "closed"] \in Call
    BY DEF Call, Verdicts
  <2>2. call' \in [Calls -> Call]
    BY <1>11, <2>1, <1>u, <1>a, <1>t DEF Alarm
  <2>3. faults' \in 0..StorageFaults
    BY <1>11, <1>s DEF Alarm, TypeOK
  <2> QED BY <1>11, <2>2, <2>3 DEF Alarm, TypeOK
<1> QED BY <1>1, <1>2, <1>3, <1>4, <1>5, <1>6, <1>7, <1>8, <1>9, <1>10, <1>11
        DEF ExecClaim, StartClaim, SftpClaim, ExecDeadline, SftpDeadline, ShellDeadline

\* Leaving the queue of a shell keeps the types.
LEMMA LeaveTypes ==
  ASSUME TypeOK, NEW c \in Calls, NEW s \in Ops, NEW n \in 0..3, NEW stored, NEW told \in Told,
         NEW after \in Shell, Leave(c, s, n, stored, told, after),
         stored.receipt \in Status, stored.unresolved \subseteq Ops
  PROVE  /\ op' \in [Ops -> Operation] /\ unresolved' \subseteq Ops /\ call' \in [Calls -> Call]
         /\ sess' \in [Ops -> Shell] /\ faults' \in 0..StorageFaults
<1>1. [call[c] EXCEPT !.pc = "done", !.told = IF n = 0 THEN told ELSE "unknown"] \in Call
  BY WorkTypes DEF Call, Told, Verdicts
<1>2. [after EXCEPT !.busy = None] \in Shell
  BY DEF Shell
<1>3. op' \in [Ops -> Operation] /\ unresolved' \subseteq Ops
  BY UpdateTypes DEF Leave
<1>4. call' \in [Calls -> Call] /\ sess' \in [Ops -> Shell]
  BY <1>1, <1>2, UpdateTypes DEF Leave
<1> QED BY <1>3, <1>4, SpendTypes DEF Leave

\* Inputs and stops keep the types.
LEMMA QueueTypes ==
  ASSUME TypeOK, PlacesSound, OwnersSound, NEW c \in Calls,
         \/ InputBegin(c) \/ InputCheck(c) \/ InputWritten(c) \/ InputSettled(c)
         \/ StopBegin(c) \/ StopEnd(c)
  PROVE  TypeOK'
<1> USE WorkTypes
<1>s. \A n \in 0..5 : Spend(n) => faults' \in 0..StorageFaults
  BY SpendTypes
<1>a. \A reply \in Told : Answer(c, reply) => call' \in [Calls -> Call]
  BY AnswerTypes
<1>t. {"completed", "failed", "unknown"} \cup CallErrors \subseteq Told
  BY DEF Told, Verdicts
<1>u. /\ \A k \in Call : [call EXCEPT ![c] = k] \in [Calls -> Call]
      /\ \A s \in Ops, l \in Shell : [sess EXCEPT ![s] = l] \in [Ops -> Shell]
  BY UpdateTypes
<1>b. \A l \in Shell : [l EXCEPT !.busy = None] \in Shell /\ [l EXCEPT !.busy = c] \in Shell
  BY DEF Shell
<1>v. \A v \in Verdicts, n \in 0..3 :
         /\ Stored(Op(c), v, n).receipt \in Status /\ Stored(Op(c), v, n).unresolved \subseteq Ops
         /\ Uncertain(Op(c), n).receipt \in Status /\ Uncertain(Op(c), n).unresolved \subseteq Ops
  BY StoredTypes
<1>l. \A status \in {"closed", "lost"} : Settling(On(c), status) \in Shell
  BY ShellTypes
<1>k. \A pc \in {"settle", "stop", "estop"}, fate \in Verdicts :
         ClosedBy(c, On(c), pc, fate) \in [Calls -> Call]
  BY ShellTypes
<1>w. \A v \in Verdicts : v \in Told /\ v \in Status
  BY DEF Told, Status
<1>x. {"completed", "failed", "unknown"} = Verdicts
  BY DEF Verdicts
<1>y. \A status \in Status : Admitted(c, status) \in [Ops -> Operation]
  BY ReceiptTypes
<1>p. Pruned \in [Ops -> Operation]
  BY ReceiptTypes
<1>1. CASE InputBegin(c)
  <2>1. call' \in [Calls -> Call]
    <3>1. [call[c] EXCEPT !.pc = "check"] \in Call
      BY DEF Call
    <3> QED BY <1>1, <3>1, <1>a, <1>t, ReplyTypes DEF InputBegin, TypeOK, CallErrors
  <2>2. op' \in [Ops -> Operation]
    BY <1>1, <1>y, <1>p DEF InputBegin, TypeOK, Status, Verdicts
  <2>3. sess' \in [Ops -> Shell]
    <3>1. [sess[On(c)] EXCEPT !.busy = c] \in Shell
      BY <1>b
    <3> QED BY <1>1, <3>1 DEF InputBegin, TypeOK
  <2>4. unresolved' \subseteq Ops
    BY <1>1 DEF InputBegin, TypeOK
  <2>5. faults' \in 0..StorageFaults
    BY <1>1, <1>s DEF InputBegin, TypeOK
  <2> QED BY <1>1, <2>1, <2>2, <2>3, <2>4, <2>5 DEF InputBegin, TypeOK
<1>2. CASE InputCheck(c)
  <2>1. CASE /\ sess' = [sess EXCEPT ![On(c)] = Settling(On(c), "closed")]
             /\ call' = ClosedBy(c, On(c), "settle", "failed")
             /\ UNCHANGED <<op, unresolved, faults>>
    BY <1>2, <2>1, <1>l, <1>k, <1>x, <1>u DEF InputCheck, TypeOK
  <2>2. ASSUME NEW n \in 0..3, Leave(c, On(c), n, Stored(Op(c), "failed", n), "failed", sess[On(c)])
        PROVE  TypeOK'
    <3>1. "failed" \in Verdicts
      BY <1>x
    <3> QED BY <1>2, <2>2, <3>1, <1>v, <1>w, LeaveTypes DEF InputCheck, TypeOK
  <2>3. CASE /\ Sent(Op(c))
             /\ call' = [call EXCEPT ![c].pc = "write"]
             /\ UNCHANGED <<sess, unresolved, faults>>
    <3>1. op[Op(c)].effect = "untouched"
      BY <1>2 DEF InputCheck, OwnersSound, OwnerSound, PlacesSound, PlaceSound, Working, Effectful
    <3>2. op' \in [Ops -> Operation]
      BY <2>3, <3>1, SentTypes
    <3>3. [call[c] EXCEPT !.pc = "write"] \in Call
      BY DEF Call
    <3>4. call' \in [Calls -> Call]
      BY <2>3, <3>3 DEF TypeOK
    <3> QED BY <1>2, <2>3, <3>2, <3>4 DEF InputCheck, TypeOK
  <2> QED BY <1>2, <2>1, <2>2, <2>3 DEF InputCheck
<1>3. CASE InputWritten(c)
  <2>1. CASE /\ sess' = [sess EXCEPT ![On(c)] = Settling(On(c), "lost")]
             /\ call' = ClosedBy(c, On(c), "settle", "unknown")
             /\ UNCHANGED <<op, unresolved, faults>>
    BY <1>3, <2>1, <1>l, <1>k, <1>x, <1>u DEF InputWritten, TypeOK
  <2>2. ASSUME NEW n \in 0..3, NEW due \in {sess[On(c)].due, FALSE},
               Leave(c, On(c), n, Stored(Op(c), "completed", n), "completed",
                     [sess[On(c)] EXCEPT !.due = due])
        PROVE  TypeOK'
    <3>1. "completed" \in Verdicts
      BY <1>x
    <3>2. [sess[On(c)] EXCEPT !.due = due] \in Shell
      BY DEF Shell
    <3> QED BY <1>3, <2>2, <3>1, <3>2, <1>v, <1>w, LeaveTypes DEF InputWritten, TypeOK
  <2> QED BY <1>3, <2>1, <2>2 DEF InputWritten
<1>4. CASE InputSettled(c)
  <2>1. PICK n \in 0..3 :
          Leave(c, On(c), n, IF call[c].fate = "failed" THEN Stored(Op(c), "failed", n)
                             ELSE Uncertain(Op(c), n), call[c].fate, sess[On(c)])
    BY <1>4 DEF InputSettled
  <2>2. call[c].fate \in Verdicts
    BY <1>4 DEF InputSettled, PlacesSound, PlaceSound, Call
  <2> DEFINE s == IF call[c].fate = "failed" THEN Stored(Op(c), "failed", n) ELSE Uncertain(Op(c), n)
  <2>3. s.receipt \in Status /\ s.unresolved \subseteq Ops
    BY <1>v, <1>x
  <2> HIDE DEF s
  <2> QED BY <1>4, <2>1, <2>2, <2>3, <1>w, LeaveTypes DEF InputSettled, TypeOK, s
<1>5. CASE StopBegin(c)
  <2>1. call' \in [Calls -> Call]
    BY <1>5, <1>a, <1>t, <1>k, <1>x, ReplyTypes DEF StopBegin, TypeOK, CallErrors
  <2>2. op' \in [Ops -> Operation]
    BY <1>5, <1>y, <1>p DEF StopBegin, TypeOK, Status, Verdicts
  <2>3. sess' \in [Ops -> Shell]
    <3>1. [Settling(On(c), "closed") EXCEPT !.busy = c] \in Shell
      BY <1>l, <1>b
    <3> QED BY <1>5, <3>1, <1>u DEF StopBegin, TypeOK
  <2>4. unresolved' \subseteq Ops
    BY <1>5 DEF StopBegin, TypeOK
  <2>5. faults' \in 0..StorageFaults
    BY <1>5, <1>s DEF StopBegin, TypeOK
  <2> QED BY <1>5, <2>1, <2>2, <2>3, <2>4, <2>5 DEF StopBegin, TypeOK
<1>6. CASE StopEnd(c)
  <2>1. ASSUME call[c].pc = "stop", NEW n \in 0..3,
               Leave(c, On(c), n, Stored(Op(c), call[c].fate, n), call[c].fate, sess[On(c)])
        PROVE  TypeOK'
    <3>1. call[c].fate \in Verdicts
      BY <2>1 DEF PlacesSound, PlaceSound, Call
    <3> QED BY <1>6, <2>1, <3>1, <1>v, <1>w, LeaveTypes DEF StopEnd, TypeOK
  <2>2. CASE /\ Spend(1) /\ call' = [call EXCEPT ![c].fate = "unknown"]
             /\ UNCHANGED <<op, sess, unresolved>>
    <3>1. [call[c] EXCEPT !.fate = "unknown"] \in Call
      BY DEF Call, Verdicts
    <3>2. call' = [call EXCEPT ![c] = [call[c] EXCEPT !.fate = "unknown"]]
      BY <2>2 DEF TypeOK
    <3> QED BY <1>6, <2>2, <3>1, <3>2, <1>u, <1>s DEF StopEnd, TypeOK
  <2>3. ASSUME sess' = [sess EXCEPT ![On(c)].busy = None], Answer(c, "unknown"),
               op' \in [Ops -> Operation], unresolved' \subseteq Ops, faults' \in 0..StorageFaults
        PROVE  TypeOK'
    <3>1. sess' = [sess EXCEPT ![On(c)] = [sess[On(c)] EXCEPT !.busy = None]]
      BY <2>3 DEF TypeOK
    <3>2. [sess[On(c)] EXCEPT !.busy = None] \in Shell
      BY <1>b
    <3>3. sess' \in [Ops -> Shell] /\ call' \in [Calls -> Call]
      BY <2>3, <3>1, <3>2, <1>u, <1>a, <1>t
    <3> QED BY <1>6, <2>3, <3>3 DEF StopEnd, TypeOK
  <2>4. ASSUME sess' = [sess EXCEPT ![On(c)].busy = None], Answer(c, "unknown"),
               NEW n \in 0..3, Spend(n),
               op' = Admitted(c, IF n < 3 THEN "unknown" ELSE "admitted"),
               unresolved' = IF n < 3 THEN unresolved \ {Op(c)} ELSE unresolved \cup {Op(c)}
        PROVE  TypeOK'
    <3>1. op' \in [Ops -> Operation]
      BY <2>4, <1>y DEF Status, Verdicts
    <3>2. unresolved' \subseteq Ops
      BY <2>4 DEF TypeOK
    <3> QED BY <2>3, <2>4, <3>1, <3>2, <1>s
  <2>5. CASE /\ sess' = [sess EXCEPT ![On(c)].busy = None] /\ Answer(c, "unknown")
             /\ op' \in {op, Pruned} /\ unresolved' = unresolved /\ (faults' = faults \/ Spend(1))
    <3>1. op' \in [Ops -> Operation] /\ unresolved' \subseteq Ops /\ faults' \in 0..StorageFaults
      BY <2>5, <1>p, <1>s DEF TypeOK
    <3> QED BY <2>3, <2>5, <3>1
  <2> QED BY <1>6, <2>1, <2>2, <2>4, <2>5 DEF StopEnd
<1> QED BY <1>1, <1>2, <1>3, <1>4, <1>5, <1>6

\* What shells, the object, hosts and time do on their own keeps the types.
LEMMA EnvironmentTypes ==
  ASSUME TypeOK, ShellsSound,
         \/ \E c \in Calls : OperationStatus(c) \/ SessionStatus(c)
         \/ \E s \in Sessions : FinishSession(s) \/ Disconnect(s) \/ DeadlinePasses(s) \/ SweepSession(s)
         \/ Restart
         \/ \E h \in Hosts : HostChanges(h)
         \/ \E o \in Ops : GrowsOld(o)
  PROVE  TypeOK'
<1>s. \A n \in 0..5 : Spend(n) => faults' \in 0..StorageFaults
  BY SpendTypes
<1>1. CASE \E c \in Calls : OperationStatus(c) \/ SessionStatus(c)
  <2>1. PICK c \in Calls : OperationStatus(c) \/ SessionStatus(c)
    BY <1>1
  <2>2. call' \in [Calls -> Call]
    <3>1. CallErrors \cup {"operation_not_found"} \subseteq Told
      BY DEF Told
    <3> QED BY <2>1, <3>1, AnswerTypes, ReplyTypes DEF OperationStatus, SessionStatus, CallErrors
  <2> QED BY <2>1, <2>2, <1>s DEF OperationStatus, SessionStatus, TypeOK
<1>2. CASE \E s \in Sessions : FinishSession(s) \/ Disconnect(s) \/ DeadlinePasses(s) \/ SweepSession(s)
  <2>1. PICK s \in Sessions : FinishSession(s) \/ Disconnect(s) \/ DeadlinePasses(s) \/ SweepSession(s)
    BY <1>2
  <2>2. s \in Ops /\ sess[s] \in Shell
    BY WorkTypes DEF Sessions, TypeOK, Op
  <2>3. \A l \in Shell : [sess EXCEPT ![s] = l] \in [Ops -> Shell]
    BY <2>2 DEF TypeOK
  <2>4. [call EXCEPT ![Starter(s)].sock = "closed"] \in [Calls -> Call]
    <3>1. \A k \in Call : [k EXCEPT !.sock = "closed"] \in Call
      BY DEF Call
    <3> QED BY <3>1 DEF TypeOK
  <2>5. CASE FinishSession(s)
    <3>1. PICK throws \in BOOLEAN :
            /\ Spend(IF throws THEN 2 ELSE 0) /\ Release(Starter(s), throws)
            /\ sess' = [sess EXCEPT ![s] = [@ EXCEPT !.mem = sess[s].goal,
                                  !.row = IF throws THEN sess[s].row ELSE sess[s].goal]]
      BY <2>5 DEF FinishSession
    <3>2. [sess[s] EXCEPT !.mem = sess[s].goal,
                          !.row = IF throws THEN sess[s].row ELSE sess[s].goal] \in Shell
      BY <2>2 DEF Shell
    <3>3. (IF throws THEN 2 ELSE 0) \in 0..5
      OBVIOUS
    <3>4. lease' \subseteq Calls /\ leaked' \subseteq Calls
      <4>1. Starter(s) \in Calls
        BY <2>2, <2>5 DEF FinishSession, ShellsSound, ShellSound, Starter, TypeOK, Operation
      <4> QED BY <3>1, <4>1, <2>5 DEF Release, TypeOK
    <3> QED BY <2>5, <3>1, <3>2, <3>3, <3>4, <2>3, <1>s DEF FinishSession, TypeOK
  <2>6. CASE DeadlinePasses(s)
    <3>1. [sess[s] EXCEPT !.due = TRUE] \in Shell
      BY <2>2 DEF Shell
    <3> QED BY <2>6, <3>1, <2>2 DEF DeadlinePasses, TypeOK
  <2>7. CASE Disconnect(s) \/ SweepSession(s)
    <3>1. Settling(s, "lost") \in Shell /\ Settling(s, "closed") \in Shell
      BY <2>2, ShellTypes
    <3> QED BY <2>7, <3>1, <2>3, <2>4 DEF Disconnect, SweepSession, TypeOK
  <2> QED BY <2>1, <2>5, <2>6, <2>7
<1>3. CASE Restart
  <2>1. \A p \in Operation : [p EXCEPT !.receipt = Recovered(p.receipt)] \in Operation
    BY DEF Operation, Recovered, Status, Verdicts
  <2>2. op' \in [Ops -> Operation]
    BY <1>3, <2>1 DEF Restart, TypeOK
  <2>3. \A l \in Shell : [l EXCEPT !.mem = "none", !.busy = None, !.due = FALSE,
                             !.row = IF @ \in {"live", "closing"} THEN "lost" ELSE @] \in Shell
    BY DEF Shell
  <2>4. sess' \in [Ops -> Shell]
    BY <1>3, <2>3 DEF Restart, TypeOK
  <2>5. \A k \in Call : [k EXCEPT !.pc = IF k.pc \in {"idle", "done"} THEN k.pc ELSE "dead",
                             !.sock = IF k.sock = "open" THEN "closed" ELSE k.sock] \in Call
    <3>1. \A k \in Call, p \in {"idle", "done", "dead"}, x \in {"none", "closed"} :
             [k EXCEPT !.pc = p, !.sock = x] \in Call
      BY DEF Call
    <3>2. \A k \in Call : /\ (IF k.pc \in {"idle", "done"} THEN k.pc ELSE "dead") \in {"idle", "done", "dead"}
                          /\ (IF k.sock = "open" THEN "closed" ELSE k.sock) \in {"none", "closed"}
      BY DEF Call
    <3> QED BY <3>1, <3>2
  <2>6. call' \in [Calls -> Call]
    BY <1>3, <2>5 DEF Restart, TypeOK
  <2>7. restarts' \in 0..Restarts
    <3>1. restarts > 0 /\ restarts' = restarts - 1 /\ restarts \in 0..Restarts
      BY <1>3 DEF Restart, TypeOK
    <3>2. Restarts \in Nat
      BY LimitAssumption
    <3> QED BY <3>1, <3>2
  <2> QED BY <1>3, <2>2, <2>4, <2>6, <2>7 DEF Restart, TypeOK
<1>4. CASE \E h \in Hosts : HostChanges(h)
  BY <1>4 DEF HostChanges, TypeOK
<1>5. CASE \E o \in Ops : GrowsOld(o)
  <2>1. \A p \in Operation : [p EXCEPT !.old = TRUE] \in Operation
    BY DEF Operation
  <2> QED BY <1>5, <2>1 DEF GrowsOld, TypeOK
<1> QED BY <1>1, <1>2, <1>3, <1>4, <1>5

\* Every step keeps the types.
LEMMA StepTypes == TypeOK /\ PlacesSound /\ OwnersSound /\ ShellsSound /\ [Next]_vars => TypeOK'
<1>1. CASE UNCHANGED vars
  BY <1>1 DEF vars, TypeOK
<1>2. ASSUME TypeOK, PlacesSound, OwnersSound, ShellsSound, NEW c \in Calls, Arrive(c) \/ Works(c)
      PROVE  TypeOK'
  BY <1>2, ConnectionTypes, QueueTypes, EnvironmentTypes DEF Works
<1>3. ASSUME TypeOK, PlacesSound, OwnersSound, ShellsSound, Next PROVE TypeOK'
  <2>1. CASE \E c \in Calls : Arrive(c) \/ Works(c)
    BY <1>2, <1>3, <2>1
  <2>2. CASE \/ \E s \in Sessions : FinishSession(s) \/ Disconnect(s) \/ DeadlinePasses(s) \/ SweepSession(s)
             \/ Restart
             \/ \E h \in Hosts : HostChanges(h)
             \/ \E o \in Ops : GrowsOld(o)
    BY <1>3, <2>2, EnvironmentTypes
  <2> QED BY <1>3, <2>1, <2>2 DEF Next
<1> QED BY <1>1, <1>3

-----------------------------------------------------------------------------
(* What a step does to the call that makes it and to its receipt *)

\* Everything of a receipt but its status.
SameClaim(o) ==
    op'[o].by = op[o].by /\ op'[o].old = op[o].old /\ op'[o].effect = op[o].effect

\* The receipt stays, unless the next claim prunes it.
Kept(o) == /\ SameClaim(o)
           /\ \/ op'[o].receipt = op[o].receipt
              \/ op[o].old /\ op[o].receipt \in Known /\ op'[o].receipt = "absent"

\* A step may close the socket of another call, never move it.
Waits(d) == /\ call'[d].pc = call[d].pc /\ call'[d].told = call[d].told
            /\ call'[d].fate = call[d].fate /\ call'[d].sock \in {call[d].sock, "closed"}

OthersWait(c) == /\ work' = work
                 /\ \A d \in Calls \ {c} : Waits(d)
                 /\ \A o \in Ops \ {Op(c)} : Kept(o)

Arrives(c) == /\ call[c].pc = "idle" /\ call'[c].pc = "sweep" /\ call'[c].told = call[c].told
              /\ Kept(Op(c)) /\ MayAsk(c)

Answers(c) ==
    /\ call[c].pc \in {"idle", "sweep"} /\ call'[c].pc = "done" /\ Kept(Op(c))
    /\ call'[c].told \in Known =>
         /\ op[Op(c)].receipt = call'[c].told
         /\ Kind(c) = "status" \/ SameIntent(op[Op(c)].by, c)
    /\ Kind(c) = "view" /\ call'[c].told \in Over => call'[c].told = SessionView(On(c))

Claims(c) ==
    /\ call[c].pc \in {"sweep", "estop"} /\ Kind(c) \notin Queries \cup {"read"} /\ Claimable(c)
    /\ op'[Op(c)].by = c /\ op'[Op(c)].effect = op[Op(c)].effect /\ op'[Op(c)].old = op[Op(c)].old
    /\ op'[Op(c)].receipt \notin {"absent", "completed"}
    /\ \/ /\ call'[c].pc \in {"connect", "check", "stop"} /\ call'[c].told = call[c].told
          /\ op'[Op(c)].receipt \in {"admitted", "running"}
          /\ call'[c].pc = "stop" => Gone(On(c))'
       \/ /\ call'[c].pc = "done" /\ call'[c].told \in {"failed", "unknown", "receipt_store_unavailable"}

Proceeds(c) ==
    /\ {call[c].pc, call'[c].pc} \subseteq Working /\ call'[c].told = call[c].told
    /\ SameClaim(Op(c)) /\ op'[Op(c)].receipt = op[Op(c)].receipt
    /\ call'[c].pc \in {"connect", "check"} => call'[c].pc = call[c].pc
    /\ call[c].pc \in {"alarm", "close"} => call'[c].pc = "close"
    /\ Kind(c) \in Effectful /\ call'[c].pc \in {"close", "settle"} =>
         True(call'[c].fate, op[Op(c)].effect)

Sends(c) ==
    /\ call[c].pc \in {"connect", "check"} /\ call'[c].pc \in {"busy", "write"}
    /\ Kind(c) \in Effectful /\ call'[c].told = call[c].told
    /\ op'[Op(c)].by = op[Op(c)].by /\ op'[Op(c)].old = op[Op(c)].old
    /\ op'[Op(c)].receipt = op[Op(c)].receipt
    /\ op'[Op(c)].effect \in {"applied", "refused"}

Settles(c) ==
    /\ call[c].pc \in Working /\ Kind(c) # "read" /\ call'[c].pc = "done"
    /\ call'[c].told \in Verdicts /\ SameClaim(Op(c))
    /\ op'[Op(c)].receipt \in {op[Op(c)].receipt} \cup Verdicts
    /\ Kind(c) \in Effectful =>
         /\ op'[Op(c)].receipt \in Known => True(op'[Op(c)].receipt, op[Op(c)].effect)
         /\ call'[c].told \in Known => True(call'[c].told, op[Op(c)].effect)

Registers(c) ==
    /\ call[c].pc = "busy" /\ call'[c].pc = "alarm" /\ Kind(c) = "start"
    /\ call'[c].told = call[c].told
    /\ SameClaim(Op(c)) /\ op'[Op(c)].receipt = "completed"

Reads(c) == Kind(c) = "read" /\ call[c].pc \notin Resting /\ Kept(Op(c))

Emergency(c) ==
    /\ Kind(c) = "stop" /\ Kept(Op(c))
    /\ \/ call[c].pc = "sweep" /\ call'[c].pc = "estop" /\ call'[c].told = call[c].told
       \/ call[c].pc = "estop" /\ call'[c].pc = "done" /\ call'[c].told = "unknown"

Moves(c) ==
    /\ OthersWait(c) /\ PlaceSound(c)'
    /\ \/ Arrives(c) \/ Answers(c) \/ Claims(c) \/ Proceeds(c) \/ Sends(c) \/ Settles(c)
       \/ Registers(c) \/ Reads(c) \/ Emergency(c)

\* Pruning and claiming leave the other receipts alone.
LEMMA PrunedKept ==
  ASSUME TypeOK, NEW c \in Calls
  PROVE  /\ op' = op => \A o \in Ops : Kept(o) /\ op'[o].receipt = op[o].receipt
         /\ op' = Pruned => \A o \in Ops : Kept(o)
         /\ \A status \in Status : op' = Admitted(c, status) =>
              /\ \A o \in Ops \ {Op(c)} : Kept(o)
              /\ op'[Op(c)].receipt = status /\ op'[Op(c)].by = c
              /\ op'[Op(c)].effect = op[Op(c)].effect /\ op'[Op(c)].old = op[Op(c)].old
<1>1. \A o \in Ops : op[o] \in Operation
  BY DEF TypeOK
<1>2. \A o \in Ops : /\ Pruned[o] \in Operation
                     /\ Pruned[o].by = op[o].by /\ Pruned[o].old = op[o].old
                     /\ Pruned[o].effect = op[o].effect
                     /\ \/ Pruned[o].receipt = op[o].receipt
                        \/ op[o].old /\ op[o].receipt \in Known /\ Pruned[o].receipt = "absent"
  BY <1>1 DEF Pruned, Prunable, Operation, Known, Status
<1>3. op' = op => \A o \in Ops : Kept(o) /\ op'[o].receipt = op[o].receipt
  BY DEF Kept, SameClaim
<1>4. op' = Pruned => \A o \in Ops : Kept(o)
  BY <1>2 DEF Kept, SameClaim
<1>5. ASSUME NEW status \in Status, op' = Admitted(c, status)
      PROVE  /\ \A o \in Ops \ {Op(c)} : Kept(o)
             /\ op'[Op(c)].receipt = status /\ op'[Op(c)].by = c
             /\ op'[Op(c)].effect = op[Op(c)].effect /\ op'[Op(c)].old = op[Op(c)].old
  <2>1. Op(c) \in Ops
    BY WorkTypes
  <2>2. op'[Op(c)] = [Pruned[Op(c)] EXCEPT !.receipt = status, !.by = c]
    BY <1>5, <2>1 DEF Admitted, Pruned
  <2>3. \A o \in Ops \ {Op(c)} : op'[o] = Pruned[o]
    BY <1>5 DEF Admitted, Pruned
  <2>4. \A p \in Operation : LET q == [p EXCEPT !.receipt = status, !.by = c] IN
           q.receipt = status /\ q.by = c /\ q.effect = p.effect /\ q.old = p.old
    BY DEF Operation
  <2>5. /\ op'[Op(c)].receipt = status /\ op'[Op(c)].by = c
        /\ op'[Op(c)].effect = op[Op(c)].effect /\ op'[Op(c)].old = op[Op(c)].old
    BY <1>2, <2>1, <2>2, <2>4
  <2>6. \A o \in Ops \ {Op(c)} : Kept(o)
    BY <1>2, <2>3 DEF Kept, SameClaim
  <2> QED BY <2>5, <2>6
<1> QED BY <1>3, <1>4, <1>5

\* One call moves, or one receipt changes status.
LEMMA OneMoves ==
  ASSUME TypeOK, NEW c \in Calls
  PROVE  /\ \A k \in Call : call' = [call EXCEPT ![c] = k] =>
              call'[c] = k /\ \A d \in Calls \ {c} : Waits(d)
         /\ \A reply \in Told : Answer(c, reply) =>
              /\ \A d \in Calls \ {c} : Waits(d)
              /\ call'[c].pc = "done" /\ call'[c].told = reply /\ call'[c].sock = call[c].sock
              /\ call'[c].fate = call[c].fate
         /\ \A r \in Status : op' = [op EXCEPT ![Op(c)].receipt = r] =>
              /\ SameClaim(Op(c)) /\ op'[Op(c)].receipt = r
              /\ \A o \in Ops \ {Op(c)} : Kept(o)
<1> USE WorkTypes
<1>1. \A k \in Call : call' = [call EXCEPT ![c] = k] =>
         call'[c] = k /\ \A d \in Calls \ {c} : Waits(d)
  BY DEF Waits, TypeOK
<1>2. \A reply \in Told : LET k == [call[c] EXCEPT !.pc = "done", !.told = reply] IN
         /\ k \in Call /\ k.pc = "done" /\ k.told = reply /\ k.sock = call[c].sock /\ k.fate = call[c].fate
  BY DEF Call, Told
<1>3. ASSUME NEW reply \in Told, Answer(c, reply)
      PROVE  /\ \A d \in Calls \ {c} : Waits(d)
             /\ call'[c].pc = "done" /\ call'[c].told = reply /\ call'[c].sock = call[c].sock
             /\ call'[c].fate = call[c].fate
  <2> DEFINE k == [call[c] EXCEPT !.pc = "done", !.told = reply]
  <2>1. call' = [call EXCEPT ![c] = k]
    BY <1>3 DEF Answer
  <2>2. /\ k \in Call /\ k.pc = "done" /\ k.told = reply /\ k.sock = call[c].sock
        /\ k.fate = call[c].fate
    BY <1>2
  <2> HIDE DEF k
  <2> QED BY <2>1, <2>2, <1>1
<1>4. ASSUME NEW r \in Status, op' = [op EXCEPT ![Op(c)].receipt = r]
      PROVE  /\ SameClaim(Op(c)) /\ op'[Op(c)].receipt = r
             /\ \A o \in Ops \ {Op(c)} : Kept(o)
  <2>1. op'[Op(c)] = [op[Op(c)] EXCEPT !.receipt = r] /\ \A o \in Ops \ {Op(c)} : op'[o] = op[o]
    BY <1>4 DEF TypeOK
  <2> QED BY <2>1 DEF SameClaim, Kept, Operation
<1> QED BY <1>1, <1>3, <1>4

\* The replies to a retry and to a query repeat the receipt.
LEMMA RepliesRepeat ==
  ASSUME TypeOK, NEW c \in Calls
  PROVE  /\ Replay(c) \in Known => Replay(c) = op[Op(c)].receipt /\ SameIntent(op[Op(c)].by, c)
         /\ KnownStatus(Op(c)) \in Known => KnownStatus(Op(c)) = op[Op(c)].receipt
<1>1. op[Op(c)].receipt \in Status
  BY WorkTypes DEF Operation
<1>2. Replay(c) \in Known => Replay(c) = op[Op(c)].receipt /\ SameIntent(op[Op(c)].by, c)
  <2>1. CASE ~SameIntent(op[Op(c)].by, c)
    BY <2>1 DEF Replay, Known
  <2>2. CASE SameIntent(op[Op(c)].by, c)
    BY <1>1, <2>2 DEF Replay, Known, Status, Verdicts
  <2> QED BY <2>1, <2>2
<1> QED BY <1>1, <1>2 DEF KnownStatus, Known

\* Arrivals, claims and reads.
LEMMA ClaimMoves ==
  ASSUME TypeOK, TypeOK', PlacesSound, NEW c \in Calls,
         Arrive(c) \/ ExecClaim(c) \/ StartClaim(c) \/ SftpClaim(c) \/ ReserveConnection(c)
  PROVE  Moves(c)
<1> USE WorkTypes
<1>t. {"completed", "failed", "unknown"} \cup CallErrors \subseteq Told
  BY DEF Told, Verdicts
<1>k. [call[c] EXCEPT !.pc = "sweep"] \in Call /\ [call[c] EXCEPT !.pc = "connect"] \in Call
  BY DEF Call
<1>r. [call[c] EXCEPT !.pc = "sweep"].pc = "sweep" /\ [call[c] EXCEPT !.pc = "sweep"].told = call[c].told
  BY DEF Call
<1>q. [call[c] EXCEPT !.pc = "connect"].pc = "connect" /\ [call[c] EXCEPT !.pc = "connect"].told = call[c].told
  BY DEF Call
<1>1. CASE Arrive(c)
  <2>1. CASE Valid(c)
    <3>1. call' = [call EXCEPT ![c] = [call[c] EXCEPT !.pc = "sweep"]]
      BY <1>1, <2>1 DEF Arrive, TypeOK
    <3>2. call'[c].pc = "sweep" /\ call'[c].told = call[c].told /\ \A d \in Calls \ {c} : Waits(d)
      BY <3>1, <1>k, <1>r, OneMoves
    <3> QED BY <1>1, <3>2, PrunedKept DEF Arrive, Moves, OthersWait, PlaceSound, Arrives
  <2>2. CASE ~Valid(c)
    <3>1. Answer(c, "invalid_input") /\ op' = op /\ work' = work /\ call[c].pc = "idle"
      BY <1>1, <2>2 DEF Arrive
    <3>2. call'[c].pc = "done" /\ call'[c].told = "invalid_input" /\ \A d \in Calls \ {c} : Waits(d)
      BY <3>1, <1>t, OneMoves DEF CallErrors
    <3> QED BY <3>1, <3>2, PrunedKept DEF Moves, OthersWait, PlaceSound, Answers, Known, Over
  <2> QED BY <2>1, <2>2
<1>2. CASE Claim(c) /\ Kind(c) \in {"exec", "start", "sftp"}
  <2>a. call[c].pc = "sweep" /\ work' = work /\ Kind(c) \in {"exec", "start", "sftp"}
    BY <1>2 DEF Claim
  <2>1. ASSUME NEW reply \in CallErrors, Answer(c, reply), op' \in {op, Pruned}
        PROVE  Moves(c)
    <3>1. call'[c].pc = "done" /\ call'[c].told = reply /\ \A d \in Calls \ {c} : Waits(d)
      BY <2>1, <1>t, OneMoves
    <3>2. reply \notin Known \cup Over
      BY DEF CallErrors, Known, Over
    <3> QED BY <2>a, <2>1, <3>1, <3>2, PrunedKept DEF Moves, OthersWait, PlaceSound, Answers
  <2>2. CASE ~Claimable(c) /\ op' = Pruned /\ Answer(c, Replay(c))
    <3>1. call'[c].pc = "done" /\ call'[c].told = Replay(c) /\ \A d \in Calls \ {c} : Waits(d)
      BY <2>2, ReplyTypes, OneMoves
    <3>2. Answers(c)
      BY <2>a, <2>2, <3>1, RepliesRepeat, PrunedKept DEF Answers, Queries
    <3> QED BY <2>a, <2>2, <3>1, <3>2, PrunedKept DEF Moves, OthersWait, PlaceSound
  <2>3. CASE Claimable(c) /\ op' = Admitted(c, "running") /\ call' = [call EXCEPT ![c].pc = "connect"]
    <3>1. call' = [call EXCEPT ![c] = [call[c] EXCEPT !.pc = "connect"]]
      BY <2>3 DEF TypeOK
    <3>2. call'[c].pc = "connect" /\ call'[c].told = call[c].told /\ \A d \in Calls \ {c} : Waits(d)
      BY <3>1, <1>k, <1>q, OneMoves
    <3>3. "running" \in Status
      BY DEF Status
    <3>4. Claims(c) /\ \A o \in Ops \ {Op(c)} : Kept(o)
      BY <2>a, <2>3, <3>2, <3>3, PrunedKept DEF Claims, Queries
    <3>5. Kind(c)' \in Connecting
      BY <2>a DEF Kind, Connecting, Effects
    <3> QED BY <2>a, <3>2, <3>4, <3>5 DEF Moves, OthersWait, PlaceSound
  <2>4. CASE Claimable(c) /\ op' = Admitted(c, "admitted") /\ Answer(c, "receipt_store_unavailable")
    <3>2. /\ call'[c].pc = "done" /\ call'[c].told = "receipt_store_unavailable"
          /\ \A d \in Calls \ {c} : Waits(d)
      BY <2>4, <1>t, OneMoves DEF CallErrors
    <3>3. "admitted" \in Status
      BY DEF Status
    <3>4. Claims(c) /\ \A o \in Ops \ {Op(c)} : Kept(o)
      BY <2>a, <2>4, <3>2, <3>3, PrunedKept DEF Claims, Queries
    <3> QED BY <2>a, <3>2, <3>4 DEF Moves, OthersWait, PlaceSound
  <2> QED BY <1>2, <2>1, <2>2, <2>3, <2>4 DEF Claim, CallErrors
<1>3. CASE ReserveConnection(c)
  <2>1. /\ work' = work /\ op' = op /\ Kind(c) = "read" /\ call[c].pc = "sweep"
        /\ (\E reply \in CallErrors : Answer(c, reply)) \/ call' = [call EXCEPT ![c].pc = "connect"]
    BY <1>3 DEF ReserveConnection, CallErrors
  <2>2. ASSUME NEW reply \in CallErrors, Answer(c, reply) PROVE Moves(c)
    <3>1. call'[c].pc = "done" /\ \A d \in Calls \ {c} : Waits(d)
      BY <2>2, <1>t, OneMoves
    <3> QED BY <2>1, <3>1, PrunedKept DEF Moves, OthersWait, PlaceSound, Reads, Resting
  <2>3. CASE call' = [call EXCEPT ![c].pc = "connect"]
    <3>1. call' = [call EXCEPT ![c] = [call[c] EXCEPT !.pc = "connect"]]
      BY <2>3 DEF TypeOK
    <3>2. call'[c].pc = "connect" /\ \A d \in Calls \ {c} : Waits(d)
      BY <3>1, <1>k, <1>q, OneMoves
    <3>3. Kind(c)' \in Connecting
      BY <2>1 DEF Kind, Connecting
    <3> QED BY <2>1, <3>2, <3>3, PrunedKept DEF Moves, OthersWait, PlaceSound, Reads, Resting
  <2> QED BY <2>1, <2>2, <2>3
<1> QED BY <1>1, <1>2, <1>3 DEF ExecClaim, StartClaim, SftpClaim

\* Connections, verdicts and the start of a shell.
LEMMA ConnectionMoves ==
  ASSUME TypeOK, TypeOK', PlacesSound, OwnersSound, NEW c \in Calls,
         \/ OpenSocket(c) \/ Refused(c) \/ Dispatch(c) \/ Result(c)
         \/ ExecDeadline(c) \/ SftpDeadline(c) \/ ShellDeadline(c) \/ Persist(c)
         \/ Register(c) \/ Alarm(c)
  PROVE  Moves(c)
<1> USE WorkTypes
<1>o. PlaceSound(c) /\ OwnerSound(c)
  BY DEF PlacesSound, OwnersSound
<1>m. \A k \in Call : call' = [call EXCEPT ![c] = k] =>
         call'[c] = k /\ \A d \in Calls \ {c} : Waits(d)
  BY OneMoves
<1>w. call[c].pc \in {"connect", "busy"} /\ Kind(c) \notin Effectful => Kind(c) \in {"read", "start"}
  BY <1>o DEF PlaceSound, Connecting, Effectful
<1>c. ASSUME work' = work, op' = op, \A d \in Calls \ {c} : Waits(d),
             call[c].pc \in {"connect", "busy", "alarm"}, call'[c].pc = "close", call'[c].told = call[c].told,
             call'[c].fate \in Verdicts, Kind(c) \in Effectful => True(call'[c].fate, op[Op(c)].effect)
      PROVE  Moves(c)
  <2>1. Kind(c)' \in Connecting /\ call'[c].fate # "none"
    BY <1>c, <1>o DEF PlaceSound, Kind, Verdicts, Connecting
  <2>2. Proceeds(c)
    BY <1>c, PrunedKept DEF Proceeds, Working, SameClaim
  <2> QED BY <1>c, <2>1, <2>2, PrunedKept DEF Moves, OthersWait, PlaceSound
<1>1. CASE OpenSocket(c)
  <2>1. call' = [call EXCEPT ![c] = [call[c] EXCEPT !.sock = "open"]] /\ work' = work /\ op' = op
        /\ call[c].pc = "connect"
    BY <1>1 DEF OpenSocket, TypeOK
  <2>2. LET k == [call[c] EXCEPT !.sock = "open"] IN
           k \in Call /\ k.pc = call[c].pc /\ k.told = call[c].told
    BY DEF Call
  <2>3. call'[c].pc = call[c].pc /\ call'[c].told = call[c].told /\ \A d \in Calls \ {c} : Waits(d)
    BY <2>1, <2>2, <1>m
  <2>4. PlaceSound(c)'
    BY <2>1, <2>3, <1>o DEF PlaceSound, Kind
  <2> QED BY <2>1, <2>3, <2>4, PrunedKept DEF Moves, OthersWait, Proceeds, Working, SameClaim
<1>2. CASE Refused(c)
  <2>1. call' = [call EXCEPT ![c] = [call[c] EXCEPT !.pc = "close", !.fate = "failed"]] /\ work' = work /\ op' = op
        /\ call[c].pc = "connect"
    BY <1>2 DEF Refused
  <2>2. LET k == [call[c] EXCEPT !.pc = "close", !.fate = "failed"] IN
           k \in Call /\ k.pc = "close" /\ k.told = call[c].told /\ k.fate = "failed"
    BY DEF Call, Verdicts
  <2>3. call'[c].pc = "close" /\ call'[c].told = call[c].told /\ call'[c].fate = "failed"
        /\ \A d \in Calls \ {c} : Waits(d)
    BY <2>1, <2>2, <1>m
  <2>4. Kind(c) \in Effectful => True("failed", op[Op(c)].effect)
    BY <2>1, <1>o DEF OwnerSound, Working, True
  <2> QED BY <2>1, <2>3, <2>4, <1>c DEF Verdicts
<1>3. CASE Dispatch(c)
  <2>1. call' = [call EXCEPT ![c] = [call[c] EXCEPT !.pc = "busy"]] /\ work' = work
        /\ call[c].pc = "connect" /\ IF Kind(c) \in Effects THEN Sent(Op(c)) ELSE UNCHANGED op
    BY <1>3 DEF Dispatch, TypeOK
  <2>2. LET k == [call[c] EXCEPT !.pc = "busy"] IN
           k \in Call /\ k.pc = "busy" /\ k.told = call[c].told /\ k.sock = call[c].sock
    BY DEF Call
  <2>3. /\ call'[c].pc = "busy" /\ call'[c].told = call[c].told /\ call'[c].sock # "none"
        /\ \A d \in Calls \ {c} : Waits(d)
    BY <1>3, <2>1, <2>2, <1>m DEF Dispatch
  <2>4. PlaceSound(c)'
    BY <2>1, <2>3, <1>o DEF PlaceSound, Kind
  <2>5. CASE Kind(c) \in Effects
    <3>1. op[Op(c)].effect = "untouched"
      BY <2>1, <2>5, <1>o DEF OwnerSound, Working, Effectful
    <3>2. PICK e \in {"applied", "refused"} : op' = [op EXCEPT ![Op(c)] = [op[Op(c)] EXCEPT !.effect = e]]
      BY <2>1, <2>5, <3>1, SentTypes
    <3>3. op'[Op(c)] = [op[Op(c)] EXCEPT !.effect = e] /\ \A o \in Ops \ {Op(c)} : op'[o] = op[o]
      BY <3>2 DEF TypeOK
    <3>4. /\ op'[Op(c)].by = op[Op(c)].by /\ op'[Op(c)].old = op[Op(c)].old
          /\ op'[Op(c)].receipt = op[Op(c)].receipt /\ op'[Op(c)].effect = e
      BY <3>3 DEF Operation
    <3>5. \A o \in Ops \ {Op(c)} : Kept(o)
      BY <3>3 DEF Kept, SameClaim
    <3> QED BY <2>1, <2>3, <2>4, <2>5, <3>4, <3>5 DEF Moves, OthersWait, Sends, Effectful
  <2>6. CASE Kind(c) \notin Effects
    BY <2>1, <2>3, <2>4, <2>6, PrunedKept DEF Moves, OthersWait, Proceeds, Working, SameClaim
  <2> QED BY <2>5, <2>6
<1>4. CASE Result(c)
  <2>1. PICK v \in Results(c) : call' = [call EXCEPT ![c] = [call[c] EXCEPT !.pc = "close", !.fate = v]]
    BY <1>4 DEF Result
  <2>2. work' = work /\ op' = op /\ call[c].pc = "busy"
    BY <1>4 DEF Result
  <2>3. v \in Verdicts
    BY DEF Results, ReadResults, ExecResults, SftpResults, Verdicts
  <2>4. LET k == [call[c] EXCEPT !.pc = "close", !.fate = v] IN
           k \in Call /\ k.pc = "close" /\ k.told = call[c].told /\ k.fate = v
    BY <2>3 DEF Call
  <2>5. call'[c].pc = "close" /\ call'[c].told = call[c].told /\ call'[c].fate = v
        /\ \A d \in Calls \ {c} : Waits(d)
    BY <2>1, <2>4, <1>m
  <2>6. Kind(c) \in Effectful => True(v, op[Op(c)].effect)
    <3>1. Kind(c) \in Connecting
      BY <2>2, <1>o DEF PlaceSound
    <3>2. op[Op(c)].effect \in {"untouched", "applied", "refused"}
      BY DEF Operation
    <3> QED BY <3>1, <3>2 DEF Results, ExecResults, SftpResults, Effectful, Effects, Connecting, True
  <2> QED BY <2>2, <2>3, <2>5, <2>6, <1>c
<1>5. CASE Deadline(c) /\ call[c].pc \in {"connect", "busy"}
  <2> DEFINE k == [call[c] EXCEPT !.pc = "close", !.fate = TimedOut(c),
                        !.sock = IF call[c].sock = "open" THEN "closed" ELSE call[c].sock]
  <2>1. work' = work /\ op' = op /\ call' = [call EXCEPT ![c] = k]
    BY <1>5 DEF Deadline
  <2>3. TimedOut(c) \in Verdicts
    BY DEF TimedOut, Verdicts
  <2>4. k \in Call /\ k.pc = "close" /\ k.told = call[c].told /\ k.fate = TimedOut(c)
    BY <2>3 DEF Call
  <2> HIDE DEF k
  <2>5. call'[c].pc = "close" /\ call'[c].told = call[c].told /\ call'[c].fate = TimedOut(c)
        /\ \A d \in Calls \ {c} : Waits(d)
    BY <2>1, <2>4, <1>m
  <2>6. Kind(c) \in Effectful => True(TimedOut(c), op[Op(c)].effect)
    BY <1>5, <1>o DEF OwnerSound, PlaceSound, Working, TimedOut, True, Effectful, Connecting
  <2> QED BY <1>5, <2>1, <2>3, <2>5, <2>6, <1>c
<1>7. CASE Register(c)
  <2>1. work' = work /\ call[c].pc = "busy" /\ Kind(c) = "start"
    BY <1>7 DEF Register
  <2>2. CASE /\ op' = [op EXCEPT ![Op(c)].receipt = "completed"]
             /\ call' = [call EXCEPT ![c].pc = "alarm"]
    <3>1. call' = [call EXCEPT ![c] = [call[c] EXCEPT !.pc = "alarm"]]
      BY <2>2 DEF TypeOK
    <3>2. LET k == [call[c] EXCEPT !.pc = "alarm"] IN
             k \in Call /\ k.pc = "alarm" /\ k.told = call[c].told
      BY DEF Call
    <3>3. call'[c].pc = "alarm" /\ call'[c].told = call[c].told /\ \A d \in Calls \ {c} : Waits(d)
      BY <3>1, <3>2, <1>m
    <3>4. "completed" \in Status
      BY DEF Status, Verdicts
    <3>5. Kind(c)' = "start"
      BY <2>1 DEF Kind
    <3> QED BY <2>1, <2>2, <3>3, <3>4, <3>5, OneMoves
            DEF Moves, OthersWait, Registers, PlaceSound, Connecting
  <2>3. CASE /\ op' = op
             /\ call' = [call EXCEPT ![c] = [@ EXCEPT !.pc = "close", !.fate = "unknown", !.sock = "closed"]]
    <3>1. LET k == [call[c] EXCEPT !.pc = "close", !.fate = "unknown", !.sock = "closed"] IN
             k \in Call /\ k.pc = "close" /\ k.told = call[c].told /\ k.fate = "unknown"
      BY DEF Call, Verdicts
    <3>2. call'[c].pc = "close" /\ call'[c].told = call[c].told /\ call'[c].fate = "unknown"
          /\ \A d \in Calls \ {c} : Waits(d)
      BY <2>3, <3>1, <1>m
    <3> QED BY <2>1, <2>3, <3>2, <1>c DEF Verdicts, True
  <2> QED BY <1>7, <2>2, <2>3 DEF Register
<1>8. CASE Alarm(c)
  <2>1. work' = work /\ op' = op /\ call[c].pc = "alarm" /\ Kind(c) = "start"
    BY <1>8, <1>o DEF Alarm, PlaceSound
  <2>2. CASE Answer(c, "completed")
    <3>1. "completed" \in Told
      BY DEF Told, Verdicts
    <3>2. call'[c].pc = "done" /\ call'[c].told = "completed" /\ \A d \in Calls \ {c} : Waits(d)
      BY <2>2, <3>1, OneMoves
    <3>3. Settles(c)
      BY <2>1, <3>2, PrunedKept DEF Settles, Working, SameClaim, Effectful, Effects, Verdicts
    <3> QED BY <2>1, <3>2, <3>3, PrunedKept DEF Moves, OthersWait, PlaceSound
  <2>3. CASE call' = [call EXCEPT ![c] = [@ EXCEPT !.pc = "close", !.fate = "failed", !.sock = "closed"]]
    <3>1. LET k == [call[c] EXCEPT !.pc = "close", !.fate = "failed", !.sock = "closed"] IN
             k \in Call /\ k.pc = "close" /\ k.told = call[c].told /\ k.fate = "failed"
      BY DEF Call, Verdicts
    <3>2. call'[c].pc = "close" /\ call'[c].told = call[c].told /\ call'[c].fate = "failed"
          /\ \A d \in Calls \ {c} : Waits(d)
      BY <2>3, <3>1, <1>m
    <3> QED BY <2>1, <3>2, <1>c DEF Verdicts, Effectful, Effects
  <2> QED BY <1>8, <2>2, <2>3 DEF Alarm
<1>9. CASE Persist(c)
  <2>1. PICK n \in 0..3 :
          /\ call' = [call EXCEPT ![c] = [call[c] EXCEPT !.pc = "done", !.sock = "closed",
                                  !.told = IF n = 0 THEN call[c].fate ELSE "unknown"]]
          /\ IF Kind(c) = "read" THEN op' = op
             ELSE op' = [op EXCEPT ![Op(c)].receipt =
                          (CASE Kind(c) = "exec" -> ExecStored(Op(c), call[c].fate, n)
                             [] Kind(c) = "start" /\ call[c].fate = "unknown" -> Uncertain(Op(c), n)
                             [] OTHER -> Stored(Op(c), call[c].fate, n)).receipt]
    BY <1>9 DEF Persist
  <2>2. work' = work /\ call[c].pc = "close" /\ call[c].fate \in Verdicts
    BY <1>9, <1>o DEF Persist, PlaceSound, Call
  <2> DEFINE told == IF n = 0 THEN call[c].fate ELSE "unknown"
             r == (CASE Kind(c) = "exec" -> ExecStored(Op(c), call[c].fate, n)
                             [] Kind(c) = "start" /\ call[c].fate = "unknown" -> Uncertain(Op(c), n)
                             [] OTHER -> Stored(Op(c), call[c].fate, n)).receipt
             k == [call[c] EXCEPT !.pc = "done", !.sock = "closed", !.told = told]
  <2>3. told \in Verdicts /\ (told = call[c].fate \/ told = "unknown")
    BY <2>2 DEF Verdicts
  <2>4. r \in Status /\ r \in {op[Op(c)].receipt, "unknown", call[c].fate}
    <3>1. r \in {op[Op(c)].receipt, "unknown", call[c].fate}
      BY DEF ExecStored, Uncertain, Stored
    <3> QED BY <3>1, <2>2 DEF Operation, Status, Verdicts
  <2> HIDE DEF told, r
  <2>5. k \in Call /\ k.pc = "done" /\ k.told = told
    BY <2>3 DEF Call
  <2>6. call' = [call EXCEPT ![c] = k]
    BY <2>1 DEF told
  <2> HIDE DEF k
  <2>7. call'[c].pc = "done" /\ call'[c].told = told /\ \A d \in Calls \ {c} : Waits(d)
    BY <2>5, <2>6, <1>m
  <2>8. PlaceSound(c)'
    BY <2>7 DEF PlaceSound
  <2>9. CASE Kind(c) = "read"
    BY <2>1, <2>2, <2>7, <2>8, <2>9, PrunedKept DEF Moves, OthersWait, Reads, Resting
  <2>10. CASE Kind(c) # "read"
    <3>1. op' = [op EXCEPT ![Op(c)].receipt = r]
      BY <2>1, <2>10 DEF r
    <3>2. SameClaim(Op(c)) /\ op'[Op(c)].receipt = r /\ \A o \in Ops \ {Op(c)} : Kept(o)
      BY <3>1, <2>4, OneMoves
    <3>3. Kind(c) \in Effectful => /\ True(call[c].fate, op[Op(c)].effect)
                                   /\ op[Op(c)].receipt \in {"admitted", "running"}
      BY <2>2, <1>o DEF OwnerSound, Working
    <3>4. r \in {op[Op(c)].receipt} \cup Verdicts
      BY <2>4, <2>2 DEF Verdicts
    <3>5. Settles(c)
      BY <2>2, <2>3, <2>4, <2>7, <2>10, <3>2, <3>3, <3>4 DEF Settles, Working, Known
    <3> QED BY <2>2, <2>7, <2>8, <3>2, <3>5 DEF Moves, OthersWait
  <2> QED BY <2>9, <2>10
<1> QED BY <1>1, <1>2, <1>3, <1>4, <1>5, <1>7, <1>8, <1>9
        DEF ExecDeadline, SftpDeadline, ShellDeadline

\* Closing a shell on the way moves only the caller; leaving its queue settles the caller's receipt.
LEMMA QueueHelpers ==
  ASSUME TypeOK, NEW c \in Calls
  PROVE  /\ \A s \in Ops, pc \in {"settle", "stop", "estop"}, fate \in Verdicts :
              call' = ClosedBy(c, s, pc, fate) =>
                /\ call'[c].pc = pc /\ call'[c].fate = fate /\ call'[c].told = call[c].told
                /\ \A d \in Calls \ {c} : Waits(d)
         /\ \A s \in Ops, n \in 0..3, told \in Told : \A stored, after :
              Leave(c, s, n, stored, told, after) /\ stored.receipt \in Status =>
                /\ call'[c].pc = "done" /\ call'[c].told = (IF n = 0 THEN told ELSE "unknown")
                /\ \A d \in Calls \ {c} : Waits(d)
                /\ SameClaim(Op(c)) /\ op'[Op(c)].receipt = stored.receipt
                /\ \A o \in Ops \ {Op(c)} : Kept(o)
<1> USE WorkTypes
<1>1. ASSUME NEW s \in Ops, NEW pc \in {"settle", "stop", "estop"}, NEW fate \in Verdicts,
             call' = ClosedBy(c, s, pc, fate)
      PROVE  /\ call'[c].pc = pc /\ call'[c].fate = fate /\ call'[c].told = call[c].told
             /\ \A d \in Calls \ {c} : Waits(d)
  <2>1. \A k \in Call : LET m == [k EXCEPT !.sock = "closed"] IN
           /\ m \in Call /\ m.pc = k.pc /\ m.told = k.told /\ m.fate = k.fate /\ m.sock = "closed"
    BY DEF Call
  <2>2. LET m == [call[c] EXCEPT !.pc = pc, !.fate = fate] IN
           m \in Call /\ m.pc = pc /\ m.told = call[c].told /\ m.fate = fate
    BY DEF Call
  <2>3. call'[c].pc = pc /\ call'[c].fate = fate /\ call'[c].told = call[c].told
    BY <1>1, <2>1, <2>2 DEF ClosedBy
  <2>4. ASSUME NEW d \in Calls \ {c} PROVE Waits(d)
    <3>1. call[d] \in Call
      BY DEF TypeOK
    <3>2. call'[d] = call[d] \/ call'[d] = [call[d] EXCEPT !.sock = "closed"]
      BY <1>1 DEF ClosedBy
    <3> QED BY <2>1, <3>1, <3>2 DEF Waits
  <2> QED BY <2>3, <2>4
<1>2. ASSUME NEW s \in Ops, NEW n \in 0..3, NEW told \in Told, NEW stored, NEW after,
             Leave(c, s, n, stored, told, after), stored.receipt \in Status
      PROVE  /\ call'[c].pc = "done" /\ call'[c].told = (IF n = 0 THEN told ELSE "unknown")
             /\ \A d \in Calls \ {c} : Waits(d)
             /\ SameClaim(Op(c)) /\ op'[Op(c)].receipt = stored.receipt
             /\ \A o \in Ops \ {Op(c)} : Kept(o)
  <2> DEFINE said == IF n = 0 THEN told ELSE "unknown"
             k == [call[c] EXCEPT !.pc = "done", !.told = said]
  <2>1. call' = [call EXCEPT ![c] = k] /\ op' = [op EXCEPT ![Op(c)].receipt = stored.receipt]
    BY <1>2 DEF Leave
  <2>2. said \in Told
    BY DEF Told, Verdicts
  <2> HIDE DEF said
  <2>3. k \in Call /\ k.pc = "done" /\ k.told = said
    BY <2>2 DEF Call, Told
  <2> HIDE DEF k
  <2>4. call'[c].pc = "done" /\ call'[c].told = said /\ \A d \in Calls \ {c} : Waits(d)
    BY <2>1, <2>3, OneMoves
  <2> QED BY <1>2, <2>1, <2>4, OneMoves DEF said
<1> QED BY <1>1, <1>2

\* Inputs and stops.
LEMMA QueueMoves ==
  ASSUME TypeOK, TypeOK', PlacesSound, OwnersSound, NEW c \in Calls,
         \/ InputBegin(c) \/ InputCheck(c) \/ InputWritten(c) \/ InputSettled(c)
         \/ StopBegin(c) \/ StopEnd(c)
  PROVE  Moves(c)
<1> USE WorkTypes
<1>o. PlaceSound(c) /\ OwnerSound(c)
  BY DEF PlacesSound, OwnersSound
<1>m. \A k \in Call : call' = [call EXCEPT ![c] = k] =>
         call'[c] = k /\ \A d \in Calls \ {c} : Waits(d)
  BY OneMoves
<1>t. {"completed", "failed", "unknown"} \cup CallErrors \subseteq Told
  BY DEF Told, Verdicts
<1>v. \A n \in 0..3, v \in Verdicts :
        /\ Stored(Op(c), v, n).receipt \in Status
        /\ Uncertain(Op(c), n).receipt \in Status
        /\ Stored(Op(c), v, n).receipt \in {v, "unknown", op[Op(c)].receipt}
        /\ Uncertain(Op(c), n).receipt \in {"unknown", op[Op(c)].receipt}
  BY StoredTypes DEF Stored, Uncertain
<1>w. work' = work
  BY DEF InputBegin, InputCheck, InputWritten, InputSettled, StopBegin, StopEnd
<1>k. \A pc \in {"settle", "stop", "estop"}, fate \in Verdicts :
        call' = ClosedBy(c, On(c), pc, fate) =>
          /\ call'[c].pc = pc /\ call'[c].fate = fate /\ call'[c].told = call[c].told
          /\ \A d \in Calls \ {c} : Waits(d)
  BY QueueHelpers
<1>r. ASSUME call[c].pc = "sweep", NEW reply \in CallErrors, Answer(c, reply), op' = op PROVE Moves(c)
  <2>1. call'[c].pc = "done" /\ call'[c].told = reply /\ \A d \in Calls \ {c} : Waits(d)
    BY <1>r, <1>t, OneMoves
  <2>2. reply \notin Known \cup Over
    BY DEF CallErrors, Known, Over
  <2> QED BY <1>r, <1>w, <2>1, <2>2, PrunedKept DEF Moves, OthersWait, PlaceSound, Answers
<1>p. ASSUME call[c].pc = "sweep", Kind(c) \in {"input", "stop"}, ~Claimable(c), op' = Pruned, Answer(c, Replay(c)) PROVE Moves(c)
  <2>1. call'[c].pc = "done" /\ call'[c].told = Replay(c) /\ \A d \in Calls \ {c} : Waits(d)
    BY <1>p, ReplyTypes, OneMoves
  <2>2. Answers(c)
    BY <1>p, <2>1, RepliesRepeat, PrunedKept DEF Answers
  <2> QED BY <1>p, <1>w, <2>1, <2>2, PrunedKept DEF Moves, OthersWait, PlaceSound
<1>a. ASSUME call[c].pc \in {"sweep", "estop"}, Kind(c) \in {"input", "stop"}, Claimable(c),
             NEW status \in Status \ {"absent", "completed"}, op' = Admitted(c, status),
             NEW reply \in {"failed", "unknown"}, Answer(c, reply)
      PROVE  Moves(c)
  <2>1. call'[c].pc = "done" /\ call'[c].told = reply /\ \A d \in Calls \ {c} : Waits(d)
    BY <1>a, <1>t, OneMoves
  <2>2. Claims(c) /\ \A o \in Ops \ {Op(c)} : Kept(o)
    BY <1>a, <2>1, PrunedKept DEF Claims, Queries
  <2> QED BY <1>w, <2>1, <2>2 DEF Moves, OthersWait, PlaceSound
<1>s. ASSUME call[c].pc \in Working, Kind(c) \in {"input", "stop"}, NEW n \in 0..3, NEW told \in Verdicts,
             NEW stored, NEW after, Leave(c, On(c), n, stored, told, after),
             stored.receipt \in Status,
             stored.receipt \in {told, "unknown", op[Op(c)].receipt},
             Kind(c) = "input" => True(told, op[Op(c)].effect)
      PROVE  Moves(c)
  <2>1. told \in Told
    BY DEF Told
  <2>2. /\ call'[c].pc = "done" /\ call'[c].told = (IF n = 0 THEN told ELSE "unknown")
        /\ \A d \in Calls \ {c} : Waits(d)
        /\ SameClaim(Op(c)) /\ op'[Op(c)].receipt = stored.receipt
        /\ \A o \in Ops \ {Op(c)} : Kept(o)
    BY <1>s, <2>1, QueueHelpers
  <2>3. stored.receipt \in {op[Op(c)].receipt} \cup Verdicts
    BY <1>s DEF Verdicts
  <2>4. Kind(c) \in Effectful => Kind(c) = "input" /\ op[Op(c)].receipt \in {"admitted", "running"}
    BY <1>s, <1>o DEF OwnerSound, Effectful, Effects
  <2>5. Settles(c)
    BY <1>s, <2>2, <2>3, <2>4 DEF Settles, Known, Verdicts
  <2> QED BY <1>w, <2>2, <2>5 DEF Moves, OthersWait, PlaceSound
<1>1. CASE InputBegin(c)
  <2>a. call[c].pc = "sweep" /\ Kind(c) = "input"
    BY <1>1 DEF InputBegin, MyTurn
  <2>1. CASE Claimable(c) /\ op' = Admitted(c, "running") /\ call' = [call EXCEPT ![c].pc = "check"]
    <3>1. call' = [call EXCEPT ![c] = [call[c] EXCEPT !.pc = "check"]]
      BY <2>1 DEF TypeOK
    <3>2. LET k == [call[c] EXCEPT !.pc = "check"] IN
             k \in Call /\ k.pc = "check" /\ k.told = call[c].told
      BY DEF Call
    <3>3. call'[c].pc = "check" /\ call'[c].told = call[c].told /\ \A d \in Calls \ {c} : Waits(d)
      BY <3>1, <3>2, <1>m
    <3>4. "running" \in Status
      BY DEF Status
    <3>5. Claims(c) /\ \A o \in Ops \ {Op(c)} : Kept(o)
      BY <2>a, <2>1, <3>3, <3>4, PrunedKept DEF Claims, Queries
    <3>6. Kind(c)' = "input"
      BY <2>a, <1>w DEF Kind
    <3> QED BY <1>w, <3>3, <3>5, <3>6 DEF Moves, OthersWait, PlaceSound
  <2>2. {"unknown", "admitted", "failed", "running"} \subseteq Status \ {"absent", "completed"}
    BY DEF Status, Verdicts
  <2>3. ASSUME Claimable(c), NEW n \in 0..3,
               \/ op' = Admitted(c, IF n < 3 THEN "unknown" ELSE "admitted") /\ Answer(c, "unknown")
               \/ /\ op' = Admitted(c, IF n < 3 THEN (IF n = 0 THEN "failed" ELSE "unknown") ELSE "running")
                  /\ Answer(c, IF n = 0 THEN "failed" ELSE "unknown")
        PROVE  Moves(c)
    BY <2>a, <2>2, <2>3, <1>a
  <2> QED BY <1>1, <2>a, <2>1, <2>3, <1>r, <1>p DEF InputBegin, CallErrors
<1>2. CASE InputCheck(c)
  <2>a. call[c].pc = "check" /\ Kind(c) = "input" /\ op[Op(c)].effect = "untouched"
    BY <1>2, <1>o DEF InputCheck, OwnerSound, PlaceSound, Working, Effectful
  <2>1. CASE call' = ClosedBy(c, On(c), "settle", "failed") /\ op' = op
    <3>1. /\ call'[c].pc = "settle" /\ call'[c].fate = "failed" /\ call'[c].told = call[c].told
          /\ \A d \in Calls \ {c} : Waits(d)
      BY <2>1, <1>k DEF Verdicts
    <3>2. Kind(c)' = "input"
      BY <2>a, <1>w DEF Kind
    <3>3. Proceeds(c)
      BY <2>a, <2>1, <3>1 DEF Proceeds, Working, SameClaim, True
    <3> QED BY <2>1, <3>1, <3>2, <3>3, <1>w, PrunedKept DEF Moves, OthersWait, PlaceSound
  <2>2. ASSUME NEW n \in 0..3, Leave(c, On(c), n, Stored(Op(c), "failed", n), "failed", sess[On(c)])
        PROVE  Moves(c)
    <3>1. "failed" \in Verdicts /\ True("failed", op[Op(c)].effect) /\ call[c].pc \in Working
      BY <2>a DEF Verdicts, True, Working
    <3> QED BY <2>a, <2>2, <3>1, <1>v, <1>s
  <2>3. CASE Sent(Op(c)) /\ call' = [call EXCEPT ![c].pc = "write"]
    <3>1. call' = [call EXCEPT ![c] = [call[c] EXCEPT !.pc = "write"]]
      BY <2>3 DEF TypeOK
    <3>2. LET k == [call[c] EXCEPT !.pc = "write"] IN
             k \in Call /\ k.pc = "write" /\ k.told = call[c].told
      BY DEF Call
    <3>3. call'[c].pc = "write" /\ call'[c].told = call[c].told /\ \A d \in Calls \ {c} : Waits(d)
      BY <3>1, <3>2, <1>m
    <3>4. PICK e \in {"applied", "refused"} : op' = [op EXCEPT ![Op(c)] = [op[Op(c)] EXCEPT !.effect = e]]
      BY <2>a, <2>3, SentTypes
    <3>5. op'[Op(c)] = [op[Op(c)] EXCEPT !.effect = e] /\ \A o \in Ops \ {Op(c)} : op'[o] = op[o]
      BY <3>4 DEF TypeOK
    <3>6. /\ op'[Op(c)].by = op[Op(c)].by /\ op'[Op(c)].old = op[Op(c)].old
          /\ op'[Op(c)].receipt = op[Op(c)].receipt /\ op'[Op(c)].effect = e
      BY <3>5 DEF Operation
    <3>7. \A o \in Ops \ {Op(c)} : Kept(o)
      BY <3>5 DEF Kept, SameClaim
    <3>8. Kind(c)' = "input"
      BY <2>a, <1>w DEF Kind
    <3> QED BY <2>a, <1>w, <3>3, <3>6, <3>7, <3>8 DEF Moves, OthersWait, Sends, Effectful, PlaceSound
  <2> QED BY <1>2, <2>1, <2>2, <2>3 DEF InputCheck
<1>3. CASE InputWritten(c)
  <2>a. call[c].pc = "write" /\ Kind(c) = "input"
    BY <1>3, <1>o DEF InputWritten, PlaceSound
  <2>1. CASE call' = ClosedBy(c, On(c), "settle", "unknown") /\ op' = op
    <3>1. /\ call'[c].pc = "settle" /\ call'[c].fate = "unknown" /\ call'[c].told = call[c].told
          /\ \A d \in Calls \ {c} : Waits(d)
      BY <2>1, <1>k DEF Verdicts
    <3>2. Kind(c)' = "input"
      BY <2>a, <1>w DEF Kind
    <3>3. Proceeds(c)
      BY <2>a, <2>1, <3>1 DEF Proceeds, Working, SameClaim, True
    <3> QED BY <2>1, <3>1, <3>2, <3>3, <1>w, PrunedKept DEF Moves, OthersWait, PlaceSound
  <2>2. ASSUME op[Op(c)].effect = "applied", NEW n \in 0..3, NEW due \in {sess[On(c)].due, FALSE},
               Leave(c, On(c), n, Stored(Op(c), "completed", n), "completed",
                     [sess[On(c)] EXCEPT !.due = due])
        PROVE  Moves(c)
    <3>1. "completed" \in Verdicts /\ True("completed", op[Op(c)].effect) /\ call[c].pc \in Working
      BY <2>a, <2>2 DEF Verdicts, True, Working
    <3> QED BY <2>a, <2>2, <3>1, <1>v, <1>s
  <2> QED BY <1>3, <2>1, <2>2 DEF InputWritten
<1>4. CASE InputSettled(c)
  <2>a. /\ call[c].pc = "settle" /\ Kind(c) = "input" /\ True(call[c].fate, op[Op(c)].effect)
        /\ call[c].fate \in Verdicts /\ call[c].pc \in Working
    BY <1>4, <1>o DEF InputSettled, PlaceSound, OwnerSound, Working, Effectful, Call
  <2>1. PICK n \in 0..3 :
          Leave(c, On(c), n, IF call[c].fate = "failed" THEN Stored(Op(c), "failed", n)
                             ELSE Uncertain(Op(c), n), call[c].fate, sess[On(c)])
    BY <1>4 DEF InputSettled
  <2> DEFINE s == IF call[c].fate = "failed" THEN Stored(Op(c), "failed", n) ELSE Uncertain(Op(c), n)
  <2>2. s.receipt \in Status /\ s.receipt \in {call[c].fate, "unknown", op[Op(c)].receipt}
    BY <1>v, <2>a
  <2> HIDE DEF s
  <2>3. Leave(c, On(c), n, s, call[c].fate, sess[On(c)])
    BY <2>1 DEF s
  <2> QED BY <2>a, <2>2, <2>3, <1>s
<1>5. CASE StopBegin(c)
  <2>a. call[c].pc = "sweep" /\ Kind(c) = "stop" /\ Kind(c)' = "stop"
    BY <1>5, <1>w DEF StopBegin, MyTurn, Kind
  <2>1. CASE op' = op /\ call' = ClosedBy(c, On(c), "estop", "unknown")
    <3>1. /\ call'[c].pc = "estop" /\ call'[c].told = call[c].told /\ \A d \in Calls \ {c} : Waits(d)
      BY <2>1, <1>k DEF Verdicts
    <3> QED BY <2>a, <2>1, <3>1, <1>w, PrunedKept DEF Moves, OthersWait, PlaceSound, Emergency
  <2>2. {"unknown", "admitted", "failed"} \subseteq Status \ {"absent", "completed"}
    BY DEF Status, Verdicts
  <2>3. ASSUME Claimable(c), NEW n \in 0..3,
               op' = Admitted(c, CASE n = 0 -> "failed" [] n = 3 -> "admitted" [] OTHER -> "unknown"),
               Answer(c, IF n = 0 THEN "failed" ELSE "unknown")
        PROVE  Moves(c)
    BY <2>a, <2>2, <2>3, <1>a
  <2>4. ASSUME Claimable(c), NEW status \in {"running", "admitted"}, op' = Admitted(c, status),
               NEW fate \in {"completed", "unknown"}, call' = ClosedBy(c, On(c), "stop", fate),
               sess[On(c)].row # "none", OwnedLive(On(c)),
               sess' = [sess EXCEPT ![On(c)] = [Settling(On(c), "closed") EXCEPT !.busy = c]]
        PROVE  Moves(c)
    <3>1. fate \in Verdicts /\ status \in Status
      BY DEF Verdicts, Status
    <3>2. /\ call'[c].pc = "stop" /\ call'[c].fate = fate /\ call'[c].told = call[c].told
          /\ \A d \in Calls \ {c} : Waits(d)
      BY <2>4, <3>1, <1>k
    <3>5. sess'[On(c)].row # "none" /\ sess'[On(c)].mem # "live"
      <4>1. sess'[On(c)] = [Settling(On(c), "closed") EXCEPT !.busy = c]
        BY <2>4 DEF TypeOK
      <4>2. Settling(On(c), "closed") \in Shell
        BY ShellTypes
      <4>3. Settling(On(c), "closed").row # "none" /\ Settling(On(c), "closed").mem # "live"
        BY <2>4 DEF Settling, OwnedLive, Shell
      <4> QED BY <4>1, <4>2, <4>3 DEF Shell
    <3>6. Gone(On(c))'
      BY <3>5, <1>w DEF Gone, On
    <3>3. Claims(c) /\ \A o \in Ops \ {Op(c)} : Kept(o)
      BY <2>a, <2>4, <3>1, <3>2, <3>6, PrunedKept DEF Claims, Queries
    <3>4. fate # "none"
      OBVIOUS
    <3> QED BY <2>a, <1>w, <3>2, <3>3, <3>4 DEF Moves, OthersWait, PlaceSound
  <2> QED BY <1>5, <2>a, <2>1, <2>3, <2>4, <1>r, <1>p DEF StopBegin, CallErrors
<1>6. CASE StopEnd(c)
  <2>a. Kind(c) = "stop"
    BY <1>6, <1>o DEF StopEnd, PlaceSound
  <2>1. ASSUME call[c].pc = "stop", NEW n \in 0..3,
               Leave(c, On(c), n, Stored(Op(c), call[c].fate, n), call[c].fate, sess[On(c)])
        PROVE  Moves(c)
    <3>1. call[c].fate \in Verdicts /\ call[c].pc \in Working
      BY <2>1, <1>o DEF PlaceSound, Call, Working
    <3> QED BY <2>a, <2>1, <3>1, <1>v, <1>s
  <2>2. CASE call[c].pc = "stop" /\ call' = [call EXCEPT ![c].fate = "unknown"] /\ op' = op
    <3>1. call' = [call EXCEPT ![c] = [call[c] EXCEPT !.fate = "unknown"]]
      BY <2>2 DEF TypeOK
    <3>2. LET k == [call[c] EXCEPT !.fate = "unknown"] IN
             k \in Call /\ k.pc = call[c].pc /\ k.told = call[c].told /\ k.fate = "unknown"
      BY DEF Call, Verdicts
    <3>3. /\ call'[c].pc = "stop" /\ call'[c].told = call[c].told /\ call'[c].fate = "unknown"
          /\ \A d \in Calls \ {c} : Waits(d)
      BY <2>2, <3>1, <3>2, <1>m
    <3>4. Proceeds(c)
      BY <2>2, <3>3 DEF Proceeds, Working, SameClaim
    <3>5. Kind(c)' = "stop"
      BY <2>a, <1>w DEF Kind
    <3> QED BY <2>2, <3>3, <3>4, <3>5, <1>w, PrunedKept DEF Moves, OthersWait, PlaceSound
  <2>3. CASE /\ call[c].pc = "estop" /\ Answer(c, "unknown") /\ Claimable(c)
             /\ \E n \in 0..3 : op' = Admitted(c, IF n < 3 THEN "unknown" ELSE "admitted")
    <3>1. PICK status \in {"unknown", "admitted"} : op' = Admitted(c, status)
      BY <2>3
    <3>2. status \in Status \ {"absent", "completed"}
      BY DEF Status, Verdicts
    <3> QED BY <2>a, <2>3, <3>1, <3>2, <1>a
  <2>4. CASE call[c].pc = "estop" /\ Answer(c, "unknown") /\ op' \in {op, Pruned}
    <3>1. call'[c].pc = "done" /\ call'[c].told = "unknown" /\ \A d \in Calls \ {c} : Waits(d)
      BY <2>4, <1>t, OneMoves
    <3> QED BY <2>a, <2>4, <3>1, <1>w, PrunedKept DEF Moves, OthersWait, PlaceSound, Emergency
  <2> QED BY <1>6, <2>1, <2>2, <2>3, <2>4 DEF StopEnd
<1> QED BY <1>1, <1>2, <1>3, <1>4, <1>5, <1>6

\* Queries.
LEMMA QueryMoves ==
  ASSUME TypeOK, TypeOK', NEW c \in Calls, OperationStatus(c) \/ SessionStatus(c)
  PROVE  Moves(c)
<1>1. call[c].pc = "sweep" /\ work' = work /\ op' = op
  BY DEF OperationStatus, SessionStatus
<1>2. CallErrors \cup {"operation_not_found"} \subseteq Told
  BY DEF Told
<1>n. \A reply \in CallErrors \cup {"operation_not_found"} : reply \notin Known \cup Over
  BY DEF CallErrors, Known, Over
<1>3. ASSUME NEW reply \in Told, Answer(c, reply),
             reply \in Known => Kind(c) = "status" /\ op[Op(c)].receipt = reply,
             Kind(c) = "view" /\ reply \in Over => reply = SessionView(On(c))
      PROVE  Moves(c)
  <2>1. call'[c].pc = "done" /\ call'[c].told = reply /\ \A d \in Calls \ {c} : Waits(d)
    BY <1>3, OneMoves
  <2> QED BY <1>1, <1>3, <2>1, WorkTypes, PrunedKept DEF Moves, OthersWait, PlaceSound, Answers
<1>4. CASE OperationStatus(c)
  <2>1. Kind(c) = "status"
    BY <1>4 DEF OperationStatus
  <2>2. ASSUME NEW reply \in CallErrors \cup {"operation_not_found"}, Answer(c, reply) PROVE Moves(c)
    BY <1>2, <1>n, <1>3, <2>2
  <2>3. CASE op[Op(c)].receipt # "absent" /\ Answer(c, KnownStatus(Op(c)))
    BY <1>3, <2>1, <2>3, ReplyTypes, RepliesRepeat
  <2> QED BY <1>4, <2>2, <2>3 DEF OperationStatus, CallErrors
<1>5. CASE SessionStatus(c)
  <2>1. SessionView(On(c)) \notin Known /\ SessionView(On(c)) \in Told
    BY WorkTypes DEF SessionView, Shell, Known, Told
  <2>2. ASSUME NEW reply \in CallErrors, Answer(c, reply) PROVE Moves(c)
    BY <1>2, <1>n, <1>3, <2>2
  <2> QED BY <1>3, <1>5, <2>1, <2>2 DEF SessionStatus, CallErrors
<1> QED BY <1>4, <1>5

\* Every handler moves in one of these ways.
LEMMA HandlersMove ==
  ASSUME TypeOK, TypeOK', PlacesSound, OwnersSound, NEW c \in Calls, Arrive(c) \/ Works(c)
  PROVE  Moves(c)
BY ClaimMoves, ConnectionMoves, QueueMoves, QueryMoves DEF Works

-----------------------------------------------------------------------------
(* Receipts, verdicts and replies *)

LedgerSound == PlacesSound /\ OwnersSound /\ ReceiptsSound /\ RepliesSound

\* A step of a shell or of a host, which leaves receipts alone.
Quiet == work' = work /\ op' = op /\ \A d \in Calls : Waits(d)

\* What a call on its way to its claim may claim has never been claimed before: a pruned
\* receipt is one nobody is on the way to.
LEMMA ClaimIsFresh ==
  ASSUME TypeOK, ReceiptsSound, NEW c \in Calls, call[c].pc \notin Resting, Kind(c) \notin Queries,
         Claimable(c)
  PROVE  /\ op[Op(c)].by = None /\ op[Op(c)].receipt = "absent" /\ op[Op(c)].effect = "untouched"
         /\ ~op[Op(c)].old
<1>1. op[Op(c)].receipt = "absent" \/ (op[Op(c)].old /\ op[Op(c)].receipt \in Known)
  BY WorkTypes DEF Claimable, Pruned, Prunable, Operation, Known
<1>2. ReceiptSound(Op(c))
  BY WorkTypes DEF ReceiptsSound
<1>3. op[Op(c)].old => op[Op(c)].receipt = "unknown"
  BY <1>2 DEF ReceiptSound
<1> QED BY <1>1, <1>2, <1>3 DEF ReceiptSound, Known

\* A receipt never changes hands, and its effect changes only by the dispatch of its owner.
LEMMA ClaimsStay ==
  ASSUME TypeOK, OwnersSound, ReceiptsSound, NEW c \in Calls, Moves(c), NEW o \in Ops
  PROVE  /\ op[o].by # None => op'[o].by = op[o].by
         /\ op[o].by # c => op'[o].effect = op[o].effect
         /\ call[c].pc \notin {"done", "dead"}
<1>1. CASE o # Op(c)
  BY <1>1 DEF Moves, OthersWait, Kept, SameClaim, Arrives, Answers, Claims, Proceeds, Sends, Settles,
     Registers, Reads, Emergency, Working, Resting
<1>2. CASE o = Op(c)
  <2>1. CASE Claims(c)
    BY <1>2, <2>1, ClaimIsFresh DEF Claims, Resting
  <2>2. CASE Sends(c)
    <3>1. op[o].by = c
      BY <1>2, <2>2 DEF Sends, OwnersSound, OwnerSound, Working, Effectful, Effects
    <3> QED BY <1>2, <2>2, <3>1 DEF Sends
  <2>3. CASE \/ Arrives(c) \/ Answers(c) \/ Proceeds(c) \/ Settles(c)
             \/ Registers(c) \/ Reads(c) \/ Emergency(c)
    BY <1>2, <2>3 DEF Kept, SameClaim, Arrives, Answers, Proceeds, Settles,
       Registers, Reads, Emergency, Working, Resting
  <2> QED BY <2>1, <2>2, <2>3 DEF Moves
<1> QED BY <1>1, <1>2

\* Handlers keep calls within what they own.
LEMMA OwnersMove ==
  ASSUME TypeOK, OwnersSound, ReceiptsSound, NEW c \in Calls, Moves(c), NEW d \in Calls
  PROVE  OwnerSound(d)'
<1> USE WorkTypes
<1>1. work' = work /\ Op(d)' = Op(d) /\ Kind(d)' = Kind(d)
  BY DEF Moves, OthersWait, Op, Kind
<1>2. OwnerSound(c) /\ OwnerSound(d) /\ ReceiptSound(Op(c)) /\ ReceiptSound(Op(d))
  BY DEF OwnersSound, ReceiptsSound
<1>3. CASE d # c
  <2>1. call'[d].pc = call[d].pc /\ call'[d].fate = call[d].fate
    BY <1>3 DEF Moves, OthersWait, Waits
  <2>2. op[Op(d)].by = d => op'[Op(d)].by = d
    BY ClaimsStay
  <2>3. op'[Op(d)].by = d => op[Op(d)].by = d
    BY <1>3, ClaimsStay DEF Moves, OthersWait, Kept, SameClaim, Claims, Arrives, Answers, Proceeds, Sends,
       Settles, Registers, Reads, Emergency
  <2>4. op[Op(d)].by = d => op'[Op(d)].effect = op[Op(d)].effect
    BY <1>3, ClaimsStay
  <2>5. ASSUME op[Op(d)].by = d, op[Op(d)].receipt \in {"admitted", "running"}
        PROVE  op'[Op(d)].receipt = op[Op(d)].receipt
    <3>1. CASE Op(d) # Op(c)
      BY <2>5, <3>1 DEF Moves, OthersWait, Kept, Known
    <3>2. CASE Op(d) = Op(c)
      <4>1. op[Op(c)].by # c /\ op[Op(c)].by # None
        BY <1>3, <2>5, <3>2
      <4>2. CASE Claims(c)
        BY <4>1, <4>2, ClaimIsFresh DEF Claims, Resting
      <4>3. CASE Settles(c) \/ Registers(c)
        BY <1>2, <4>1, <4>3 DEF Settles, Registers, OwnerSound, Working
      <4>4. CASE Arrives(c) \/ Answers(c) \/ Proceeds(c) \/ Sends(c) \/ Reads(c) \/ Emergency(c)
        BY <2>5, <3>2, <4>4 DEF Arrives, Answers, Proceeds, Sends, Reads, Emergency, Kept, Known
      <4> QED BY <4>2, <4>3, <4>4 DEF Moves
    <3> QED BY <3>1, <3>2
  <2> QED BY <1>1, <1>2, <2>1, <2>2, <2>3, <2>4, <2>5
          DEF OwnerSound, Effectful, Effects
<1>4. CASE d = c
  <2>1. CASE Arrives(c) \/ Answers(c) \/ Emergency(c)
    BY <1>1, <1>2, <1>4, <2>1 DEF Arrives, Answers, Emergency, Kept, SameClaim, OwnerSound, Working
  <2>2. CASE Claims(c)
    <3>1. op[Op(c)].effect = "untouched"
      BY <2>2, ClaimIsFresh DEF Claims, Resting
    <3> QED BY <1>1, <1>4, <2>2, <3>1 DEF Claims, OwnerSound, Working, Effectful, Effects, Queries, Moves, PlaceSound
  <2>3. CASE Proceeds(c)
    BY <1>1, <1>2, <1>4, <2>3 DEF Proceeds, SameClaim, OwnerSound, Working
  <2>4. CASE Sends(c)
    BY <1>1, <1>2, <1>4, <2>4 DEF Sends, OwnerSound, Working, Effectful, Effects
  <2>5. CASE Settles(c)
    BY <1>1, <1>2, <1>4, <2>5 DEF Settles, SameClaim, OwnerSound, Working
  <2>6. CASE Registers(c)
    BY <1>1, <1>2, <1>4, <2>6 DEF Registers, SameClaim, OwnerSound, Working, Effectful, Effects
  <2>7. CASE Reads(c)
    BY <1>1, <1>2, <1>4, <2>7 DEF Reads, Kept, SameClaim, OwnerSound, ReceiptSound, Effectful, Effects
  <2> QED BY <2>1, <2>2, <2>3, <2>4, <2>5, <2>6, <2>7 DEF Moves
<1> QED BY <1>3, <1>4

\* Handlers keep the receipts true.
LEMMA ReceiptsMove ==
  ASSUME TypeOK, TypeOK', OwnersSound, ReceiptsSound, NEW c \in Calls, Moves(c), NEW o \in Ops
  PROVE  ReceiptSound(o)'
<1> USE WorkTypes
<1>1. work' = work /\ \A d \in Calls : Op(d)' = Op(d) /\ Kind(d)' = Kind(d)
  BY DEF Moves, OthersWait, Op, Kind
<1>2. OwnerSound(c) /\ ReceiptSound(o) /\ op[o].by \in Calls \cup {None}
  BY DEF OwnersSound, ReceiptsSound, TypeOK, Operation
<1>a. \A d \in Calls \ {c} : call'[d].pc = call[d].pc
  BY DEF Moves, OthersWait, Waits
<1>3. CASE o # Op(c)
  <2>1. Kept(o) /\ op[o].by # c
    BY <1>2, <1>3 DEF Moves, OthersWait, ReceiptSound
  <2> QED BY <1>1, <1>2, <1>3, <1>a, <2>1 DEF ReceiptSound, Kept, SameClaim, Known, Verdicts
<1>4. CASE o = Op(c)
  <2>1. CASE Arrives(c)
    <3>1. op[o].by # c
      BY <1>2, <1>4, <2>1 DEF Arrives, OwnerSound
    <3>2. op[o].old /\ op[o].receipt # "unknown" => Kind(c) \in Queries
      BY <1>2, <1>4, <2>1 DEF Arrives, MayAsk, ReceiptSound, Verdicts
    <3> QED BY <1>1, <1>2, <1>4, <1>a, <2>1, <3>1, <3>2 DEF Arrives, ReceiptSound, Kept, SameClaim, Known, Verdicts
  <2>2. CASE Answers(c) \/ Emergency(c)
    <3>1. op[o].by # c /\ (call[c].pc \in Resting => call'[c].pc \in Resting)
      BY <1>2, <1>4, <2>2 DEF Answers, Emergency, OwnerSound, Resting
    <3>2. Kept(o)
      BY <1>4, <2>2 DEF Answers, Emergency
    <3> QED BY <1>1, <1>2, <1>4, <1>a, <3>1, <3>2 DEF ReceiptSound, Kept, SameClaim, Known, Verdicts
  <2>3. CASE Claims(c)
    <3>1. /\ op[o].by = None /\ op[o].effect = "untouched" /\ ~op[o].old
      BY <1>4, <2>3, ClaimIsFresh DEF Claims, Resting
    <3>2. /\ op'[o].by = c /\ op'[o].effect = "untouched" /\ ~op'[o].old /\ op'[o].receipt # "absent"
          /\ op'[o].receipt # "completed"
      BY <1>4, <2>3, <3>1 DEF Claims
    <3>3. op'[o].receipt \in Verdicts => call'[c].pc = "done"
      BY <1>4, <2>3 DEF Claims, Verdicts
    <3>4. Kind(c) \notin Queries \cup {"read"} /\ c # None
      BY <2>3 DEF Claims
    <3> QED BY <1>1, <1>4, <3>2, <3>3, <3>4 DEF ReceiptSound, True
  <2>4. CASE (Proceeds(c) /\ Kind(c) # "read") \/ Sends(c) \/ Settles(c) \/ Registers(c)
    <3>1. op[o].by = c /\ call[c].pc \in Working /\ ~op[o].old
      BY <1>2, <1>4, <2>4 DEF Proceeds, Sends, Settles, Registers, OwnerSound, ReceiptSound, Working,
         Effectful, Effects
    <3>2. op'[o].by = c /\ ~op'[o].old /\ c # None
      BY <1>4, <2>4, <3>1 DEF Proceeds, Sends, Settles, Registers, SameClaim
    <3>3. op[o].receipt # "absent" /\ Kind(c) \notin Queries \cup {"read"}
      BY <1>2, <3>1, <3>2 DEF ReceiptSound
    <3>4. op'[o].receipt # "absent"
      BY <1>4, <2>4, <3>3 DEF Proceeds, Sends, Settles, Registers, SameClaim, Verdicts
    <3>5. Kind(c) \in Effectful => op[o].receipt \in {"admitted", "running"}
      BY <1>2, <1>4, <3>1 DEF OwnerSound
    <3>6. Kind(c) \in Effectful /\ op'[o].receipt \in Verdicts =>
             call'[c].pc \in {"done", "dead"} /\ True(op'[o].receipt, op'[o].effect)
      <4>1. CASE Settles(c)
        BY <1>4, <4>1 DEF Settles, SameClaim, True, Known, Verdicts
      <4>2. CASE Proceeds(c) \/ Sends(c) \/ Registers(c)
        BY <1>4, <3>5, <4>2 DEF Proceeds, Sends, Registers, Verdicts, Effectful, Effects
      <4> QED BY <2>4, <4>1, <4>2
    <3> QED BY <1>1, <1>4, <3>2, <3>3, <3>4, <3>6 DEF ReceiptSound
  <2>5. CASE Reads(c) \/ (Proceeds(c) /\ Kind(c) = "read")
    <3>1. Kept(o) /\ call[c].pc \notin Resting /\ Kind(c) = "read"
      BY <1>4, <2>5 DEF Reads, Proceeds, Kept, Working, Resting
    <3>2. op[o].by # c
      BY <1>2, <1>4, <3>1 DEF ReceiptSound
    <3>3. op[o].old => op[o].receipt = "unknown"
      BY <1>2, <1>4, <3>1 DEF ReceiptSound, Queries
    <3> QED BY <1>1, <1>2, <1>4, <1>a, <3>1, <3>2, <3>3 DEF ReceiptSound, Kept, SameClaim, Known
  <2> QED BY <2>1, <2>2, <2>3, <2>4, <2>5 DEF Moves
<1> QED BY <1>3, <1>4

\* Handlers tell the truth, and what they told stays true.
LEMMA RepliesMove ==
  ASSUME TypeOK, TypeOK', OwnersSound, ReceiptsSound, RepliesSound, NEW c \in Calls, Moves(c), NEW d \in Calls
  PROVE  ToldSound(d)'
<1> USE WorkTypes
<1>1. work' = work /\ \A x \in Calls : Op(x)' = Op(x) /\ Kind(x)' = Kind(x)
  BY DEF Moves, OthersWait, Op, Kind
<1>2. /\ OwnerSound(c) /\ ToldSound(d) /\ ReceiptSound(Op(d))
      /\ op[Op(d)].by \in Calls \cup {None}
  BY DEF OwnersSound, ReceiptsSound, RepliesSound, Operation
<1>s. ASSUME call'[d].told = call[d].told PROVE ToldSound(d)'
  <2> SUFFICES ASSUME call[d].told \in Known, Kind(d) # "read"
               PROVE  /\ op'[Op(d)].by # None
                      /\ About(d)' \in Effectful => /\ call'[op'[Op(d)].by].pc \in {"done", "dead"}
                                                     /\ True(call[d].told, op'[Op(d)].effect)
    BY <1>s, <1>1 DEF ToldSound
  <2>1. op[Op(d)].by \in Calls /\ op'[Op(d)].by = op[Op(d)].by
    BY <1>2, ClaimsStay DEF ToldSound
  <2>2. About(d)' = About(d)
    BY <1>1, <2>1 DEF About
  <2>3. ASSUME About(d) \in Effectful
        PROVE  /\ call'[op[Op(d)].by].pc \in {"done", "dead"} /\ True(call[d].told, op'[Op(d)].effect)
    <3>1. call[op[Op(d)].by].pc \in {"done", "dead"} /\ True(call[d].told, op[Op(d)].effect)
      BY <1>2, <2>3 DEF ToldSound
    <3>2. op[Op(d)].by # c
      BY <3>1, ClaimsStay
    <3> QED BY <2>1, <3>1, <3>2, ClaimsStay DEF Moves, OthersWait, Waits
  <2> QED BY <2>1, <2>2, <2>3
<1>3. CASE d # c
  BY <1>3, <1>s DEF Moves, OthersWait, Waits
<1>4. CASE d = c
  <2>1. CASE Arrives(c) \/ Proceeds(c) \/ Sends(c) \/ Registers(c)
    BY <1>4, <1>s, <2>1 DEF Arrives, Proceeds, Sends, Registers
  <2>2. CASE Answers(c)
    <3> SUFFICES ASSUME call'[c].told \in Known, Kind(c) # "read"
                 PROVE  /\ op'[Op(c)].by # None
                        /\ About(c)' \in Effectful => /\ call'[op'[Op(c)].by].pc \in {"done", "dead"}
                                                       /\ True(call'[c].told, op'[Op(c)].effect)
      BY <1>4, <1>1 DEF ToldSound
    <3>1. op[Op(c)].receipt = call'[c].told /\ (Kind(c) = "status" \/ SameIntent(op[Op(c)].by, c))
      BY <2>2 DEF Answers
    <3>2. op[Op(c)].by \in Calls /\ op'[Op(c)].by = op[Op(c)].by /\ op[Op(c)].by # c
          /\ op'[Op(c)].effect = op[Op(c)].effect
      BY <1>2, <1>4, <2>2, <3>1 DEF ReceiptSound, Known, Answers, Kept, SameClaim, OwnerSound
    <3>3. About(c)' = Kind(op[Op(c)].by)
      BY <1>1, <3>1, <3>2 DEF About, SameIntent
    <3>4. call'[op[Op(c)].by].pc = call[op[Op(c)].by].pc
      BY <3>2 DEF Moves, OthersWait, Waits
    <3> QED BY <1>2, <1>4, <3>1, <3>2, <3>3, <3>4 DEF ReceiptSound, Known, Verdicts
  <2>3. CASE Claims(c)
    <3>1. op[Op(c)].by = None /\ op[Op(c)].effect = "untouched" /\ op'[Op(c)].by = c /\ c # None
          /\ op'[Op(c)].effect = "untouched"
      BY <2>3, ClaimIsFresh DEF Claims, Resting
    <3>2. CASE call'[c].told = call[c].told
      BY <1>4, <1>s, <3>2
    <3>3. CASE call'[c].pc = "done" /\ call'[c].told \in {"failed", "unknown", "receipt_store_unavailable"}
      BY <1>1, <1>4, <3>1, <3>3 DEF ToldSound, Known, True
    <3> QED BY <2>3, <3>2, <3>3 DEF Claims
  <2>4. CASE Settles(c)
    <3>1. op[Op(c)].by = c /\ c # None /\ op'[Op(c)].by = c /\ op'[Op(c)].effect = op[Op(c)].effect
          /\ call'[c].pc = "done"
      BY <1>2, <2>4 DEF Settles, OwnerSound, SameClaim
    <3>2. About(c)' = Kind(c)
      BY <1>1, <3>1 DEF About
    <3> QED BY <1>1, <1>4, <2>4, <3>1, <3>2 DEF ToldSound, Settles
  <2>5. CASE Reads(c)
    BY <1>1, <1>4, <2>5 DEF Reads, ToldSound
  <2>6. CASE Emergency(c)
    BY <1>1, <1>4, <1>s, <2>6 DEF Emergency, ToldSound, Known
  <2> QED BY <2>1, <2>2, <2>3, <2>4, <2>5, <2>6 DEF Moves
<1> QED BY <1>3, <1>4

\* What shells and hosts do on their own is quiet.
LEMMA QuietSteps ==
  ASSUME TypeOK,
         \/ \E s \in Sessions : FinishSession(s) \/ Disconnect(s) \/ DeadlinePasses(s) \/ SweepSession(s)
         \/ \E h \in Hosts : HostChanges(h)
         \/ UNCHANGED vars
  PROVE  Quiet
<1>1. call' = call => \A d \in Calls : Waits(d)
  BY DEF Waits
<1>2. ASSUME NEW s, call' = [call EXCEPT ![Starter(s)].sock = "closed"]
      PROVE  \A d \in Calls : Waits(d)
  <2>1. \A k \in Call : LET m == [k EXCEPT !.sock = "closed"] IN
           m.pc = k.pc /\ m.told = k.told /\ m.fate = k.fate /\ m.sock = "closed"
    BY DEF Call
  <2>2. \A d \in Calls : call[d] \in Call /\ (call'[d] = call[d] \/ call'[d] = [call[d] EXCEPT !.sock = "closed"])
    BY <1>2 DEF TypeOK
  <2> QED BY <2>1, <2>2 DEF Waits
<1> QED BY <1>1, <1>2 DEF Quiet, vars, FinishSession, Disconnect, DeadlinePasses, SweepSession, HostChanges

\* A restart ends every call and leaves what is still open unknown.
LEMMA RestartMoves ==
  ASSUME TypeOK, Restart
  PROVE  /\ work' = work /\ lease' = {}
         /\ \A c \in Calls : /\ call'[c].pc = (IF call[c].pc \in {"idle", "done"} THEN call[c].pc ELSE "dead")
                             /\ call'[c].sock = (IF call[c].sock = "open" THEN "closed" ELSE call[c].sock)
                             /\ call'[c].told = call[c].told /\ call'[c].fate = call[c].fate
         /\ \A o \in Ops : SameClaim(o) /\ op'[o].receipt = Recovered(op[o].receipt)
         /\ \A s \in Ops : /\ sess'[s].mem = "none"
                           /\ sess'[s].row = (IF sess[s].row \in {"live", "closing"} THEN "lost" ELSE sess[s].row)
<1>1. work' = work /\ lease' = {}
  BY DEF Restart
<1>2. ASSUME NEW c \in Calls
      PROVE  /\ call'[c].pc = (IF call[c].pc \in {"idle", "done"} THEN call[c].pc ELSE "dead")
             /\ call'[c].sock = (IF call[c].sock = "open" THEN "closed" ELSE call[c].sock)
             /\ call'[c].told = call[c].told /\ call'[c].fate = call[c].fate
  <2>1. call[c] \in Call
    BY DEF TypeOK
  <2>2. call'[c] = [call[c] EXCEPT !.pc = IF call[c].pc \in {"idle", "done"} THEN call[c].pc ELSE "dead",
                                   !.sock = IF call[c].sock = "open" THEN "closed" ELSE call[c].sock]
    BY DEF Restart
  <2> QED BY <2>1, <2>2 DEF Call
<1>3. ASSUME NEW o \in Ops PROVE SameClaim(o) /\ op'[o].receipt = Recovered(op[o].receipt)
  <2>1. op[o] \in Operation /\ op'[o] = [op[o] EXCEPT !.receipt = Recovered(op[o].receipt)]
    BY DEF Restart, TypeOK
  <2> QED BY <2>1 DEF SameClaim, Operation
<1>4. ASSUME NEW s \in Ops
      PROVE  /\ sess'[s].mem = "none"
             /\ sess'[s].row = (IF sess[s].row \in {"live", "closing"} THEN "lost" ELSE sess[s].row)
  <2>1. sess[s] \in Shell
    BY DEF TypeOK
  <2>2. sess'[s] = [sess[s] EXCEPT !.mem = "none", !.busy = None, !.due = FALSE,
                       !.row = IF sess[s].row \in {"live", "closing"} THEN "lost" ELSE sess[s].row]
    BY DEF Restart
  <2> QED BY <2>1, <2>2 DEF Shell
<1> QED BY <1>1, <1>2, <1>3, <1>4

\* A receipt grows old alone.
LEMMA AgeMoves ==
  ASSUME TypeOK, NEW o \in Ops, GrowsOld(o)
  PROVE  /\ work' = work /\ call' = call /\ \A p \in Ops \ {o} : op'[p] = op[p]
         /\ op'[o].by = op[o].by /\ op'[o].effect = op[o].effect /\ op'[o].receipt = op[o].receipt
         /\ op'[o].old
<1>1. op[o] \in Operation /\ op'[o] = [op[o] EXCEPT !.old = TRUE] /\ \A p \in Ops \ {o} : op'[p] = op[p]
  BY DEF GrowsOld, TypeOK
<1>2. \A p \in Operation : LET q == [p EXCEPT !.old = TRUE] IN
         q.by = p.by /\ q.effect = p.effect /\ q.receipt = p.receipt /\ q.old
  BY DEF Operation
<1> QED BY <1>1, <1>2 DEF GrowsOld

\* Receipts, owners and replies stay sound over every step.
LEMMA LedgerKept == TypeOK /\ TypeOK' /\ LedgerSound /\ [Next]_vars => LedgerSound'
<1> SUFFICES ASSUME TypeOK, TypeOK', LedgerSound, [Next]_vars PROVE LedgerSound'
  OBVIOUS
<1> USE WorkTypes
<1>0. PlacesSound /\ OwnersSound /\ ReceiptsSound /\ RepliesSound
  BY DEF LedgerSound
<1>b. \A o \in Ops : op[o].by \in Calls \cup {None} /\ op[o] \in Operation /\ op'[o] \in Operation
  BY DEF TypeOK, Operation
<1>1. CASE \E c \in Calls : Arrive(c) \/ Works(c)
  <2>1. PICK c \in Calls : Moves(c)
    BY <1>0, <1>1, HandlersMove
  <2>2. PlacesSound'
    BY <1>0, <2>1 DEF Moves, OthersWait, Waits, PlacesSound, PlaceSound, Kind
  <2>3. OwnersSound' /\ ReceiptsSound' /\ RepliesSound'
    BY <1>0, <2>1, OwnersMove, ReceiptsMove, RepliesMove DEF OwnersSound, ReceiptsSound, RepliesSound
  <2> QED BY <2>2, <2>3 DEF LedgerSound
<1>2. CASE Quiet
  <2>1. \A c \in Calls : Op(c)' = Op(c) /\ Kind(c)' = Kind(c) /\ About(c)' = About(c)
    BY <1>2 DEF Quiet, Op, Kind, About
  <2>2. PlacesSound'
    BY <1>0, <1>2, <2>1 DEF Quiet, Waits, PlacesSound, PlaceSound
  <2>3. OwnersSound'
    BY <1>0, <1>2, <2>1 DEF Quiet, Waits, OwnersSound, OwnerSound
  <2>4. ReceiptsSound'
    BY <1>0, <1>2, <1>b, <2>1 DEF Quiet, Waits, ReceiptsSound, ReceiptSound
  <2>5. RepliesSound'
    BY <1>0, <1>2, <1>b, <2>1 DEF Quiet, Waits, RepliesSound, ToldSound
  <2> QED BY <2>2, <2>3, <2>4, <2>5 DEF LedgerSound
<1>3. CASE Restart
  <2>1. /\ work' = work
        /\ \A c \in Calls : Op(c)' = Op(c) /\ Kind(c)' = Kind(c)
    BY <1>3 DEF Restart, Op, Kind
  <2>2. /\ \A c \in Calls : /\ call'[c].pc = (IF call[c].pc \in {"idle", "done"} THEN call[c].pc ELSE "dead")
                            /\ call'[c].told = call[c].told /\ call'[c].fate = call[c].fate
        /\ \A o \in Ops : SameClaim(o) /\ op'[o].receipt = Recovered(op[o].receipt)
    BY <1>3, RestartMoves
  <2>3. PlacesSound'
    BY <2>2 DEF PlacesSound, PlaceSound
  <2>4. OwnersSound'
    BY <1>0, <2>1, <2>2 DEF OwnersSound, OwnerSound, SameClaim, Working
  <2>5. ReceiptsSound'
    <3> SUFFICES ASSUME NEW o \in Ops PROVE ReceiptSound(o)'
      BY DEF ReceiptsSound
    <3>1. ReceiptSound(o) /\ op[o].by \in Calls \cup {None}
      BY <1>0, <1>b DEF ReceiptsSound
    <3>2. SameClaim(o) /\ op'[o].receipt = Recovered(op[o].receipt)
      BY <2>2
    <3>3. op[o].receipt \in Status
      BY <1>b DEF Operation
    <3>4. op[o].by # None =>
            /\ Kind(op[o].by) \in Effectful /\ op'[o].receipt \in Verdicts =>
                 call'[op[o].by].pc \in {"done", "dead"} /\ True(op'[o].receipt, op'[o].effect)
      <4> SUFFICES ASSUME op[o].by \in Calls, Kind(op[o].by) \in Effectful, op'[o].receipt \in Verdicts
                   PROVE  call'[op[o].by].pc \in {"done", "dead"} /\ True(op'[o].receipt, op'[o].effect)
        BY <3>1
      <4>1. call[op[o].by].pc # "idle"
        BY <1>0, <3>1 DEF OwnersSound, OwnerSound, ReceiptSound
      <4>2. call'[op[o].by].pc \in {"done", "dead"}
        BY <2>2, <4>1
      <4>3. op'[o].receipt = "unknown" \/ (op'[o].receipt = op[o].receipt /\ op[o].receipt \in Verdicts)
        BY <3>2, <3>3 DEF Recovered, Status, Verdicts
      <4> QED BY <3>1, <3>2, <4>2, <4>3 DEF ReceiptSound, SameClaim, True
    <3> QED BY <2>1, <2>2, <3>1, <3>2, <3>3, <3>4
            DEF ReceiptSound, SameClaim, Recovered, Status, Verdicts, Resting
  <2>6. RepliesSound'
    <3> SUFFICES ASSUME NEW c \in Calls PROVE ToldSound(c)'
      BY DEF RepliesSound
    <3>1. ToldSound(c) /\ op[Op(c)].by \in Calls \cup {None}
      BY <1>0, <1>b DEF RepliesSound
    <3>2. About(c)' = About(c)
      BY <2>1, <2>2 DEF About, SameClaim, Kind
    <3> QED BY <2>1, <2>2, <3>1, <3>2 DEF ToldSound, SameClaim
  <2> QED BY <2>3, <2>4, <2>5, <2>6 DEF LedgerSound
<1>4. CASE \E o \in Ops : GrowsOld(o)
  <2>1. PICK o \in Ops : GrowsOld(o)
    BY <1>4
  <2>2. /\ work' = work /\ call' = call
        /\ \A p \in Ops : /\ op'[p].by = op[p].by /\ op'[p].effect = op[p].effect
                         /\ op'[p].receipt = op[p].receipt
        /\ \A p \in Ops \ {o} : op'[p].old = op[p].old
    BY <2>1, AgeMoves
  <2>3. \A c \in Calls : Op(c)' = Op(c) /\ Kind(c)' = Kind(c) /\ About(c)' = About(c)
    BY <2>2 DEF Op, Kind, About
  <2>4. PlacesSound' /\ OwnersSound' /\ RepliesSound'
    BY <1>0, <2>2, <2>3 DEF PlacesSound, PlaceSound, OwnersSound, OwnerSound, RepliesSound, ToldSound
  <2>5. ReceiptsSound'
    <3> SUFFICES ASSUME NEW p \in Ops PROVE ReceiptSound(p)'
      BY DEF ReceiptsSound
    <3>1. CASE p # o
      BY <1>0, <1>b, <2>2, <2>3, <3>1 DEF ReceiptsSound, ReceiptSound
    <3>2. CASE p = o
      <4>1. /\ op[o].receipt \in Verdicts
            /\ \A c \in Calls : Op(c) = o => call[c].pc \in Resting
        BY <2>1 DEF GrowsOld, Resting
      <4>2. ReceiptSound(o) /\ op[o].by \in Calls \cup {None}
        BY <1>0, <1>b DEF ReceiptsSound
      <4>3. op[o].by \in Calls /\ Op(op[o].by) = o
        BY <4>1, <4>2 DEF ReceiptSound, Verdicts
      <4>4. call[op[o].by].pc \in {"done", "dead"}
        BY <1>0, <4>1, <4>3 DEF OwnersSound, OwnerSound, Resting
      <4>5. /\ op'[o].by = op[o].by /\ op'[o].effect = op[o].effect /\ op'[o].receipt = op[o].receipt
            /\ op[o].by # None
        BY <2>2, <4>3, WorkloadAssumption
      <4>6. op[o].receipt \notin {"absent"}
        BY <4>1 DEF Verdicts
      <4>7. \A c \in Calls : Op(c)' = o => call'[c].pc \in Resting
        BY <2>2, <2>3, <4>1
      <4> QED BY <2>2, <2>3, <3>2, <4>1, <4>2, <4>3, <4>4, <4>5, <4>6, <4>7 DEF ReceiptSound
    <3> QED BY <3>1, <3>2
  <2> QED BY <2>4, <2>5 DEF LedgerSound
<1> QED BY <1>1, <1>2, <1>3, <1>4, QuietSteps DEF Next

\* Denials stay true over every step: the effect of a claim changes only by its owner.
LEMMA DenialsKept == TypeOK /\ TypeOK' /\ LedgerSound /\ DenialsSound /\ [Next]_vars => DenialsSound'
<1> SUFFICES ASSUME TypeOK, TypeOK', LedgerSound, DenialsSound, [Next]_vars, NEW d \in Calls
             PROVE  DenialSound(d)'
  BY DEF DenialsSound
<1> USE WorkTypes
<1>0. PlacesSound /\ OwnersSound /\ ReceiptsSound /\ DenialSound(d) /\ Op(d) \in Ops
  BY DEF LedgerSound, DenialsSound
<1>k. ASSUME work' = work, call'[d].told = call[d].told, call[d].pc = "done" => call'[d].pc = "done",
             op'[Op(d)].by = d => op[Op(d)].by = d /\ op'[Op(d)].effect = op[Op(d)].effect
      PROVE  DenialSound(d)'
  <2>1. Kind(d)' = Kind(d) /\ Op(d)' = Op(d)
    BY <1>k DEF Kind, Op
  <2> QED BY <1>0, <1>k, <2>1 DEF DenialSound
<1>1. ASSUME NEW c \in Calls, Moves(c) PROVE DenialSound(d)'
  <2>1. work' = work /\ Kind(d)' = Kind(d) /\ Op(d)' = Op(d)
    BY <1>1 DEF Moves, OthersWait, Kind, Op
  <2>2. CASE d # c
    <3>1. op'[Op(d)].by = d => op[Op(d)].by = d
      BY <1>0, <1>1, <2>2, ClaimsStay DEF Moves, OthersWait, Kept, SameClaim, Claims, Arrives, Answers,
         Proceeds, Sends, Settles, Registers, Reads, Emergency
    <3>2. op[Op(d)].by = d => op'[Op(d)].effect = op[Op(d)].effect
      BY <1>0, <1>1, <2>2, ClaimsStay
    <3> QED BY <1>1, <1>k, <2>1, <2>2, <3>1, <3>2 DEF Moves, OthersWait, Waits
  <2>3. CASE d = c
    <3>0. call[c].pc # "done"
      BY <1>0, <1>1, ClaimsStay
    <3>1. call[c].told \in CallErrors => Kind(c) = "read"
      BY <1>0, <2>3, <3>0 DEF DenialSound
    <3>2. CASE \/ Arrives(c) \/ Proceeds(c) \/ Sends(c) \/ Registers(c)
               \/ call'[c].told = call[c].told
      BY <2>1, <2>3, <3>1, <3>2 DEF DenialSound, Arrives, Proceeds, Sends, Registers
    <3>3. CASE Answers(c)
      <4>1. op'[Op(c)].by # c /\ call'[c].pc = "done"
        BY <1>0, <3>3 DEF Answers, Kept, SameClaim, OwnersSound, OwnerSound
      <4> QED BY <2>1, <2>3, <4>1 DEF DenialSound
    <3>4. CASE Claims(c) /\ call'[c].pc = "done"
      <4>1. op'[Op(c)].effect = "untouched"
        BY <1>0, <3>4, ClaimIsFresh DEF Claims, Resting
      <4> QED BY <2>1, <2>3, <3>4, <4>1 DEF DenialSound
    <3>5. CASE Settles(c) \/ (Emergency(c) /\ call'[c].told = "unknown")
      <4>1. call'[c].told \notin CallErrors
        BY <3>5 DEF Settles, Verdicts, CallErrors
      <4> QED BY <2>3, <4>1 DEF DenialSound
    <3>6. CASE Reads(c)
      BY <2>1, <2>3, <3>6 DEF DenialSound, Reads
    <3> QED BY <1>1, <3>2, <3>3, <3>4, <3>5, <3>6 DEF Moves, Claims, Emergency
  <2> QED BY <2>2, <2>3
<1>2. CASE \E c \in Calls : Arrive(c) \/ Works(c)
  BY <1>0, <1>1, <1>2, HandlersMove
<1>3. CASE Quiet
  BY <1>0, <1>k, <1>3 DEF Quiet, Waits
<1>4. CASE Restart
  <2>1. SameClaim(Op(d)) /\ work' = work /\ call'[d].told = call[d].told
        /\ (call[d].pc = "done" => call'[d].pc = "done")
    BY <1>0, <1>4, RestartMoves
  <2> QED BY <1>k, <2>1 DEF SameClaim
<1>5. CASE \E o \in Ops : GrowsOld(o)
  <2>1. work' = work /\ call' = call /\ op'[Op(d)].by = op[Op(d)].by /\ op'[Op(d)].effect = op[Op(d)].effect
    BY <1>0, <1>5, AgeMoves
  <2> QED BY <1>k, <2>1
<1> QED BY <1>2, <1>3, <1>4, <1>5, QuietSteps DEF Next

-----------------------------------------------------------------------------
(* Shells and sockets *)

\* What a step does to a shell.
Stays(s) == sess'[s].mem = sess[s].mem /\ sess'[s].row = sess[s].row
Closes(s) == /\ sess[s].mem = "live" /\ sess'[s].mem = "closing"
             /\ sess'[s].row \in {sess[s].row, "closing"} /\ call'[Starter(s)].sock = "closed"
Ends(s) == /\ sess[s].mem = "closing" /\ sess'[s].mem \in {"closed", "lost"}
           /\ sess'[s].row \in {sess[s].row, "closed", "lost"}
Opens(s) == /\ op[s].by \in Calls /\ Kind(Starter(s)) = "start" /\ call[Starter(s)].pc = "busy"
            /\ call'[Starter(s)].pc = "alarm" /\ sess'[s].mem = "live" /\ sess'[s].row = "live"
ShellStep(s) == Stays(s) \/ Closes(s) \/ Ends(s) \/ Opens(s)

\* Settling closes a live shell and its socket, and nothing else.
LEMMA SettlingCloses ==
  ASSUME TypeOK, ShellsSound, NEW s \in Ops, NEW status \in {"closed", "lost"}, NEW l \in Shell,
         l.mem = Settling(s, status).mem, l.row = Settling(s, status).row,
         sess' = [sess EXCEPT ![s] = l],
         sess[s].mem = "live" => call'[Starter(s)].sock = "closed"
  PROVE  \A t \in Ops : ShellStep(t)
<1>1. sess'[s] = l /\ \A t \in Ops \ {s} : sess'[t] = sess[t]
  BY DEF TypeOK
<1>2. sess[s] \in Shell
  BY DEF TypeOK
<1>3. CASE sess[s].mem = "live"
  <2>1. Settling(s, status).mem = "closing" /\ Settling(s, status).row \in {sess[s].row, "closing"}
    BY <1>2, <1>3 DEF Settling, Shell
  <2> QED BY <1>1, <1>3, <2>1 DEF ShellStep, Stays, Closes
<1>4. CASE sess[s].mem # "live"
  BY <1>1, <1>4 DEF Settling, ShellStep, Stays
<1> QED BY <1>3, <1>4

\* Handlers open, keep or close shells.
LEMMA HandlersShells ==
  ASSUME TypeOK, PlacesSound, OwnersSound, ShellsSound, NEW c \in Calls, Arrive(c) \/ Works(c)
  PROVE  \A s \in Ops : ShellStep(s)
<1> USE WorkTypes
<1>s. sess' = sess => \A s \in Ops : ShellStep(s)
  BY DEF ShellStep, Stays
<1>k. ASSUME NEW s \in Ops, NEW l \in Shell, l.mem = sess[s].mem, l.row = sess[s].row,
             sess' = [sess EXCEPT ![s] = l]
      PROVE  \A t \in Ops : ShellStep(t)
  BY <1>k DEF ShellStep, Stays, TypeOK
<1>b. \A l \in Shell, b \in Calls \cup {None} : LET m == [l EXCEPT !.busy = b] IN
         m \in Shell /\ m.mem = l.mem /\ m.row = l.row
  BY DEF Shell
<1>c. ASSUME NEW pc \in {"settle", "stop", "estop"}, NEW fate \in Verdicts,
             call' = ClosedBy(c, On(c), pc, fate), sess[On(c)].mem = "live"
      PROVE  call'[Starter(On(c))].sock = "closed"
  <2>1. Starter(On(c)) \in Calls
    BY <1>c DEF ShellsSound, ShellSound, Starter, TypeOK, Operation
  <2>2. \A k \in Call : [k EXCEPT !.sock = "closed"].sock = "closed"
    BY DEF Call
  <2>3. call[Starter(On(c))] \in Call /\ [call[c] EXCEPT !.pc = pc, !.fate = fate] \in Call
    BY <2>1 DEF TypeOK, Call
  <2> QED BY <1>c, <2>1, <2>2, <2>3 DEF ClosedBy
<1>l. ASSUME NEW n, NEW told, NEW stored, NEW after \in Shell,
             Leave(c, On(c), n, stored, told, after),
             after.mem = sess[On(c)].mem, after.row = sess[On(c)].row
      PROVE  \A s \in Ops : ShellStep(s)
  <2>1. sess' = [sess EXCEPT ![On(c)] = [after EXCEPT !.busy = None]]
    BY <1>l DEF Leave
  <2> QED BY <2>1, <1>l, <1>b, <1>k
<1>t. Verdicts \subseteq Told /\ {"completed", "failed", "unknown"} \subseteq Verdicts
  BY DEF Told, Verdicts
<1>g. \A status \in {"closed", "lost"} : Settling(On(c), status) \in Shell
  BY ShellTypes
<1>1. CASE OpenSocket(c)
  <2>1. sess' = sess \/ sess' = [sess EXCEPT ![Op(c)] = [sess[Op(c)] EXCEPT !.gen = SecurityDigest(Host(c))]]
    BY <1>1 DEF OpenSocket, TypeOK
  <2>2. saved[Host(c)] \in 0..2
    BY DEF TypeOK
  <2>3. LET l == [sess[Op(c)] EXCEPT !.gen = SecurityDigest(Host(c))] IN
           l \in Shell /\ l.mem = sess[Op(c)].mem /\ l.row = sess[Op(c)].row
    BY <2>2 DEF Shell, SecurityDigest
  <2> QED BY <2>1, <2>3, <1>s, <1>k
<1>2. CASE Register(c)
  <2>1. op[Op(c)].by = c /\ call[c].pc = "busy" /\ Kind(c) = "start"
    BY <1>2 DEF Register, OwnersSound, OwnerSound, Working
  <2>2. CASE /\ sess' = [sess EXCEPT ![Op(c)] = [@ EXCEPT !.mem = "live", !.row = "live"]]
             /\ call' = [call EXCEPT ![c].pc = "alarm"]
    <3>1. sess'[Op(c)] = [sess[Op(c)] EXCEPT !.mem = "live", !.row = "live"]
          /\ \A t \in Ops \ {Op(c)} : sess'[t] = sess[t]
      BY <2>2 DEF TypeOK
    <3>2. sess'[Op(c)].mem = "live" /\ sess'[Op(c)].row = "live"
      BY <3>1 DEF Shell
    <3>3. call'[c].pc = "alarm"
      BY <2>2 DEF TypeOK, Call
    <3> QED BY <2>1, <3>1, <3>2, <3>3 DEF ShellStep, Stays, Opens, Starter
  <2> QED BY <1>2, <1>s, <2>2 DEF Register
<1>3. CASE InputBegin(c)
  <2>1. sess' = sess \/ sess' = [sess EXCEPT ![On(c)] = [sess[On(c)] EXCEPT !.busy = c]]
    BY <1>3 DEF InputBegin, TypeOK
  <2> QED BY <2>1, <1>b, <1>k, <1>s
<1>4. CASE InputCheck(c)
  <2>1. CASE /\ sess' = [sess EXCEPT ![On(c)] = Settling(On(c), "closed")]
             /\ call' = ClosedBy(c, On(c), "settle", "failed")
    BY <2>1, <1>c, <1>t, <1>g, SettlingCloses
  <2>2. ASSUME NEW n \in 0..3, Leave(c, On(c), n, Stored(Op(c), "failed", n), "failed", sess[On(c)])
        PROVE  \A s \in Ops : ShellStep(s)
    BY <2>2, <1>l
  <2> QED BY <1>4, <1>s, <2>1, <2>2 DEF InputCheck
<1>5. CASE InputWritten(c)
  <2>1. CASE /\ sess' = [sess EXCEPT ![On(c)] = Settling(On(c), "lost")]
             /\ call' = ClosedBy(c, On(c), "settle", "unknown")
    BY <2>1, <1>c, <1>t, <1>g, SettlingCloses
  <2>2. ASSUME NEW n \in 0..3, NEW due \in {sess[On(c)].due, FALSE},
               Leave(c, On(c), n, Stored(Op(c), "completed", n), "completed",
                     [sess[On(c)] EXCEPT !.due = due])
        PROVE  \A s \in Ops : ShellStep(s)
    <3>1. LET m == [sess[On(c)] EXCEPT !.due = due] IN
             m \in Shell /\ m.mem = sess[On(c)].mem /\ m.row = sess[On(c)].row
      BY DEF Shell
    <3> QED BY <2>2, <3>1, <1>l
  <2> QED BY <1>5, <2>1, <2>2 DEF InputWritten
<1>6. CASE InputSettled(c)
  <2>1. PICK n \in 0..3 :
          Leave(c, On(c), n, IF call[c].fate = "failed" THEN Stored(Op(c), "failed", n)
                             ELSE Uncertain(Op(c), n), call[c].fate, sess[On(c)])
    BY <1>6 DEF InputSettled
  <2> QED BY <2>1, <1>l
<1>7. CASE StopBegin(c)
  <2>1. ASSUME NEW pc \in {"stop", "estop"}, NEW fate \in {"completed", "unknown"},
               sess' = [sess EXCEPT ![On(c)] = [Settling(On(c), "closed") EXCEPT !.busy = c]],
               call' = ClosedBy(c, On(c), pc, fate)
        PROVE  \A s \in Ops : ShellStep(s)
    BY <2>1, <1>c, <1>t, <1>g, <1>b, SettlingCloses
  <2> QED BY <1>7, <2>1, <1>s DEF StopBegin
<1>8. CASE StopEnd(c)
  <2>1. ASSUME call[c].pc = "stop", NEW n \in 0..3,
               Leave(c, On(c), n, Stored(Op(c), call[c].fate, n), call[c].fate, sess[On(c)])
        PROVE  \A s \in Ops : ShellStep(s)
    BY <2>1, <1>l
  <2>2. CASE sess' = [sess EXCEPT ![On(c)].busy = None]
    <3>1. sess' = [sess EXCEPT ![On(c)] = [sess[On(c)] EXCEPT !.busy = None]]
      BY <2>2 DEF TypeOK
    <3> QED BY <3>1, <1>b, <1>k
  <2> QED BY <1>8, <1>s, <2>1, <2>2 DEF StopEnd
<1>9. CASE \/ Arrive(c) \/ Claim(c) \/ ReserveConnection(c) \/ Refused(c) \/ Dispatch(c) \/ Result(c)
           \/ Deadline(c) \/ Persist(c) \/ Alarm(c) \/ OperationStatus(c) \/ SessionStatus(c)
  <2>1. sess' = sess
    BY <1>9 DEF Arrive, Claim, ReserveConnection, Refused, Dispatch, Result,
       Deadline, Persist, Alarm, OperationStatus, SessionStatus
  <2> QED BY <2>1, <1>s
<1> QED BY <1>1, <1>2, <1>3, <1>4, <1>5, <1>6, <1>7, <1>8, <1>9
        DEF Works, ExecClaim, StartClaim, SftpClaim, ExecDeadline, SftpDeadline, ShellDeadline

\* A shell ends, or stays as it is.
LEMMA ShellsEnd ==
  ASSUME TypeOK, ShellsSound, NEW s \in Sessions,
         FinishSession(s) \/ Disconnect(s) \/ DeadlinePasses(s) \/ SweepSession(s)
  PROVE  \A t \in Ops : ShellStep(t)
<1>1. s \in Ops /\ sess[s] \in Shell
  BY WorkTypes DEF Sessions, TypeOK, Op
<1>2. CASE FinishSession(s)
  <2>1. PICK throws \in BOOLEAN :
          sess' = [sess EXCEPT ![s] = [@ EXCEPT !.mem = sess[s].goal,
                                !.row = IF throws THEN sess[s].row ELSE sess[s].goal]]
    BY <1>2 DEF FinishSession
  <2>2. sess'[s] = [sess[s] EXCEPT !.mem = sess[s].goal,
                                   !.row = IF throws THEN sess[s].row ELSE sess[s].goal]
        /\ \A t \in Ops \ {s} : sess'[t] = sess[t]
    BY <1>1, <2>1 DEF TypeOK
  <2>3. sess[s].mem = "closing"
    BY <1>2 DEF FinishSession
  <2>4. Ends(s)
    BY <1>1, <2>2, <2>3 DEF Ends, Shell
  <2> QED BY <2>2, <2>4 DEF ShellStep, Stays
<1>3. CASE DeadlinePasses(s)
  <2>1. sess' = [sess EXCEPT ![s] = [sess[s] EXCEPT !.due = TRUE]]
    BY <1>1, <1>3 DEF DeadlinePasses, TypeOK
  <2>2. [sess[s] EXCEPT !.due = TRUE].mem = sess[s].mem /\ [sess[s] EXCEPT !.due = TRUE].row = sess[s].row
    BY <1>1 DEF Shell
  <2> QED BY <1>1, <2>1, <2>2 DEF ShellStep, Stays, TypeOK
<1>4. ASSUME NEW status \in {"closed", "lost"}, sess' = [sess EXCEPT ![s] = Settling(s, status)],
             call' = [call EXCEPT ![Starter(s)].sock = "closed"], sess[s].mem = "live"
      PROVE  \A t \in Ops : ShellStep(t)
  <2>1. Starter(s) \in Calls
    BY <1>1, <1>4 DEF ShellsSound, ShellSound, Starter, TypeOK, Operation
  <2>2. call'[Starter(s)].sock = "closed"
    BY <1>4, <2>1 DEF TypeOK, Call
  <2> QED BY <1>1, <1>4, <2>2, ShellTypes, SettlingCloses
<1> QED BY <1>2, <1>3, <1>4 DEF Disconnect, SweepSession

\* A socket opens once, on a call that connects; closed it stays closed.
SocketStep(c) == \/ call'[c].sock \in {call[c].sock, "closed"}
                 \/ call[c].pc = "connect" /\ call'[c].pc = "connect" /\ call[c].sock = "none"

\* Handlers open a socket only while they connect.
LEMMA SocketsMove ==
  ASSUME TypeOK, TypeOK', PlacesSound, OwnersSound, NEW c \in Calls, Arrive(c) \/ Works(c)
  PROVE  SocketStep(c)
<1> USE WorkTypes
<1>a. \A k \in Call : call' = [call EXCEPT ![c] = k] => call'[c] = k
  BY DEF TypeOK
<1>b. \A pc, told : LET k == [call[c] EXCEPT !.pc = pc] m == [call[c] EXCEPT !.pc = pc, !.told = told]
                        n == [call[c] EXCEPT !.pc = pc, !.fate = told] IN
         k.sock = call[c].sock /\ m.sock = call[c].sock /\ n.sock = call[c].sock
  BY DEF Call
<1>c. \A reply : Answer(c, reply) => call'[c].sock = call[c].sock
  BY <1>b DEF Answer, TypeOK
<1>p. \A pc : call' = [call EXCEPT ![c].pc = pc] => call'[c].sock = call[c].sock
  BY <1>b DEF TypeOK
<1>f. \A pc, fate : call' = [call EXCEPT ![c] = [@ EXCEPT !.pc = pc, !.fate = fate]] => call'[c].sock = call[c].sock
  BY <1>b DEF TypeOK
<1>q. ASSUME NEW s, NEW pc, NEW fate, call' = ClosedBy(c, s, pc, fate)
      PROVE  call'[c].sock \in {call[c].sock, "closed"}
  <2> DEFINE n == [call[c] EXCEPT !.pc = pc, !.fate = fate]
  <2>1. call'[c] = n \/ call'[c] = [n EXCEPT !.sock = "closed"]
    BY <1>q DEF ClosedBy
  <2>2. [n EXCEPT !.sock = "closed"].sock = "closed"
    BY DEF Call
  <2> QED BY <1>b, <2>1, <2>2
<1>d. \A s, n, stored, told, after : Leave(c, s, n, stored, told, after) => call'[c].sock = call[c].sock
  BY <1>b DEF Leave, TypeOK
<1>1. CASE Arrive(c) \/ Claim(c) \/ ReserveConnection(c) \/ OperationStatus(c) \/ SessionStatus(c)
  BY <1>1, <1>c, <1>p DEF Arrive, Claim, ReserveConnection, OperationStatus, SessionStatus, SocketStep
<1>2. CASE OpenSocket(c)
  BY <1>2 DEF OpenSocket, SocketStep, TypeOK, Call
<1>3. CASE Refused(c) \/ Dispatch(c) \/ Result(c)
  BY <1>3, <1>p, <1>f DEF Refused, Dispatch, Result, SocketStep
<1>4. CASE Deadline(c) \/ Persist(c) \/ Register(c) \/ Alarm(c)
  <2>1. CASE Deadline(c)
    BY <2>1 DEF Deadline, SocketStep, TypeOK, Call
  <2>2. CASE Persist(c)
    BY <2>2 DEF Persist, SocketStep, TypeOK, Call
  <2>3. CASE Register(c) \/ Alarm(c)
    <3>1. CASE call' = [call EXCEPT ![c] = [@ EXCEPT !.pc = "close", !.fate = "unknown", !.sock = "closed"]]
      BY <3>1 DEF SocketStep, TypeOK, Call
    <3>2. CASE call' = [call EXCEPT ![c] = [@ EXCEPT !.pc = "close", !.fate = "failed", !.sock = "closed"]]
      BY <3>2 DEF SocketStep, TypeOK, Call
    <3> QED BY <2>3, <3>1, <3>2, <1>c, <1>p DEF Register, Alarm, SocketStep
  <2> QED BY <1>4, <2>1, <2>2, <2>3
<1>5. CASE InputBegin(c) \/ InputCheck(c) \/ InputWritten(c) \/ InputSettled(c)
  BY <1>5, <1>c, <1>d, <1>p, <1>q DEF InputBegin, InputCheck, InputWritten, InputSettled, SocketStep
<1>6. CASE StopBegin(c) \/ StopEnd(c)
  <2>1. call' = [call EXCEPT ![c].fate = "unknown"] => call'[c].sock = call[c].sock
    BY DEF TypeOK, Call
  <2> QED BY <1>6, <2>1, <1>c, <1>d, <1>p, <1>q DEF StopBegin, StopEnd, SocketStep
<1> QED BY <1>1, <1>2, <1>3, <1>4, <1>5, <1>6
        DEF Works, ExecClaim, StartClaim, SftpClaim, ExecDeadline, SftpDeadline, ShellDeadline

\* Shells stay sound over every step.
LEMMA ShellsKept == TypeOK /\ TypeOK' /\ LedgerSound /\ ShellsSound /\ [Next]_vars => ShellsSound'
<1> SUFFICES ASSUME TypeOK, TypeOK', LedgerSound, ShellsSound, [Next]_vars, NEW s \in Ops
             PROVE  ShellSound(s)'
  BY DEF ShellsSound
<1>0. PlacesSound /\ OwnersSound /\ ReceiptsSound /\ ShellSound(s)
  BY DEF LedgerSound, ShellsSound
<1>b. op[s].by \in Calls \cup {None} /\ sess[s] \in Shell /\ sess'[s] \in Shell
  BY DEF TypeOK, Operation
<1>n. None \notin Calls
  BY WorkloadAssumption
<1>k. ASSUME work' = work, op[s].by # None => op'[s].by = op[s].by, ShellStep(s),
             op[s].by \in Calls =>
               /\ call[op[s].by].pc \in {"alarm", "close", "done", "dead"} =>
                    call'[op[s].by].pc \in {"alarm", "close", "done", "dead"}
               /\ call[op[s].by].pc # "connect" /\ call[op[s].by].sock # "none" => call'[op[s].by].sock # "none"
               /\ call[op[s].by].sock = "closed" => call'[op[s].by].sock = "closed"
      PROVE  ShellSound(s)'
  <2>1. \A c \in Calls : Kind(c)' = Kind(c)
    BY <1>k DEF Kind
  <2>2. CASE Stays(s)
    BY <1>0, <1>b, <1>k, <2>1, <2>2 DEF Stays, ShellSound, Starter
  <2>3. CASE Closes(s)
    BY <1>0, <1>b, <1>k, <2>1, <2>3 DEF Closes, ShellSound, Starter, Over
  <2>4. CASE Ends(s)
    BY <1>0, <1>b, <1>k, <2>1, <2>4 DEF Ends, ShellSound, Starter, Over
  <2>5. CASE Opens(s)
    <3>1. call[op[s].by].sock # "none"
      BY <1>0, <2>5 DEF Opens, Starter, PlacesSound, PlaceSound
    <3> QED BY <1>n, <1>b, <1>k, <2>1, <2>5, <3>1 DEF Opens, ShellSound, Starter, Over
  <2> QED BY <1>k, <2>2, <2>3, <2>4, <2>5 DEF ShellStep
<1>1. ASSUME NEW c \in Calls, Arrive(c) \/ Works(c) PROVE ShellSound(s)'
  <2>1. Moves(c) /\ SocketStep(c) /\ ShellStep(s)
    BY <1>0, <1>1, HandlersMove, SocketsMove, HandlersShells
  <2>2. work' = work /\ (op[s].by # None => op'[s].by = op[s].by)
    BY <1>0, <2>1, ClaimsStay DEF Moves, OthersWait
  <2>3. ASSUME op[s].by \in Calls
        PROVE  /\ call[op[s].by].pc \in {"alarm", "close", "done", "dead"} =>
                    call'[op[s].by].pc \in {"alarm", "close", "done", "dead"}
               /\ call[op[s].by].pc # "connect" /\ call[op[s].by].sock # "none" => call'[op[s].by].sock # "none"
               /\ call[op[s].by].sock = "closed" => call'[op[s].by].sock = "closed"
    <3>1. CASE op[s].by # c
      BY <2>1, <2>3, <3>1 DEF Moves, OthersWait, Waits
    <3>2. CASE op[s].by = c
      <4>1. /\ call[c].sock = "closed" => call'[c].sock = "closed"
            /\ call[c].pc # "connect" /\ call[c].sock # "none" => call'[c].sock # "none"
        BY <2>1 DEF SocketStep
      <4>2. call[c].pc \notin {"done", "dead"} /\ Kind(c) # "read"
        BY <1>0, <1>n, <2>1, <3>2, ClaimsStay DEF ReceiptsSound, ReceiptSound
      <4>3. call[c].pc \in {"alarm", "close"} => call'[c].pc \in {"alarm", "close", "done", "dead"}
        BY <2>1, <4>2 DEF Moves, Arrives, Answers, Claims, Proceeds, Sends, Settles, Registers, Reads, Emergency
      <4> QED BY <3>2, <4>1, <4>2, <4>3
    <3> QED BY <3>1, <3>2
  <2> QED BY <1>k, <2>1, <2>2, <2>3
<1>2. CASE Quiet /\ ShellStep(s)
  BY <1>b, <1>k, <1>2 DEF Quiet, Waits
<1>3. CASE Restart
  <2>1. \A c \in Calls : Kind(c)' = Kind(c)
    BY <1>3 DEF Restart, Kind
  <2>2. /\ \A c \in Calls : /\ call'[c].pc = (IF call[c].pc \in {"idle", "done"} THEN call[c].pc ELSE "dead")
                            /\ call'[c].sock = (IF call[c].sock = "open" THEN "closed" ELSE call[c].sock)
        /\ op'[s].by = op[s].by
        /\ sess'[s].mem = "none"
        /\ sess'[s].row = (IF sess[s].row \in {"live", "closing"} THEN "lost" ELSE sess[s].row)
    BY <1>3, RestartMoves DEF SameClaim
  <2>3. ASSUME sess[s].row # "none"
        PROVE  call'[op[s].by].sock = "closed" /\ call'[op[s].by].pc \in {"done", "dead"} /\ op[s].by \in Calls
    <3>1. op[s].by \in Calls /\ call[op[s].by].pc \in {"alarm", "close", "done", "dead"}
      BY <1>0, <1>b, <2>3 DEF ShellSound, Starter
    <3>2. call[op[s].by].sock # "none"
      BY <1>0, <2>3 DEF ShellSound, Starter
    <3>3. call[op[s].by].sock \in {"open", "closed"}
      BY <3>1, <3>2, WorkTypes DEF Call
    <3> QED BY <2>2, <3>1, <3>3
  <2> QED BY <1>0, <1>b, <2>1, <2>2, <2>3 DEF ShellSound, Starter
<1>4. CASE \E o \in Ops : GrowsOld(o)
  <2>1. work' = work /\ call' = call /\ op'[s].by = op[s].by
    BY <1>4, AgeMoves
  <2>2. sess' = sess
    BY <1>4 DEF GrowsOld
  <2> QED BY <1>k, <2>1, <2>2 DEF ShellStep, Stays
<1>5. CASE \/ \E t \in Sessions : FinishSession(t) \/ Disconnect(t) \/ DeadlinePasses(t) \/ SweepSession(t)
           \/ \E h \in Hosts : HostChanges(h)
           \/ UNCHANGED vars
  <2>1. Quiet
    BY <1>5, QuietSteps
  <2>2. ShellStep(s)
    <3>1. (\E h \in Hosts : HostChanges(h)) \/ UNCHANGED vars => sess' = sess
      BY DEF HostChanges, vars
    <3>2. sess' = sess => ShellStep(s)
      BY DEF ShellStep, Stays
    <3> QED BY <1>5, <3>1, <3>2, ShellsEnd
  <2> QED BY <1>2, <2>1, <2>2
<1> QED BY <1>1, <1>2, <1>3, <1>4, <1>5 DEF Next

\* A shell that is gone stays gone.
LEMMA GoneStays ==
  ASSUME TypeOK, LedgerSound, ShellsSound, [Next]_vars, NEW s \in Ops, Gone(s)
  PROVE  Gone(s)'
<1>0. PlacesSound /\ OwnersSound /\ ShellSound(s)
  BY DEF LedgerSound, ShellsSound
<1>1. CASE ShellStep(s)
  <2>1. ~Opens(s)
    BY <1>0 DEF Gone, ShellSound, Opens
  <2> QED BY <1>1, <2>1 DEF ShellStep, Stays, Closes, Ends, Gone
<1>2. CASE Restart
  BY <1>2, RestartMoves DEF Gone
<1>3. CASE \E c \in Calls : Arrive(c) \/ Works(c)
  BY <1>0, <1>1, <1>3, HandlersShells
<1>4. CASE \E t \in Sessions : FinishSession(t) \/ Disconnect(t) \/ DeadlinePasses(t) \/ SweepSession(t)
  BY <1>1, <1>4, ShellsEnd
<1>5. CASE (\E h \in Hosts : HostChanges(h)) \/ (\E o \in Ops : GrowsOld(o)) \/ UNCHANGED vars
  <2>1. sess' = sess
    BY <1>5 DEF HostChanges, GrowsOld, vars
  <2> QED BY <2>1 DEF Gone
<1> QED BY <1>2, <1>3, <1>4, <1>5 DEF Next

\* Views stay true: whoever was told that a shell is going finds its socket closed for good.
LEMMA ViewsKept ==
  TypeOK /\ TypeOK' /\ LedgerSound /\ ShellsSound /\ ViewsSound /\ [Next]_vars => ViewsSound'
<1> SUFFICES ASSUME TypeOK, TypeOK', LedgerSound, ShellsSound, ViewsSound, [Next]_vars, NEW d \in Calls
             PROVE  ViewSound(d)'
  BY DEF ViewsSound
<1>0. /\ PlacesSound /\ OwnersSound /\ ReceiptsSound /\ ViewSound(d)
      /\ On(d) \in Ops /\ op[On(d)].by \in Calls \cup {None} /\ None \notin Calls
  BY WorkTypes DEF LedgerSound, ViewsSound, TypeOK, Operation
<1>k. ASSUME work' = work, Kind(d) = "view" => call'[d].told = call[d].told,
             op[On(d)].by # None => op'[On(d)].by = op[On(d)].by,
             \A c \in Calls : call[c].sock = "closed" => call'[c].sock = "closed"
      PROVE  ViewSound(d)'
  <2>1. Kind(d)' = Kind(d) /\ On(d)' = On(d)
    BY <1>k DEF Kind, On
  <2> QED BY <1>0, <1>k, <2>1 DEF ViewSound, Starter
<1>1. ASSUME NEW c \in Calls, Arrive(c) \/ Works(c) PROVE ViewSound(d)'
  <2>1. Moves(c) /\ SocketStep(c)
    BY <1>0, <1>1, HandlersMove, SocketsMove
  <2>2. work' = work /\ (op[On(d)].by # None => op'[On(d)].by = op[On(d)].by)
    BY <1>0, <2>1, ClaimsStay DEF Moves, OthersWait
  <2>3. \A x \in Calls : call[x].sock = "closed" => call'[x].sock = "closed"
    BY <2>1 DEF Moves, OthersWait, Waits, SocketStep
  <2>4. CASE d # c
    BY <1>k, <2>1, <2>2, <2>3, <2>4 DEF Moves, OthersWait, Waits
  <2>5. CASE d = c /\ call'[c].told = call[c].told
    BY <1>k, <2>2, <2>3, <2>5
  <2>6. CASE d = c /\ Answers(c)
    <3> SUFFICES ASSUME Kind(c) = "view", call'[c].told \in Over PROVE ViewSound(c)'
      BY <2>2, <2>6 DEF ViewSound, Kind
    <3>1. SessionView(On(c)) \in Over
      BY <2>6 DEF Answers
    <3>2. {sess[On(c)].mem, sess[On(c)].row} \cap Over # {}
      BY <3>1 DEF SessionView
    <3>3. sess[On(c)].row # "none"
      BY <1>0, <2>6, <3>2 DEF Over, ShellsSound, ShellSound
    <3>4. Starter(On(c)) # None /\ call[Starter(On(c))].sock = "closed"
      BY <1>0, <2>6, <3>2, <3>3 DEF ShellsSound, ShellSound
    <3>5. On(c)' = On(c)
      BY <2>2 DEF On
    <3> QED BY <1>0, <2>2, <2>3, <2>6, <3>4, <3>5 DEF ViewSound, Starter
  <2>7. CASE Kind(c) # "view" /\ d = c
    BY <2>2, <2>7 DEF ViewSound, Kind
  <2>8. CASE Kind(c) = "view" /\ ~Answers(c)
    BY <1>0, <2>1, <2>4, <2>5, <2>8
       DEF Moves, Arrives, Claims, Proceeds, Sends, Settles, Registers, Reads, Emergency, Queries, Working,
           PlacesSound, PlaceSound, Connecting, Effects
  <2> QED BY <2>4, <2>6, <2>7, <2>8
<1>2. CASE Quiet
  BY <1>k, <1>2 DEF Quiet, Waits
<1>3. CASE Restart
  BY <1>0, <1>k, <1>3, RestartMoves DEF SameClaim
<1>4. CASE \E o \in Ops : GrowsOld(o)
  <2>1. work' = work /\ call' = call /\ op'[On(d)].by = op[On(d)].by
    BY <1>0, <1>4, AgeMoves
  <2> QED BY <1>k, <2>1
<1> QED BY <1>1, <1>2, <1>3, <1>4, QuietSteps DEF Next

\* Stops stay true: a shell whose stop is under way or was reported takes no more input.
LEMMA StopsKept ==
  TypeOK /\ TypeOK' /\ LedgerSound /\ ShellsSound /\ StopsSound /\ [Next]_vars => StopsSound'
<1> SUFFICES ASSUME TypeOK, TypeOK', LedgerSound, ShellsSound, StopsSound, [Next]_vars, NEW d \in Calls
             PROVE  StopSound(d)'
  BY DEF StopsSound
<1>0. /\ PlacesSound /\ OwnersSound /\ ReceiptsSound /\ StopSound(d)
      /\ On(d) \in Ops /\ Op(d) \in Ops /\ op[Op(d)].by \in Calls \cup {None} /\ None \notin Calls
      /\ op[Op(d)].receipt \in Status
  BY WorkTypes DEF LedgerSound, StopsSound, TypeOK, Operation
<1>g. Gone(On(d)) => sess'[On(d)].row # "none" /\ sess'[On(d)].mem # "live"
  BY <1>0, GoneStays DEF Gone
<1>k. ASSUME work' = work,
             Kind(d) = "stop" => /\ call'[d].pc = "stop" => call[d].pc = "stop"
                                 /\ call'[d].told = "completed" => call[d].told = "completed"
                                 /\ op'[Op(d)].by = d /\ op'[Op(d)].receipt = "completed" =>
                                      op[Op(d)].by = d /\ op[Op(d)].receipt = "completed"
      PROVE  StopSound(d)'
  <2>1. Kind(d)' = Kind(d) /\ On(d)' = On(d) /\ Op(d)' = Op(d)
    BY <1>k DEF Kind, On, Op
  <2> QED BY <1>0, <1>g, <1>k, <2>1 DEF StopSound, Gone
<1>e. ASSUME work' = work, Gone(On(d)) PROVE StopSound(d)'
  <2>1. On(d)' = On(d)
    BY <1>e DEF On
  <2> QED BY <1>e, <1>g, <2>1 DEF StopSound, Gone
<1>1. ASSUME NEW c \in Calls, Moves(c) PROVE StopSound(d)'
  <2>1. work' = work
    BY <1>1 DEF Moves, OthersWait
  <2>n. Kind(d) # "stop" => StopSound(d)'
    BY <2>1 DEF StopSound, Kind
  <2>2. CASE d # c
    <3>1. op'[Op(d)].by = d => op[Op(d)].by = d
      BY <1>0, <1>1, <2>2, ClaimsStay DEF Moves, OthersWait, Kept, SameClaim, Claims, Arrives, Answers,
         Proceeds, Sends, Settles, Registers, Reads, Emergency
    <3>2. op[Op(d)].by = d /\ op'[Op(d)].receipt = "completed" => op[Op(d)].receipt = "completed"
      <4> SUFFICES ASSUME op[Op(d)].by = d, op'[Op(d)].receipt = "completed"
                   PROVE  op[Op(d)].receipt = "completed"
        OBVIOUS
      <4>1. CASE Op(d) # Op(c)
        BY <1>0, <1>1, <4>1 DEF Moves, OthersWait, Kept
      <4>2. CASE Op(d) = Op(c)
        <5>1. ~Settles(c) /\ ~Registers(c)
          BY <1>0, <2>2, <4>2 DEF Settles, Registers, OwnersSound, OwnerSound, Working
        <5> QED BY <1>1, <4>2, <5>1 DEF Moves, Kept, Claims, Arrives, Answers, Proceeds, Sends, Reads, Emergency
      <4> QED BY <4>1, <4>2
    <3> QED BY <1>1, <1>k, <2>1, <2>2, <3>1, <3>2 DEF Moves, OthersWait, Waits
  <2>3. CASE d = c /\ Kind(c) = "stop"
    <3>1. CASE call[c].pc = "stop"
      BY <1>0, <1>e, <2>1, <2>3, <3>1 DEF StopSound
    <3>2. CASE Arrives(c) \/ Emergency(c)
      <4>1. op[Op(c)].by # c
        BY <1>0, <2>3, <3>2 DEF Arrives, Emergency, OwnersSound, OwnerSound
      <4> QED BY <1>k, <2>1, <2>3, <3>2, <4>1 DEF Arrives, Emergency, Kept, SameClaim
    <3>3. CASE Answers(c)
      <4>1. op'[Op(c)].by # c
        BY <1>0, <2>3, <3>3 DEF Answers, Kept, SameClaim, OwnersSound, OwnerSound
      <4>2. CASE call'[c].told = "completed"
        <5>1. op[Op(c)].receipt = "completed" /\ SameIntent(op[Op(c)].by, c)
          BY <2>3, <3>3, <4>2 DEF Answers, Known
        <5>2. op[Op(c)].by \in Calls /\ Op(op[Op(c)].by) = Op(c)
          BY <1>0, <2>3, <5>1 DEF ReceiptsSound, ReceiptSound
        <5>3. Gone(On(op[Op(c)].by))
          BY <2>3, <5>1, <5>2 DEF StopsSound, StopSound, SameIntent
        <5>4. On(op[Op(c)].by) = On(c)
          BY <2>3, <5>1 DEF SameIntent
        <5> QED BY <1>e, <2>1, <2>3, <5>3, <5>4
      <4>3. CASE call'[c].told # "completed"
        BY <1>k, <2>1, <2>3, <3>3, <4>1, <4>3 DEF Answers
      <4> QED BY <4>2, <4>3
    <3>4. CASE Claims(c)
      <4>1. CASE call'[c].pc = "stop"
        BY <2>1, <2>3, <3>4, <4>1 DEF Claims, StopSound, Gone
      <4>2. CASE call'[c].pc # "stop"
        BY <1>k, <2>1, <2>3, <3>4, <4>2 DEF Claims
      <4> QED BY <4>1, <4>2
    <3>5. CASE \/ Proceeds(c) \/ Sends(c) \/ Settles(c) \/ Registers(c) \/ Reads(c)
      BY <1>0, <2>3, <3>1, <3>5 DEF Proceeds, Sends, Settles, Registers, Reads, Working, PlacesSound,
         PlaceSound, Connecting, Effects, Effectful
    <3> QED BY <1>1, <3>2, <3>3, <3>4, <3>5 DEF Moves
  <2> QED BY <2>n, <2>2, <2>3
<1>2. CASE \E c \in Calls : Arrive(c) \/ Works(c)
  BY <1>0, <1>1, <1>2, HandlersMove
<1>3. CASE Quiet
  BY <1>0, <1>k, <1>3 DEF Quiet, Waits
<1>4. CASE Restart
  <2>1. op'[Op(d)].receipt = "completed" => op[Op(d)].receipt = "completed"
    BY <1>0, <1>4, RestartMoves DEF Recovered
  <2> QED BY <1>0, <1>k, <1>4, <2>1, RestartMoves DEF SameClaim
<1>5. CASE \E o \in Ops : GrowsOld(o)
  <2>1. work' = work /\ call' = call /\ op'[Op(d)].by = op[Op(d)].by /\ op'[Op(d)].receipt = op[Op(d)].receipt
    BY <1>0, <1>5, AgeMoves
  <2> QED BY <1>k, <2>1
<1> QED BY <1>2, <1>3, <1>4, <1>5, QuietSteps DEF Next

-----------------------------------------------------------------------------
(* Leases *)

OfHost(S, h) == {c \in S : Host(c) = h}

\* A lease more within the limits of Free, or fewer leases, stay within the limits.
LEMMA LeaseCounts ==
  ASSUME TypeOK, LeasesBounded, work' = work, NEW c \in Calls,
         lease' \subseteq lease \/ (lease' = lease \cup {c} /\ Free(Host(c)))
  PROVE  LeasesBounded'
<1>1. \A x \in Calls : Host(x)' = Host(x)
  BY DEF Host
<1>2. /\ IsFiniteSet(lease) /\ Cardinality(lease) <= TotalLimit /\ lease \subseteq Calls
      /\ \A h \in Hosts : Cardinality(OfHost(lease, h)) <= HostLimit
  BY DEF LeasesBounded, TypeOK, OfHost
<1>3. TotalLimit \in Nat /\ HostLimit \in Nat
  BY LimitAssumption
<1>4. \A S, T : S \subseteq T /\ IsFiniteSet(T) =>
        IsFiniteSet(S) /\ Cardinality(S) <= Cardinality(T) /\ Cardinality(S) \in Nat /\ Cardinality(T) \in Nat
  BY FS_Subset, FS_CardinalityType
<1>5. SUFFICES /\ IsFiniteSet(lease') /\ Cardinality(lease') <= TotalLimit /\ lease' \subseteq Calls
               /\ \A h \in Hosts : Cardinality(OfHost(lease', h)) <= HostLimit
  <2>1. \A h \in Hosts : OfHost(lease', h) = {x \in lease' : Host(x)' = h}
    BY <1>1, <1>5 DEF OfHost
  <2> QED BY <1>5, <2>1 DEF LeasesBounded
<1>6. CASE lease' \subseteq lease
  <2>1. IsFiniteSet(lease') /\ Cardinality(lease') <= TotalLimit
    BY <1>2, <1>3, <1>4, <1>6
  <2>2. ASSUME NEW h \in Hosts PROVE Cardinality(OfHost(lease', h)) <= HostLimit
    <3>1. OfHost(lease', h) \subseteq OfHost(lease, h) /\ OfHost(lease, h) \subseteq lease
      BY <1>6 DEF OfHost
    <3>2. IsFiniteSet(OfHost(lease, h)) /\ Cardinality(OfHost(lease, h)) <= HostLimit
      BY <1>2, <1>4, <3>1
    <3> QED BY <1>3, <1>4, <3>1, <3>2
  <2> QED BY <1>2, <1>6, <2>1, <2>2
<1>7. CASE lease' = lease \cup {c} /\ Free(Host(c))
  <2>0. Cardinality(lease) < TotalLimit /\ Cardinality(OfHost(lease, Host(c))) < HostLimit
    BY <1>7 DEF Free, OfHost
  <2>1. \A S : IsFiniteSet(S) => /\ IsFiniteSet(S \cup {c}) /\ Cardinality(S) \in Nat
                                /\ Cardinality(S \cup {c}) <= Cardinality(S) + 1
                                /\ Cardinality(S \cup {c}) \in Nat
    BY FS_AddElement, FS_CardinalityType
  <2>2. IsFiniteSet(lease') /\ Cardinality(lease') <= TotalLimit /\ lease' \subseteq Calls
    BY <1>2, <1>3, <1>7, <2>0, <2>1
  <2>3. ASSUME NEW h \in Hosts PROVE Cardinality(OfHost(lease', h)) <= HostLimit
    <3>1. OfHost(lease, h) \subseteq lease
      BY DEF OfHost
    <3>2. IsFiniteSet(OfHost(lease, h)) /\ Cardinality(OfHost(lease, h)) <= HostLimit
      BY <1>2, <1>4, <3>1
    <3>3. CASE h = Host(c)
      <4>1. OfHost(lease', h) = OfHost(lease, h) \cup {c}
        BY <1>7, <3>3 DEF OfHost
      <4> QED BY <1>3, <2>0, <2>1, <3>2, <3>3, <4>1
    <3>4. CASE h # Host(c)
      <4>1. OfHost(lease', h) = OfHost(lease, h)
        BY <1>7, <3>4 DEF OfHost
      <4> QED BY <3>2, <4>1
    <3> QED BY <3>3, <3>4
  <2> QED BY <2>2, <2>3
<1> QED BY <1>6, <1>7

\* What a handler does to the leases: nothing, its own admission, or its own release with
\* its socket.
LeaseStep(c) ==
    /\ \/ lease' = lease
       \/ lease' = lease \cup {c} /\ Free(Host(c))
       \/ lease' = lease \ {c} /\ call'[c].pc = "done" /\ call'[c].sock = "closed"
    /\ call'[c].pc \in {"connect", "busy"} => c \in lease'

\* Handlers connect only under a lease of their own and release it when they are done.
LEMMA HandlersLease ==
  ASSUME TypeOK, TypeOK', PlacesSound, OwnersSound, LeasesHeld, NEW c \in Calls, Arrive(c) \/ Works(c)
  PROVE  LeaseStep(c)
<1> USE WorkTypes
<1>0. LeaseHeld(c)
  BY DEF LeasesHeld
<1>p. \A pc : call' = [call EXCEPT ![c].pc = pc] => call'[c].pc = pc
  BY DEF TypeOK, Call
<1>a. \A reply : Answer(c, reply) => call'[c].pc = "done"
  BY DEF Answer, TypeOK, Call
<1>1. CASE Arrive(c) \/ OperationStatus(c) \/ SessionStatus(c)
  BY <1>1, <1>a, <1>p DEF Arrive, OperationStatus, SessionStatus, LeaseStep
<1>2. CASE Claim(c)
  BY <1>2, <1>a, <1>p DEF Claim, LeaseStep
<1>3. CASE ReserveConnection(c)
  BY <1>3, <1>a, <1>p DEF ReserveConnection, LeaseStep
<1>4. CASE OpenSocket(c) \/ Dispatch(c)
  <2>1. lease' = lease /\ call[c].pc = "connect"
    BY <1>4 DEF OpenSocket, Dispatch
  <2> QED BY <1>0, <2>1 DEF LeaseHeld, LeaseStep
<1>5. CASE Refused(c) \/ Result(c) \/ Deadline(c)
  <2>1. lease' = lease
    BY <1>5, Zenon DEF Refused, Result, Deadline
  <2>2. CASE Refused(c)
    <3>1. [call[c] EXCEPT !.pc = "close", !.fate = "failed"].pc = "close"
      BY DEF Call
    <3>2. call'[c] = [call[c] EXCEPT !.pc = "close", !.fate = "failed"]
      BY <2>2 DEF Refused, TypeOK
    <3> QED BY <2>1, <3>1, <3>2 DEF LeaseStep
  <2>3. CASE Result(c)
    <3>1. PICK v \in Results(c) : call' = [call EXCEPT ![c] = [@ EXCEPT !.pc = "close", !.fate = v]]
      BY <2>3, Zenon DEF Result
    <3>2. [call[c] EXCEPT !.pc = "close", !.fate = v].pc = "close"
      BY DEF Call
    <3>3. call'[c] = [call[c] EXCEPT !.pc = "close", !.fate = v]
      BY <3>1 DEF TypeOK
    <3> QED BY <2>1, <3>2, <3>3 DEF LeaseStep
  <2>4. CASE Deadline(c)
    <3> DEFINE sock == IF call[c].sock = "open" THEN "closed" ELSE call[c].sock
               k == [call[c] EXCEPT !.pc = "close", !.fate = TimedOut(c), !.sock = sock]
    <3>1. k.pc = "close"
      BY DEF Call
    <3>2. call'[c] = k
      BY <2>4 DEF Deadline, TypeOK
    <3> QED BY <2>1, <3>1, <3>2 DEF LeaseStep
  <2> QED BY <1>5, <2>2, <2>3, <2>4
<1>6. CASE Persist(c)
  <2>1. PICK throws \in BOOLEAN : Release(c, throws)
    BY <1>6 DEF Persist
  <2>2. call'[c].pc = "done" /\ call'[c].sock = "closed"
    BY <1>6 DEF Persist, TypeOK, Call
  <2> QED BY <2>1, <2>2 DEF Release, LeaseStep
<1>7. CASE Register(c) \/ Alarm(c)
  <2>1. lease' = lease
    BY <1>7 DEF Register, Alarm
  <2>2. \A fate \in Verdicts :
          [call[c] EXCEPT !.pc = "close", !.fate = fate, !.sock = "closed"].pc = "close"
    BY DEF Call
  <2>3. \A fate \in Verdicts :
          call' = [call EXCEPT ![c] = [@ EXCEPT !.pc = "close", !.fate = fate, !.sock = "closed"]]
            => call'[c].pc = "close"
    BY <2>2 DEF TypeOK
  <2>4. call'[c].pc \in {"alarm", "close", "done"}
    BY <1>7, <1>a, <1>p, <2>3 DEF Register, Alarm, Verdicts
  <2> QED BY <2>1, <2>4 DEF LeaseStep
<1>8. CASE \/ InputBegin(c) \/ InputCheck(c) \/ InputWritten(c) \/ InputSettled(c)
           \/ StopBegin(c) \/ StopEnd(c)
  <2>1. lease' = lease
    BY <1>8 DEF InputBegin, InputCheck, InputWritten, InputSettled, StopBegin, StopEnd
  <2>2. Kind(c) \in {"input", "stop"} /\ Kind(c)' = Kind(c)
    BY <1>8 DEF InputBegin, InputCheck, InputWritten, InputSettled, StopBegin, StopEnd, Kind, PlacesSound, PlaceSound
  <2>3. PlaceSound(c)'
    BY <1>8, QueueMoves DEF Moves
  <2>4. call'[c].pc \notin {"connect", "busy"}
    BY <2>2, <2>3 DEF PlaceSound, Connecting, Effects
  <2> QED BY <2>1, <2>4 DEF LeaseStep
<1> QED BY <1>1, <1>2, <1>3, <1>4, <1>5, <1>6, <1>7, <1>8
        DEF Works, ExecClaim, StartClaim, SftpClaim, ExecDeadline, SftpDeadline, ShellDeadline

\* Every connection keeps its lease, and the leases their limits, over every step.
LEMMA LeasesKept ==
  TypeOK /\ TypeOK' /\ LedgerSound /\ ShellsSound /\ LeasesHeld /\ LeasesBounded /\ [Next]_vars
    => LeasesHeld' /\ LeasesBounded'
<1> SUFFICES ASSUME TypeOK, TypeOK', LedgerSound, ShellsSound, LeasesHeld, LeasesBounded, [Next]_vars
             PROVE  LeasesHeld' /\ LeasesBounded'
  OBVIOUS
<1>0. PlacesSound /\ OwnersSound /\ \A d \in Calls : LeaseHeld(d)
  BY DEF LedgerSound, LeasesHeld
<1>s. ASSUME work' = work, lease' \subseteq lease PROVE LeasesBounded'
  <2>1. CASE \E c \in Calls : TRUE
    BY <1>s, <2>1, LeaseCounts
  <2>2. CASE Calls = {}
    <3>1. lease = {} /\ lease' = {}
      BY <1>s, <2>2 DEF TypeOK
    <3>2. \A h \in Hosts : {c \in lease' : Host(c)' = h} = {} /\ {c \in lease : Host(c) = h} = {}
      BY <3>1
    <3> QED BY <3>1, <3>2 DEF LeasesBounded
  <2> QED BY <2>1, <2>2
<1>k. ASSUME lease' = lease, \A d \in Calls : Waits(d) PROVE LeasesHeld'
  BY <1>0, <1>k DEF LeasesHeld, LeaseHeld, Waits
<1>1. ASSUME NEW c \in Calls, Arrive(c) \/ Works(c) PROVE LeasesHeld' /\ LeasesBounded'
  <2>1. Moves(c) /\ SocketStep(c) /\ LeaseStep(c)
    BY <1>0, <1>1, HandlersMove, SocketsMove, HandlersLease
  <2>2. work' = work
    BY <2>1 DEF Moves, OthersWait
  <2>3. LeasesBounded'
    BY <2>1, <2>2, LeaseCounts DEF LeaseStep
  <2>4. LeaseHeld(c)'
    BY <1>0, <2>1 DEF LeaseStep, SocketStep, LeaseHeld
  <2>5. ASSUME NEW d \in Calls \ {c} PROVE LeaseHeld(d)'
    <3>1. d \in lease => d \in lease'
      BY <2>1 DEF LeaseStep
    <3>2. Waits(d) /\ LeaseHeld(d)
      BY <1>0, <2>1 DEF Moves, OthersWait
    <3> QED BY <3>1, <3>2 DEF LeaseHeld, Waits
  <2> QED BY <2>3, <2>4, <2>5 DEF LeasesHeld
<1>2. ASSUME NEW s \in Sessions, FinishSession(s) PROVE LeasesHeld' /\ LeasesBounded'
  <2>1. PICK throws \in BOOLEAN : Release(Starter(s), throws)
    BY <1>2, Zenon DEF FinishSession
  <2>2. /\ work' = work /\ call' = call /\ sess[s].mem = "closing"
        /\ lease' \in {lease, lease \ {Starter(s)}}
    BY <1>2, <2>1 DEF FinishSession, Release
  <2>3. s \in Ops
    BY WorkTypes DEF Sessions, Op
  <2>4. call[Starter(s)].pc \notin {"connect", "busy"} /\ call[Starter(s)].sock = "closed"
    BY <2>2, <2>3 DEF ShellsSound, ShellSound, Over
  <2>5. LeasesHeld'
    BY <1>0, <2>2, <2>4 DEF LeasesHeld, LeaseHeld
  <2> QED BY <1>s, <2>2, <2>5
<1>3. CASE Restart
  <2>1. /\ work' = work /\ lease' = {}
        /\ \A c \in Calls : call'[c].sock # "open" /\ call'[c].pc \notin {"connect", "busy"}
    BY <1>3, RestartMoves
  <2> QED BY <1>s, <2>1 DEF LeasesHeld, LeaseHeld
<1>4. CASE \E o \in Ops : GrowsOld(o)
  <2>1. work' = work /\ call' = call /\ lease' = lease
    BY <1>4 DEF GrowsOld
  <2> QED BY <1>k, <1>s, <2>1 DEF Waits
<1>5. CASE \/ \E t \in Sessions : Disconnect(t) \/ DeadlinePasses(t) \/ SweepSession(t)
           \/ \E h \in Hosts : HostChanges(h)
           \/ UNCHANGED vars
  <2>1. Quiet
    BY <1>5, QuietSteps
  <2>2. lease' = lease
    BY <1>5 DEF Disconnect, DeadlinePasses, SweepSession, HostChanges, vars
  <2> QED BY <1>k, <1>s, <2>1, <2>2 DEF Quiet
<1> QED BY <1>1, <1>2, <1>3, <1>4, <1>5 DEF Next

-----------------------------------------------------------------------------
(* The invariant *)

Inv == /\ TypeOK /\ LedgerSound /\ DenialsSound
       /\ ShellsSound /\ ViewsSound /\ StopsSound
       /\ LeasesHeld /\ LeasesBounded

\* An object that was never called is sound.
LEMMA InitSound == Init => Inv
<1> SUFFICES ASSUME Init PROVE Inv
  OBVIOUS
<1>1. TypeOK
  BY WorkloadAssumption, LimitAssumption
     DEF Init, TypeOK, Call, Operation, Shell, Status, Verdicts
<1>2. LedgerSound
  <2>1. /\ \A c \in Calls : /\ Op(c) \in Ops /\ c # None
                             /\ call[c].pc = "idle" /\ call[c].told = "none" /\ call[c].sock = "none"
        /\ \A o \in Ops : /\ op[o].by = None /\ op[o].receipt = "absent"
                           /\ op[o].effect = "untouched" /\ op[o].old = FALSE
    BY <1>1, WorkTypes DEF Init
  <2>2. PlacesSound /\ OwnersSound
    BY <2>1 DEF PlacesSound, PlaceSound, OwnersSound, OwnerSound, Working
  <2>3. ReceiptsSound
    BY <2>1 DEF ReceiptsSound, ReceiptSound
  <2>4. RepliesSound
    BY <2>1 DEF RepliesSound, ToldSound, Known
  <2> QED BY <2>2, <2>3, <2>4 DEF LedgerSound
<1>3. ShellsSound /\ ViewsSound /\ StopsSound
  BY <1>1, WorkTypes DEF Init, ShellsSound, ShellSound, ViewsSound, ViewSound, StopsSound, StopSound, Over
<1>4. LeasesHeld /\ DenialsSound
  BY DEF Init, LeasesHeld, LeaseHeld, DenialsSound, DenialSound, CallErrors
<1>5. LeasesBounded
  <2>1. lease = {} /\ \A h \in Hosts : {c \in lease : Host(c) = h} = {}
    BY DEF Init
  <2>2. IsFiniteSet({}) /\ Cardinality({}) = 0
    BY FS_EmptySet
  <2> QED BY <2>1, <2>2, LimitAssumption DEF LeasesBounded
<1> QED BY <1>1, <1>2, <1>3, <1>4, <1>5 DEF Inv

\* Every step of the object keeps the invariant.
LEMMA StepSound == Inv /\ [Next]_vars => Inv'
<1> SUFFICES ASSUME Inv, [Next]_vars PROVE Inv'
  OBVIOUS
<1>1. TypeOK'
  BY StepTypes DEF Inv, LedgerSound
<1>2. LedgerSound' /\ ShellsSound' /\ DenialsSound'
  BY <1>1, LedgerKept, ShellsKept, DenialsKept DEF Inv
<1>3. ViewsSound' /\ StopsSound' /\ LeasesHeld' /\ LeasesBounded'
  BY <1>1, ViewsKept, StopsKept, LeasesKept DEF Inv
<1> QED BY <1>1, <1>2, <1>3 DEF Inv

\* The invariant holds at all times.
LEMMA AlwaysSound == Spec => []Inv
BY InitSound, StepSound, PTL DEF Spec

\* Every variable keeps its type: no call is at a place its handler has not, no receipt has
\* a status or an effect ("twice") the tables and hosts cannot show.
THEOREM SshTypeCorrect == Spec => []TypeOK
<1>1. Inv => TypeOK
  BY DEF Inv
<1> QED BY <1>1, AlwaysSound, PTL

-----------------------------------------------------------------------------
(* What the invariant says of replies and connections *)

\* A client is told the truth of every command, file change, input and shell, whatever timed
\* out, threw, restarted or was retried in between: "completed" was carried out, a "failed"
\* outcome was not, and a "failed" for an error of the call sent nothing of its own.
THEOREM RepliesAreHonest == Spec => []HonestReplies
<1>1. ASSUME Inv PROVE HonestReplies
  <2> SUFFICES ASSUME NEW c \in Calls
               PROVE  /\ /\ WireStatus(call[c].told) \in {"completed", "failed"}
                         /\ ~(call[c].told \in CallErrors /\ op[Op(c)].by # c)
                         /\ About(c) \in Effects \cup {"input"}
                         => /\ WireStatus(call[c].told) = "completed" => op[Op(c)].effect = "applied"
                            /\ WireStatus(call[c].told) = "failed" => op[Op(c)].effect \in {"untouched", "refused"}
                      /\ Kind(c) = "view" /\ call[c].told \in {"closing", "closed", "lost"} =>
                           call[Starter(On(c))].sock # "open"
    BY DEF HonestReplies
  <2>1. ToldSound(c) /\ ViewSound(c) /\ DenialSound(c)
    BY <1>1 DEF Inv, LedgerSound, RepliesSound, ViewsSound, DenialsSound
  <2>2. About(c) \in Effects \cup {"input"} => Kind(c) # "read"
    BY DEF About, Effects
  <2>3. CASE call[c].told \in CallErrors
    <3>1. WireStatus(call[c].told) = "failed" /\ call[c].told \notin {"closing", "closed", "lost"}
      BY <2>3 DEF WireStatus, CallErrors
    <3> QED BY <2>1, <2>2, <2>3, <3>1 DEF DenialSound
  <2>4. CASE call[c].told \notin CallErrors
    <3>1. WireStatus(call[c].told) = call[c].told
      BY <2>4 DEF WireStatus
    <3> QED BY <2>1, <2>2, <3>1 DEF ToldSound, ViewSound, True, Effectful, Known, Over
  <2> QED BY <2>3, <2>4
<1> QED BY <1>1, AlwaysSound, PTL

\* The sockets the object holds stay within the total and the per-host limits, whichever mix
\* of commands, file calls and shells opened them.
THEOREM ConnectionsWithinLimits == Spec => []ConnectionsBounded
<1>1. ASSUME Inv PROVE ConnectionsBounded
  <2> DEFINE open == {c \in Calls : call[c].sock = "open"}
  <2>0. LeasesBounded /\ LeasesHeld /\ TotalLimit \in Nat /\ HostLimit \in Nat
    BY <1>1, LimitAssumption DEF Inv
  <2>1. open \subseteq lease
    BY <2>0 DEF LeasesHeld, LeaseHeld
  <2>2. \A S, T : S \subseteq T /\ IsFiniteSet(T) =>
          IsFiniteSet(S) /\ Cardinality(S) <= Cardinality(T) /\ Cardinality(S) \in Nat /\ Cardinality(T) \in Nat
    BY FS_Subset, FS_CardinalityType
  <2>3. IsFiniteSet(lease) /\ Cardinality(lease) <= TotalLimit
    BY <2>0 DEF LeasesBounded
  <2>4. Cardinality(open) <= TotalLimit
    <3> HIDE DEF open
    <3> QED BY <2>0, <2>1, <2>2, <2>3
  <2>5. ASSUME NEW h \in Hosts PROVE Cardinality({c \in open : Host(c) = h}) <= HostLimit
    <3> DEFINE here == {c \in open : Host(c) = h}
               held == {c \in lease : Host(c) = h}
    <3>1. here \subseteq held /\ held \subseteq lease
      BY <2>1
    <3>2. Cardinality(held) <= HostLimit
      BY <2>0 DEF LeasesBounded
    <3> HIDE DEF here, held
    <3>3. IsFiniteSet(held)
      BY <2>2, <2>3, <3>1
    <3>4. Cardinality(here) <= Cardinality(held) /\ Cardinality(here) \in Nat /\ Cardinality(held) \in Nat
      BY <2>2, <3>1, <3>3
    <3>5. Cardinality(here) <= HostLimit
      BY <2>0, <3>2, <3>4
    <3> QED BY <3>5 DEF here
  <2> QED BY <2>4, <2>5 DEF ConnectionsBounded
<1> QED BY <1>1, AlwaysSound, PTL

-----------------------------------------------------------------------------
(* A stopped shell takes no input *)

\* An input is sent only at the check of the call that claimed it, to a shell that lives.
LEMMA InputsNeedLife ==
  ASSUME Inv, [Next]_vars, NEW d \in Calls, Kind(d) = "input", op[Op(d)].by = d,
         sess[On(d)].mem # "live"
  PROVE  op'[Op(d)].effect = op[Op(d)].effect
<1> USE WorkTypes
<1>0. TypeOK /\ PlacesSound /\ OwnersSound /\ ShellsSound /\ OwnerSound(d) /\ PlaceSound(d)
  BY DEF Inv, LedgerSound, OwnersSound, PlacesSound
<1>t. TypeOK'
  BY <1>0, StepTypes
<1>o. Op(d) \in Ops /\ op[Op(d)] \in Operation
  BY <1>0
<1>1. ASSUME NEW c \in Calls, Arrive(c) \/ Works(c) PROVE op'[Op(d)].effect = op[Op(d)].effect
  <2>1. Moves(c)
    BY <1>0, <1>t, <1>1, HandlersMove
  <2>2. CASE Op(c) # Op(d)
    BY <1>o, <2>1, <2>2 DEF Moves, OthersWait, Kept, SameClaim
  <2>3. CASE Op(c) = Op(d) /\ ~Sends(c)
    BY <2>1, <2>3 DEF Moves, Arrives, Answers, Claims, Proceeds, Settles, Registers, Reads, Emergency,
                      Kept, SameClaim
  <2>4. CASE Op(c) = Op(d) /\ Sends(c)
    <3>1. c = d
      BY <1>0, <2>4 DEF Sends, OwnersSound, OwnerSound, Working, Effectful, Effects
    <3>2. call[d].pc = "check"
      BY <1>0, <2>4, <3>1 DEF Sends, PlaceSound, Connecting, Effects
    <3>3. InputCheck(d)
      BY <1>1, <3>1, <3>2
         DEF Arrive, Works, ExecClaim, StartClaim, SftpClaim, Claim, ReserveConnection, OpenSocket, Refused,
             Dispatch, Result, ExecDeadline, SftpDeadline, ShellDeadline, Persist, Register, Alarm, InputBegin,
             MyTurn, InputWritten, InputSettled, StopBegin, StopEnd, OperationStatus, SessionStatus
    <3>4. ~OwnedLive(On(d))
      BY DEF OwnedLive
    <3>5. (op' = op) \/ (\E r : op' = [op EXCEPT ![Op(d)].receipt = r])
      BY <3>3, <3>4, Zenon DEF InputCheck, Leave
    <3>6. \A r : [op[Op(d)] EXCEPT !.receipt = r].effect = op[Op(d)].effect
      BY <1>o DEF Operation
    <3>7. ASSUME NEW r, op' = [op EXCEPT ![Op(d)].receipt = r]
          PROVE  op'[Op(d)].effect = op[Op(d)].effect
      <4>1. op'[Op(d)] = [op[Op(d)] EXCEPT !.receipt = r]
        BY <1>0, <1>o, <3>7 DEF TypeOK
      <4> QED BY <3>6, <4>1
    <3> QED BY <3>5, <3>7
  <2> QED BY <2>2, <2>3, <2>4
<1>2. CASE Restart
  BY <1>0, <1>2, <1>o, RestartMoves DEF SameClaim
<1>3. ASSUME NEW o \in Ops, GrowsOld(o) PROVE op'[Op(d)].effect = op[Op(d)].effect
  BY <1>0, <1>3, <1>o, AgeMoves
<1>4. CASE \/ \E t \in Sessions : FinishSession(t) \/ Disconnect(t) \/ DeadlinePasses(t) \/ SweepSession(t)
           \/ \E h \in Hosts : HostChanges(h)
           \/ UNCHANGED vars
  BY <1>0, <1>4, QuietSteps DEF Quiet
<1> QED BY <1>1, <1>2, <1>3, <1>4 DEF Next

\* Once a stop is answered "completed" no byte is written to that shell any more, not even
\* by an input that was admitted before it and is still being checked.
THEOREM StopsAreFinal == Spec => StoppedIsQuiet
<1> DEFINE Still == \A c, d \in Calls :
                      (/\ Kind(c) = "stop" /\ call[c].told = "completed"
                       /\ Kind(d) = "input" /\ On(d) = On(c) /\ op[Op(d)].by = d)
                          => op'[Op(d)].effect = op[Op(d)].effect
<1>1. Inv /\ [Next]_vars => Still
  <2> SUFFICES ASSUME Inv, [Next]_vars, NEW c \in Calls, NEW d \in Calls,
                      Kind(c) = "stop", call[c].told = "completed",
                      Kind(d) = "input", On(d) = On(c), op[Op(d)].by = d
               PROVE  op'[Op(d)].effect = op[Op(d)].effect
    OBVIOUS
  <2>1. sess[On(d)].mem # "live"
    BY DEF Inv, StopsSound, StopSound, Gone
  <2> QED BY <2>1, InputsNeedLife
<1>2. Inv /\ [Next]_vars => [Still]_vars
  BY <1>1
<1> HIDE DEF Still
<1>3. Spec => [][Still]_vars
  BY <1>2, AlwaysSound, PTL DEF Spec
<1> QED BY <1>3 DEF StoppedIsQuiet, Still

-----------------------------------------------------------------------------
(* The refinement of OnceEffect *)

\* What Once!Next allows the record of one operation to do.
OnceMove(o) ==
    \/ Ledger(o)' = Ledger(o) /\ op'[o].effect = op[o].effect
    \/ Ledger(o) = "new" /\ Ledger(o)' = "claimed" /\ op'[o].effect = op[o].effect
    \/ /\ Ledger(o) = "claimed" /\ Ledger(o)' = "claimed"
       /\ op[o].effect = "untouched" /\ op'[o].effect \in {"applied", "refused"}
    \/ /\ Ledger(o) \in {"new", "claimed"} /\ Ledger(o)' \in {"done", "none", "unknown"}
       /\ op'[o].effect = op[o].effect
       /\ Ledger(o)' = "done" => op[o].effect = "applied"
       /\ Ledger(o)' = "none" => op[o].effect \in {"untouched", "refused"}
    \/ /\ Ledger(o) \in {"done", "none"} /\ Ledger(o)' = "forgotten"
       /\ op'[o].effect = op[o].effect

\* A receipt that is kept stays in the ledger or is forgotten once it is known.
LEMMA KeptMoves ==
  ASSUME NEW o \in Ops, ReceiptSound(o), Kept(o)
  PROVE  OnceMove(o)
BY DEF ReceiptSound, Kept, SameClaim, OnceMove, Ledger, Known

\* Every step moves the record of an effectful operation as OnceEffect allows.
LEMMA StepsOnce ==
  ASSUME Inv, [Next]_vars, NEW o \in AtMostOnce
  PROVE  OnceMove(o)
<1> USE WorkTypes
<1>0. /\ TypeOK /\ PlacesSound /\ OwnersSound /\ ReceiptsSound /\ ShellsSound
      /\ o \in Ops /\ ReceiptSound(o) /\ op[o] \in Operation
      /\ \A c \in Calls : Op(c) = o => Kind(c) \in Effectful \cup {"status"}
  BY DEF Inv, LedgerSound, ReceiptsSound, AtMostOnce, Op, Kind, Effectful, TypeOK
<1>t. TypeOK'
  BY <1>0, StepTypes
<1>1. ASSUME NEW c \in Calls, Arrive(c) \/ Works(c) PROVE OnceMove(o)
  <2>1. Moves(c)
    BY <1>0, <1>t, <1>1, HandlersMove
  <2>2. CASE Op(c) # o
    BY <1>0, <2>1, <2>2, KeptMoves DEF Moves, OthersWait
  <2>3. CASE Op(c) = o
    <3>0. OwnerSound(c) /\ Kind(c) \in Effectful \cup {"status"}
      BY <1>0, <2>3 DEF OwnersSound
    <3>1. CASE Arrives(c) \/ Answers(c)
      BY <1>0, <2>3, <3>1, KeptMoves DEF Arrives, Answers
    <3>2. CASE Claims(c)
      <4>1. op[o].by = None /\ Kind(c) \in Effectful /\ None # c
        BY <1>0, <2>3, <3>0, <3>2, ClaimIsFresh DEF Claims, Queries, Resting, Effectful, Effects
      <4>2. op[o].receipt = "absent" /\ op[o].effect = "untouched"
        BY <1>0, <4>1 DEF ReceiptSound
      <4>3. op'[o].by = c /\ op'[o].effect = op[o].effect /\ op'[o].receipt \notin {"absent", "completed"}
        BY <2>3, <3>2 DEF Claims
      <4>4. op'[o].receipt \in Status
        BY <1>0, <1>t DEF TypeOK, Operation
      <4> QED BY <4>1, <4>2, <4>3, <4>4 DEF OnceMove, Ledger, Status, Verdicts
    <3>3. CASE Proceeds(c)
      BY <2>3, <3>3 DEF Proceeds, SameClaim, OnceMove, Ledger
    <3>4. CASE Sends(c)
      <4>1. op[o].receipt \in {"admitted", "running"} /\ op[o].effect = "untouched"
        BY <2>3, <3>0, <3>4 DEF Sends, OwnerSound, Working
      <4> QED BY <2>3, <3>4, <4>1 DEF Sends, OnceMove, Ledger
    <3>5. CASE Settles(c)
      <4>1. Kind(c) \in Effectful /\ op[o].receipt \in {"admitted", "running"}
        BY <1>0, <2>1, <2>3, <3>0, <3>5 DEF Settles, PlacesSound, PlaceSound, OwnerSound, Working, Effectful, Effects, Connecting
      <4>2. /\ op'[o].effect = op[o].effect /\ op'[o].by = op[o].by
            /\ op'[o].receipt \in {op[o].receipt} \cup Verdicts
            /\ op'[o].receipt \in Known => True(op'[o].receipt, op[o].effect)
        BY <2>3, <3>5, <4>1 DEF Settles, SameClaim
      <4> QED BY <4>1, <4>2 DEF OnceMove, Ledger, Verdicts, Known, True
    <3>6. ~Registers(c) /\ ~Reads(c) /\ ~Emergency(c)
      BY <3>0 DEF Registers, Reads, Emergency, Effectful, Effects
    <3> QED BY <2>1, <3>1, <3>2, <3>3, <3>4, <3>5, <3>6 DEF Moves
  <2> QED BY <2>2, <2>3
<1>2. CASE Restart
  <2>1. SameClaim(o) /\ op'[o].receipt = Recovered(op[o].receipt)
    BY <1>0, <1>2, RestartMoves
  <2> QED BY <2>1 DEF SameClaim, Recovered, OnceMove, Ledger
<1>3. ASSUME NEW p \in Ops, GrowsOld(p) PROVE OnceMove(o)
  BY <1>0, <1>3, AgeMoves DEF OnceMove, Ledger
<1>4. CASE \/ \E t \in Sessions : FinishSession(t) \/ Disconnect(t) \/ DeadlinePasses(t) \/ SweepSession(t)
           \/ \E h \in Hosts : HostChanges(h)
           \/ UNCHANGED vars
  <2>1. op' = op
    BY <1>0, <1>4, QuietSteps DEF Quiet
  <2> QED BY <2>1 DEF OnceMove, Ledger
<1> QED BY <1>1, <1>2, <1>3, <1>4 DEF Next

\* Who asks for what never changes.
LEMMA WorkStays == TypeOK /\ TypeOK' /\ PlacesSound /\ OwnersSound /\ [Next]_vars => work' = work
<1> SUFFICES ASSUME TypeOK, TypeOK', PlacesSound, OwnersSound, [Next]_vars PROVE work' = work
  OBVIOUS
<1>1. ASSUME NEW c \in Calls, Arrive(c) \/ Works(c) PROVE work' = work
  BY <1>1, HandlersMove DEF Moves, OthersWait
<1>2. CASE Restart \/ \E o \in Ops : GrowsOld(o)
  BY <1>2, RestartMoves, AgeMoves
<1>3. CASE \/ \E t \in Sessions : FinishSession(t) \/ Disconnect(t) \/ DeadlinePasses(t) \/ SweepSession(t)
           \/ \E h \in Hosts : HostChanges(h)
           \/ UNCHANGED vars
  BY <1>3, QuietSteps DEF Quiet
<1> QED BY <1>1, <1>2, <1>3 DEF Next

\* Commands, file changes and inputs are claimed before they are sent, sent at most once over
\* retries, timeouts and restarts, and settled once and truthfully: the receipts implement
\* OnceEffect.
THEOREM OperationsOnce == Spec => ImplementsOnceEffect
<1> DEFINE ledgers == [o \in Ops |-> IF o \in AtMostOnce THEN Ledger(o) ELSE "new"]
           effects == [o \in Ops |-> IF o \in AtMostOnce THEN op[o].effect ELSE "untouched"]
<1>1. Init => Once!Init
  BY DEF Init, Once!Init, Ledger
<1>2. Inv /\ [Next]_vars => [Once!Next]_<<ledgers, effects>>
  <2> SUFFICES ASSUME Inv, [Next]_vars, NEW o \in Ops
               PROVE  \/ Once!Stays(o) \/ Once!Claim(o) \/ Once!Send(o) \/ Once!Land(o)
                      \/ Once!Settle(o) \/ Once!Revise(o) \/ Once!Forget(o)
    BY DEF Once!Next
  <2>1. AtMostOnce' = AtMostOnce
    <3>1. TypeOK /\ PlacesSound /\ OwnersSound /\ ShellsSound
      BY DEF Inv, LedgerSound
    <3> QED BY <3>1, StepTypes, WorkStays DEF AtMostOnce
  <2>2. CASE o \notin AtMostOnce
    BY <2>1, <2>2 DEF Once!Stays
  <2>3. CASE o \in AtMostOnce
    <3>1. OnceMove(o)
      BY <2>3, StepsOnce
    <3>2. /\ ledgers[o] = Ledger(o) /\ ledgers'[o] = Ledger(o)'
          /\ effects[o] = op[o].effect /\ effects'[o] = op'[o].effect
      BY <2>1, <2>3
    <3> QED BY <3>1, <3>2 DEF OnceMove, Once!Stays, Once!Claim, Once!Send, Once!Settle, Once!Forget,
                              Once!True, Once!Settled
  <2> QED BY <2>2, <2>3
<1> QED BY <1>1, <1>2, AlwaysSound, PTL DEF Spec, ImplementsOnceEffect, Once!Spec
===============================================================================
