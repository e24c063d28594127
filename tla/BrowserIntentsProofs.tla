------------------------- MODULE BrowserIntentsProofs -------------------------
(***************************************************************************)
(* Proofs about BrowserIntents for every number of intents, observations,  *)
(* attempts, Stop requests and sockets and every workload.                 *)
(***************************************************************************)
EXTENDS BrowserIntents, FiniteSetTheorems, TLAPS

-----------------------------------------------------------------------------
(* Type correctness *)

\* The ledger's statements keep a row well typed.
LEMMA LedgerTypes ==
  ASSUME NEW o \in Intent
  PROVE  /\ Abort(o) \in Intent /\ MarkUnknown(o) \in Intent /\ Terminated(o) \in Intent
         /\ Reconciled(o) \in Intent /\ Swept(o) \in Intent /\ Recovered(o) \in Intent
<1>1. \A p \in Intent : Abort(p) \in Intent
  BY DEF Abort, Intent, Known
<1>2. \A p \in Intent : MarkUnknown(p) \in Intent
  BY DEF MarkUnknown, Intent
<1>3. [o EXCEPT !.pending = "no"] \in Intent /\ [o EXCEPT !.pc = "idle", !.pending = "no"] \in Intent
  BY DEF Intent
<1>4. Swept(o) \in Intent
  BY DEF Swept, Intent, Known
<1> QED BY <1>1, <1>2, <1>3, <1>4 DEF Terminated, Reconciled, Recovered

\* The Durable Object finds no rows, and the extension nothing stored, at first.
LEMMA InitType == Init => TypeOK
BY BrowserAssumption DEF Init, TypeOK, Endpoint, Attempt, StopCall, Socket, Intent, Observation, Extension

\* close() keeps intents, sockets and extension well typed.
LEMMA CloseAllType ==
  ASSUME TypeOK, NEW reason \in {"stopped", "revoked"}, CloseAll(reason)
  PROVE  op' \in [Intents -> Intent] /\ sock' \in [1..Sockets -> Socket] /\ ext' \in Extension
<1>1. op' \in [Intents -> Intent]
  BY LedgerTypes DEF TypeOK, CloseAll
<1>2. sock' \in [1..Sockets -> Socket]
  BY DEF TypeOK, CloseAll, ClosedSockets, Live, Socket
<1>3. ext' \in Extension
  BY DEF TypeOK, CloseAll, Extension
<1> QED BY <1>1, <1>2, <1>3

\* Counters of rows and of the extension stay numbers.
LEMMA Counters ==
  ASSUME TypeOK
  PROVE  /\ ep.rev \in Nat /\ ep.stops \in Nat /\ ep.gen \in Nat /\ ext.epoch \in Nat
         /\ ep.rev + 1 \in Nat /\ ep.stops + 1 \in Nat /\ ep.gen + 1 \in Nat
         /\ ext.epoch + 1 \in Nat /\ 0 \in 0..Sockets
<1>1. ep.rev \in Nat /\ ep.stops \in Nat /\ ep.gen \in Nat
  BY DEF TypeOK, Endpoint
<1>2. ext.epoch \in Nat
  BY DEF TypeOK, Extension
<1> QED BY <1>1, <1>2, BrowserAssumption

\* The workload fixes how often something may fail.
LEMMA FaultsType ==
  ASSUME TypeOK, AlarmFails
  PROVE  faults' \in 0..work.faults
BY BrowserAssumption DEF TypeOK, AlarmFails

\* A denial leaves a well-typed extension.
LEMMA DenyType ==
  ASSUME NEW x \in Extension, NEW d \in Denials
  PROVE  Deny(x, d) \in Extension
<1>1. x.epoch + 1 \in Nat
  BY DEF Extension
<1>2. (x.asked \cup {d}) \in SUBSET Denials
  BY DEF Extension
<1> QED BY <1>1, <1>2 DEF Deny, Extension

\* Activation keeps the types.
LEMMA ActivationType ==
  ASSUME TypeOK, NEW a \in Attempts,
         \/ Begin(a) \/ Authorize(a) \/ Cancel(a) \/ Poll(a) \/ CompleteRead(a)
         \/ CompleteCommit(a) \/ CompleteAnswer(a) \/ PollFails(a)
         \/ GrantPersists(a) \/ GrantSettles(a) \/ AttemptExpires(a)
  PROVE  TypeOK'
<1>a. att[a] \in Attempt /\ ep \in Endpoint /\ ext \in Extension
  BY DEF TypeOK
<1>n. ep.rev \in Nat /\ ep.stops \in Nat /\ ext.epoch \in Nat /\ ext.paired \in BOOLEAN
  BY <1>a DEF Endpoint, Extension
<1>1. CASE Begin(a)
  <2>1. [att[a] EXCEPT !.row = "pending", !.fresh = ~ext.paired,
                       !.stops = ep.stops, !.epoch = ext.epoch] \in Attempt
    BY <1>a, <1>n DEF Attempt
  <2>2. [ext EXCEPT !.attempt = a, !.off = "no"] \in Extension
    BY <1>a DEF Extension
  <2> QED BY <1>1, <2>1, <2>2 DEF Begin, TypeOK, seeing
<1>2. CASE Authorize(a)
  BY <1>2 DEF Authorize, TypeOK, seeing, Attempt
<1>3. CASE Cancel(a)
  BY <1>3 DEF Cancel, TypeOK, seeing, Attempt
<1>4. CASE Poll(a)
  <2>1. [att EXCEPT ![a].call = "sent"] \in [Attempts -> Attempt]
    BY DEF Attempt, TypeOK
  <2>2. [ext EXCEPT !.polling = a] \in Extension
    BY <1>a DEF Extension
  <2> QED BY <1>4, <2>1, <2>2 DEF Poll, TypeOK, seeing
<1>5. CASE CompleteRead(a)
  <2>1. [att[a] EXCEPT !.call = IF Grantable(a) THEN "read" ELSE "refused", !.rev = ep.rev] \in Attempt
    BY <1>a, <1>n DEF Attempt
  <2> QED BY <1>5, <2>1 DEF CompleteRead, TypeOK, seeing
<1>6. CASE CompleteCommit(a)
  <2>1. /\ [att EXCEPT ![a].call = "refused"] \in [Attempts -> Attempt]
        /\ [att[a] EXCEPT !.row = "consumed", !.call = "granted"] \in Attempt
        /\ [att[a] EXCEPT !.row = "consumed", !.call = "refused"] \in Attempt
    BY <1>a DEF Attempt, TypeOK
  <2>2. /\ [ep EXCEPT !.state = "enabled", !.rev = @ + 1] \in Endpoint
        /\ [ep EXCEPT !.state = "revoked", !.rev = @ + 1] \in Endpoint
    BY <1>a, Counters DEF Endpoint
  <2>3. faults' \in 0..work.faults
    BY <1>6, FaultsType DEF CompleteCommit, TypeOK
  <2>4. att' \in [Attempts -> Attempt] /\ ep' \in Endpoint
    BY <1>6, <2>1, <2>2 DEF CompleteCommit, TypeOK
  <2> QED BY <1>6, <2>3, <2>4 DEF CompleteCommit, TypeOK, seeing
<1>7. CASE CompleteAnswer(a)
  <2>1. att' \in [Attempts -> Attempt]
    BY <1>7 DEF CompleteAnswer, TypeOK, Attempt
  <2>2. ep' \in Endpoint
    BY <1>7, <1>a, Counters DEF CompleteAnswer, Endpoint
  <2>3. ext' \in Extension
    BY <1>7, <1>a DEF CompleteAnswer, Extension
  <2> QED BY <1>7, <2>1, <2>2, <2>3 DEF CompleteAnswer, TypeOK, seeing
<1>8. CASE PollFails(a)
  BY <1>8, FaultsType DEF PollFails, TypeOK, seeing, Extension
<1>9. CASE AttemptExpires(a)
  <2>1. [att EXCEPT ![a].row = "consumed"] \in [Attempts -> Attempt]
    BY DEF Attempt, TypeOK
  <2>2. [ext EXCEPT !.attempt = 0] \in Extension
    BY <1>a DEF Extension
  <2> QED BY <1>9, <2>1, <2>2 DEF AttemptExpires, TypeOK, seeing
<1>10. CASE GrantPersists(a)
  <2>1. [ext EXCEPT !.auth = "enabled", !.paired = TRUE, !.pendingStop = FALSE, !.answer = "written"] \in Extension
    BY <1>a DEF Extension
  <2> QED BY <1>10, <2>1 DEF GrantPersists, TypeOK, seeing
<1>11. CASE GrantSettles(a)
  <2> DEFINE done == [ext EXCEPT !.polling = 0, !.answer = "none", !.attempt = 0]
  <2>1. done \in Extension /\ [done EXCEPT !.blocked = FALSE] \in Extension
    BY <1>a DEF Extension
  <2>2. ext' \in {Deny(done, "stop"), [done EXCEPT !.blocked = FALSE]}
    BY <1>11 DEF GrantSettles
  <2> HIDE DEF done
  <2>3. Deny(done, "stop") \in Extension
    BY <2>1, DenyType DEF Denials
  <2> QED BY <1>11, <2>1, <2>2, <2>3 DEF GrantSettles, TypeOK, seeing
<1> QED BY <1>1, <1>2, <1>3, <1>4, <1>5, <1>6, <1>7, <1>8, <1>9, <1>10, <1>11

\* clearNetwork leaves a well-typed extension.
LEMMA NoNetworkType ==
  ASSUME NEW x \in Extension
  PROVE  NoNetwork(x) \in Extension
<1>1. 0 \in 0..Sockets
  BY BrowserAssumption
<1> QED BY <1>1 DEF NoNetwork, Extension

\* The extension's own Stop and Revoke, and what it hears of the owner's, keep the types.
LEMMA LocalStopType ==
  ASSUME TypeOK, \/ StopClick \/ RevokeClick \/ ToldOff \/ SeesClose
                 \/ \E d \in Denials : DenialPersists(d) \/ DenialClears(d)
  PROVE  TypeOK'
<1>a. ext \in Extension /\ ep \in Endpoint
  BY DEF TypeOK
<1>1. CASE StopClick \/ RevokeClick
  <2>1. \A d \in {"stop", "revoke"} : [Deny(ext, d) EXCEPT !.off = "asked"] \in Extension
    <3>1. \A x \in Extension : [x EXCEPT !.off = "asked"] \in Extension
      BY DEF Extension
    <3> QED BY <1>a, <3>1, DenyType DEF Denials
  <2> QED BY <1>1, <2>1 DEF StopClick, RevokeClick, TypeOK, seeing
<1>2. ASSUME NEW d \in Denials, DenialPersists(d)
      PROVE  TypeOK'
  <2>1. ext' \in Extension
    <3>1. (ext.asked \ {d}) \in SUBSET Denials /\ (ext.written \cup {d}) \in SUBSET Denials
      BY <1>a DEF Extension
    <3> QED BY <1>2, <1>a, <3>1 DEF DenialPersists, Extension
  <2> QED BY <1>2, <2>1 DEF DenialPersists, TypeOK, seeing
<1>3. ASSUME NEW d \in Denials, DenialClears(d)
      PROVE  TypeOK'
  <2>1. [ext EXCEPT !.written = @ \ {d}, !.off = IF @ = "asked" /\ ext.asked = {} THEN "yes" ELSE @] \in Extension
    <3>1. (ext.written \ {d}) \in SUBSET Denials
      BY <1>a DEF Extension
    <3> QED BY <1>a, <3>1 DEF Extension
  <2> QED BY <1>3, <2>1, NoNetworkType DEF DenialClears, TypeOK, seeing
<1>4. CASE ToldOff
  <2>1. ext.told \in Denials
    BY <1>4, <1>a DEF ToldOff, Extension, Denials
  <2>2. \A x \in Extension : [x EXCEPT !.told = "none"] \in Extension
    BY DEF Extension
  <2> QED BY <1>4, <1>a, <2>1, <2>2, DenyType DEF ToldOff, TypeOK, seeing
<1>5. CASE SeesClose
  <2>1. ep.state \in {"stopped", "revoked"} =>
          [ext EXCEPT !.auth = ep.state, !.paired = @ /\ ep.state = "stopped"] \in Extension
    BY <1>a DEF Extension
  <2> QED BY <1>5, <1>a, <2>1, NoNetworkType DEF SeesClose, TypeOK, seeing
<1> QED BY <1>1, <1>2, <1>3, <1>4, <1>5

\* Stop, Revoke and expiry in the Durable Object keep the types.
LEMMA StopWritesType ==
  ASSUME TypeOK, NEW k \in Stops, NEW seen, StopWrites(k, seen)
  PROVE  /\ ep' \in Endpoint /\ stop' \in [Stops -> StopCall] /\ faults' \in 0..work.faults
         /\ op' \in [Intents -> Intent] /\ sock' \in [1..Sockets -> Socket] /\ ext' \in Extension
<1>1. ep' \in Endpoint
  BY Counters DEF StopWrites, TypeOK, Endpoint
<1>2. stop' \in [Stops -> StopCall]
  BY DEF StopWrites, TypeOK, StopCall
<1> QED BY <1>1, <1>2, CloseAllType DEF StopWrites, TypeOK

\* The same for the handlers of Stop.
LEMMA StopType ==
  ASSUME TypeOK, NEW k \in Stops, StopRead(k) \/ StopWrite(k) \/ StopAnswer(k)
  PROVE  TypeOK'
<1>a. stop[k] \in StopCall /\ ext \in Extension /\ ep \in Endpoint
  BY DEF TypeOK
<1>1. CASE StopRead(k)
  <2>1. ep.state \in {"enabled", "stopped"} => [pc |-> "read", seen |-> ep.state] \in StopCall
    BY DEF StopCall
  <2>2. CASE StopWrites(k, ep.state)
    BY <1>1, <2>2, StopWritesType DEF StopRead, TypeOK, seeing
  <2> QED BY <1>1, <2>1, <2>2 DEF StopRead, TypeOK, seeing
<1>2. CASE StopWrite(k)
  <2>1. CASE StopWrites(k, stop[k].seen)
    BY <1>2, <2>1, StopWritesType DEF StopWrite, TypeOK, seeing
  <2>2. CASE ~StopWrites(k, stop[k].seen)
    <3>1. [ep EXCEPT !.state = "revoked", !.rev = @ + 1, !.stops = @ + 1] \in Endpoint
      BY <1>a, Counters DEF Endpoint
    <3>2. [stop EXCEPT ![k].pc = "written"] \in [Stops -> StopCall]
      BY DEF TypeOK, StopCall
    <3>3. AlarmFails /\ CloseAll("revoked")
      BY <1>2, <2>2 DEF StopWrite
    <3>4. op' \in [Intents -> Intent] /\ sock' \in [1..Sockets -> Socket] /\ ext' \in Extension
      BY <3>3, CloseAllType
    <3> QED BY <1>2, <2>2, <3>1, <3>2, <3>3, <3>4, FaultsType DEF StopWrite, TypeOK, seeing
  <2> QED BY <2>1, <2>2
<1>3. CASE StopAnswer(k)
  <2>1. [ext EXCEPT !.pendingStop = @ /\ ~StopConfirmed] \in Extension
    BY <1>a DEF Extension, StopConfirmed
  <2>2. [stop EXCEPT ![k].pc = "done"] \in [Stops -> StopCall]
    BY DEF TypeOK, StopCall
  <2> QED BY <1>3, <2>1, <2>2, FaultsType DEF StopAnswer, TypeOK, seeing
<1> QED BY <1>1, <1>2, <1>3

\* The ways in which an endpoint is revoked keep the types.
LEMMA RevokeType ==
  ASSUME TypeOK, Revoke \/ Expire \/ AuditFails \/ \E s \in 1..Sockets : CloseAlarmFails(s)
  PROVE  TypeOK'
<1>1. ep' = [ep EXCEPT !.state = "revoked", !.rev = @ + 1] /\ CloseAll("revoked")
  BY DEF Revoke, Expire, AuditFails, CloseAlarmFails
<1>2. ep' \in Endpoint
  BY <1>1, Counters DEF TypeOK, Endpoint
<1>3. faults' \in 0..work.faults
  BY FaultsType DEF Revoke, Expire, AuditFails, CloseAlarmFails, TypeOK
<1>4. UNCHANGED <<work, att, stop, seeing, restarts>>
  BY DEF Revoke, Expire, AuditFails, CloseAlarmFails
<1> QED BY <1>1, <1>2, <1>3, <1>4, CloseAllType DEF TypeOK, seeing

\* Connecting, authenticating and closing keep the types.
LEMMA SocketType ==
  ASSUME TypeOK, NEW s \in 1..Sockets,
         \/ Connect(s) \/ AuthenticateRead(s) \/ AuthenticateCommit(s)
         \/ Authenticated(s) \/ SocketCloses(s)
  PROVE  TypeOK'
<1>a. sock[s] \in Socket /\ ext \in Extension /\ ep \in Endpoint
  BY DEF TypeOK
<1>b. s \in 0..Sockets
  BY BrowserAssumption
<1>1. CASE Connect(s)
  <2>1. [ext EXCEPT !.socket = s] \in Extension
    BY <1>a, <1>b DEF Extension
  <2>2. [sock EXCEPT ![s].state = "open"] \in [1..Sockets -> Socket]
    BY DEF TypeOK, Socket
  <2> QED BY <1>1, <2>1, <2>2 DEF Connect, OpenSocket, TypeOK, seeing
<1>2. CASE AuthenticateRead(s)
  <2>1. /\ [state |-> "read", gen |-> ep.gen, rev |-> ep.rev] \in Socket
        /\ [sock[s] EXCEPT !.state = "closed"] \in Socket
    BY <1>a, Counters DEF Socket
  <2> QED BY <1>2, <2>1 DEF AuthenticateRead, TypeOK, seeing
<1>3. CASE AuthenticateCommit(s)
  <2>1. /\ [sock[s] EXCEPT !.state = "closed", !.gen = 0] \in Socket
        /\ [sock[s] EXCEPT !.state = "live", !.gen = ep.gen + 1] \in Socket
    BY <1>a, Counters DEF Socket
  <2>2. ClosedSockets \in [1..Sockets -> Socket]
    BY DEF ClosedSockets, TypeOK, Socket
  <2>3. [ep EXCEPT !.gen = @ + 1] \in Endpoint
    BY <1>a, Counters DEF Endpoint
  <2>4. sock' \in [1..Sockets -> Socket] /\ ep' \in Endpoint
    BY <1>3, <2>1, <2>2, <2>3 DEF AuthenticateCommit, TypeOK
  <2>5. op' \in [Intents -> Intent]
    BY <1>3, LedgerTypes DEF AuthenticateCommit, TypeOK
  <2> QED BY <1>3, <2>4, <2>5 DEF AuthenticateCommit, TypeOK, seeing
<1>4. CASE Authenticated(s)
  <2>1. [ext EXCEPT !.gen = sock[s].gen] \in Extension
    BY <1>a DEF Extension, Socket
  <2> QED BY <1>4, <2>1 DEF Authenticated, TypeOK, seeing
<1>5. CASE SocketCloses(s)
  <2>1. [sock EXCEPT ![s].state = "closed"] \in [1..Sockets -> Socket]
    BY DEF TypeOK, Socket
  <2>2. op' \in [Intents -> Intent]
    BY <1>5, LedgerTypes DEF SocketCloses, TypeOK
  <2> QED BY <1>5, <2>1, <2>2 DEF SocketCloses, TypeOK, seeing
<1> QED BY <1>1, <1>2, <1>3, <1>4, <1>5

\* A step that gives one intent a well-typed record and leaves the rest alone.
LEMMA OpType ==
  ASSUME TypeOK, NEW i \in Intents, NEW o \in Intent, op' = [op EXCEPT ![i] = o],
         UNCHANGED <<work, ep, att, stop, sock, seeing, ext, faults, restarts>>
  PROVE  TypeOK'
BY DEF TypeOK, seeing

\* Every handler and step of an intent keeps the types.
LEMMA IntentType ==
  ASSUME TypeOK, NEW i \in Intents,
         \/ Mutate(i) \/ Admit(i) \/ ExtensionPrepares(i) \/ Prepared(i)
         \/ Dispatch(i) \/ MutationTimeout(i) \/ OperationStatus(i)
         \/ ExtensionConsumes(i) \/ ExtensionChecks(i) \/ ExtensionAuthorizes(i)
         \/ ExtensionExecutes(i) \/ Finalize(i) \/ GrowsOld(i)
  PROVE  TypeOK'
<1>a. op[i] \in Intent
  BY DEF TypeOK
<1>1. CASE Mutate(i)
  <2>1. \A s \in CurrentSockets : [op[i] EXCEPT !.pc = "admitting", !.gen = ep.gen, !.rev = ep.rev,
                                                !.sock = s] \in Intent
    <3>1. \A s \in CurrentSockets : s \in 0..Sockets
      BY BrowserAssumption DEF CurrentSockets
    <3> QED BY <1>a, <3>1, Counters DEF Intent
  <2> QED BY <1>1, <2>1, OpType DEF Mutate
<1>2. CASE Admit(i)
  <2>1. \A j \in Intents : Swept(op[j]) \in Intent
    BY LedgerTypes DEF TypeOK
  <2> DEFINE fresh == [Swept(op[i]) EXCEPT !.pc = "idle"]
  <2>2. fresh \in Intent
    BY <2>1 DEF Intent
  <2> HIDE DEF fresh
  <2>3. /\ [fresh EXCEPT !.gen = 0] \in Intent
        /\ [fresh EXCEPT !.row = "admitted", !.pending = "preparing", !.wire = "prepare"] \in Intent
        /\ [fresh EXCEPT !.row = "failed"] \in Intent
    BY <2>2 DEF Intent, Known
  <2>4. op' \in [Intents -> Intent]
    BY <1>2, <2>1, <2>3 DEF Admit, TypeOK, fresh
  <2> QED BY <1>2, <2>4 DEF Admit, TypeOK, seeing
<1>3. CASE ExtensionPrepares(i)
  <2>1. /\ [op[i] EXCEPT !.wire = "accepted", !.run = "stored"] \in Intent
        /\ [op[i] EXCEPT !.wire = "refused"] \in Intent
    BY <1>a DEF Intent
  <2> QED BY <1>3, <2>1, OpType DEF ExtensionPrepares
<1>4. CASE Prepared(i)
  <2> DEFINE o == [op[i] EXCEPT !.wire = "none"]
  <2>1. o \in Intent /\ [o EXCEPT !.pc = "hashing"] \in Intent
    BY <1>a DEF Intent
  <2>2. Terminated(o) \in Intent
    BY <2>1, LedgerTypes
  <2>3. op' = [op EXCEPT ![i] = op'[i]] /\ op'[i] \in {o, Terminated(o), [o EXCEPT !.pc = "hashing"]}
    BY <1>4 DEF Prepared, TypeOK
  <2> QED BY <1>4, <2>1, <2>2, <2>3, OpType DEF Prepared
<1>5. CASE Dispatch(i)
  <2> DEFINE o == [op[i] EXCEPT !.pc = "idle"]
             d == [o EXCEPT !.row = "dispatching", !.pending = IF @ = "no" THEN "no" ELSE "dispatched"]
             e == [d EXCEPT !.wire = "execute", !.effect = "sent"]
  <2>1. o \in Intent
    BY <1>a DEF Intent
  <2>o. d \in Intent
    BY <2>1 DEF Intent
  <2> HIDE DEF o
  <2>2. d \in Intent
    BY <2>o
  <2> HIDE DEF d
  <2>3. e \in Intent
    BY <2>2 DEF Intent
  <2> USE DEF o, d
  <2>4. Terminated(o) \in Intent /\ Terminated(d) \in Intent
    BY <2>1, <2>2, LedgerTypes
  <2>5. op' = [op EXCEPT ![i] = op'[i]] /\ op'[i] \in {Terminated(o), Terminated(d), e}
    BY <1>5 DEF Dispatch, TypeOK
  <2> QED BY <1>5, <2>3, <2>4, <2>5, OpType DEF Dispatch
<1>6. CASE MutationTimeout(i)
  BY <1>6, <1>a, LedgerTypes, OpType DEF MutationTimeout
<1>7. CASE OperationStatus(i)
  BY <1>7, <1>a, LedgerTypes, OpType DEF OperationStatus
<1>8. CASE ExtensionConsumes(i)
  <2>1. [op[i] EXCEPT !.wire = "none", !.run = IF Consumable(i) /\ Enabled
                                              THEN "running" ELSE op[i].run] \in Intent
    BY <1>a DEF Intent
  <2> DEFINE p == [op[i] EXCEPT !.wire = "none", !.run = IF Consumable(i) /\ Enabled
                                              THEN "running" ELSE op[i].run]
  <2>2. op' = [op EXCEPT ![i] = p] /\ p \in Intent
    BY <1>8, <2>1 DEF ExtensionConsumes
  <2> HIDE DEF p
  <2> QED BY <1>8, <2>2, OpType DEF ExtensionConsumes
<1>9. CASE ExtensionChecks(i) \/ ExtensionAuthorizes(i) \/ ExtensionExecutes(i)
  <2>1. \A e \in {"applied", "refused"}, v \in {"failed", "completed", "unknown"} :
          Reply([op[i] EXCEPT !.effect = e], v) \in Intent
    <3>1. \A e \in {"applied", "refused"} : [op[i] EXCEPT !.effect = e] \in Intent
      BY <1>a DEF Intent
    <3>2. \A o \in Intent, v \in {"failed", "completed", "unknown"} : Reply(o, v) \in Intent
      <4>1. \A o \in Intent, w \in {"none", "prepare", "accepted", "refused", "execute", "completed",
                                    "failed", "unknown"} :
              [o EXCEPT !.run = "over", !.wire = w] \in Intent
        BY DEF Intent
      <4>2. \A o \in Intent : o.wire \in {"none", "prepare", "accepted", "refused", "execute", "completed",
                                    "failed", "unknown"}
        BY DEF Intent
      <4> QED BY <4>1, <4>2 DEF Reply
    <3> QED BY <3>1, <3>2
  <2>2. [op EXCEPT ![i].run = "cleared"] = [op EXCEPT ![i] = [@ EXCEPT !.run = "cleared"]]
    OBVIOUS
  <2>3. [op[i] EXCEPT !.run = "cleared"] \in Intent /\ [op[i] EXCEPT !.run = "acting"] \in Intent
    BY <1>a DEF Intent
  <2>4. CASE ExtensionChecks(i)
    BY <2>1, <2>2, <2>3, <2>4, OpType DEF ExtensionChecks
  <2>5. CASE ExtensionAuthorizes(i)
    BY <2>1, <2>3, <2>5, OpType DEF ExtensionAuthorizes
  <2>6. CASE ExtensionExecutes(i)
    BY <2>1, <2>6, OpType DEF ExtensionExecutes, Verdicts
  <2> QED BY <1>9, <2>4, <2>5, <2>6
<1>10. CASE Finalize(i)
  <2> DEFINE o == [op[i] EXCEPT !.wire = "none"]
  <2>1. o \in Intent
    BY <1>a DEF Intent
  <2>2. op[i].wire \in {"completed", "failed", "unknown"} =>
           [o EXCEPT !.row = op[i].wire, !.pending = "no"] \in Intent
    BY <2>1 DEF Intent, Known
  <2> QED BY <1>10, <2>1, <2>2, OpType DEF Finalize
<1>11. CASE GrowsOld(i)
  <2>1. [op EXCEPT ![i].old = TRUE] = [op EXCEPT ![i] = [@ EXCEPT !.old = TRUE]]
    OBVIOUS
  <2>2. [op[i] EXCEPT !.old = TRUE] \in Intent
    BY <1>a DEF Intent
  <2> QED BY <1>11, <2>1, <2>2, OpType DEF GrowsOld
<1> QED BY <1>1, <1>2, <1>3, <1>4, <1>5, <1>6, <1>7, <1>8, <1>9, <1>10, <1>11

\* A step of the extension's work on one observation keeps the types.
LEMMA StepType ==
  ASSUME TypeOK, NEW r \in Reads, NEW fine, NEW next \in Observation, Step(r, fine, next)
  PROVE  TypeOK'
<1>1. Refused(look[r]) \in Observation
  BY DEF TypeOK, Refused, Observation
<1>2. look' \in [Reads -> Observation]
  BY <1>1 DEF Step, TypeOK
<1> QED BY <1>2 DEF Step, TypeOK

\* Listeners only add to what they noticed.
LEMMA NoticedType ==
  ASSUME TypeOK
  PROVE  Noticed \in [Reads -> Observation]
<1>1. \A l \in Observation : [l EXCEPT !.switched = TRUE] \in Observation
  BY DEF Observation
<1> QED BY <1>1 DEF Noticed, TypeOK

\* Observations keep the types.
LEMMA ReadType ==
  ASSUME TypeOK, NEW r \in Reads,
         \/ Read(r) \/ ReadTimeout(r) \/ ExtensionLooks(r) \/ Extracts(r) \/ Surveys(r)
         \/ Watches(r) \/ ChecksAgain(r) \/ Captures(r) \/ ValidatesText(r)
         \/ ValidatesPicture(r) \/ Clears(r) \/ Sends(r) \/ ReadResult(r)
  PROVE  TypeOK'
<1> DEFINE l == look[r]
<1>a. l \in Observation /\ page.doc \in 0..Documents
  BY DEF TypeOK
<1>b. \A pc \in {"surveyed", "watched", "capturing", "ended", "cleared", "sent", "over"} :
         [l EXCEPT !.pc = pc] \in Observation
  BY <1>a DEF Observation
<1>1. CASE Read(r)
  <2>1. \A s \in CurrentSockets : s \in 0..Sockets
    BY BrowserAssumption DEF CurrentSockets
  <2>2. \A s \in CurrentSockets, tool \in {"tabs", "snapshot", "screenshot"} :
          [l EXCEPT !.pc = "asked", !.tool = tool, !.sock = s, !.gen = ep.gen] \in Observation
    BY <1>a, <2>1, Counters DEF Observation
  <2>3. PICK s \in CurrentSockets, tool \in {"tabs", "snapshot", "screenshot"} :
          look' = [look EXCEPT ![r] = [@ EXCEPT !.pc = "asked", !.tool = tool, !.sock = s, !.gen = ep.gen]]
    BY <1>1 DEF Read
  <2>4. look' \in [Reads -> Observation]
    BY <2>2, <2>3 DEF TypeOK
  <2> QED BY <1>1, <2>4 DEF Read, TypeOK
<1>2. CASE ReadTimeout(r)
  BY <1>2 DEF ReadTimeout, TypeOK
<1>3. CASE ExtensionLooks(r)
  <2>1. TabList(l) \in Observation /\ Frame(l) \in Observation
    BY <1>a DEF Observation, TabList, Frame
  <2> QED BY <1>3, <2>1, StepType DEF ExtensionLooks, Execute
<1>4. CASE Extracts(r)
  <2>1. [l EXCEPT !.pc = "taken", !.got = "target"] \in Observation
    BY <1>a DEF Observation
  <2> QED BY <1>4, <2>1, StepType DEF Extracts
<1>5. CASE Surveys(r) \/ Watches(r) \/ ChecksAgain(r) \/ ValidatesText(r) \/ ValidatesPicture(r)
  BY <1>5, <1>b, StepType DEF Surveys, Watches, ChecksAgain, ValidatesText, ValidatesPicture
<1>6. CASE Captures(r)
  <2>1. \A seen \in {"target", "other"} : [l EXCEPT !.pc = "taken", !.got = seen] \in Observation
    BY <1>a DEF Observation
  <2> QED BY <1>6, <2>1, StepType DEF Captures
<1>7. CASE Clears(r)
  <2>1. [l EXCEPT !.pc = IF MayLook(l) THEN "cleared" ELSE "over"] \in Observation
    BY <1>b
  <2> QED BY <1>7, <2>1, StepType DEF Clears
<1>8. CASE Sends(r)
  <2>1. [l EXCEPT !.pc = IF ext.socket = l.sock THEN "sent" ELSE "over",
                  !.got = IF @ = "list" \/ page.open THEN @ ELSE "nothing"] \in Observation
    BY <1>a DEF Observation
  <2> QED BY <1>8, <2>1, StepType DEF Sends
<1>9. CASE ReadResult(r)
  <2>1. look' = [look EXCEPT ![r] = [@ EXCEPT !.pc = "over"]]
    BY <1>9 DEF ReadResult
  <2> QED BY <1>9, <2>1, <1>b DEF ReadResult, TypeOK
<1> QED BY <1>1, <1>2, <1>3, <1>4, <1>5, <1>6, <1>7, <1>8, <1>9

\* The observed tab may change under the observations.
LEMMA PageType ==
  ASSUME TypeOK, Navigates \/ SwitchesTab
  PROVE  TypeOK'
<1>1. page' \in [doc: 0..Documents, open: BOOLEAN, shown: BOOLEAN]
  <2>1. CASE Navigates
    <3>1. page.doc + 1 \in 0..Documents
      <4>1. page.doc \in 0..Documents /\ page.doc < Documents
        BY <2>1 DEF Navigates, TypeOK
      <4> QED BY <4>1, BrowserAssumption
    <3> QED BY <2>1, <3>1 DEF Navigates, TypeOK
  <2>2. CASE SwitchesTab
    BY <2>2 DEF SwitchesTab, TypeOK
  <2> QED BY <2>1, <2>2
<1>2. look' \in [Reads -> Observation]
  BY NoticedType DEF Navigates, SwitchesTab, TypeOK
<1> QED BY <1>1, <1>2 DEF Navigates, SwitchesTab, TypeOK

\* A restart of either side keeps the types.
LEMMA RestartType ==
  ASSUME TypeOK, Restart \/ ExtensionRestart
  PROVE  TypeOK'
<1>1. restarts' \in 0..work.restarts
  <2>1. restarts < work.restarts /\ restarts' = restarts + 1
    BY DEF Restart, ExtensionRestart
  <2>2. work.restarts \in Nat /\ restarts \in 0..work.restarts
    BY BrowserAssumption DEF TypeOK
  <2>3. work' = work
    BY DEF Restart, ExtensionRestart
  <2> QED BY <2>1, <2>2, <2>3
<1>2. CASE Restart
  <2>1. op' \in [Intents -> Intent]
    BY <1>2, LedgerTypes DEF Restart, TypeOK
  <2>2. att' \in [Attempts -> Attempt]
    <3>1. \A o \in Attempt : [o EXCEPT !.call = "refused"] \in Attempt
      BY DEF Attempt
    <3> QED BY <1>2, <3>1 DEF Restart, TypeOK
  <2>3. stop' \in [Stops -> StopCall]
    BY <1>2 DEF Restart, TypeOK, StopCall
  <2>4. sock' \in [1..Sockets -> Socket]
    BY <1>2 DEF Restart, TypeOK, Socket
  <2> QED BY <1>1, <1>2, <2>1, <2>2, <2>3, <2>4 DEF Restart, TypeOK
<1>3. CASE ExtensionRestart
  <2>1. [ext EXCEPT !.blocked = FALSE, !.epoch = 0, !.polling = 0, !.answer = "none",
                    !.asked = {}, !.written = {},
                    !.off = IF Overwritten \/ (@ = "asked" /\ ext.asked # {}) THEN "no"
                            ELSE IF @ = "asked" THEN "yes" ELSE @] \in Extension
    BY DEF TypeOK, Extension
  <2>2. \A o \in Intent, landed \in BOOLEAN : Suspended(o, landed) \in Intent
    <3>1. \A o \in Intent, e \in {"applied", "refused"} :
            [o EXCEPT !.run = "over", !.effect = e] \in Intent
      BY DEF Intent
    <3> QED BY <3>1 DEF Suspended
  <2>3. \A l \in Observation : [l EXCEPT !.pc = "over"] \in Observation
    BY DEF Observation
  <2>4. op' \in [Intents -> Intent] /\ look' \in [Reads -> Observation] /\ ext' \in Extension
    BY <1>3, <2>1, <2>2, <2>3, NoNetworkType DEF ExtensionRestart, TypeOK
  <2> QED BY <1>1, <1>3, <2>4 DEF ExtensionRestart, TypeOK
<1> QED BY <1>2, <1>3

\* Every variable keeps its type: the counters stay numbers, an attempt, a socket or an
\* intent never leaves the states its handlers know.
THEOREM BrowserTypeCorrect == Spec => []TypeOK
<1>1. TypeOK /\ [Next]_vars => TypeOK'
  <2> SUFFICES ASSUME TypeOK, [Next]_vars PROVE TypeOK'
    OBVIOUS
  <2>1. CASE UNCHANGED vars
    BY <2>1 DEF vars, seeing, TypeOK
  <2>2. CASE Next
    <3>1. ASSUME NEW a \in Attempts,
                 \/ Begin(a) \/ Authorize(a) \/ Cancel(a) \/ Poll(a) \/ CompleteRead(a)
                 \/ CompleteCommit(a) \/ CompleteAnswer(a) \/ PollFails(a)
                 \/ GrantPersists(a) \/ GrantSettles(a) \/ AttemptExpires(a)
          PROVE  TypeOK'
      BY <3>1, ActivationType
    <3>2. CASE StopClick \/ RevokeClick \/ \E d \in Denials : DenialPersists(d) \/ DenialClears(d)
      BY <3>2, LocalStopType
    <3>3. ASSUME NEW i \in Intents,
                 \/ Mutate(i) \/ Admit(i) \/ ExtensionPrepares(i) \/ Prepared(i)
                 \/ Dispatch(i) \/ MutationTimeout(i) \/ OperationStatus(i)
                 \/ ExtensionConsumes(i) \/ ExtensionChecks(i) \/ ExtensionAuthorizes(i)
                 \/ ExtensionExecutes(i) \/ Finalize(i) \/ GrowsOld(i)
          PROVE  TypeOK'
      BY <3>3, IntentType
    <3>4. ASSUME NEW r \in Reads,
                 \/ Read(r) \/ ReadTimeout(r) \/ ExtensionLooks(r) \/ Extracts(r) \/ Surveys(r)
                 \/ Watches(r) \/ ChecksAgain(r) \/ Captures(r) \/ ValidatesText(r)
                 \/ ValidatesPicture(r) \/ Clears(r) \/ Sends(r) \/ ReadResult(r)
          PROVE  TypeOK'
      BY <3>4, ReadType
    <3>5. CASE Restart \/ ExtensionRestart
      BY <3>5, RestartType
    <3>6. CASE Navigates \/ SwitchesTab
      BY <3>6, PageType
    <3>7. CASE \/ \E k \in Stops : StopRead(k) \/ StopWrite(k) \/ StopAnswer(k)
               \/ Revoke \/ Expire \/ AuditFails
               \/ \E s \in 1..Sockets : CloseAlarmFails(s)
      BY <3>7, StopType, RevokeType
    <3>8. CASE \/ \E s \in 1..Sockets : \/ Connect(s) \/ AuthenticateRead(s) \/ AuthenticateCommit(s)
                                        \/ Authenticated(s) \/ SocketCloses(s)
               \/ ToldOff \/ SeesClose
      BY <3>8, SocketType, LocalStopType
    <3> QED BY <2>2, <3>1, <3>2, <3>3, <3>4, <3>5, <3>6, <3>7, <3>8 DEF Next
  <2> QED BY <2>1, <2>2
<1> QED BY <1>1, InitType, PTL DEF Spec

-----------------------------------------------------------------------------
(* The invariants *)

\* What is always true of one intent.  Its row, its message under way and the extension's
\* part of it agree: nothing was sent before the row is "dispatching", the extension acts
\* only on what was sent and not yet settled, and a verdict under way is true.
SoundIntent(o) ==
  /\ o.sock = 0 => o.row = "none" /\ o.pc = "idle"
  /\ o.row = "swept" => o.old
  /\ o.row = "none" => /\ o.wire = "none" /\ o.run = "none" /\ o.effect = "untouched"
                       /\ o.pending = "no" /\ o.pc # "hashing"
  /\ o.pc = "admitting" => o.row = "none"
  /\ o.row = "admitted" => /\ o.effect = "untouched" /\ o.pending # "dispatched"
                           /\ o.wire \in {"none", "prepare", "accepted", "refused"}
                           /\ o.run \in {"none", "stored"}
                           /\ o.pc = "hashing" => o.pending # "no"
  /\ o.wire = "execute" => /\ o.effect = "sent" /\ o.row \in {"dispatching", "unknown"}
                           /\ o.run \notin {"running", "cleared", "acting"}
  /\ o.run \in {"running", "cleared", "acting"} =>
       o.effect = "sent" /\ o.row \in {"dispatching", "unknown"} /\ o.wire = "none"
  /\ o.wire = "completed" => o.effect = "applied"
  /\ o.wire = "failed" => o.effect = "refused"

\* The intent occupies the endpoint.
UnderWay(o) == o.pc = "admitting" \/ o.pending # "no" \/ o.row = "dispatching"

\* Ledger(i), as a function of the intent's record.
LedgerOf(o) ==
  CASE o.row = "none" -> "new"
    [] o.row \in {"admitted", "dispatching"} -> "claimed"
    [] o.row = "completed" -> "done"
    [] o.row \in {"failed", "expired"} -> "none"
    [] o.row = "swept" -> "forgotten"
    [] OTHER -> "unknown"

\* A move of OnceEffect between two records of an intent.
OnceMove(o, p) ==
  \/ LedgerOf(p) = LedgerOf(o) /\ p.effect = o.effect
  \/ LedgerOf(o) = "new" /\ LedgerOf(p) = "claimed" /\ p.effect = o.effect
  \/ /\ LedgerOf(o) = "claimed" /\ LedgerOf(p) = "claimed"
     /\ o.effect = "untouched" /\ p.effect \in {"sent", "applied", "refused"}
  \/ /\ o.effect = "sent" /\ p.effect \in {"applied", "refused"}
     /\ LedgerOf(o) \in {"claimed", "unknown"} /\ LedgerOf(p) = LedgerOf(o)
  \/ /\ LedgerOf(o) \in {"new", "claimed", "unknown"} /\ LedgerOf(p) \in {"done", "none", "unknown"}
     /\ p.effect = o.effect
     /\ LedgerOf(p) = "done" => o.effect = "applied"
     /\ LedgerOf(p) = "none" => o.effect \in {"untouched", "refused"}
  \/ LedgerOf(o) \in {"done", "none"} /\ LedgerOf(p) = "forgotten" /\ p.effect = o.effect

\* What every step but the first turn of /mutate does to an intent.
IntentStep(o, p) == SoundIntent(p) /\ OnceMove(o, p) /\ (UnderWay(p) => UnderWay(o))

\* Leaving an intent alone is such a step.
LEMMA StaysStep ==
  ASSUME NEW o \in Intent, SoundIntent(o)
  PROVE  IntentStep(o, o)
BY DEF IntentStep, OnceMove

\* So is terminateMutation: memory forgets an intent, the ledger keeps what may have happened.
LEMMA TerminatedStep ==
  ASSUME NEW o \in Intent, SoundIntent(o)
  PROVE  IntentStep(o, Terminated(o))
BY DEF IntentStep, SoundIntent, OnceMove, UnderWay, LedgerOf, Terminated, MarkUnknown, Abort, Intent, Known

\* The same for the rows that /operation-status finds waiting too long.
LEMMA ReconciledStep ==
  ASSUME NEW o \in Intent, SoundIntent(o), o.pc = "idle"
  PROVE  IntentStep(o, Reconciled(o))
BY DEF IntentStep, SoundIntent, OnceMove, UnderWay, LedgerOf, Reconciled, MarkUnknown, Abort, Intent, Known

\* The same for the rows that admit sweeps.
LEMMA SweptStep ==
  ASSUME NEW o \in Intent, SoundIntent(o)
  PROVE  IntentStep(o, Swept(o))
BY DEF IntentStep, SoundIntent, OnceMove, UnderWay, LedgerOf, Swept, Intent, Known

\* The same for the rows that the constructor recovers.
LEMMA RecoveredStep ==
  ASSUME NEW o \in Intent, SoundIntent(o)
  PROVE  IntentStep(o, Recovered(o))
BY DEF IntentStep, SoundIntent, OnceMove, UnderWay, LedgerOf, Recovered, MarkUnknown, Intent, Known

\* Every intent is sound; every intent makes such a step.
IntentsSound == \A i \in Intents : SoundIntent(op[i])
IntentsStep == \A i \in Intents : IntentStep(op[i], op'[i])

\* The step of one intent is a step of all of them.
LEMMA OneIntent ==
  ASSUME TypeOK, IntentsSound, NEW i \in Intents, NEW p, IntentStep(op[i], p),
         op' = [op EXCEPT ![i] = p]
  PROVE  IntentsStep
<1>1. \A j \in Intents : IntentStep(op[j], op[j])
  BY StaysStep DEF TypeOK, IntentsSound
<1> QED BY <1>1 DEF IntentsStep, TypeOK

\* Handlers that do not concern intents leave them alone; the ones that close sockets
\* terminate them.
LEMMA OthersStep ==
  ASSUME TypeOK, IntentsSound,
         \/ op' = op
         \/ op' = [i \in Intents |-> Terminated(op[i])]
         \/ op' = [i \in Intents |-> Recovered(op[i])]
         \/ \E s \in 1..Sockets : op' = [i \in Intents |-> IF op[i].sock = s THEN Terminated(op[i]) ELSE op[i]]
         \/ ExtensionRestart
  PROVE  IntentsStep
<1> SUFFICES ASSUME NEW i \in Intents PROVE IntentStep(op[i], op'[i])
  BY DEF IntentsStep
<1>1. op[i] \in Intent /\ SoundIntent(op[i])
  BY DEF TypeOK, IntentsSound
<1>2. CASE ExtensionRestart
  <2>1. CASE op[i].run \in {"running", "cleared", "acting"}
    <3>1. PICK e \in {"applied", "refused"} : op'[i] = [op[i] EXCEPT !.run = "over", !.effect = e]
      BY <1>2, <2>1 DEF ExtensionRestart, Suspended
    <3> QED BY <1>1, <2>1, <3>1 DEF IntentStep, SoundIntent, OnceMove, UnderWay, LedgerOf, Intent, Known
  <2> QED BY <1>1, <1>2, <2>1, StaysStep DEF ExtensionRestart, Suspended
<1> QED BY <1>1, <1>2, StaysStep, TerminatedStep, RecoveredStep

\* The turns of /mutate after its first, the messages of the extension, timers and age.
LEMMA IntentActions ==
  ASSUME TypeOK, IntentsSound, NEW i \in Intents,
         \/ Admit(i) \/ ExtensionPrepares(i) \/ Prepared(i)
         \/ Dispatch(i) \/ MutationTimeout(i) \/ OperationStatus(i)
         \/ ExtensionConsumes(i) \/ ExtensionChecks(i) \/ ExtensionAuthorizes(i)
         \/ ExtensionExecutes(i) \/ Finalize(i) \/ GrowsOld(i)
  PROVE  IntentsStep
<1> DEFINE o == op[i]
<1>a. o \in Intent /\ SoundIntent(o)
  BY DEF TypeOK, IntentsSound
<1> USE DEF IntentStep, UnderWay
<1>1. CASE Admit(i)
  <2>1. \A j \in Intents : IntentStep(op[j], Swept(op[j]))
    BY SweptStep DEF TypeOK, IntentsSound
  <2>2. o.pc = "admitting"
    BY <1>1 DEF Admit, Admitting
  <2>3. o.row = "none" /\ o.sock # 0
    BY <1>a, <2>2 DEF SoundIntent
  <2>4. Swept(o) = o
    BY <1>a, <2>3 DEF Swept, Known, Intent
  <2> DEFINE fresh == [o EXCEPT !.pc = "idle"]
             p == IF UnknownFull THEN [fresh EXCEPT !.gen = 0]
                  ELSE IF Current(i) /\ Live(op[i].sock)
                  THEN [fresh EXCEPT !.row = "admitted", !.pending = "preparing", !.wire = "prepare"]
                  ELSE [fresh EXCEPT !.row = "failed"]
  <2>5. op'[i] = p
    BY <1>1, <2>4 DEF Admit, TypeOK
  <2>6. IntentStep(o, p)
    BY <1>a, <2>2, <2>3 DEF SoundIntent, OnceMove, LedgerOf, Intent, Known
  <2>7. \A j \in Intents \ {i} : op'[j] = Swept(op[j])
    BY <1>1 DEF Admit, TypeOK
  <2> QED BY <2>1, <2>5, <2>6, <2>7 DEF IntentsStep
<1>2. CASE ExtensionPrepares(i)
  <2>1. o.wire = "prepare"
    BY <1>2 DEF ExtensionPrepares
  <2>2. /\ IntentStep(o, [o EXCEPT !.wire = "accepted", !.run = "stored"])
        /\ IntentStep(o, [o EXCEPT !.wire = "refused"])
    BY <1>a, <2>1 DEF SoundIntent, OnceMove, LedgerOf, Intent, Known
  <2> QED BY <1>2, <2>2, OneIntent DEF ExtensionPrepares
<1>3. CASE Prepared(i)
  <2> DEFINE q == [o EXCEPT !.wire = "none"]
  <2>1. q \in Intent /\ SoundIntent(q) /\ LedgerOf(q) = LedgerOf(o) /\ q.effect = o.effect
        /\ (UnderWay(q) <=> UnderWay(o))
    BY <1>3, <1>a DEF Prepared, SoundIntent, LedgerOf, Intent, Known
  <2>2. IntentStep(o, q) /\ IntentStep(o, Terminated(q))
    <3> HIDE DEF q
    <3>1. IntentStep(q, q) /\ IntentStep(q, Terminated(q))
      BY <2>1, StaysStep, TerminatedStep
    <3> QED BY <2>1, <3>1 DEF OnceMove
  <2>3. q.pending = "preparing" => IntentStep(o, [q EXCEPT !.pc = "hashing"])
    BY <1>3, <1>a DEF Prepared, SoundIntent, OnceMove, LedgerOf, Intent, Known
  <2>4. op' = [op EXCEPT ![i] = op'[i]]
        /\ (op'[i] \in {q, Terminated(q)} \/ (q.pending = "preparing" /\ op'[i] = [q EXCEPT !.pc = "hashing"]))
    BY <1>3 DEF Prepared, TypeOK
  <2> QED BY <2>2, <2>3, <2>4, OneIntent
<1>4. CASE Dispatch(i)
  <2> DEFINE q == [o EXCEPT !.pc = "idle"]
             d == [q EXCEPT !.row = "dispatching", !.pending = IF @ = "no" THEN "no" ELSE "dispatched"]
             e == [d EXCEPT !.wire = "execute", !.effect = "sent"]
  <2>1. o.pc = "hashing"
    BY <1>4 DEF Dispatch
  <2>2. q \in Intent /\ SoundIntent(q) /\ LedgerOf(q) = LedgerOf(o) /\ q.effect = o.effect
        /\ (UnderWay(q) <=> UnderWay(o))
    BY <1>a, <2>1 DEF SoundIntent, LedgerOf, Intent, Known
  <2>3. IntentStep(o, Terminated(q))
    <3> HIDE DEF q
    <3>1. IntentStep(q, Terminated(q))
      BY <2>2, TerminatedStep
    <3> QED BY <2>2, <3>1 DEF OnceMove
  <2>4. o.row = "admitted" => IntentStep(o, e) /\ IntentStep(o, Terminated(d))
    BY <1>a, <2>1 DEF SoundIntent, OnceMove, LedgerOf, Intent, Known, Terminated, MarkUnknown, Abort
  <2>5. op' = [op EXCEPT ![i] = op'[i]]
        /\ (op'[i] = Terminated(q) \/ (o.row = "admitted" /\ op'[i] \in {Terminated(d), e}))
    BY <1>4 DEF Dispatch, TypeOK, StillAdmitted
  <2> QED BY <2>3, <2>4, <2>5, OneIntent
<1>5. CASE MutationTimeout(i)
  BY <1>5, <1>a, TerminatedStep, OneIntent DEF MutationTimeout
<1>6. CASE OperationStatus(i)
  BY <1>6, <1>a, ReconciledStep, OneIntent DEF OperationStatus
<1>7. CASE ExtensionConsumes(i)
  <2> DEFINE p == [o EXCEPT !.wire = "none", !.run = IF Consumable(i) /\ Enabled
                                              THEN "running" ELSE op[i].run]
  <2>1. op' = [op EXCEPT ![i] = p]
    BY <1>7 DEF ExtensionConsumes
  <2>2. o.wire = "execute"
    BY <1>7 DEF ExtensionConsumes
  <2>3. IntentStep(o, p)
    BY <1>a, <2>2 DEF SoundIntent, OnceMove, LedgerOf, Intent, Known
  <2> QED BY <2>1, <2>3, OneIntent
<1>8. CASE ExtensionChecks(i) \/ ExtensionAuthorizes(i) \/ ExtensionExecutes(i)
  <2>1. o.run \in {"running", "cleared", "acting"}
    BY <1>8 DEF ExtensionChecks, ExtensionAuthorizes, ExtensionExecutes
  <2>2. /\ IntentStep(o, Reply([o EXCEPT !.effect = "refused"], "failed"))
        /\ IntentStep(o, Reply([o EXCEPT !.effect = "refused"], "unknown"))
        /\ IntentStep(o, Reply([o EXCEPT !.effect = "applied"], "completed"))
        /\ IntentStep(o, Reply([o EXCEPT !.effect = "applied"], "unknown"))
    BY <1>a, <2>1 DEF SoundIntent, OnceMove, LedgerOf, Intent, Known, Reply
  <2>3. IntentStep(o, [o EXCEPT !.run = "cleared"]) /\ IntentStep(o, [o EXCEPT !.run = "acting"])
    BY <1>a, <2>1 DEF SoundIntent, OnceMove, LedgerOf, Intent, Known
  <2>4. [op EXCEPT ![i].run = "cleared"] = [op EXCEPT ![i] = [@ EXCEPT !.run = "cleared"]]
    OBVIOUS
  <2>5. CASE ExtensionChecks(i)
    BY <2>2, <2>3, <2>4, <2>5, OneIntent DEF ExtensionChecks
  <2>6. CASE ExtensionAuthorizes(i)
    BY <2>2, <2>3, <2>6, OneIntent DEF ExtensionAuthorizes
  <2>7. CASE ExtensionExecutes(i)
    BY <2>2, <2>7, OneIntent DEF ExtensionExecutes, Verdicts
  <2> QED BY <1>8, <2>5, <2>6, <2>7
<1>9. CASE Finalize(i)
  <2> DEFINE q == [o EXCEPT !.wire = "none"]
  <2>1. o.wire \in {"completed", "failed", "unknown"}
    BY <1>9 DEF Finalize
  <2>2. IntentStep(o, q)
    BY <1>a, <2>1 DEF SoundIntent, OnceMove, LedgerOf, Intent, Known
  <2>3. Finalizable(i) => IntentStep(o, [q EXCEPT !.row = op[i].wire, !.pending = "no"])
    BY <1>a, <2>1 DEF SoundIntent, OnceMove, LedgerOf, Intent, Known, Finalizable
  <2> QED BY <1>9, <2>2, <2>3, OneIntent DEF Finalize
<1>10. CASE GrowsOld(i)
  <2>1. op' = [op EXCEPT ![i] = [@ EXCEPT !.old = TRUE]]
    BY <1>10 DEF GrowsOld
  <2>2. IntentStep(o, [o EXCEPT !.old = TRUE])
    BY <1>a DEF SoundIntent, OnceMove, LedgerOf, Intent, Known
  <2> QED BY <2>1, <2>2, OneIntent
<1> QED BY <1>1, <1>2, <1>3, <1>4, <1>5, <1>6, <1>7, <1>8, <1>9, <1>10

\* The first turn of /mutate reserves a free endpoint for a key that has no row.
LEMMA MutateStep ==
  ASSUME TypeOK, IntentsSound, NEW i \in Intents, Mutate(i)
  PROVE  /\ ~Busy
         /\ SoundIntent(op'[i]) /\ OnceMove(op[i], op'[i])
         /\ \A j \in Intents \ {i} : op'[j] = op[j]
<1>a. op[i] \in Intent /\ SoundIntent(op[i])
  BY DEF TypeOK, IntentsSound
<1>1. PICK s \in CurrentSockets :
        op' = [op EXCEPT ![i] = [@ EXCEPT !.pc = "admitting", !.gen = ep.gen, !.rev = ep.rev, !.sock = s]]
    BY DEF Mutate
<1>2. op'[i] = [op[i] EXCEPT !.pc = "admitting", !.gen = ep.gen, !.rev = ep.rev, !.sock = s] /\ s # 0
  BY <1>1, BrowserAssumption DEF CurrentSockets, TypeOK
<1>3. op[i].row = "none"
  BY <1>a DEF Mutate, Admissible, SoundIntent
<1>4. SoundIntent(op'[i]) /\ OnceMove(op[i], op'[i])
  BY <1>a, <1>2, <1>3 DEF SoundIntent, OnceMove, LedgerOf, Intent, Known
<1> QED BY <1>1, <1>4 DEF Mutate, TypeOK

\* A step of the system is a step of its intents, or the first turn of a /mutate.
LEMMA NextIntents ==
  ASSUME TypeOK, IntentsSound, Next
  PROVE  IntentsStep \/ \E i \in Intents : Mutate(i)
<1>1. CASE \E a \in Attempts : \/ Begin(a) \/ Authorize(a) \/ Cancel(a) \/ Poll(a) \/ CompleteRead(a)
                               \/ CompleteCommit(a) \/ CompleteAnswer(a) \/ PollFails(a)
                               \/ GrantPersists(a) \/ GrantSettles(a) \/ AttemptExpires(a)
  BY <1>1, OthersStep DEF Begin, Authorize, Cancel, Poll, CompleteRead, CompleteCommit,
     CompleteAnswer, PollFails, GrantPersists, GrantSettles, AttemptExpires
<1>2. CASE \/ StopClick \/ RevokeClick \/ ToldOff \/ SeesClose
           \/ \E d \in Denials : DenialPersists(d) \/ DenialClears(d)
  BY <1>2, OthersStep DEF StopClick, RevokeClick, ToldOff, SeesClose, DenialPersists, DenialClears
<1>3. CASE \/ \E k \in Stops : StopRead(k) \/ StopWrite(k) \/ StopAnswer(k)
           \/ Revoke \/ Expire \/ AuditFails
  BY <1>3, OthersStep DEF StopRead, StopWrite, StopAnswer, StopWrites, Revoke, Expire, AuditFails, CloseAll
<1>4. CASE \E s \in 1..Sockets : \/ Connect(s) \/ AuthenticateRead(s) \/ AuthenticateCommit(s)
                                 \/ Authenticated(s) \/ SocketCloses(s) \/ CloseAlarmFails(s)
  BY <1>4, OthersStep DEF Connect, AuthenticateRead, AuthenticateCommit, Authenticated, SocketCloses,
     CloseAlarmFails, CloseAll
<1>5. CASE \E r \in Reads : \/ Read(r) \/ ReadTimeout(r) \/ ExtensionLooks(r) \/ Extracts(r) \/ Surveys(r)
                            \/ Watches(r) \/ ChecksAgain(r) \/ Captures(r) \/ ValidatesText(r)
                            \/ ValidatesPicture(r) \/ Clears(r) \/ Sends(r) \/ ReadResult(r)
  BY <1>5, OthersStep DEF Read, ReadTimeout, ExtensionLooks, Execute, Extracts, Surveys, Watches,
     ChecksAgain, Captures, ValidatesText, ValidatesPicture, Clears, Sends, ReadResult, Step
<1>6. CASE Navigates \/ SwitchesTab \/ Restart \/ ExtensionRestart
  BY <1>6, OthersStep DEF Navigates, SwitchesTab, Restart
<1> QED BY <1>1, <1>2, <1>3, <1>4, <1>5, <1>6, IntentActions DEF Next

\* Every step keeps every intent sound.
LEMMA SoundnessKept ==
  ASSUME TypeOK, IntentsSound, [Next]_vars
  PROVE  IntentsSound'
<1>1. CASE UNCHANGED vars
  BY <1>1 DEF vars, IntentsSound
<1>2. CASE IntentsStep
  BY <1>2 DEF IntentsSound, IntentsStep, IntentStep
<1>3. ASSUME NEW i \in Intents, Mutate(i)
      PROVE  IntentsSound'
  BY <1>3, MutateStep DEF IntentsSound
<1> QED BY <1>1, <1>2, <1>3, NextIntents

\* What the intents and observations under way look like while there is one at most.
Alone ==
  /\ \A i, j \in Intents : UnderWay(op[i]) /\ UnderWay(op[j]) => i = j
  /\ \A r, q \in reading : r = q
  /\ \A i \in Intents : UnderWay(op[i]) => reading = {}

\* Only /read adds an observation, to a free endpoint.
LEMMA NextReads ==
  ASSUME TypeOK, Next
  PROVE  \/ reading' \subseteq reading
         \/ op' = op /\ ~Busy /\ \E r \in Reads : reading' = reading \cup {r}
<1>1. CASE \E a \in Attempts : \/ Begin(a) \/ Authorize(a) \/ Cancel(a) \/ Poll(a) \/ CompleteRead(a)
                               \/ CompleteCommit(a) \/ CompleteAnswer(a) \/ PollFails(a)
                               \/ GrantPersists(a) \/ GrantSettles(a) \/ AttemptExpires(a)
  BY <1>1 DEF Begin, Authorize, Cancel, Poll, CompleteRead, CompleteCommit,
     CompleteAnswer, PollFails, GrantPersists, GrantSettles, AttemptExpires, seeing
<1>2. CASE \/ StopClick \/ RevokeClick \/ ToldOff \/ SeesClose
           \/ \E d \in Denials : DenialPersists(d) \/ DenialClears(d)
  BY <1>2 DEF StopClick, RevokeClick, ToldOff, SeesClose, DenialPersists, DenialClears, seeing
<1>3. CASE \/ \E k \in Stops : StopRead(k) \/ StopWrite(k) \/ StopAnswer(k)
           \/ Revoke \/ Expire \/ AuditFails
  BY <1>3 DEF StopRead, StopWrite, StopAnswer, Revoke, Expire, AuditFails, seeing
<1>4. CASE \E s \in 1..Sockets : \/ Connect(s) \/ AuthenticateRead(s) \/ AuthenticateCommit(s)
                                 \/ Authenticated(s) \/ SocketCloses(s) \/ CloseAlarmFails(s)
  BY <1>4 DEF Connect, AuthenticateRead, AuthenticateCommit, Authenticated, SocketCloses,
     CloseAlarmFails, seeing
<1>5. CASE \E r \in Reads : \/ ReadTimeout(r) \/ ExtensionLooks(r) \/ Extracts(r) \/ Surveys(r)
                            \/ Watches(r) \/ ChecksAgain(r) \/ Captures(r) \/ ValidatesText(r)
                            \/ ValidatesPicture(r) \/ Clears(r) \/ Sends(r) \/ ReadResult(r)
  BY <1>5 DEF ReadTimeout, ExtensionLooks, Execute, Extracts, Surveys, Watches,
     ChecksAgain, Captures, ValidatesText, ValidatesPicture, Clears, Sends, ReadResult, Step
<1>6. CASE \E r \in Reads : Read(r)
  BY <1>6 DEF Read
<1>7. CASE Navigates \/ SwitchesTab \/ Restart \/ ExtensionRestart
  BY <1>7 DEF Navigates, SwitchesTab, Restart, ExtensionRestart
<1>8. CASE \E i \in Intents : \/ Mutate(i) \/ Admit(i) \/ ExtensionPrepares(i) \/ Prepared(i)
                          \/ Dispatch(i) \/ MutationTimeout(i) \/ OperationStatus(i)
                          \/ ExtensionConsumes(i) \/ ExtensionChecks(i) \/ ExtensionAuthorizes(i)
                          \/ ExtensionExecutes(i) \/ Finalize(i) \/ GrowsOld(i)
  BY <1>8 DEF Mutate, Admit, ExtensionPrepares, Prepared, Dispatch, MutationTimeout, OperationStatus,
     ExtensionConsumes, ExtensionChecks, ExtensionAuthorizes, ExtensionExecutes, Finalize, GrowsOld, seeing
<1> QED BY <1>1, <1>2, <1>3, <1>4, <1>5, <1>6, <1>7, <1>8 DEF Next

\* Busy is what keeps a second intent or observation out.
LEMMA BusyMeans ==
  ASSUME TypeOK
  PROVE  ~Busy <=> reading = {} /\ \A i \in Intents : ~UnderWay(op[i])
BY DEF Busy, Admitting, Pending, Dispatching, UnderWay

\* Every step leaves at most one of them.
LEMMA AloneKept ==
  ASSUME TypeOK, IntentsSound, Alone, [Next]_vars
  PROVE  Alone'
<1>1. CASE UNCHANGED vars
  BY <1>1 DEF vars, seeing, Alone
<1>2. CASE Next /\ IntentsStep /\ reading' \subseteq reading
  BY <1>2 DEF Alone, IntentsStep, IntentStep
<1>3. CASE op' = op /\ ~Busy /\ \E r \in Reads : reading' = reading \cup {r}
  BY <1>3, BusyMeans DEF Alone
<1>4. ASSUME NEW i \in Intents, Mutate(i)
      PROVE  Alone'
  <2>1. /\ reading = {} /\ \A j \in Intents : ~UnderWay(op[j])
        /\ \A j \in Intents \ {i} : op'[j] = op[j]
    BY <1>4, MutateStep, BusyMeans
  <2>2. reading' = reading
    BY <1>4 DEF Mutate, seeing
  <2> QED BY <2>1, <2>2 DEF Alone
<1> QED BY <1>1, <1>2, <1>3, <1>4, NextIntents, NextReads

\* That is what OneAtATime counts.
LEMMA AloneCounts ==
  ASSUME TypeOK, Alone
  PROVE  OneAtATime
<1> DEFINE Busied == Admitting \cup Pending \cup Dispatching
<1>1. \A i \in Intents : i \in Busied <=> UnderWay(op[i])
  BY DEF UnderWay, Admitting, Pending, Dispatching
<1>2. Busied \subseteq Intents
  BY DEF Admitting, Pending, Dispatching
<1>3. Busied = {} \/ \E i \in Intents : Busied = {i}
  BY <1>1, <1>2 DEF Alone
<1>4. reading = {} \/ \E r \in Reads : reading = {r}
  BY DEF Alone, TypeOK
<1>5. Busied = {} \/ reading = {}
  BY <1>1, <1>2 DEF Alone
<1> HIDE DEF Busied
<1>6. Cardinality({}) = 0 /\ \A x : Cardinality({x}) = 1
  BY FS_EmptySet, FS_Singleton
<1>7. Cardinality(Busied) \in {0, 1}
  BY <1>3, <1>6, Zenon
<1>8. Cardinality(reading) \in {0, 1}
  BY <1>4, <1>6, Zenon
<1>9. Cardinality(Busied) = 0 \/ Cardinality(reading) = 0
  BY <1>5, <1>6, Zenon
<1>10. Cardinality(Busied) + Cardinality(reading) <= 1
  BY <1>7, <1>8, <1>9
<1> QED BY <1>10 DEF OneAtATime, Busied

\* The endpoint does one thing at a time, for any number of intents and observations: the
\* reservation in admittingEndpoints, the pending maps and the ledger's unique index leave
\* no gap between the turns of a handler, whatever is closed, times out or restarts meanwhile.
THEOREM EndpointExclusive == Spec => []OneAtATime
<1> DEFINE Inv == TypeOK /\ IntentsSound /\ Alone
<1>1. Init => Inv
  BY InitType DEF Init, IntentsSound, SoundIntent, Alone, UnderWay
<1>2. Inv /\ TypeOK' /\ [Next]_vars => Inv'
  BY SoundnessKept, AloneKept
<1>3. Inv => OneAtATime
  BY AloneCounts
<1> QED BY <1>1, <1>2, <1>3, BrowserTypeCorrect, PTL DEF Spec

-----------------------------------------------------------------------------
(* The refinement of OnceEffect *)

\* What happens to the records of the intents happens to their ledger and effects.
LEMMA OnceStep ==
  ASSUME \A i \in Intents : OnceMove(op[i], op'[i])
  PROVE  Once!Next
<1> SUFFICES ASSUME NEW i \in Intents
             PROVE  \/ Once!Stays(i) \/ Once!Claim(i) \/ Once!Send(i) \/ Once!Land(i)
                    \/ Once!Settle(i) \/ Once!Revise(i) \/ Once!Forget(i)
  BY DEF Once!Next
<1>1. OnceMove(op[i], op'[i])
  OBVIOUS
<1>2. Ledger(i) = LedgerOf(op[i]) /\ Ledger(i)' = LedgerOf(op'[i])
  BY DEF Ledger, LedgerOf
<1> QED BY <1>1, <1>2 DEF OnceMove, Once!Stays, Once!Claim, Once!Send, Once!Land, Once!Settle,
           Once!Revise, Once!Forget, Once!True, Once!Settled

\* An intent leaves the worker at most once, after its claim is durable, and its receipt is
\* true of what the browser did: the ledger of intents, its timers, sweeps, late results
\* and recovery implement OnceEffect.
THEOREM IntentsOnce == Spec => ImplementsOnceEffect
<1> DEFINE Inv == TypeOK /\ IntentsSound
<1>1. Init => Inv /\ Once!Init
  <2>1. Init => Inv
    BY InitType DEF Init, IntentsSound, SoundIntent
  <2>2. Init => Once!Init
    BY DEF Init, Once!Init, Ledger
  <2> QED BY <2>1, <2>2
<1>2. Inv /\ TypeOK' /\ [Next]_vars => Inv'
  BY SoundnessKept
<1>3. Inv /\ [Next]_vars => [Once!Next]_(<<[i \in Intents |-> Ledger(i)], [i \in Intents |-> op[i].effect]>>)
  <2> SUFFICES ASSUME Inv, [Next]_vars
               PROVE  Once!Next \/ UNCHANGED op
    BY DEF Ledger
  <2>1. CASE UNCHANGED vars
    BY <2>1 DEF vars
  <2>2. CASE Next /\ IntentsStep
    BY <2>2, OnceStep DEF IntentsStep, IntentStep
  <2>3. ASSUME NEW i \in Intents, Mutate(i)
        PROVE  Once!Next
    <3>1. \A j \in Intents : OnceMove(op[j], op'[j])
      BY <2>3, MutateStep DEF OnceMove
    <3> QED BY <3>1, OnceStep
  <2> QED BY <2>1, <2>2, <2>3, NextIntents
<1> QED BY <1>1, <1>2, <1>3, BrowserTypeCorrect, PTL DEF Spec, ImplementsOnceEffect, Once!Spec

-----------------------------------------------------------------------------
(* The extension after a Stop *)

\* What the user's Stop leaves behind: no attempt; if an answer is being written, one whose
\* epoch is over, while memory blocks what the disk may say; and if the disk does say
\* "enabled", somebody who puts that right.  When the Stop is done there is no socket.
StopSound ==
  /\ ext.attempt = 0
  /\ ext.answer # "none" => att[ext.polling].epoch < ext.epoch
  /\ ext.answer # "none" \/ ext.auth = "enabled" => ext.blocked
  /\ ext.auth = "enabled" => \/ ext.answer = "written" \/ "stop" \in ext.asked
                             \/ (ext.off = "asked" /\ ext.asked # {})
  /\ ext.off = "yes" => ext.socket = 0

\* An attempt that is held or answered was begun, and an accepted answer is not younger than
\* the last denial.
AnswerSound ==
  /\ \A a \in Attempts : ext.attempt = a \/ ext.polling = a => att[a].row # "none"
  /\ ext.answer # "none" => ext.polling \in Attempts /\ att[ext.polling].epoch <= ext.epoch

ExtensionSound == AnswerSound /\ (ext.off # "no" => StopSound)

\* Every step keeps it so: only the answer to an attempt nobody denied turns the extension on.
LEMMA ExtensionKept ==
  ASSUME TypeOK, ExtensionSound, [Next]_vars
  PROVE  ExtensionSound'
<1>a. /\ ext \in Extension /\ ext.epoch \in Nat /\ ext.epoch < ext.epoch + 1
      /\ \A a \in Attempts : att[a] \in Attempt /\ att[a].epoch \in Nat
  BY DEF TypeOK, Extension, Attempt
<1> USE DEF ExtensionSound, AnswerSound, StopSound
<1>b. ASSUME ext' = ext \/ \E reason : CloseAll(reason), att' = att PROVE ExtensionSound'
  BY <1>a, <1>b DEF CloseAll, Extension
<1>c. ASSUME ext' = ext,
             \A b \in Attempts : /\ att'[b].epoch = att[b].epoch
                                 /\ att'[b].row = att[b].row \/ att'[b].row # "none"
      PROVE  ExtensionSound'
  <2>1. ext.answer # "none" => att'[ext.polling].epoch = att[ext.polling].epoch
    BY <1>c
  <2>2. \A a \in Attempts : ext.attempt = a \/ ext.polling = a => att'[a].row # "none"
    BY <1>c
  <2> QED BY <1>c, <2>1, <2>2
<1>1. CASE UNCHANGED vars
  BY <1>1, <1>b DEF vars
<1>2. ASSUME NEW a \in Attempts, Begin(a)
      PROVE  ExtensionSound'
  <2>1. att[a].row = "none" /\ ext' = [ext EXCEPT !.attempt = a, !.off = "no"]
    BY <1>2 DEF Begin
  <2>2. /\ att'[a].row = "pending"
        /\ \A b \in Attempts \ {a} : att'[b] = att[b]
    BY <1>2, <1>a DEF Begin, TypeOK, Attempt
  <2>3. ext.answer # "none" => ext.polling # a
    BY <2>1
  <2> QED BY <1>a, <2>1, <2>2, <2>3 DEF Extension
<1>3. ASSUME NEW a \in Attempts, Authorize(a) \/ Cancel(a) \/ CompleteRead(a) \/ CompleteCommit(a)
      PROVE  ExtensionSound'
  <2>1. ext' = ext
    BY <1>3 DEF Authorize, Cancel, CompleteRead, CompleteCommit
  <2>2. CASE Authorize(a)
    BY <1>c, <2>1, <2>2, <1>a DEF Authorize, TypeOK, Attempt
  <2>3. CASE Cancel(a)
    BY <1>c, <2>1, <2>3, <1>a DEF Cancel, TypeOK, Attempt
  <2>4. CASE CompleteRead(a)
    BY <1>c, <2>1, <2>4, <1>a DEF CompleteRead, TypeOK, Attempt
  <2>5. CASE CompleteCommit(a)
    <3>1. \A b \in Attempts : /\ att'[b].epoch = att[b].epoch
                              /\ att'[b].row = att[b].row \/ att'[b].row # "none"
      <4>1. PICK c \in {"refused", "granted"} :
              \/ att' = [att EXCEPT ![a].call = c]
              \/ att' = [att EXCEPT ![a] = [@ EXCEPT !.row = "consumed", !.call = c]]
        BY <2>5 DEF CompleteCommit
      <4>2. CASE att' = [att EXCEPT ![a].call = c]
        BY <4>2, <1>a DEF TypeOK, Attempt
      <4>3. CASE att' = [att EXCEPT ![a] = [@ EXCEPT !.row = "consumed", !.call = c]]
        <5>1. \A b \in Attempts : b # a => att'[b] = att[b]
          BY <4>3 DEF TypeOK
        <5>2. att'[a] = [att[a] EXCEPT !.row = "consumed", !.call = c]
          BY <4>3 DEF TypeOK
        <5>3. att'[a].epoch = att[a].epoch /\ att'[a].row = "consumed"
          BY <5>2, <1>a DEF Attempt
        <5> QED BY <5>1, <5>3
      <4> QED BY <4>1, <4>2, <4>3
    <3> QED BY <1>c, <2>1, <3>1
  <2> QED BY <1>3, <2>2, <2>3, <2>4, <2>5
<1>4. ASSUME NEW a \in Attempts, Poll(a) \/ PollFails(a) \/ AttemptExpires(a)
      PROVE  ExtensionSound'
  <2>1. \A b \in Attempts : att'[b].epoch = att[b].epoch /\ (att'[b].row = att[b].row \/ att'[b].row # "none")
    <3>1. CASE Poll(a)
      BY <3>1, <1>a DEF Poll, TypeOK, Attempt
    <3>2. CASE PollFails(a)
      BY <3>2 DEF PollFails
    <3>3. CASE AttemptExpires(a)
      BY <3>3, <1>a DEF AttemptExpires, TypeOK, Attempt
    <3> QED BY <1>4, <3>1, <3>2, <3>3
  <2>2. ext.answer = "none"
    BY <1>4, BrowserAssumption DEF Poll, PollFails, AttemptExpires
  <2>3. CASE Poll(a)
    <3>1. ext.attempt = a /\ ext' = [ext EXCEPT !.polling = a]
      BY <2>3 DEF Poll
    <3> QED BY <1>a, <2>1, <2>2, <3>1, BrowserAssumption DEF Extension
  <2>4. CASE PollFails(a)
    BY <1>a, <2>1, <2>2, <2>4, BrowserAssumption DEF PollFails, Extension
  <2>5. CASE AttemptExpires(a)
    BY <1>a, <2>1, <2>2, <2>5, BrowserAssumption DEF AttemptExpires, Extension
  <2> QED BY <1>4, <2>3, <2>4, <2>5
<1>5. ASSUME NEW a \in Attempts, CompleteAnswer(a)
      PROVE  ExtensionSound'
  <2>1. \A b \in Attempts : att'[b].epoch = att[b].epoch /\ att'[b].row = att[b].row
    BY <1>5, <1>a DEF CompleteAnswer, TypeOK, Attempt
  <2>2. CASE ext' = ext
    BY <2>1, <2>2
  <2>3. CASE ext.answer = "none" /\ (ext' = [ext EXCEPT !.polling = 0] \/ ext' = [ext EXCEPT !.polling = 0, !.pendingStop = TRUE])
    <3>1. /\ ext'.attempt = ext.attempt /\ ext'.polling = 0 /\ ext'.answer = "none"
          /\ ext'.epoch = ext.epoch /\ ext'.blocked = ext.blocked /\ ext'.auth = ext.auth
          /\ ext'.asked = ext.asked /\ ext'.off = ext.off /\ ext'.socket = ext.socket
      BY <2>3, <1>a DEF Extension
    <3> QED BY <2>1, <2>3, <3>1, BrowserAssumption
  <2>4. CASE ext.polling = a /\ ~Overtaken(a) /\ ext' = [ext EXCEPT !.answer = "accepted"]
    <3>1. /\ ext'.attempt = ext.attempt /\ ext'.polling = a /\ ext'.answer = "accepted"
          /\ ext'.epoch = ext.epoch /\ ext'.blocked = ext.blocked /\ ext'.auth = ext.auth
          /\ ext'.asked = ext.asked /\ ext'.off = ext.off /\ ext'.socket = ext.socket
      BY <2>4, <1>a DEF Extension
    <3>2. ext.attempt = a /\ ext.epoch = att[a].epoch
      BY <2>4 DEF Overtaken, DeniedSince
    <3> QED BY <1>a, <2>1, <2>4, <3>1, <3>2, BrowserAssumption
  <2> QED BY <1>5, <2>2, <2>3, <2>4 DEF CompleteAnswer
<1>6. ASSUME NEW a \in Attempts, GrantPersists(a) \/ GrantSettles(a)
      PROVE  ExtensionSound'
  <2>1. att' = att
    BY <1>6 DEF GrantPersists, GrantSettles
  <2>2. CASE GrantPersists(a)
    BY <1>a, <2>1, <2>2 DEF GrantPersists, Extension
  <2>3. CASE GrantSettles(a) /\ DeniedSince(a)
    <3>1. ext' = Deny([ext EXCEPT !.polling = 0, !.answer = "none", !.attempt = 0], "stop")
      BY <2>3 DEF GrantSettles
    <3>2. /\ ext'.polling = 0 /\ ext'.answer = "none" /\ ext'.attempt = 0 /\ ext'.blocked = TRUE
          /\ "stop" \in ext'.asked /\ ext'.off = ext.off /\ ext'.socket = ext.socket
      BY <3>1, <1>a DEF Deny, Extension
    <3> QED BY <2>1, <3>2, BrowserAssumption
  <2>4. CASE GrantSettles(a) /\ ~DeniedSince(a)
    <3>1. ext' = [ext EXCEPT !.polling = 0, !.answer = "none", !.attempt = 0, !.blocked = FALSE]
      BY <2>4, <1>a DEF GrantSettles, Extension
    <3>2. ext.off = "no"
      BY <2>4, <1>a DEF GrantSettles, DeniedSince, Extension
    <3> QED BY <1>a, <2>1, <3>1, <3>2, BrowserAssumption DEF Extension
  <2> QED BY <1>6, <2>2, <2>3, <2>4
<1>13. CASE StopClick \/ RevokeClick \/ ToldOff
  <2>1. att' = att
    BY <1>13 DEF StopClick, RevokeClick, ToldOff
  <2>2. \A d : /\ Deny(ext, d).epoch = ext.epoch + 1 /\ Deny(ext, d).blocked = TRUE
               /\ Deny(ext, d).asked = ext.asked \cup {d} /\ Deny(ext, d).answer = ext.answer
               /\ Deny(ext, d).polling = ext.polling /\ Deny(ext, d).off = ext.off
               /\ Deny(ext, d).auth = ext.auth /\ Deny(ext, d).socket = ext.socket
               /\ Deny(ext, d).attempt \in {0, ext.attempt}
               /\ d \in {"stop", "revoke"} => Deny(ext, d).attempt = 0
    BY <1>a DEF Deny, Extension
  <2>3. \A d \in Denials : Deny(ext, d) \in Extension
    BY <1>a, DenyType
  <2>4. CASE StopClick \/ RevokeClick
    <3>1. PICK d \in {"stop", "revoke"} : ext' = [Deny(ext, d) EXCEPT !.off = "asked"]
      BY <2>4 DEF StopClick, RevokeClick
    <3>2. /\ ext'.epoch = ext.epoch + 1 /\ ext'.blocked = TRUE /\ ext'.answer = ext.answer
          /\ ext'.polling = ext.polling /\ ext'.attempt = 0 /\ ext'.off = "asked" /\ d \in ext'.asked
      BY <2>2, <2>3, <3>1 DEF Denials, Extension
    <3> QED BY <1>a, <2>1, <3>2, BrowserAssumption
  <2>5. CASE ToldOff
    <3>1. ext' = [Deny(ext, ext.told) EXCEPT !.told = "none"] /\ ext.told \in Denials
      BY <2>5, <1>a DEF ToldOff, Extension, Denials
    <3>2. /\ ext'.epoch = ext.epoch + 1 /\ ext'.blocked = TRUE /\ ext'.answer = ext.answer
          /\ ext'.polling = ext.polling /\ ext'.attempt \in {0, ext.attempt} /\ ext'.off = ext.off
          /\ ext'.auth = ext.auth /\ ext'.socket = ext.socket
          /\ ext'.asked = ext.asked \cup {ext.told}
      BY <2>2, <2>3, <3>1 DEF Extension
    <3> QED BY <1>a, <2>1, <3>2, BrowserAssumption
  <2> QED BY <1>13, <2>4, <2>5
<1>14. ASSUME NEW d \in Denials, DenialPersists(d) \/ DenialClears(d)
       PROVE  ExtensionSound'
  <2>1. att' = att
    BY <1>14 DEF DenialPersists, DenialClears
  <2>2. CASE DenialPersists(d)
    <3>1. /\ ext'.auth # "enabled" /\ ext'.off = ext.off /\ ext'.attempt = ext.attempt
          /\ ext'.answer = ext.answer /\ ext'.polling = ext.polling /\ ext'.epoch = ext.epoch
          /\ ext'.blocked = ext.blocked /\ ext'.socket = ext.socket
      BY <2>2, <1>a DEF DenialPersists, Extension
    <3> QED BY <2>1, <3>1
  <2>3. CASE DenialClears(d)
    <3>1. /\ ext'.auth = ext.auth /\ ext'.attempt = ext.attempt /\ ext'.asked = ext.asked
          /\ ext'.answer = ext.answer /\ ext'.polling = ext.polling /\ ext'.epoch = ext.epoch
          /\ ext'.blocked = ext.blocked /\ ext'.socket = 0
          /\ ext'.off = IF ext.off = "asked" /\ ext.asked = {} THEN "yes" ELSE ext.off
      BY <2>3, <1>a DEF DenialClears, NoNetwork, Extension
    <3> QED BY <2>1, <3>1
  <2> QED BY <1>14, <2>2, <2>3
<1>15. CASE SeesClose
  <2>1. att' = att
    BY <1>15 DEF SeesClose
  <2>2. /\ ext'.attempt = ext.attempt /\ ext'.polling = ext.polling /\ ext'.answer = ext.answer
        /\ ext'.epoch = ext.epoch /\ ext'.blocked = ext.blocked
        /\ ext'.auth = ext.auth \/ ext'.auth \in {"stopped", "revoked"}
        /\ ext'.asked = ext.asked /\ ext'.off = ext.off /\ ext'.socket = 0
    BY <1>15, <1>a DEF SeesClose, NoNetwork, Extension
  <2> QED BY <2>1, <2>2
<1>16. CASE \/ \E k \in Stops : StopRead(k) \/ StopWrite(k) \/ StopAnswer(k)
            \/ Revoke \/ Expire \/ AuditFails
  <2>1. att' = att
    BY <1>16 DEF StopRead, StopWrite, StopAnswer, Revoke, Expire, AuditFails
  <2>2. \/ ext' = ext \/ (\E reason : CloseAll(reason))
        \/ ext' = [ext EXCEPT !.pendingStop = @ /\ ~StopConfirmed]
    BY <1>16 DEF StopRead, StopWrite, StopAnswer, StopWrites, Revoke, Expire, AuditFails
  <2> QED BY <1>a, <1>b, <2>1, <2>2 DEF Extension
<1>7. ASSUME NEW s \in 1..Sockets, \/ AuthenticateRead(s) \/ AuthenticateCommit(s)
                                   \/ SocketCloses(s) \/ CloseAlarmFails(s)
      PROVE  ExtensionSound'
  BY <1>7, <1>b DEF AuthenticateRead, AuthenticateCommit, SocketCloses, CloseAlarmFails
<1>8. ASSUME NEW s \in 1..Sockets, Connect(s) \/ Authenticated(s)
      PROVE  ExtensionSound'
  BY <1>8, <1>a DEF Connect, Authenticated, Enabled, Extension
<1>9. ASSUME NEW i \in Intents,
             \/ Mutate(i) \/ Admit(i) \/ ExtensionPrepares(i) \/ Prepared(i)
             \/ Dispatch(i) \/ MutationTimeout(i) \/ OperationStatus(i)
             \/ ExtensionConsumes(i) \/ ExtensionChecks(i) \/ ExtensionAuthorizes(i)
             \/ ExtensionExecutes(i) \/ Finalize(i) \/ GrowsOld(i)
      PROVE  ExtensionSound'
  BY <1>9, <1>b DEF Mutate, Admit, ExtensionPrepares, Prepared, Dispatch, MutationTimeout, OperationStatus,
     ExtensionConsumes, ExtensionChecks, ExtensionAuthorizes, ExtensionExecutes, Finalize, GrowsOld
<1>10. ASSUME NEW r \in Reads,
              \/ Read(r) \/ ReadTimeout(r) \/ ExtensionLooks(r) \/ Extracts(r) \/ Surveys(r)
              \/ Watches(r) \/ ChecksAgain(r) \/ Captures(r) \/ ValidatesText(r)
              \/ ValidatesPicture(r) \/ Clears(r) \/ Sends(r) \/ ReadResult(r)
       PROVE  ExtensionSound'
  BY <1>10, <1>b DEF Read, ReadTimeout, ExtensionLooks, Execute, Extracts, Surveys, Watches,
     ChecksAgain, Captures, ValidatesText, ValidatesPicture, Clears, Sends, ReadResult, Step
<1>11. CASE Navigates \/ SwitchesTab \/ Restart
  <2>1. ext' = ext
    BY <1>11 DEF Navigates, SwitchesTab, Restart
  <2>2. CASE Restart
    <3>1. \A b \in Attempts : att'[b].epoch = att[b].epoch /\ att'[b].row = att[b].row
      BY <2>2, <1>a DEF Restart, TypeOK, Attempt
    <3> QED BY <2>1, <3>1
  <2> QED BY <1>11, <1>b, <2>1, <2>2 DEF Navigates, SwitchesTab
<1>12. CASE ExtensionRestart
  <2>1. /\ att' = att /\ ext'.attempt = ext.attempt /\ ext'.polling = 0 /\ ext'.answer = "none"
        /\ ext'.auth = ext.auth /\ ext'.socket = 0
        /\ ext'.off = IF Overwritten \/ (ext.off = "asked" /\ ext.asked # {}) THEN "no"
                      ELSE IF ext.off = "asked" THEN "yes" ELSE ext.off
    BY <1>12, <1>a DEF ExtensionRestart, NoNetwork, Extension
  <2> QED BY <2>1, BrowserAssumption DEF Overwritten
<1> QED BY <1>1, <1>2, <1>3, <1>4, <1>5, <1>6, <1>7, <1>8, <1>9, <1>10, <1>11, <1>12, <1>13,
           <1>14, <1>15, <1>16 DEF Next

\* A Stop or Revoke of the user is undone only by an activation begun after it, for any
\* number of attempts, however late their answers, also one that is persisted over it.
THEOREM StopHolds == Spec => []OffStaysOff
<1>1. Init => ExtensionSound
  BY BrowserAssumption DEF Init, ExtensionSound, AnswerSound
<1>2. ExtensionSound => OffStaysOff
  BY DEF ExtensionSound, StopSound, OffStaysOff, Enabled
<1> QED BY <1>1, <1>2, ExtensionKept, BrowserTypeCorrect, PTL DEF Spec

-----------------------------------------------------------------------------
(* Observations *)

\* What is always true of one observation: a picture that shows something else was noticed
\* by a listener or is of a document the tab has left, so it does not pass validation.
SoundLook(l, p) ==
  /\ l.sock = 0 => l.pc = "none"
  /\ l.pc \in {"surveyed", "watched", "capturing"} => l.tool = "screenshot"
  /\ l.pc \in {"checked", "surveyed", "watched", "capturing", "taken"} => l.doc <= p.doc
  /\ l.pc = "capturing" => l.switched \/ p.shown
  /\ l.got = "other" => l.pc \in {"taken", "over"}
  /\ l.pc = "taken" /\ l.got = "other" => l.tool = "screenshot" /\ (l.switched \/ l.doc < p.doc)

LooksSound == \A r \in Reads : SoundLook(look[r], page)

\* An observation is sent while no Stop of the user is done, and shows the document it checked.
GuardedSend(r) == Leaves(r) => ext.off # "yes" /\ look'[r].got # "other"

\* Every step of the extension's work on an observation keeps them sound, and guards the send.
LEMMA ReadActions ==
  ASSUME TypeOK, ExtensionSound, LooksSound, NEW r \in Reads,
         \/ Read(r) \/ ReadTimeout(r) \/ ExtensionLooks(r) \/ Extracts(r) \/ Surveys(r)
         \/ Watches(r) \/ ChecksAgain(r) \/ Captures(r) \/ ValidatesText(r)
         \/ ValidatesPicture(r) \/ Clears(r) \/ Sends(r) \/ ReadResult(r)
  PROVE  LooksSound' /\ \A q \in Reads : GuardedSend(q)
<1> DEFINE l == look[r]
<1>a. l \in Observation /\ SoundLook(l, page) /\ page.doc \in Nat /\ l.doc \in Nat
  BY BrowserAssumption DEF TypeOK, LooksSound, Observation
<1>b. page' = page
  BY DEF Read, ReadTimeout, ExtensionLooks, Execute, Extracts, Surveys, Watches,
     ChecksAgain, Captures, ValidatesText, ValidatesPicture, Clears, Sends, ReadResult, Step
<1>c. ASSUME NEW m, look' = [look EXCEPT ![r] = m], SoundLook(m, page),
             m.pc = "sent" => ext.off # "yes"
      PROVE  LooksSound' /\ \A q \in Reads : GuardedSend(q)
  <2>1. \A q \in Reads : look'[q] = IF q = r THEN m ELSE look[q]
    BY <1>c DEF TypeOK
  <2>2. m.pc = "sent" => m.got # "other"
    BY <1>c DEF SoundLook
  <2> QED BY <1>b, <1>c, <2>1, <2>2 DEF LooksSound, GuardedSend, Leaves
<1>d. l.pc # "none" => SoundLook(Refused(l), page) /\ Refused(l).pc # "sent"
  BY <1>a DEF SoundLook, Refused, Observation
<1>e. ASSUME NEW fine, NEW m, Step(r, fine, m), l.pc # "none", fine => SoundLook(m, page),
             m.pc = "sent" => ext.off # "yes"
      PROVE  LooksSound' /\ \A q \in Reads : GuardedSend(q)
  <2>1. look' = [look EXCEPT ![r] = IF fine THEN m ELSE Refused(l)]
    BY <1>e DEF Step
  <2> QED BY <1>c, <1>d, <1>e, <2>1
<1>1. CASE Read(r)
  <2>1. PICK s \in CurrentSockets, tool \in {"tabs", "snapshot", "screenshot"} :
          look' = [look EXCEPT ![r] = [@ EXCEPT !.pc = "asked", !.tool = tool, !.sock = s, !.gen = ep.gen]]
    BY <1>1 DEF Read
  <2>2. s # 0 /\ l.pc = "none"
    <3>1. s \in 1..Sockets
      BY DEF CurrentSockets
    <3>2. l.pc = "none"
      BY <1>1 DEF Read
    <3> QED BY <3>1, <3>2, BrowserAssumption
  <2>3. SoundLook([l EXCEPT !.pc = "asked", !.tool = tool, !.sock = s, !.gen = ep.gen], page)
    BY <1>a, <2>2 DEF SoundLook, Observation
  <2>4. [l EXCEPT !.pc = "asked", !.tool = tool, !.sock = s, !.gen = ep.gen].pc # "sent"
    BY <1>a DEF Observation
  <2> QED BY <1>c, <2>1, <2>3, <2>4
<1>2. CASE ReadTimeout(r)
  BY <1>2, <1>b DEF ReadTimeout, LooksSound, GuardedSend, Leaves
<1>3. CASE ExtensionLooks(r)
  <2>1. l.pc = "asked" /\ l.sock # 0
    BY <1>3, <1>a DEF ExtensionLooks, SoundLook
  <2>2. SoundLook(TabList(l), page) /\ SoundLook(Frame(l), page)
        /\ TabList(l).pc # "sent" /\ Frame(l).pc # "sent"
    BY <1>a, <2>1 DEF SoundLook, TabList, Frame, Observation
  <2> QED BY <1>3, <1>e, <2>1, <2>2 DEF ExtensionLooks, Execute
<1>4. CASE Extracts(r)
  <2> DEFINE m == [l EXCEPT !.pc = "taken", !.got = "target"]
  <2>1. l.pc = "checked" /\ \E fine \in BOOLEAN : Step(r, fine /\ InDocument(l), m)
    BY <1>4 DEF Extracts
  <2>2. SoundLook(m, page) /\ m.pc # "sent"
    BY <1>a, <2>1 DEF SoundLook, Observation
  <2> QED BY <1>e, <2>1, <2>2
<1>5. CASE Surveys(r)
  <2> DEFINE m == [l EXCEPT !.pc = "surveyed"]
  <2>1. l.pc = "checked" /\ l.tool = "screenshot" /\ \E fine \in BOOLEAN : Step(r, fine /\ InDocument(l), m)
    BY <1>5 DEF Surveys
  <2>2. SoundLook(m, page) /\ m.pc # "sent"
    BY <1>a, <2>1 DEF SoundLook, Observation
  <2> QED BY <1>e, <2>1, <2>2
<1>6. CASE Watches(r)
  <2> DEFINE m == [l EXCEPT !.pc = "watched"]
  <2>1. l.pc = "surveyed" /\ Step(r, Accessible(l), m)
    BY <1>6 DEF Watches
  <2>2. SoundLook(m, page) /\ m.pc # "sent"
    BY <1>a, <2>1 DEF SoundLook, Observation
  <2> QED BY <1>e, <2>1, <2>2
<1>7. CASE ChecksAgain(r)
  <2> DEFINE m == [l EXCEPT !.pc = "capturing"]
  <2>1. l.pc = "watched" /\ Step(r, Accessible(l) /\ MayLook(l) /\ ~l.switched, m)
    BY <1>7 DEF ChecksAgain
  <2>2. (Accessible(l) => SoundLook(m, page)) /\ m.pc # "sent"
    BY <1>a, <2>1 DEF SoundLook, Observation, Accessible
  <2> QED BY <1>e, <2>1, <2>2
<1>8. CASE Captures(r)
  <2> DEFINE seen == IF page.shown /\ page.doc = l.doc THEN "target" ELSE "other"
             m == [l EXCEPT !.pc = "taken", !.got = seen]
  <2>1. l.pc = "capturing" /\ Step(r, TRUE, m)
    BY <1>8 DEF Captures
  <2>2. SoundLook(m, page) /\ m.pc # "sent"
    BY <1>a, <2>1 DEF SoundLook, Observation
  <2> QED BY <1>e, <2>1, <2>2
<1>9. CASE ValidatesText(r) \/ ValidatesPicture(r)
  <2> DEFINE m == [l EXCEPT !.pc = "ended"]
  <2>1. l.pc = "taken"
        /\ \E fine : Step(r, fine, m) /\ (fine => l.tool = "snapshot" \/ (page.doc = l.doc /\ ~l.switched))
    BY <1>9 DEF ValidatesText, ValidatesPicture
  <2>2. (l.tool = "snapshot" \/ (page.doc = l.doc /\ ~l.switched) => SoundLook(m, page)) /\ m.pc # "sent"
    BY <1>a, <2>1 DEF SoundLook, Observation
  <2> QED BY <1>e, <2>1, <2>2
<1>10. CASE Clears(r)
  <2> DEFINE m == [l EXCEPT !.pc = IF MayLook(l) THEN "cleared" ELSE "over"]
  <2>1. l.pc = "ended" /\ Step(r, TRUE, m)
    BY <1>10 DEF Clears
  <2>2. SoundLook(m, page) /\ m.pc # "sent"
    BY <1>a, <2>1 DEF SoundLook, Observation
  <2> QED BY <1>e, <2>1, <2>2
<1>11. CASE Sends(r)
  <2> DEFINE m == [l EXCEPT !.pc = IF ext.socket = l.sock THEN "sent" ELSE "over",
                            !.got = IF @ = "list" \/ page.open THEN @ ELSE "nothing"]
  <2>1. l.pc = "cleared" /\ Step(r, TRUE, m)
    BY <1>11 DEF Sends
  <2>2. SoundLook(m, page) /\ (m.pc = "sent" => ext.socket # 0)
    BY <1>a, <2>1 DEF SoundLook, Observation
  <2> QED BY <1>e, <2>1, <2>2 DEF ExtensionSound, StopSound
<1>12. CASE ReadResult(r)
  <2>1. look' = [look EXCEPT ![r] = [@ EXCEPT !.pc = "over"]] /\ l.pc = "sent"
    BY <1>12 DEF ReadResult
  <2>2. SoundLook([l EXCEPT !.pc = "over"], page) /\ [l EXCEPT !.pc = "over"].pc # "sent"
    BY <1>a, <2>1 DEF SoundLook, Observation
  <2> QED BY <1>c, <2>1, <2>2
<1> QED BY <1>1, <1>2, <1>3, <1>4, <1>5, <1>6, <1>7, <1>8, <1>9, <1>10, <1>11, <1>12

\* The page moves on, or the extension restarts, under an observation.
LEMMA PageMoves ==
  ASSUME TypeOK, LooksSound, Navigates \/ SwitchesTab \/ ExtensionRestart
  PROVE  LooksSound' /\ \A r \in Reads : GuardedSend(r)
<1> SUFFICES ASSUME NEW r \in Reads PROVE SoundLook(look'[r], page') /\ GuardedSend(r)
  BY DEF LooksSound
<1>a. look[r] \in Observation /\ SoundLook(look[r], page) /\ page.doc \in Nat /\ look[r].doc \in Nat
  BY BrowserAssumption DEF TypeOK, LooksSound, Observation
<1>1. CASE Navigates
  <2>1. page'.doc = page.doc + 1 /\ page'.shown = page.shown
    BY <1>1 DEF Navigates, TypeOK
  <2>2. look'[r] = IF Watching(look[r]) THEN [look[r] EXCEPT !.switched = TRUE] ELSE look[r]
    BY <1>1 DEF Navigates, Noticed
  <2> QED BY <1>a, <2>1, <2>2 DEF SoundLook, GuardedSend, Leaves, Watching, Observation
<1>2. CASE SwitchesTab
  <2>1. page'.doc = page.doc /\ page'.shown = ~page.shown
    BY <1>2 DEF SwitchesTab, TypeOK
  <2>2. look'[r] = IF page.shown /\ Watching(look[r]) THEN [look[r] EXCEPT !.switched = TRUE] ELSE look[r]
    BY <1>2 DEF SwitchesTab, Noticed
  <2> QED BY <1>a, <2>1, <2>2 DEF SoundLook, GuardedSend, Leaves, Watching, Observation
<1>3. CASE ExtensionRestart
  <2>1. look'[r] = (IF look[r].pc \in Looking THEN [look[r] EXCEPT !.pc = "over"] ELSE look[r]) /\ page' = page
    BY <1>3 DEF ExtensionRestart
  <2> QED BY <1>a, <2>1 DEF SoundLook, GuardedSend, Leaves, Looking, Observation
<1> QED BY <1>1, <1>2, <1>3

\* Everything else leaves observations and the page alone.
LEMMA LooksKept ==
  ASSUME TypeOK, ExtensionSound, LooksSound, [Next]_vars
  PROVE  LooksSound' /\ \A r \in Reads : GuardedSend(r)
<1>a. ASSUME look' = look, page' = page
      PROVE  LooksSound' /\ \A r \in Reads : GuardedSend(r)
  BY <1>a DEF LooksSound, GuardedSend, Leaves
<1>1. CASE UNCHANGED vars
  BY <1>1, <1>a DEF vars, seeing
<1>2. CASE \E a \in Attempts : \/ Begin(a) \/ Authorize(a) \/ Cancel(a) \/ Poll(a) \/ CompleteRead(a)
                               \/ CompleteCommit(a) \/ CompleteAnswer(a) \/ PollFails(a)
                               \/ GrantPersists(a) \/ GrantSettles(a) \/ AttemptExpires(a)
  BY <1>2, <1>a DEF Begin, Authorize, Cancel, Poll, CompleteRead, CompleteCommit,
     CompleteAnswer, PollFails, GrantPersists, GrantSettles, AttemptExpires, seeing
<1>3. CASE \/ StopClick \/ RevokeClick \/ ToldOff \/ SeesClose
           \/ \E d \in Denials : DenialPersists(d) \/ DenialClears(d)
  BY <1>3, <1>a DEF StopClick, RevokeClick, ToldOff, SeesClose, DenialPersists, DenialClears, seeing
<1>4. CASE \/ \E k \in Stops : StopRead(k) \/ StopWrite(k) \/ StopAnswer(k)
           \/ Revoke \/ Expire \/ AuditFails
  BY <1>4, <1>a DEF StopRead, StopWrite, StopAnswer, Revoke, Expire, AuditFails, seeing
<1>5. CASE \E s \in 1..Sockets : \/ Connect(s) \/ AuthenticateRead(s) \/ AuthenticateCommit(s)
                                 \/ Authenticated(s) \/ SocketCloses(s) \/ CloseAlarmFails(s)
  BY <1>5, <1>a DEF Connect, AuthenticateRead, AuthenticateCommit, Authenticated, SocketCloses,
     CloseAlarmFails, seeing
<1>6. CASE \E i \in Intents : \/ Mutate(i) \/ Admit(i) \/ ExtensionPrepares(i) \/ Prepared(i)
                          \/ Dispatch(i) \/ MutationTimeout(i) \/ OperationStatus(i)
                          \/ ExtensionConsumes(i) \/ ExtensionChecks(i) \/ ExtensionAuthorizes(i)
                          \/ ExtensionExecutes(i) \/ Finalize(i) \/ GrowsOld(i)
  BY <1>6, <1>a DEF Mutate, Admit, ExtensionPrepares, Prepared, Dispatch, MutationTimeout, OperationStatus,
     ExtensionConsumes, ExtensionChecks, ExtensionAuthorizes, ExtensionExecutes, Finalize, GrowsOld, seeing
<1>7. CASE Restart
  BY <1>7, <1>a DEF Restart
<1> QED BY <1>1, <1>2, <1>3, <1>4, <1>5, <1>6, <1>7, ReadActions, PageMoves DEF Next

\* Nothing passes its last check after a Stop of the user is done.
GuardedEffect(i) == ext.off = "yes" /\ op'[i].run = "acting" => op[i].run = "acting"

\* The last check reads the socket an intent came by: it is gone after a Stop.
LEMMA EffectsGuarded ==
  ASSUME TypeOK, IntentsSound, ExtensionSound, [Next]_vars
  PROVE  \A i \in Intents : GuardedEffect(i)
<1>e. ASSUME NEW i \in Intents, op' = op \/ op'[i].run \in {op[i].run, "stored", "running", "cleared", "over"}
      PROVE  GuardedEffect(i)
  BY <1>e DEF GuardedEffect
<1>t. \A o \in Intent : /\ Terminated(o).run = o.run /\ Reconciled(o).run = o.run
                        /\ Swept(o).run = o.run /\ Recovered(o).run = o.run
  BY DEF Terminated, Reconciled, Swept, Recovered, MarkUnknown, Abort, Intent
<1>o. \A i \in Intents : op[i] \in Intent
  BY DEF TypeOK
<1>1. CASE UNCHANGED vars
  BY <1>1, <1>e DEF vars
<1>2. CASE \/ op' = [i \in Intents |-> Terminated(op[i])]
           \/ op' = [i \in Intents |-> Recovered(op[i])]
           \/ \E s \in 1..Sockets : op' = [i \in Intents |-> IF op[i].sock = s THEN Terminated(op[i]) ELSE op[i]]
  BY <1>2, <1>e, <1>t, <1>o
<1>3. CASE \E a \in Attempts : \/ Begin(a) \/ Authorize(a) \/ Cancel(a) \/ Poll(a) \/ CompleteRead(a)
                               \/ CompleteCommit(a) \/ CompleteAnswer(a) \/ PollFails(a)
                               \/ GrantPersists(a) \/ GrantSettles(a) \/ AttemptExpires(a)
  BY <1>3, <1>e DEF Begin, Authorize, Cancel, Poll, CompleteRead, CompleteCommit,
     CompleteAnswer, PollFails, GrantPersists, GrantSettles, AttemptExpires
<1>4. CASE \/ StopClick \/ RevokeClick \/ ToldOff \/ SeesClose
           \/ \E d \in Denials : DenialPersists(d) \/ DenialClears(d)
  BY <1>4, <1>e DEF StopClick, RevokeClick, ToldOff, SeesClose, DenialPersists, DenialClears
<1>5. CASE \/ \E k \in Stops : StopRead(k) \/ StopWrite(k) \/ StopAnswer(k)
           \/ Revoke \/ Expire \/ AuditFails
  BY <1>5, <1>e, <1>2 DEF StopRead, StopWrite, StopAnswer, StopWrites, Revoke, Expire, AuditFails, CloseAll
<1>6. CASE \E s \in 1..Sockets : \/ Connect(s) \/ AuthenticateRead(s) \/ AuthenticateCommit(s)
                                 \/ Authenticated(s) \/ SocketCloses(s) \/ CloseAlarmFails(s)
  BY <1>6, <1>e, <1>2 DEF Connect, AuthenticateRead, AuthenticateCommit, Authenticated, SocketCloses,
     CloseAlarmFails, CloseAll
<1>7. CASE \E r \in Reads : \/ Read(r) \/ ReadTimeout(r) \/ ExtensionLooks(r) \/ Extracts(r) \/ Surveys(r)
                            \/ Watches(r) \/ ChecksAgain(r) \/ Captures(r) \/ ValidatesText(r)
                            \/ ValidatesPicture(r) \/ Clears(r) \/ Sends(r) \/ ReadResult(r)
  BY <1>7, <1>e DEF Read, ReadTimeout, ExtensionLooks, Execute, Extracts, Surveys, Watches,
     ChecksAgain, Captures, ValidatesText, ValidatesPicture, Clears, Sends, ReadResult, Step
<1>8. CASE Navigates \/ SwitchesTab \/ Restart
  BY <1>8, <1>e, <1>2 DEF Navigates, SwitchesTab, Restart
<1>9. CASE ExtensionRestart
  <2>1. \A i \in Intents, e \in {"applied", "refused"} : [op[i] EXCEPT !.run = "over", !.effect = e].run = "over"
    BY <1>o DEF Intent
  <2> QED BY <1>9, <1>e, <2>1 DEF ExtensionRestart, Suspended
<1>r. \A i \in Intents : \A e, v : Reply([op[i] EXCEPT !.effect = e], v).run = "over"
  BY <1>o DEF Reply, Intent
<1>10. ASSUME NEW i \in Intents, ExtensionAuthorizes(i)
       PROVE  \A j \in Intents : GuardedEffect(j)
  <2>1. op[i].run = "cleared" /\ op[i].sock # 0
    BY <1>10 DEF ExtensionAuthorizes, IntentsSound, SoundIntent
  <2>2. ext.off = "yes" => ~Authorized(i)
    BY <2>1 DEF Authorized, ExtensionSound, StopSound
  <2>3. ~Authorized(i) => op'[i].run = "over"
    BY <1>10, <1>r DEF ExtensionAuthorizes, TypeOK
  <2>4. \A j \in Intents \ {i} : op'[j] = op[j]
    BY <1>10 DEF ExtensionAuthorizes, TypeOK
  <2> QED BY <2>2, <2>3, <2>4 DEF GuardedEffect
<1>13. ASSUME NEW i \in Intents, ExtensionExecutes(i)
       PROVE  \A j \in Intents : GuardedEffect(j)
  <2>1. op'[i].run = "over"
    BY <1>13, <1>r DEF ExtensionExecutes, TypeOK
  <2>2. \A j \in Intents \ {i} : op'[j] = op[j]
    BY <1>13 DEF ExtensionExecutes, TypeOK
  <2> QED BY <2>1, <2>2 DEF GuardedEffect
<1>11. ASSUME NEW i \in Intents,
              \/ Mutate(i) \/ ExtensionPrepares(i) \/ Prepared(i)
              \/ Dispatch(i) \/ MutationTimeout(i) \/ OperationStatus(i)
              \/ ExtensionConsumes(i) \/ ExtensionChecks(i)
              \/ Finalize(i) \/ GrowsOld(i)
       PROVE  \A j \in Intents : GuardedEffect(j)
  <2>1. op' = [op EXCEPT ![i] = op'[i]]
    BY <1>11 DEF Mutate, ExtensionPrepares, Prepared, Dispatch, MutationTimeout, OperationStatus,
       ExtensionConsumes, ExtensionChecks, Finalize, GrowsOld, TypeOK
  <2>2. op'[i].run \in {op[i].run, "stored", "running", "cleared", "over"}
    <3> USE <1>o, <1>t DEF TypeOK
    <3>1. CASE Mutate(i)
      BY <3>1 DEF Mutate, Intent
    <3>2. CASE MutationTimeout(i) \/ OperationStatus(i)
      BY <3>2 DEF MutationTimeout, OperationStatus
    <3>7. CASE ExtensionPrepares(i) \/ GrowsOld(i)
      <4>1. \/ op'[i] = [op[i] EXCEPT !.wire = "accepted", !.run = "stored"]
            \/ op'[i] = [op[i] EXCEPT !.wire = "refused"]
            \/ op'[i] = [op[i] EXCEPT !.old = TRUE]
        BY <3>7 DEF ExtensionPrepares, GrowsOld
      <4> QED BY <4>1 DEF Intent
    <3>8. CASE ExtensionConsumes(i)
      BY <3>8 DEF ExtensionConsumes, Intent
    <3>3. CASE ExtensionChecks(i)
      <4>1. Reply([op[i] EXCEPT !.effect = "refused"], "failed").run = "over"
        BY <1>r
      <4>2. [op[i] EXCEPT !.run = "cleared"].run = "cleared"
        BY DEF Intent
      <4>3. \/ op'[i] = [op[i] EXCEPT !.run = "cleared"]
            \/ op'[i] = Reply([op[i] EXCEPT !.effect = "refused"], "failed")
        BY <3>3 DEF ExtensionChecks
      <4> QED BY <4>1, <4>2, <4>3
    <3>4. CASE Finalize(i)
      BY <3>4 DEF Finalize, Intent
    <3>5. CASE Prepared(i)
      BY <3>5 DEF Prepared, Intent, Terminated, MarkUnknown, Abort
    <3>6. CASE Dispatch(i)
      BY <3>6 DEF Dispatch, Intent, Terminated, MarkUnknown, Abort
    <3> QED BY <1>11, <3>1, <3>2, <3>3, <3>4, <3>5, <3>6, <3>7, <3>8
  <2> QED BY <2>1, <2>2 DEF GuardedEffect, TypeOK
<1>12. ASSUME NEW i \in Intents, Admit(i)
       PROVE  \A j \in Intents : GuardedEffect(j)
  <2>1. Swept(op[i]) \in Intent
    BY <1>o, LedgerTypes
  <2>2. op'[i].run = Swept(op[i]).run
    BY <1>12, <2>1 DEF Admit, TypeOK, Intent
  <2>3. \A j \in Intents \ {i} : op'[j] = Swept(op[j])
    BY <1>12 DEF Admit, TypeOK
  <2> QED BY <1>e, <1>o, <1>t, <2>2, <2>3
<1> QED BY <1>1, <1>2, <1>3, <1>4, <1>5, <1>6, <1>7, <1>8, <1>9, <1>10, <1>11, <1>12, <1>13 DEF Next

\* After a Stop or Revoke of the user is done nothing is asked of a page any more and nothing
\* of one leaves the browser, and a picture or text that leaves shows the document that was
\* checked: the checks of mutations.js and observation.js are enough wherever a Stop, another
\* page or another tab comes between them.
THEOREM PagesGuarded == Spec => PagesAreGuarded
<1> DEFINE Inv == TypeOK /\ IntentsSound /\ ExtensionSound /\ LooksSound
           Guarded == /\ \A i \in Intents : GuardedEffect(i)
                    /\ \A r \in Reads : GuardedSend(r)
<1>1. Init => Inv
  BY InitType, BrowserAssumption DEF Init, IntentsSound, SoundIntent, ExtensionSound, AnswerSound,
     LooksSound, SoundLook
<1>2. Inv /\ TypeOK' /\ [Next]_vars => Inv' /\ Guarded
  BY SoundnessKept, ExtensionKept, LooksKept, EffectsGuarded
<1>3. Spec => [][Guarded]_vars
  BY <1>1, <1>2, BrowserTypeCorrect, PTL DEF Spec
<1>4. Guarded =>
       /\ ext.off = "yes" => /\ \A i \in Intents : op'[i].run = "acting" => op[i].run = "acting"
                             /\ \A r \in Reads : ~Leaves(r)
       /\ \A r \in Reads : Leaves(r) => look'[r].got # "other"
  BY DEF GuardedEffect, GuardedSend
<1> QED BY <1>3, <1>4, PTL DEF PagesAreGuarded

===============================================================================
