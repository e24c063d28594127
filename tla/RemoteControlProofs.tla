------------------------- MODULE RemoteControlProofs --------------------------
(***************************************************************************)
(* Theorems of RemoteControl: the types, that a key has one live grant and *)
(* a revoked attempt none, that commands and results belong to the current *)
(* epoch, and that a stop freezes the deadline of its device.              *)
(*                                                                         *)
(* Each write of a row is classified once (RowMove) and what a class keeps *)
(* is proved once; a step of the system is then only a matter of naming    *)
(* the classes of its writes.                                              *)
(***************************************************************************)
EXTENDS RemoteControl, FiniteSetTheorems, TLAPS

-----------------------------------------------------------------------------
(* The inductive invariant *)

\* A request of a pairing code is not a Session's, whose grant ends with its attempt; only a
\* personal device that was granted is ever stopped, and a stop leaves it a deadline.
RowSound(d) ==
    /\ dev[d].stage \in {"pending", "reviewed"} => Kind(d) \in {"permanent", "temporary"}
    /\ dev[d].stage = "asked" => Kind(d) = "session"
    /\ dev[d].stage = "granted" /\ Kind(d) = "session" => dev[d].until = SessionEnd
    /\ dev[d].owner # "run" =>
          /\ Kind(d) = "permanent" /\ dev[d].stage \in {"granted", "gone"}
          /\ dev[d].idle # 0

\* A stop and a resume take the epoch away, and a login starts the device again.
EpochSound(d) == epoch[d] # None => dev[d].owner = "run"

RowsSound == \A d \in Devices : RowSound(d) /\ EpochSound(d)

\* Logins and sockets belong to a device.
LoginsSound == \A l \in Logins : login[l] # "idle" \/ sock[l] # "none" => Of(l) \in Devices

\* A command is routed to a device before it is read, leaves no earlier than it waits, and
\* waits for the workflow only when its device is a Session's.
RequestSound(r) ==
    /\ req[r].pc \notin {"idle", "done"} => Target(r) \in Devices
    /\ req[r].pc \in {"idle", "reading", "checking"} => req[r].frame = "none"
    /\ req[r].pc = "checking" => Kind(Target(r)) = "session" /\ req[r].seen # None
    /\ req[r].pc = "waiting" => req[r].seen # None
RequestsSound == \A r \in Requests : RequestSound(r)

\* Only the console of a personal device stops and resumes it.
IntentsSound ==
    \A i \in Intents : intent[i].pc # "idle" => IDev(i) \in Devices /\ Kind(IDev(i)) = "permanent"

\* The live grants: keys differ, attempts differ, none is fenced, and they fit.
GrantsSound ==
    /\ \A d, e \in Live : d # e => Key(d) # Key(e)
    /\ \A d, e \in Live : d # e /\ Kind(d) = "session" /\ Kind(e) = "session"
                              => Attempt(d) # Attempt(e)
    /\ \A d \in Live : Kind(d) = "session" => Attempt(d) \notin fenced
    /\ Cardinality(Live) <= DeviceLimit

Inv == /\ TypeOK /\ RowsSound /\ LoginsSound /\ RequestsSound /\ IntentsSound /\ GrantsSound

-----------------------------------------------------------------------------
(* What a step does to a row *)

LiveRow(d) == StillGranted(d) \/ Legacy(d)

\* The row's label or device information changes.
Labels(d) == \E n \in {"given", "new"}, i \in Logins \cup {None} :
                dev'[d] = [dev[d] EXCEPT !.name = n, !.info = i]

\* The request goes on or ends, or the grant ends.
Restages(d) ==
    \/ dev'[d] = [dev[d] EXCEPT !.stage = "gone"]
    \/ dev[d].stage = "new" /\ Kind(d) \in {"permanent", "temporary"}
          /\ dev'[d] = [dev[d] EXCEPT !.stage = "pending"]
    \/ dev[d].stage = "pending" /\ dev'[d] = [dev[d] EXCEPT !.stage = "reviewed"]
    \/ dev[d].stage = "new" /\ Kind(d) = "session" /\ dev'[d] = [dev[d] EXCEPT !.stage = "asked"]

\* A Session's request is refused after its deadline was written.
Refused(d) == /\ dev[d].stage = "asked"
              /\ dev'[d] = [dev[d] EXCEPT !.stage = "gone", !.until = SessionEnd]

Migrates(d) == Legacy(d) /\ dev'[d] = [dev[d] EXCEPT !.idle = now + Window]

\* A live personal grant: a login or a probe proves the device is there.
Proven(d) == /\ StillGranted(d) /\ Kind(d) = "permanent"
             /\ dev'[d] = [dev[d] EXCEPT !.last = now, !.idle = 0, !.owner = "run"]

\* The close of its current socket starts the offline window.
Closes(d) == /\ StillGranted(d) /\ Kind(d) = "permanent" /\ dev[d].idle = 0
             /\ dev[d].owner = "run" /\ dev'[d] = [dev[d] EXCEPT !.idle = now + Window]

Stops(d) == /\ StillGranted(d) /\ Kind(d) = "permanent"
            /\ \E by \in 1..(Horizon + Window) :
                 /\ by <= Deadline(d)
                 /\ dev'[d] = [dev[d] EXCEPT !.owner = "stopped", !.gen = dev[d].gen + 1,
                                             !.idle = by]

ResumesRow(d) == /\ StillGranted(d) /\ Kind(d) = "permanent" /\ dev[d].owner = "stopped"
                 /\ dev'[d] = [dev[d] EXCEPT !.owner = "resuming", !.gen = dev[d].gen + 1]

\* Everything that may happen to a row but a new grant.
RowMove(d) ==
    \/ dev'[d] = dev[d] \/ Labels(d) \/ Restages(d) \/ Refused(d) \/ Migrates(d)
    \/ Proven(d) \/ Closes(d) \/ Stops(d) \/ ResumesRow(d)

\* A new grant, of a request that was approved or of a Session's.
Enters(d) ==
    /\ dev[d].stage \in {"reviewed", "asked"}
    /\ \E idle \in 0..(Horizon + Window), until \in 0..(Horizon + Window) \cup {SessionEnd} :
         /\ dev[d].stage = "asked" => until = SessionEnd
         /\ dev'[d] = [dev[d] EXCEPT !.stage = "granted", !.idle = idle, !.until = until]

\* An epoch stays only with an owner that stays or runs.
EpochMove(d) == \/ epoch'[d] = None \/ dev'[d].owner = "run"
                \/ epoch'[d] = epoch[d] /\ dev'[d].owner = dev[d].owner

DevMoves == dev' = [d \in Devices |-> dev'[d]]

\* The bounds of the constants, as numbers.
LEMMA Bounds ==
    /\ DeviceLimit \in Nat /\ SessionEnd \in Nat /\ Window \in Nat /\ Window > 0
    /\ Horizon \in Nat /\ Horizon > 0 /\ ReadLimit \in Nat /\ Restarts \in Nat
    /\ PendingLimit \in Nat
    /\ None \notin Devices /\ None \notin Logins /\ IsFiniteSet(Devices)
  BY LimitAssumption

\* Fields of a row that are written in place of the old ones fit.
LEMMA RowWritten ==
    ASSUME NEW old \in Row, NEW owner \in {"run", "stopped", "resuming"}, NEW gen \in Nat,
           NEW last \in 0..Horizon, NEW idle \in 0..(Horizon + Window)
    PROVE  [old EXCEPT !.owner = owner, !.gen = gen, !.last = last, !.idle = idle] \in Row
  BY DEF Row

\* Whatever happens to a row (approvePendingKey, migratePermanentGrant, verifyProof and the
\* others), it stays typed and sound.
LEMMA RowKept ==
    ASSUME NEW d \in Devices, dev[d] \in Row, now \in 1..Horizon, work' = work, RowSound(d),
           RowMove(d) \/ Enters(d)
    PROVE  dev'[d] \in Row /\ RowSound(d)'
  <1> USE Bounds
  <1> USE DEF RowSound, Kind
  <1>1. CASE dev'[d] = dev[d]  BY <1>1
  <1>2. CASE Labels(d)  BY <1>2 DEF Labels, Row
  <1>3. CASE Restages(d)  BY <1>3 DEF Restages, Row
  <1>4. CASE Refused(d)  BY <1>4 DEF Refused, Row
  <1>5. CASE Migrates(d)  BY <1>5 DEF Migrates, Row, Legacy
  <1>6. CASE Proven(d)
    <2> DEFINE row == [dev[d] EXCEPT !.last = now, !.idle = 0, !.owner = "run"]
    <2>1. dev[d].stage = "granted" /\ dev'[d] = row  BY <1>6 DEF Proven, StillGranted
    <2>2. row \in Row
      <3>1. now \in 0..Horizon /\ 0 \in 0..(Horizon + Window) /\ dev[d].gen \in Nat  BY DEF Row
      <3>2. row = [dev[d] EXCEPT !.owner = "run", !.gen = dev[d].gen, !.last = now, !.idle = 0]
        BY DEF Row
      <3>3. "run" \in {"run", "stopped", "resuming"}  OBVIOUS
      <3> HIDE DEF row
      <3>4. [dev[d] EXCEPT !.owner = "run", !.gen = dev[d].gen, !.last = now, !.idle = 0] \in Row
        BY <3>1, <3>3, RowWritten
      <3> QED  BY <3>2, <3>4
    <2>3. row.stage = dev[d].stage /\ row.owner = "run"  BY DEF Row
    <2> QED  BY <2>1, <2>2, <2>3
  <1>7. CASE Closes(d)  BY <1>7 DEF Closes, Row
  <1>8. CASE Stops(d)
    <2>1. PICK by \in 1..(Horizon + Window) :
            dev'[d] = [dev[d] EXCEPT !.owner = "stopped", !.gen = dev[d].gen + 1, !.idle = by]
      BY <1>8 DEF Stops
    <2> DEFINE row == [dev[d] EXCEPT !.owner = "stopped", !.gen = dev[d].gen + 1, !.idle = by]
    <2>2. row \in Row
      <3>1. /\ by \in 0..(Horizon + Window) /\ dev[d].gen + 1 \in Nat
            /\ dev[d].last \in 0..Horizon
        BY DEF Row
      <3>2. row = [dev[d] EXCEPT !.owner = "stopped", !.gen = dev[d].gen + 1,
                                 !.last = dev[d].last, !.idle = by]
        BY DEF Row
      <3> QED  BY <3>1, <3>2, RowWritten
    <2>3. row.stage = dev[d].stage /\ row.idle = by  BY DEF Row
    <2>4. dev[d].stage = "granted" /\ Kind(d) = "permanent" /\ by # 0
      BY <1>8 DEF Stops, StillGranted
    <2> HIDE DEF row
    <2> QED  BY <2>1, <2>2, <2>3, <2>4 DEF row
  <1>9. CASE ResumesRow(d)
    <2> DEFINE row == [dev[d] EXCEPT !.owner = "resuming", !.gen = dev[d].gen + 1]
    <2>1. dev'[d] = row  BY <1>9 DEF ResumesRow
    <2>2. row \in Row
      <3>1. /\ dev[d].idle \in 0..(Horizon + Window) /\ dev[d].gen + 1 \in Nat
            /\ dev[d].last \in 0..Horizon
        BY DEF Row
      <3>2. row = [dev[d] EXCEPT !.owner = "resuming", !.gen = dev[d].gen + 1,
                                 !.last = dev[d].last, !.idle = dev[d].idle]
        BY DEF Row
      <3>3. "resuming" \in {"run", "stopped", "resuming"}  OBVIOUS
      <3> HIDE DEF row
      <3>4. [dev[d] EXCEPT !.owner = "resuming", !.gen = dev[d].gen + 1,
                           !.last = dev[d].last, !.idle = dev[d].idle] \in Row
        BY <3>1, <3>3, RowWritten
      <3> QED  BY <3>2, <3>4
    <2>3. row.stage = dev[d].stage /\ row.idle = dev[d].idle  BY DEF Row
    <2>4. dev[d].stage = "granted" /\ Kind(d) = "permanent" /\ dev[d].owner # "run"
      BY <1>9 DEF ResumesRow, StillGranted
    <2> HIDE DEF row
    <2> QED  BY <2>1, <2>2, <2>3, <2>4
  <1>10. CASE Enters(d)  BY <1>10 DEF Enters, Row
  <1> QED  BY <1>1, <1>2, <1>3, <1>4, <1>5, <1>6, <1>7, <1>8, <1>9, <1>10 DEF RowMove

\* Without a new grant no row comes to life: an expired grant is never given time again.
LEMMA NoneRevives ==
    ASSUME NEW d \in Devices, dev[d] \in Row, now \in 1..Horizon, now' \in Nat, now' >= now,
           work' = work, RowMove(d), LiveRow(d)'
    PROVE  LiveRow(d)
  <1> USE Bounds
  <1> USE DEF LiveRow, StillGranted, Legacy, Deadline, Kind
  <1>1. CASE dev'[d] = dev[d]  BY <1>1 DEF Row
  <1>2. CASE Labels(d)  BY <1>2 DEF Labels, Row
  <1>3. CASE Restages(d)  BY <1>3 DEF Restages, Row
  <1>4. CASE Refused(d)  BY <1>4 DEF Refused, Row
  <1>5. CASE Migrates(d)  BY <1>5 DEF Migrates
  <1>6. CASE Proven(d)  BY <1>6 DEF Proven
  <1>7. CASE Closes(d)  BY <1>7 DEF Closes
  <1>8. CASE Stops(d)  BY <1>8 DEF Stops
  <1>9. CASE ResumesRow(d)  BY <1>9 DEF ResumesRow
  <1> QED  BY <1>1, <1>2, <1>3, <1>4, <1>5, <1>6, <1>7, <1>8, <1>9 DEF RowMove

\* An epoch that a write leaves alone stays sound.
LEMMA EpochKept ==
    ASSUME NEW d \in Devices, EpochSound(d), EpochMove(d)
    PROVE  EpochSound(d)'
  BY DEF EpochSound, EpochMove

\* A step that grants nothing (all but approvePendingKey and registerSessionDevice) keeps
\* the rows sound, and the grants too when no new attempt is fenced.
LEMMA RowsKeep ==
    ASSUME TypeOK, RowsSound, work' = work, now' \in 1..Horizon, now' >= now, DevMoves,
           \A d \in Devices : RowMove(d) /\ EpochMove(d)
    PROVE  /\ dev' \in [Devices -> Row] /\ RowsSound' /\ Live' \subseteq Live
           /\ GrantsSound /\ fenced' \subseteq fenced => GrantsSound'
  <1>1. \A d \in Devices : dev[d] \in Row /\ RowSound(d) /\ EpochSound(d)  BY DEF TypeOK, RowsSound
  <1>2. now \in 1..Horizon  BY DEF TypeOK
  <1>3. \A d \in Devices : dev'[d] \in Row /\ RowSound(d)'  BY <1>1, <1>2, RowKept
  <1>4. \A d \in Devices : EpochSound(d)'  BY <1>1, EpochKept
  <1>5. dev' \in [Devices -> Row]  BY <1>3 DEF DevMoves
  <1>6. RowsSound'  BY <1>3, <1>4 DEF RowsSound
  <1>7. now' \in Nat  BY Bounds
  <1>8. \A d \in Devices : LiveRow(d)' => LiveRow(d)  BY <1>1, <1>2, <1>7, NoneRevives
  <1>9. Live' \subseteq Live  BY <1>8 DEF Live, LiveRow
  <1>10. ASSUME GrantsSound, fenced' \subseteq fenced PROVE GrantsSound'
    <2>1. IsFiniteSet(Live)  BY Bounds, FS_Subset, Live \subseteq Devices DEF Live
    <2>2. Cardinality(Live') <= Cardinality(Live) /\ Cardinality(Live) \in Nat
          /\ Cardinality(Live') \in Nat
      BY <2>1, <1>9, FS_Subset, FS_CardinalityType
    <2>3. Cardinality(Live') <= DeviceLimit  BY <2>2, Bounds, <1>10 DEF GrantsSound
    <2> QED  BY <2>3, <1>9, <1>10 DEF GrantsSound, Key, Kind, Attempt
  <1> QED  BY <1>5, <1>6, <1>9, <1>10

-----------------------------------------------------------------------------
(* The invariant, by who writes it *)

\* Rows, nonces, epochs and fences, which the object stores.
StoredPart ==
    /\ now \in 1..Horizon /\ dev \in [Devices -> Row]
    /\ nonce \in [Devices -> Logins \cup {None}] /\ epoch \in [Devices -> Logins \cup {None}]
    /\ fenced \subseteq {Attempt(d) : d \in Devices} /\ chal \in [Devices -> Intents \cup {None}]
    /\ RowsSound /\ GrantsSound

\* Handlers of logins, and sockets.
LoginPart ==
    /\ login \in [Logins -> {"idle", "asked", "challenged", "verified", "committed", "admitted",
                             "checking", "done"}]
    /\ sock \in [Logins -> {"none", "open", "closing", "closed"}]
    /\ LoginsSound

RequestPart == req \in [Requests -> Command] /\ RequestsSound
IntentPart == intent \in [Intents -> Console] /\ IntentsSound

\* Revocations, the workflow's attempts and the restarts left.
OtherPart ==
    /\ revoke \in [Devices -> {"idle", "committed", "cleaning", "done"}]
    /\ attempts \subseteq {Attempt(d) : d \in Devices} /\ restarts \in 0..Restarts

\* The invariant is its parts.
LEMMA Parts ==
    Inv <=> work \in Workloads /\ StoredPart /\ LoginPart /\ RequestPart /\ IntentPart /\ OtherPart
  BY DEF Inv, TypeOK, StoredPart, LoginPart, RequestPart, IntentPart, OtherPart

\* A part that no handler writes stays.
LEMMA PartsStay ==
    ASSUME UNCHANGED work
    PROVE  /\ StoredPart /\ UNCHANGED <<now, stored>> => StoredPart'
           /\ LoginPart /\ UNCHANGED <<login, sock>> => LoginPart'
           /\ RequestPart /\ UNCHANGED req => RequestPart'
           /\ IntentPart /\ UNCHANGED intent => IntentPart'
           /\ OtherPart /\ UNCHANGED <<revoke, attempts, restarts>> => OtherPart'
  <1>1. StoredPart /\ UNCHANGED <<now, stored>> => StoredPart'
    <2> SUFFICES ASSUME StoredPart, UNCHANGED <<now, stored>> PROVE StoredPart'  OBVIOUS
    <2>1. UNCHANGED <<work, now, dev, nonce, epoch, fenced, chal>>  BY DEF stored
    <2>2. RowsSound'  BY <2>1 DEF StoredPart, RowsSound, RowSound, EpochSound, Kind
    <2>3. Live' = Live  BY <2>1 DEF Live, StillGranted, Legacy, Deadline, Kind
    <2>4. GrantsSound'  BY <2>1, <2>3 DEF StoredPart, GrantsSound, Key, Kind, Attempt
    <2> QED  BY <2>1, <2>2, <2>4 DEF StoredPart, Attempt
  <1>2. LoginPart /\ UNCHANGED <<login, sock>> => LoginPart'
    BY DEF LoginPart, LoginsSound, Of
  <1>3. RequestPart /\ UNCHANGED req => RequestPart'
    BY DEF RequestPart, RequestsSound, RequestSound, Target, Kind
  <1>4. IntentPart /\ UNCHANGED intent => IntentPart'
    BY DEF IntentPart, IntentsSound, IDev, Kind
  <1>5. OtherPart /\ UNCHANGED <<revoke, attempts, restarts>> => OtherPart'
    BY DEF OtherPart, Attempt
  <1> QED  BY <1>1, <1>2, <1>3, <1>4, <1>5

\* What a step owes that grants nothing and fences nothing new: it moves rows and epochs.
Moving ==
    /\ DevMoves /\ \A d \in Devices : RowMove(d) /\ EpochMove(d)
    /\ nonce' \in [Devices -> Logins \cup {None}] /\ epoch' \in [Devices -> Logins \cup {None}]
    /\ fenced' \subseteq fenced /\ chal' \in [Devices -> Intents \cup {None}]

\* What is stored stays sound, and every row made one of its moves.
RowsMove == \A d \in Devices : RowMove(d) \/ Enters(d)
Kept == StoredPart' /\ RowsMove
Stepped == Inv' /\ RowsMove

\* Rows and epochs that moved stay sound.
LEMMA StoredKept ==
    ASSUME Inv, UNCHANGED <<work, now>>, Moving
    PROVE  Kept
  <1>1. now \in 1..Horizon /\ now' = now /\ now' >= now  BY Bounds DEF Inv, TypeOK
  <1>2. dev' \in [Devices -> Row] /\ RowsSound' /\ GrantsSound'
    BY <1>1, RowsKeep DEF Inv, Moving
  <1>3. fenced' \subseteq {Attempt(d)' : d \in Devices}
    BY DEF Inv, TypeOK, Moving, Attempt
  <1> QED  BY <1>1, <1>2, <1>3 DEF StoredPart, Moving, Kept, RowsMove

\* One row is written, the others stay (a put of one device).
LEMMA OneRow ==
    ASSUME TypeOK, NEW d \in Devices, NEW row, dev' = [dev EXCEPT ![d] = row],
           dev'[d] = row => RowMove(d), \A e \in Devices : EpochMove(e)
    PROVE  DevMoves /\ \A e \in Devices : RowMove(e) /\ EpochMove(e)
  <1>1. dev \in [Devices -> Row]  BY DEF TypeOK
  <1>2. dev'[d] = row /\ \A e \in Devices \ {d} : dev'[e] = dev[e]  BY <1>1
  <1>3. DevMoves  BY <1>1 DEF DevMoves
  <1> QED  BY <1>2, <1>3 DEF RowMove

\* The sweep of listLiveGrants only migrates rows and drops what has expired.
LEMMA SweptMoves ==
    ASSUME TypeOK, NEW e \in Devices, dev'[e] = Swept[e], epoch'[e] = SweptOf(epoch)[e]
    PROVE  RowMove(e) /\ EpochMove(e)
  <1>1. dev[e] \in Row /\ epoch[e] \in Logins \cup {None}  BY DEF TypeOK
  <1>2. CASE Expired(e)
    <2>1. dev'[e] = [dev[e] EXCEPT !.stage = "gone"] /\ epoch'[e] = None
      BY <1>2 DEF Swept, SweptOf
    <2> QED  BY <2>1 DEF RowMove, Restages, EpochMove
  <1>3. CASE ~Expired(e) /\ Legacy(e)
    <2>1. dev'[e] = [dev[e] EXCEPT !.idle = now + Window] /\ epoch'[e] = epoch[e]
      BY <1>3 DEF Swept, SweptOf, Migrated
    <2>2. dev'[e].owner = dev[e].owner  BY <2>1, <1>1 DEF Row
    <2> QED  BY <1>3, <2>1, <2>2 DEF RowMove, Migrates, EpochMove
  <1>4. CASE ~Expired(e) /\ ~Legacy(e)
    <2>1. dev'[e] = dev[e] /\ epoch'[e] = epoch[e]  BY <1>4 DEF Swept, SweptOf, Migrated
    <2> QED  BY <2>1 DEF RowMove, EpochMove
  <1> QED  BY <1>2, <1>3, <1>4

\* What the sweep does to nonces, epochs and fences.
LEMMA SweptTypes ==
    ASSUME TypeOK
    PROVE  /\ SweptOf(nonce) \in [Devices -> Logins \cup {None}]
           /\ SweptOf(epoch) \in [Devices -> Logins \cup {None}]
           /\ SweptFences \subseteq fenced
  BY DEF TypeOK, SweptOf, SweptFences

\* A new grant whose key and attempt are free fits among the others.
LEMMA GrantAdds ==
    ASSUME Inv, NEW d \in Devices, UNCHANGED <<work, now>>, DevMoves, Enters(d),
           \A e \in Devices \ {d} : RowMove(e), \A e \in Devices : EpochMove(e),
           nonce' \in [Devices -> Logins \cup {None}], epoch' \in [Devices -> Logins \cup {None}],
           fenced' \subseteq fenced, chal' \in [Devices -> Intents \cup {None}],
           Cardinality(Live) < DeviceLimit, \A e \in Live : Key(e) # Key(d),
           Kind(d) = "session" => /\ Attempt(d) \notin fenced'
                                  /\ \A e \in Live : Attempt(e) # Attempt(d)
    PROVE  Kept
  <1>1. now \in 1..Horizon /\ now' = now /\ now' \in Nat /\ now' >= now
    BY Bounds DEF Inv, TypeOK
  <1>2. \A e \in Devices : dev[e] \in Row /\ RowSound(e) /\ EpochSound(e)
    BY DEF Inv, TypeOK, RowsSound
  <1>3. \A e \in Devices : dev'[e] \in Row /\ RowSound(e)'  BY <1>1, <1>2, RowKept
  <1>4. \A e \in Devices : EpochSound(e)'  BY <1>2, EpochKept
  <1>5. dev' \in [Devices -> Row] /\ RowsSound'  BY <1>3, <1>4 DEF DevMoves, RowsSound
  <1>6. \A e \in Devices \ {d} : LiveRow(e)' => LiveRow(e)  BY <1>1, <1>2, NoneRevives
  <1>7. Live' \subseteq Live \cup {d}  BY <1>6 DEF Live, LiveRow
  <1>8. GrantsSound'
    <2>1. IsFiniteSet(Live)  BY Bounds, FS_Subset, Live \subseteq Devices DEF Live
    <2>2. Cardinality(Live \cup {d}) <= Cardinality(Live) + 1 /\ IsFiniteSet(Live \cup {d})
          /\ Cardinality(Live) \in Nat /\ Cardinality(Live \cup {d}) \in Nat
      <3>1. Cardinality(Live) \in Nat  BY <2>1, FS_CardinalityType
      <3>2. /\ IsFiniteSet(Live \cup {d})
            /\ Cardinality(Live \cup {d})
                 = IF d \in Live THEN Cardinality(Live) ELSE Cardinality(Live) + 1
        BY <2>1, FS_AddElement
      <3> QED  BY <3>1, <3>2
    <2>3. Cardinality(Live') <= Cardinality(Live \cup {d}) /\ Cardinality(Live') \in Nat
      BY <1>7, <2>2, FS_Subset, FS_CardinalityType
    <2>4. Cardinality(Live') <= DeviceLimit  BY <2>2, <2>3, Bounds
    <2>5. \A e, f \in Live' : e # f => Key(e)' # Key(f)'
      BY <1>7 DEF Inv, GrantsSound, Key
    <2>6. \A e, f \in Live' : e # f /\ Kind(e)' = "session" /\ Kind(f)' = "session"
                                  => Attempt(e)' # Attempt(f)'
      BY <1>7 DEF Inv, GrantsSound, Kind, Attempt
    <2>7. \A e \in Live' : Kind(e)' = "session" => Attempt(e)' \notin fenced'
      BY <1>7 DEF Inv, GrantsSound, Kind, Attempt
    <2> QED  BY <2>4, <2>5, <2>6, <2>7 DEF GrantsSound
  <1>9. fenced' \subseteq {Attempt(e)' : e \in Devices}
    BY DEF Inv, TypeOK, Attempt
  <1>10. StoredPart'  BY <1>1, <1>5, <1>8, <1>9 DEF StoredPart
  <1> QED  BY <1>10 DEF Kept, RowsMove

-----------------------------------------------------------------------------
(* Enrolment keeps what is stored *)

\* registerPending drops an older request of the key and sweeps; it grants nothing.
LEMMA RegisterPendingKeeps ==
    ASSUME Inv, NEW d \in Devices, RegisterPending(d)
    PROVE  Kept
  <1> DEFINE mine == {e \in Pending : Key(e) = Key(d)}
             fits == /\ Cardinality(Live) < DeviceLimit
                     /\ \A e \in Live : Key(e) # Key(d)
             free == fits /\ Cardinality(Pending \ mine) < PendingLimit
             row(e) == CASE e = d -> [dev[d] EXCEPT !.stage = IF free THEN "pending" ELSE "gone"]
                         [] e \in mine /\ fits -> [dev[e] EXCEPT !.stage = "gone"]
                         [] OTHER -> Swept[e]
  <1>0. TypeOK  BY DEF Inv
  <1>1. dev' = [e \in Devices |-> row(e)]  BY DEF RegisterPending, Listed
  <1>2. nonce' = SweptOf(nonce) /\ epoch' = SweptOf(epoch) /\ fenced' = SweptFences
        /\ chal' = chal /\ UNCHANGED <<work, now>>
    BY DEF RegisterPending, Listed
  <1>3. dev[d].stage = "new" /\ Kind(d) \in {"permanent", "temporary"}  BY DEF RegisterPending
  <1>4. \A e \in mine : dev[e].stage \in {"pending", "reviewed"}  BY DEF Pending
  <1> HIDE DEF mine, fits, free
  <1>5. ASSUME NEW e \in Devices PROVE RowMove(e) /\ EpochMove(e)
    <2>1. dev[e] \in Row /\ epoch'[e] \in {None, epoch[e]}  BY <1>0, <1>2 DEF TypeOK, SweptOf
    <2>2. dev'[e] = row(e)  BY <1>1
    <2>3. CASE e = d
      <3>1. dev'[e] = [dev[e] EXCEPT !.stage = "pending"] \/ dev'[e] = [dev[e] EXCEPT !.stage = "gone"]
        BY <2>2, <2>3
      <3>2. dev'[e].owner = dev[e].owner  BY <3>1, <2>1 DEF Row
      <3> QED  BY <2>1, <2>3, <3>1, <3>2, <1>3 DEF RowMove, Restages, EpochMove
    <2>4. CASE e # d /\ e \in mine /\ fits
      <3>1. dev'[e] = [dev[e] EXCEPT !.stage = "gone"]  BY <2>2, <2>4
      <3>2. dev'[e].owner = dev[e].owner  BY <3>1, <2>1 DEF Row
      <3> QED  BY <2>1, <3>1, <3>2 DEF RowMove, Restages, EpochMove
    <2>5. CASE e # d /\ ~(e \in mine /\ fits)
      <3>1. dev'[e] = Swept[e] /\ epoch'[e] = SweptOf(epoch)[e]  BY <2>2, <2>5, <1>2
      <3> QED  BY <3>1, <1>0, SweptMoves
    <2> QED  BY <2>3, <2>4, <2>5
  <1>6. DevMoves  BY <1>1 DEF DevMoves
  <1>7. Moving  BY <1>0, <1>2, <1>5, <1>6, SweptTypes DEF Moving, TypeOK
  <1> QED  BY <1>2, <1>7, StoredKept

\* approvePendingKey grants a request whose key has no live grant, and leaves the others.
LEMMA ApproveKeeps ==
    ASSUME Inv, NEW d \in Devices, Approve(d)
    PROVE  Kept
  <1> DEFINE idle == IF Kind(d) = "permanent" THEN now + Window ELSE 0
             row == [dev[d] EXCEPT !.stage = "granted", !.idle = idle, !.until = now + Window]
  <1>0. TypeOK  BY DEF Inv
  <1>1. dev' = [Swept EXCEPT ![d] = IF Approvable(d) THEN row ELSE dev[d]]
    BY DEF Approve, Listed
  <1>2. nonce' = SweptOf(nonce) /\ epoch' = SweptOf(epoch) /\ fenced' = SweptFences
        /\ chal' = chal /\ UNCHANGED <<work, now>>
    BY DEF Approve, Listed
  <1>3. dev[d].stage = "reviewed" /\ dev[d] \in Row  BY <1>0 DEF Approve, Named, TypeOK
  <1>4. dev' = [e \in Devices |-> IF e = d THEN (IF Approvable(d) THEN row ELSE dev[d]) ELSE Swept[e]]
    BY <1>1 DEF Swept
  <1>5. idle \in 0..(Horizon + Window) /\ now + Window \in 0..(Horizon + Window)
    BY <1>0, Bounds DEF TypeOK
  <1>6. row.owner = dev[d].owner  BY <1>3 DEF Row
  <1> HIDE DEF row, idle
  <1>7. DevMoves  BY <1>4 DEF DevMoves
  <1>8. epoch'[d] \in {None, epoch[d]}  BY <1>0, <1>2 DEF TypeOK, SweptOf
  <1>9. EpochMove(d)  BY <1>4, <1>6, <1>8 DEF EpochMove
  <1>10. \A e \in Devices \ {d} : RowMove(e) /\ EpochMove(e)
    <2> TAKE e \in Devices \ {d}
    <2>1. dev'[e] = Swept[e] /\ epoch'[e] = SweptOf(epoch)[e]  BY <1>2, <1>4
    <2> QED  BY <1>0, <2>1, SweptMoves
  <1>11. /\ nonce' \in [Devices -> Logins \cup {None}] /\ epoch' \in [Devices -> Logins \cup {None}]
         /\ fenced' \subseteq fenced /\ chal' \in [Devices -> Intents \cup {None}]
    BY <1>0, <1>2, SweptTypes DEF TypeOK
  <1>12. CASE Approvable(d)
    <2>1. dev'[d] = row  BY <1>4, <1>12
    <2>2. Enters(d)  BY <2>1, <1>3, <1>5 DEF Enters, row
    <2>3. Kind(d) # "session"  BY <1>3 DEF Inv, RowsSound, RowSound
    <2>4. Cardinality(Live) < DeviceLimit /\ \A e \in Live : Key(e) # Key(d)
      BY <1>12 DEF Approvable
    <2> QED  BY <1>2, <1>7, <1>9, <1>10, <1>11, <2>2, <2>3, <2>4, GrantAdds
  <1>13. CASE ~Approvable(d)
    <2>1. RowMove(d)  BY <1>4, <1>13 DEF RowMove
    <2>2. Moving  BY <2>1, <1>7, <1>9, <1>10, <1>11 DEF Moving
    <2> QED  BY <1>2, <2>2, StoredKept
  <1> QED  BY <1>12, <1>13

\* registerSessionDevice grants a job whose key and attempt have no live grant, and whose
\* attempt the owner has not revoked.
LEMMA GrantSessionKeeps ==
    ASSUME Inv, NEW d \in Devices, GrantSession(d)
    PROVE  Kept
  <1> DEFINE row == [dev[d] EXCEPT !.stage = IF Enrollable(d) THEN "granted" ELSE "gone",
                                   !.until = SessionEnd]
  <1>0. TypeOK  BY DEF Inv
  <1>1. dev' = [Swept EXCEPT ![d] = row]  BY DEF GrantSession, Listed
  <1>2. nonce' = SweptOf(nonce) /\ epoch' = SweptOf(epoch) /\ fenced' = SweptFences
        /\ chal' = chal /\ UNCHANGED <<work, now>>
    BY DEF GrantSession, Listed
  <1>3. dev[d].stage = "asked" /\ dev[d] \in Row  BY <1>0 DEF GrantSession, TypeOK
  <1>4. dev' = [e \in Devices |-> IF e = d THEN row ELSE Swept[e]]  BY <1>1 DEF Swept
  <1>5. row.owner = dev[d].owner /\ dev[d].idle \in 0..(Horizon + Window)  BY <1>3 DEF Row
  <1>6. Enrollable(d) =>
           row = [dev[d] EXCEPT !.stage = "granted", !.idle = dev[d].idle, !.until = SessionEnd]
    BY <1>3 DEF Row
  <1>7. ~Enrollable(d) => row = [dev[d] EXCEPT !.stage = "gone", !.until = SessionEnd]
    OBVIOUS
  <1> HIDE DEF row
  <1>8. DevMoves /\ dev'[d] = row  BY <1>4 DEF DevMoves
  <1>9. EpochMove(d)
    <2>1. epoch'[d] \in {None, epoch[d]}  BY <1>0, <1>2 DEF TypeOK, SweptOf
    <2> QED  BY <1>5, <1>8, <2>1 DEF EpochMove
  <1>10. \A e \in Devices \ {d} : RowMove(e) /\ EpochMove(e)
    <2> TAKE e \in Devices \ {d}
    <2>1. dev'[e] = Swept[e] /\ epoch'[e] = SweptOf(epoch)[e]  BY <1>2, <1>4
    <2> QED  BY <1>0, <2>1, SweptMoves
  <1>11. /\ nonce' \in [Devices -> Logins \cup {None}] /\ epoch' \in [Devices -> Logins \cup {None}]
         /\ fenced' \subseteq fenced /\ chal' \in [Devices -> Intents \cup {None}]
    BY <1>0, <1>2, SweptTypes DEF TypeOK
  <1>12. CASE Enrollable(d)
    <2>1. Enters(d)  BY <1>3, <1>5, <1>6, <1>8, <1>12 DEF Enters
    <2>2. /\ Attempt(d) \notin fenced' /\ Cardinality(Live) < DeviceLimit
          /\ \A e \in Live : Key(e) # Key(d)
          /\ \A e \in Live : Attempt(e) # Attempt(d)
      BY <1>2, <1>12 DEF Enrollable
    <2> QED  BY <1>2, <1>8, <1>9, <1>10, <1>11, <2>1, <2>2, GrantAdds
  <1>13. CASE ~Enrollable(d)
    <2>1. RowMove(d)  BY <1>3, <1>7, <1>8, <1>13 DEF RowMove, Refused
    <2>2. Moving  BY <2>1, <1>8, <1>9, <1>10, <1>11 DEF Moving
    <2> QED  BY <1>2, <2>2, StoredKept
  <1> QED  BY <1>12, <1>13

\* The sweep of listLiveGrants alone (listApprovedDevices, a login that recovers its id).
LEMMA SweepKeeps ==
    ASSUME Inv, Listed(Swept), UNCHANGED <<work, now, chal>>
    PROVE  Kept
  <1>0. TypeOK  BY DEF Inv
  <1>1. dev' = Swept /\ nonce' = SweptOf(nonce) /\ epoch' = SweptOf(epoch) /\ fenced' = SweptFences
        /\ chal' = chal /\ UNCHANGED <<work, now>>
    BY DEF Listed
  <1>2. \A e \in Devices : RowMove(e) /\ EpochMove(e)  BY <1>0, <1>1, SweptMoves
  <1>3. DevMoves  BY <1>1 DEF DevMoves, Swept
  <1>4. Moving  BY <1>0, <1>1, <1>2, <1>3, SweptTypes DEF Moving, TypeOK
  <1> QED  BY <1>1, <1>4, StoredKept


\* The write of a row together with its epoch.
LEMMA RowWrite ==
    ASSUME TypeOK, NEW d \in Devices, NEW row, dev' = [dev EXCEPT ![d] = row],
           dev'[d] = row => RowMove(d),
           \/ epoch' = epoch /\ row.owner \in {dev[d].owner, "run"}
           \/ epoch' = [epoch EXCEPT ![d] = None]
           \/ /\ row.owner = "run"
              /\ \E l \in Logins : epoch' = [epoch EXCEPT ![d] = l]
    PROVE  /\ DevMoves /\ \A e \in Devices : RowMove(e) /\ EpochMove(e)
           /\ epoch' \in [Devices -> Logins \cup {None}]
  <1>1. dev \in [Devices -> Row] /\ epoch \in [Devices -> Logins \cup {None}]  BY DEF TypeOK
  <1>2. dev'[d] = row /\ \A e \in Devices \ {d} : dev'[e] = dev[e]  BY <1>1
  <1>3. \/ epoch'[d] = None
        \/ row.owner = "run"
        \/ epoch'[d] = epoch[d] /\ row.owner = dev[d].owner
    BY <1>1
  <1>4. \A e \in Devices \ {d} : epoch'[e] = epoch[e]  BY <1>1
  <1>5. \A e \in Devices : EpochMove(e)  BY <1>2, <1>3, <1>4 DEF EpochMove
  <1>6. epoch' \in [Devices -> Logins \cup {None}]  BY <1>1
  <1> QED  BY <1>5, <1>6, OneRow

\* The rest of what is stored, when a handler leaves it alone.
LEMMA Untouched ==
    ASSUME TypeOK
    PROVE  /\ nonce' = nonce => nonce' \in [Devices -> Logins \cup {None}]
           /\ epoch' = epoch => epoch' \in [Devices -> Logins \cup {None}]
           /\ fenced' = fenced => fenced' \subseteq fenced
           /\ chal' = chal => chal' \in [Devices -> Intents \cup {None}]
  BY DEF TypeOK

\* A request ends or goes on: nothing but its row is written.
LEMMA RestageKeeps ==
    ASSUME Inv, NEW d \in Devices, PendingExpires(d) \/ Lookup(d) \/ AskSession(d)
    PROVE  Kept
  <1>0. TypeOK  BY DEF Inv
  <1>1. PICK s \in {"gone", "reviewed", "asked"} :
          dev' = [dev EXCEPT ![d] = [dev[d] EXCEPT !.stage = s]]
          /\ (s = "reviewed" => dev[d].stage = "pending")
          /\ (s = "asked" => dev[d].stage = "new" /\ Kind(d) = "session")
    BY <1>0 DEF PendingExpires, Lookup, AskSession, TypeOK
  <1>2. UNCHANGED <<work, now, nonce, epoch, fenced, chal>>
    BY DEF PendingExpires, Lookup, AskSession
  <1> DEFINE row == [dev[d] EXCEPT !.stage = s]
  <1>3. row.owner = dev[d].owner  BY <1>0 DEF TypeOK, Row
  <1>4. dev'[d] = row => RowMove(d)  BY <1>1 DEF RowMove, Restages
  <1>5. DevMoves /\ \A e \in Devices : RowMove(e) /\ EpochMove(e)
    <2>1. dev' = [dev EXCEPT ![d] = row]  BY <1>1
    <2> HIDE DEF row
    <2> QED  BY <1>0, <1>2, <1>3, <1>4, <2>1, RowWrite
  <1>6. Moving  BY <1>0, <1>2, <1>5, Untouched DEF Moving
  <1> QED  BY <1>2, <1>6, StoredKept

\* checkRevokedIdentity drops a row that is not authorized, with its nonce and epoch.
LEMMA RePairStatusKeeps ==
    ASSUME Inv, NEW d \in Devices, RePairStatus(d)
    PROVE  Kept
  <1>0. TypeOK  BY DEF Inv
  <1> DEFINE row == [dev[d] EXCEPT !.stage = "gone"]
  <1>1. dev' = [dev EXCEPT ![d] = row] /\ epoch' = [epoch EXCEPT ![d] = None]
        /\ nonce' = [nonce EXCEPT ![d] = None] /\ UNCHANGED <<work, now, fenced, chal>>
    BY DEF RePairStatus
  <1>2. dev'[d] = row => RowMove(d)  BY DEF RowMove, Restages
  <1> HIDE DEF row
  <1>3. /\ DevMoves /\ \A e \in Devices : RowMove(e) /\ EpochMove(e)
        /\ epoch' \in [Devices -> Logins \cup {None}]
    BY <1>0, <1>1, <1>2, RowWrite
  <1>4. nonce' \in [Devices -> Logins \cup {None}]  BY <1>0, <1>1 DEF TypeOK
  <1>5. Moving  BY <1>0, <1>1, <1>3, <1>4, Untouched DEF Moving
  <1> QED  BY <1>1, <1>5, StoredKept

\* renameDevice writes the label, handleDeviceInfoMessage the information.
LEMMA LabelKeeps ==
    ASSUME Inv, NEW d \in Devices, UNCHANGED <<work, now, nonce, epoch, fenced, chal>>,
           \/ dev' = [dev EXCEPT ![d].name = "new"]
           \/ \E l \in Logins : dev' = [dev EXCEPT ![d].info = l]
    PROVE  Kept
  <1>0. TypeOK /\ dev[d] \in Row  BY DEF Inv, TypeOK
  <1>1. PICK n \in {"given", "new"}, i \in Logins \cup {None} :
          dev' = [dev EXCEPT ![d] = [dev[d] EXCEPT !.name = n, !.info = i]]
    <2>1. CASE dev' = [dev EXCEPT ![d].name = "new"]
      <3>1. [dev[d] EXCEPT !.name = "new"] = [dev[d] EXCEPT !.name = "new", !.info = dev[d].info]
            /\ dev[d].info \in Logins \cup {None}
        BY <1>0 DEF Row
      <3> QED  BY <2>1, <3>1
    <2>2. CASE \E l \in Logins : dev' = [dev EXCEPT ![d].info = l]
      <3>1. PICK l \in Logins : dev' = [dev EXCEPT ![d].info = l]  BY <2>2
      <3>2. [dev[d] EXCEPT !.info = l] = [dev[d] EXCEPT !.name = dev[d].name, !.info = l]
            /\ dev[d].name \in {"given", "new"}
        BY <1>0 DEF Row
      <3> QED  BY <3>1, <3>2
    <2> QED  BY <2>1, <2>2
  <1> DEFINE row == [dev[d] EXCEPT !.name = n, !.info = i]
  <1>2. row.owner = dev[d].owner  BY <1>0 DEF Row
  <1>3. dev'[d] = row => RowMove(d)  BY DEF RowMove, Labels
  <1>4. dev' = [dev EXCEPT ![d] = row]  BY <1>1
  <1> HIDE DEF row
  <1>5. DevMoves /\ \A e \in Devices : RowMove(e) /\ EpochMove(e)
    BY <1>0, <1>2, <1>3, <1>4, RowWrite
  <1>6. Moving  BY <1>0, <1>5, Untouched DEF Moving
  <1> QED  BY <1>6, StoredKept

\* migratePermanentGrant gives a legacy row its deadline, and only once.
LEMMA MigrateKeeps ==
    ASSUME Inv, NEW d \in Devices, dev' = [dev EXCEPT ![d] = Migrated(d)],
           UNCHANGED <<work, now, nonce, epoch, fenced>>,
           chal' \in [Devices -> Intents \cup {None}]
    PROVE  Kept
  <1>0. TypeOK /\ dev[d] \in Row  BY DEF Inv, TypeOK
  <1> DEFINE row == Migrated(d)
  <1>1. row.owner = dev[d].owner  BY <1>0 DEF Migrated, Row
  <1>2. dev'[d] = row => RowMove(d)  BY DEF RowMove, Migrates, Migrated
  <1>3. dev' = [dev EXCEPT ![d] = row]  OBVIOUS
  <1> HIDE DEF row
  <1>4. DevMoves /\ \A e \in Devices : RowMove(e) /\ EpochMove(e)
    BY <1>0, <1>1, <1>2, <1>3, RowWrite
  <1>5. Moving  BY <1>0, <1>4, Untouched DEF Moving
  <1> QED  BY <1>5, StoredKept

\* A nonce comes or goes, and rows stay.
LEMMA NonceKeeps ==
    ASSUME Inv, nonce' \in [Devices -> Logins \cup {None}],
           UNCHANGED <<work, now, dev, epoch, fenced, chal>>
    PROVE  Kept
  <1>0. TypeOK  BY DEF Inv
  <1>1. DevMoves /\ \A e \in Devices : RowMove(e) /\ EpochMove(e)
    BY <1>0 DEF DevMoves, RowMove, EpochMove, TypeOK
  <1>2. Moving  BY <1>0, <1>1, Untouched DEF Moving
  <1> QED  BY <1>2, StoredKept

\* A login or a probe proves a personal device; of another kind nothing is written.
LEMMA ProofKeeps ==
    ASSUME Inv, NEW d \in Devices, MayLogIn(d), UNCHANGED <<work, now, fenced, chal>>,
           nonce' \in [Devices -> Logins \cup {None}],
           \/ epoch' = epoch \/ \E l \in Logins : epoch' = [epoch EXCEPT ![d] = l],
           dev' = IF Kind(d) = "permanent"
                  THEN [dev EXCEPT ![d] = [dev[d] EXCEPT !.last = now, !.idle = 0, !.owner = "run"]]
                  ELSE dev
    PROVE  Kept
  <1>0. TypeOK /\ dev[d] \in Row /\ RowSound(d) /\ dev \in [Devices -> Row]
    BY DEF Inv, TypeOK, RowsSound
  <1>1. StillGranted(d)  BY DEF MayLogIn, Authorized
  <1> DEFINE row == IF Kind(d) = "permanent"
                    THEN [dev[d] EXCEPT !.last = now, !.idle = 0, !.owner = "run"] ELSE dev[d]
  <1>2. dev' = [dev EXCEPT ![d] = row]  BY <1>0
  <1>3. row.owner = "run"  BY <1>0 DEF Row, RowSound
  <1>4. dev'[d] = row => RowMove(d)  BY <1>1 DEF RowMove, Proven
  <1> HIDE DEF row
  <1>5. /\ DevMoves /\ \A e \in Devices : RowMove(e) /\ EpochMove(e)
        /\ epoch' \in [Devices -> Logins \cup {None}]
    BY <1>0, <1>2, <1>3, <1>4, RowWrite
  <1>6. Moving  BY <1>0, <1>5, Untouched DEF Moving
  <1> QED  BY <1>6, StoredKept

\* recordVerifiedSocketClose starts the offline window of the current epoch, and of no other.
LEMMA CloseKeeps ==
    ASSUME Inv, NEW l \in Logins, Of(l) \in Devices, CloseCounts(l),
           UNCHANGED <<work, now, nonce, epoch, fenced, chal>>,
           dev' = [dev EXCEPT ![Of(l)].idle = now + Window]
    PROVE  Kept
  <1> DEFINE d == Of(l)
             row == [dev[d] EXCEPT !.idle = now + Window]
  <1>0. TypeOK /\ d \in Devices /\ dev[d] \in Row /\ dev' = [dev EXCEPT ![d] = row]
    BY DEF Inv, TypeOK
  <1>1. StillGranted(d) /\ Kind(d) = "permanent" /\ dev[d].idle = 0 /\ dev[d].owner = "run"
    BY DEF CloseCounts, Authorized
  <1>2. row.owner = dev[d].owner  BY <1>0 DEF Row
  <1>3. dev'[d] = row => RowMove(d)  BY <1>1 DEF RowMove, Closes
  <1> HIDE DEF row, d
  <1>4. DevMoves /\ \A e \in Devices : RowMove(e) /\ EpochMove(e)
    BY <1>0, <1>2, <1>3, RowWrite
  <1>5. Moving  BY <1>0, <1>4, Untouched DEF Moving
  <1> QED  BY <1>5, StoredKept


\* revokeDevice takes the grant away and fences the attempt: no other live grant has it.
LEMMA RevokeKeeps ==
    ASSUME Inv, NEW d \in Devices, RevokeCommit(d)
    PROVE  Kept
  <1>0. TypeOK /\ dev[d] \in Row  BY DEF Inv, TypeOK
  <1> DEFINE row == [dev[d] EXCEPT !.stage = "gone"]
  <1>1. dev' = [dev EXCEPT ![d] = row] /\ epoch' = [epoch EXCEPT ![d] = None]
        /\ nonce' = [nonce EXCEPT ![d] = None] /\ UNCHANGED <<work, now, chal>>
    BY DEF RevokeCommit
  <1>2. fenced' \in {fenced, fenced \cup {Attempt(d)}}
        /\ (fenced' # fenced => Kind(d) = "session" /\ now < SessionEnd)
        /\ dev[d].stage = "granted"
    BY DEF RevokeCommit
  <1>3. dev'[d] = row => RowMove(d)  BY DEF RowMove, Restages
  <1>4. dev'[d].stage = "gone"  BY <1>0, <1>1 DEF TypeOK, Row
  <1> HIDE DEF row
  <1>5. /\ DevMoves /\ \A e \in Devices : RowMove(e) /\ EpochMove(e)
        /\ epoch' \in [Devices -> Logins \cup {None}]
    BY <1>0, <1>1, <1>3, RowWrite
  <1>6. now' \in 1..Horizon /\ now' >= now  BY <1>0, <1>1, Bounds DEF TypeOK
  <1>7. dev' \in [Devices -> Row] /\ RowsSound' /\ Live' \subseteq Live
    BY <1>0, <1>1, <1>5, <1>6, RowsKeep DEF Inv
  <1>8. d \notin Live'  BY <1>4 DEF Live, StillGranted, Legacy
  <1>9. GrantsSound'
    <2>1. CASE fenced' = fenced
      BY <2>1, <1>0, <1>1, <1>5, <1>6, RowsKeep DEF Inv
    <2>2. CASE /\ fenced' = fenced \cup {Attempt(d)} /\ Kind(d) = "session"
               /\ now < SessionEnd
      <3>1. IsFiniteSet(Live)  BY Bounds, FS_Subset, Live \subseteq Devices DEF Live
      <3>2. Cardinality(Live') <= Cardinality(Live) /\ Cardinality(Live) \in Nat
            /\ Cardinality(Live') \in Nat
        BY <3>1, <1>7, FS_Subset, FS_CardinalityType
      <3>3. Cardinality(Live') <= DeviceLimit  BY <3>2, Bounds DEF Inv, GrantsSound
      <3>4. \A e, f \in Live' : e # f => Key(e)' # Key(f)'
        BY <1>1, <1>7 DEF Inv, GrantsSound, Key
      <3>5. \A e, f \in Live' : e # f /\ Kind(e)' = "session" /\ Kind(f)' = "session"
                                    => Attempt(e)' # Attempt(f)'
        BY <1>1, <1>7 DEF Inv, GrantsSound, Kind, Attempt
      <3>6. ASSUME NEW e \in Live', Kind(e)' = "session" PROVE Attempt(e)' \notin fenced'
        <4>1. Kind(e) = "session" /\ Attempt(e)' = Attempt(e) /\ e \in Live
          BY <3>6, <1>1, <1>7 DEF Kind, Attempt
        <4>2. Attempt(e) \notin fenced  BY <4>1 DEF Inv, GrantsSound
        <4>3. Attempt(e) # Attempt(d)
          <5>1. RowSound(d)  BY DEF Inv, RowsSound
          <5>2. Deadline(d) = SessionEnd  BY <1>2, <2>2, <5>1 DEF RowSound, Deadline
          <5>3. d \in Live  BY <1>2, <2>2, <5>2 DEF Live, StillGranted
          <5> QED  BY <5>3, <4>1, <1>8, <2>2 DEF Inv, GrantsSound
        <4> QED  BY <4>1, <4>2, <4>3, <2>2
      <3> QED  BY <3>3, <3>4, <3>5, <3>6 DEF GrantsSound
    <2> QED  BY <1>2, <2>1, <2>2
  <1>10. nonce' \in [Devices -> Logins \cup {None}] /\ chal' \in [Devices -> Intents \cup {None}]
         /\ now' \in 1..Horizon
    BY <1>0, <1>1 DEF TypeOK
  <1>11. fenced' \subseteq {Attempt(e)' : e \in Devices}  BY <1>0, <1>1, <1>2 DEF TypeOK, Attempt
  <1>12. StoredPart'  BY <1>5, <1>7, <1>9, <1>10, <1>11 DEF StoredPart
  <1> QED  BY <1>5, <1>12 DEF Kept, RowsMove


\* commitOwnerIntent stops a live personal device with no more time than it had, or lets a
\* stopped one wait for a new login.
LEMMA IntentCommitKeeps ==
    ASSUME Inv, NEW i \in Intents, IntentCommit(i)
    PROVE  Kept
  <1> DEFINE d == IDev(i)
             valid == StillGranted(d) /\ dev[d].gen = intent[i].gen /\ chal[d] = i
             expiry == IF dev[d].owner = "stopped" \/ Deadline(d) < now + Window
                       THEN Deadline(d) ELSE now + Window
             stopped == [dev[d] EXCEPT !.owner = "stopped", !.gen = dev[d].gen + 1, !.idle = expiry]
             resumed == [dev[d] EXCEPT !.owner = "resuming", !.gen = dev[d].gen + 1]
  <1>0. TypeOK /\ intent[i].pc = "verified" /\ UNCHANGED <<work, now, fenced>>
    BY DEF Inv, IntentCommit
  <1>1. d \in Devices /\ Kind(d) = "permanent"  BY <1>0 DEF Inv, IntentsSound
  <1>2. dev[d] \in Row /\ RowSound(d)  BY <1>0, <1>1 DEF Inv, RowsSound, TypeOK
  <1>3. chal' \in [Devices -> Intents \cup {None}]  BY <1>0, <1>1 DEF IntentCommit, TypeOK
  <1>4. \/ UNCHANGED <<dev, nonce, epoch>>
        \/ /\ valid /\ dev' = IF dev[d].owner = "stopped" THEN dev ELSE [dev EXCEPT ![d] = stopped]
           /\ nonce' = [nonce EXCEPT ![d] = None] /\ epoch' = [epoch EXCEPT ![d] = None]
        \/ /\ valid /\ dev[d].owner = "stopped" /\ dev' = [dev EXCEPT ![d] = resumed]
           /\ epoch' = [epoch EXCEPT ![d] = None] /\ UNCHANGED nonce
    BY DEF IntentCommit
  <1>5. nonce' \in [Devices -> Logins \cup {None}]  BY <1>0, <1>1, <1>4 DEF TypeOK
  <1>6. CASE UNCHANGED <<dev, nonce, epoch>>
    <2>1. DevMoves /\ (\A e \in Devices : RowMove(e) /\ EpochMove(e))
          /\ epoch' \in [Devices -> Logins \cup {None}]
      BY <1>0, <1>6 DEF DevMoves, RowMove, EpochMove, TypeOK
    <2>2. Moving  BY <1>0, <1>3, <1>5, <2>1 DEF Moving
    <2> QED  BY <1>0, <2>2, StoredKept
  <1>7. ASSUME NEW row, valid, dev' = [dev EXCEPT ![d] = row], dev'[d] = row => RowMove(d),
               epoch' = [epoch EXCEPT ![d] = None]
        PROVE  Kept
    <2>1. /\ DevMoves /\ \A e \in Devices : RowMove(e) /\ EpochMove(e)
          /\ epoch' \in [Devices -> Logins \cup {None}]
      <3> HIDE DEF d
      <3> QED  BY <1>0, <1>1, <1>7, RowWrite
    <2>2. Moving  BY <1>0, <1>3, <1>5, <2>1, Untouched DEF Moving
    <2> QED  BY <1>0, <2>2, StoredKept
  <1>8. CASE /\ valid /\ dev' = IF dev[d].owner = "stopped" THEN dev ELSE [dev EXCEPT ![d] = stopped]
             /\ epoch' = [epoch EXCEPT ![d] = None]
    <2>1. CASE dev[d].owner = "stopped"
      <3>1. dev' = [dev EXCEPT ![d] = dev[d]]  BY <1>0, <1>1, <1>8, <2>1 DEF TypeOK
      <3>2. dev'[d] = dev[d] => RowMove(d)  BY DEF RowMove
      <3> QED  BY <1>7, <1>8, <3>1, <3>2
    <2>2. CASE dev[d].owner # "stopped"
      <3>1. /\ dev[d].idle \in 0..(Horizon + Window) /\ dev[d].last \in 0..Horizon
            /\ now \in 1..Horizon
        BY <1>0, <1>2 DEF Row, TypeOK
      <3>2. Deadline(d) \in 0..(Horizon + Window)  BY <3>1, <1>1, Bounds DEF Deadline
      <3>3. StillGranted(d) /\ now < Deadline(d)  BY <1>8 DEF StillGranted
      <3>4. expiry \in 1..(Horizon + Window) /\ expiry <= Deadline(d)
        BY <3>1, <3>2, <3>3, Bounds
      <3>5. dev' = [dev EXCEPT ![d] = stopped]  BY <1>8, <2>2
      <3>6. dev'[d] = stopped => RowMove(d)
        <4> HIDE DEF expiry
        <4> QED  BY <3>3, <3>4, <1>1 DEF RowMove, Stops
      <3> HIDE DEF stopped
      <3> QED  BY <1>7, <1>8, <3>5, <3>6
    <2> QED  BY <2>1, <2>2
  <1>9. CASE /\ valid /\ dev[d].owner = "stopped" /\ dev' = [dev EXCEPT ![d] = resumed]
             /\ epoch' = [epoch EXCEPT ![d] = None]
    <2>1. dev'[d] = resumed => RowMove(d)
      BY <1>1, <1>9 DEF RowMove, ResumesRow
    <2> HIDE DEF resumed
    <2> QED  BY <1>7, <1>9, <2>1
  <1> QED  BY <1>4, <1>6, <1>8, <1>9

\* Time passes: deadlines come nearer, and nothing that is stored moves.
LEMMA TickKeeps ==
    ASSUME Inv, Tick
    PROVE  Kept
  <1>0. TypeOK /\ now' = now + 1 /\ now < Horizon
        /\ UNCHANGED <<work, dev, nonce, epoch, fenced, chal>>
    BY DEF Inv, Tick, stored
  <1>1. now' \in 1..Horizon /\ now' >= now  BY <1>0, Bounds DEF TypeOK
  <1>2. DevMoves /\ (\A e \in Devices : RowMove(e) /\ EpochMove(e))
    BY <1>0 DEF DevMoves, RowMove, EpochMove, TypeOK
  <1>3. dev' \in [Devices -> Row] /\ RowsSound' /\ GrantsSound'
    BY <1>0, <1>1, <1>2, RowsKeep DEF Inv
  <1>4. fenced' \subseteq {Attempt(e)' : e \in Devices}  BY <1>0 DEF TypeOK, Attempt
  <1>5. StoredPart'  BY <1>0, <1>1, <1>3, <1>4 DEF StoredPart, TypeOK
  <1> QED  BY <1>2, <1>5 DEF Kept, RowsMove


-----------------------------------------------------------------------------
(* The handlers, one part at a time *)

\* What a handler does not write stays sound, so a step owes only the parts it writes.
LEMMA Assemble ==
    ASSUME Inv, UNCHANGED work,
           Kept \/ UNCHANGED <<now, stored>>,
           LoginPart' \/ UNCHANGED <<login, sock>>,
           RequestPart' \/ UNCHANGED req,
           IntentPart' \/ UNCHANGED intent,
           OtherPart' \/ UNCHANGED <<revoke, attempts, restarts>>
    PROVE  Stepped
  <1>1. work' \in Workloads  BY Parts
  <1>2. StoredPart' /\ LoginPart' /\ RequestPart' /\ IntentPart' /\ OtherPart'
    BY Parts, PartsStay DEF Kept
  <1>3. Inv'
    BY <1>1, <1>2 DEF Inv, TypeOK, StoredPart, LoginPart, RequestPart, IntentPart, OtherPart
  <1>4. RowsMove
    BY DEF Kept, RowsMove, RowMove, stored
  <1> QED  BY <1>3, <1>4 DEF Stepped

\* A login or a socket that gets going belongs to a device.
LEMMA LoginKept ==
    ASSUME LoginPart, UNCHANGED work,
           login' \in [Logins -> {"idle", "asked", "challenged", "verified", "committed",
                                  "admitted", "checking", "done"}],
           sock' \in [Logins -> {"none", "open", "closing", "closed"}],
           \A s \in Logins : login'[s] # "idle" \/ sock'[s] # "none" =>
               login[s] # "idle" \/ sock[s] # "none" \/ Of(s) \in Devices
    PROVE  LoginPart'
  BY DEF LoginPart, LoginsSound, Of

\* A handler of a login goes on.
LEMMA LoginGoesOn ==
    ASSUME LoginPart, UNCHANGED work, NEW l \in Logins, Of(l) \in Devices,
           NEW pc \in {"asked", "challenged", "verified", "committed", "admitted", "checking",
                       "done"},
           Moves(l, pc), UNCHANGED sock
    PROVE  LoginPart'
  <1>1. /\ login' = [login EXCEPT ![l] = pc] /\ sock' = sock
        /\ login \in [Logins -> {"idle", "asked", "challenged", "verified", "committed",
                                 "admitted", "checking", "done"}]
        /\ sock \in [Logins -> {"none", "open", "closing", "closed"}]
    BY DEF Moves, LoginPart
  <1>2. /\ login' \in [Logins -> {"idle", "asked", "challenged", "verified", "committed",
                                  "admitted", "checking", "done"}]
        /\ sock' \in [Logins -> {"none", "open", "closing", "closed"}]
    BY <1>1
  <1>3. \A s \in Logins : login'[s] # "idle" \/ sock'[s] # "none" =>
            login[s] # "idle" \/ sock[s] # "none" \/ Of(s) \in Devices
    BY <1>1
  <1> QED  BY <1>2, <1>3, LoginKept

\* acceptWebSocket opens the socket of its own login and only closes others.
LEMMA AttachKeeps ==
    ASSUME LoginPart, UNCHANGED work, NEW l \in Logins, Of(l) \in Devices, Attach(l)
    PROVE  LoginPart'
  <1>1. /\ login' = [login EXCEPT ![l] = "done"]
        /\ login \in [Logins -> {"idle", "asked", "challenged", "verified", "committed",
                                 "admitted", "checking", "done"}]
        /\ sock \in [Logins -> {"none", "open", "closing", "closed"}]
    BY DEF Attach, Moves, LoginPart
  <1>2. /\ sock' \in [Logins -> {"none", "open", "closing", "closed"}]
        /\ \A s \in Logins \ {l} : sock'[s] # "none" => sock[s] # "none"
    BY <1>1 DEF Attach
  <1>3. login' \in [Logins -> {"idle", "asked", "challenged", "verified", "committed",
                               "admitted", "checking", "done"}]
    BY <1>1
  <1>4. \A s \in Logins : login'[s] # "idle" \/ sock'[s] # "none" =>
            login[s] # "idle" \/ sock[s] # "none" \/ Of(s) \in Devices
    BY <1>1, <1>2
  <1> QED  BY <1>2, <1>3, <1>4, LoginKept

\* Sockets that are only closed, with no login going on.
LEMMA SocketsClose ==
    ASSUME LoginPart, UNCHANGED <<work, login>>,
           sock' \in [Logins -> {"none", "open", "closing", "closed"}],
           \A s \in Logins : sock'[s] # "none" => sock[s] # "none"
    PROVE  LoginPart'
  <1>1. login' \in [Logins -> {"idle", "asked", "challenged", "verified", "committed",
                               "admitted", "checking", "done"}]
    BY DEF LoginPart
  <1>2. \A s \in Logins : login'[s] # "idle" \/ sock'[s] # "none" =>
            login[s] # "idle" \/ sock[s] # "none" \/ Of(s) \in Devices
    OBVIOUS
  <1> QED  BY <1>1, <1>2, LoginKept

\* The command of a request is written.
LEMMA RequestKept ==
    ASSUME RequestPart, UNCHANGED work, NEW r \in Requests, NEW row \in Command,
           req' = [req EXCEPT ![r] = row],
           row.pc \notin {"idle", "done"} => Target(r) \in Devices,
           row.pc \in {"idle", "reading", "checking"} => row.frame = "none",
           row.pc = "checking" => Kind(Target(r)) = "session" /\ row.seen # None,
           row.pc = "waiting" => row.seen # None
    PROVE  RequestPart'
  <1>1. req \in [Requests -> Command] /\ \A q \in Requests : RequestSound(q)
    BY DEF RequestPart, RequestsSound
  <1>2. req' \in [Requests -> Command]  BY <1>1
  <1>3. req'[r] = row /\ \A q \in Requests \ {r} : req'[q] = req[q]  BY <1>1
  <1>4. \A q \in Requests : Target(q)' = Target(q) /\ Kind(Target(q))' = Kind(Target(q))
    BY DEF Target, Kind
  <1>5. RequestSound(r)'  BY <1>3, <1>4 DEF RequestSound
  <1>6. \A q \in Requests \ {r} : RequestSound(q)'  BY <1>1, <1>3, <1>4 DEF RequestSound
  <1> QED  BY <1>2, <1>5, <1>6 DEF RequestPart, RequestsSound

\* An answer ends a command.
LEMMA ToldKeeps ==
    ASSUME RequestPart, UNCHANGED work, NEW r \in Requests,
           NEW what \in {"completed", "unknown", "unavailable", "error", "rejected"},
           Told(r, what)
    PROVE  RequestPart'
  <1> DEFINE row == [req[r] EXCEPT !.pc = "done", !.told = what]
  <1>1. req[r] \in Command  BY DEF RequestPart
  <1>2. row \in Command /\ row.pc = "done"  BY <1>1 DEF Command
  <1>3. req' = [req EXCEPT ![r] = row]  BY DEF Told
  <1> HIDE DEF row
  <1> QED  BY <1>2, <1>3, RequestKept

\* What an owner is told when there is no result.
LEMMA UnansweredIs ==
    \A r : Unanswered(r) \in {"unknown", "unavailable", "error"}
  BY DEF Unanswered, CallOperation, CallRead

\* A command that ends without a result stays sound.
LEMMA EndedKeeps ==
    ASSUME RequestPart, UNCHANGED work, NEW r \in Requests, Ended(r)
    PROVE  RequestPart'
  BY ToldKeeps, UnansweredIs DEF Ended

\* A dispatch sends over the socket of the epoch, or ends the command.
LEMMA DispatchKeeps ==
    ASSUME RequestPart, UNCHANGED work, NEW r \in Requests, NEW e, Target(r) \in Devices,
           Dispatch(r, e)
    PROVE  RequestPart'
  <1>1. CASE Ended(r)  BY <1>1, EndedKeeps
  <1>2. ASSUME NEW l \in Chosen(r, e),
               req' = [req EXCEPT ![r] = [req[r] EXCEPT !.pc = "waiting", !.seen = l, !.frame = "sent"]]
        PROVE  RequestPart'
    <2> DEFINE row == [req[r] EXCEPT !.pc = "waiting", !.seen = l, !.frame = "sent"]
    <2>1. req[r] \in Command  BY DEF RequestPart
    <2>2. l \in Logins /\ l # None  BY Bounds DEF Chosen
    <2>3. row \in Command /\ row.pc = "waiting" /\ row.seen = l  BY <2>1, <2>2 DEF Command
    <2>4. req' = [req EXCEPT ![r] = row]  BY <1>2
    <2> HIDE DEF row
    <2> QED  BY <2>2, <2>3, <2>4, RequestKept
  <1> QED  BY <1>1, <1>2 DEF Dispatch

\* Some commands in flight are rejected together (rejectPendingReads).
LEMMA RejectedTogether ==
    ASSUME RequestPart, UNCHANGED work, NEW Gone,
           req' = [r \in Requests |-> IF r \in Gone
                                      THEN [req[r] EXCEPT !.pc = "done", !.told = Unanswered(r)]
                                      ELSE req[r]]
    PROVE  RequestPart'
  <1>1. req \in [Requests -> Command] /\ \A r \in Requests : RequestSound(r)
    BY DEF RequestPart, RequestsSound
  <1>2. ASSUME NEW r \in Requests PROVE req'[r] \in Command /\ RequestSound(r)'
    <2>1. CASE r \in Gone
      <3> DEFINE row == [req[r] EXCEPT !.pc = "done", !.told = Unanswered(r)]
      <3>1. Unanswered(r) \in {"unknown", "unavailable", "error"}  BY UnansweredIs
      <3>2. row \in Command /\ row.pc = "done"  BY <1>1, <3>1 DEF Command
      <3>3. req'[r] = row  BY <2>1
      <3> HIDE DEF row
      <3> QED  BY <3>2, <3>3 DEF RequestSound
    <2>2. CASE r \notin Gone
      <3>1. req'[r] = req[r]  BY <2>2
      <3> QED  BY <3>1, <1>1 DEF RequestSound, Target, Kind
    <2> QED  BY <2>1, <2>2
  <1>3. req' \in [Requests -> Command]  BY <1>2
  <1> QED  BY <1>2, <1>3 DEF RequestPart, RequestsSound


\* Pairing, the sweep and the label: only what is stored moves.
LEMMA EnrolmentStep ==
    ASSUME Inv, NEW d \in Devices,
           \/ RegisterPending(d) \/ PendingExpires(d) \/ Lookup(d) \/ Approve(d) \/ AskSession(d)
           \/ GrantSession(d) \/ RePairStatus(d) \/ Rename(d)
    PROVE  Stepped
  <1>1. UNCHANGED <<work, login, sock, req, revoke, intent, attempts, restarts>>
    BY DEF RegisterPending, PendingExpires, Lookup, Approve, AskSession, GrantSession,
           RePairStatus, Rename
  <1>2. Kept
    <2>1. CASE RegisterPending(d)  BY <2>1, RegisterPendingKeeps
    <2>2. CASE PendingExpires(d) \/ Lookup(d) \/ AskSession(d)  BY <2>2, RestageKeeps
    <2>3. CASE Approve(d)  BY <2>3, ApproveKeeps
    <2>4. CASE GrantSession(d)  BY <2>4, GrantSessionKeeps
    <2>5. CASE RePairStatus(d)  BY <2>5, RePairStatusKeeps
    <2>6. CASE Rename(d)  BY <2>6, LabelKeeps DEF Rename
    <2> QED  BY <2>1, <2>2, <2>3, <2>4, <2>5, <2>6
  <1> QED  BY <1>1, <1>2, Assemble

\* listApprovedDevices.
LEMMA ListDevicesStep ==
    ASSUME Inv, ListDevices
    PROVE  Stepped
  <1>1. UNCHANGED <<work, login, sock, req, revoke, intent, attempts, restarts>> /\ Kept
    BY SweepKeeps DEF ListDevices
  <1> QED  BY <1>1, Assemble

\* A login that has begun belongs to a device, and so does a socket.
LEMMA LoginOwner ==
    ASSUME Inv, NEW l \in Logins, login[l] # "idle" \/ sock[l] # "none"
    PROVE  Of(l) \in Devices
  BY DEF Inv, LoginsSound

\* issueSessionChallenge reads the row and may migrate it, or sweeps.
LEMMA AskChallengeStep ==
    ASSUME Inv, NEW l \in Logins, AskChallenge(l)
    PROVE  Stepped
  <1>1. UNCHANGED <<work, now, chal, sock, req, revoke, intent, attempts, restarts>>
        /\ Moves(l, "asked")
    BY DEF AskChallenge
  <1>2. Of(l) \in Devices
    <2>1. work \in Workloads  BY DEF Inv, TypeOK
    <2> QED  BY <2>1, WorkloadAssumption DEF AskChallenge, Of
  <1>3. LoginPart'  BY <1>1, <1>2, Parts, LoginGoesOn
  <1>4. Kept
    <2>1. CASE Listed(Swept)  BY <1>1, <2>1, SweepKeeps
    <2>2. CASE dev' = [dev EXCEPT ![Of(l)] = Migrated(Of(l))] /\ UNCHANGED <<nonce, epoch, fenced>>
      <3>1. chal' \in [Devices -> Intents \cup {None}]  BY <1>1 DEF Inv, TypeOK
      <3> QED  BY <1>1, <1>2, <2>2, <3>1, MigrateKeeps
    <2> QED  BY <2>1, <2>2 DEF AskChallenge
  <1> QED  BY <1>1, <1>3, <1>4, Assemble

\* The nonce is stored, whatever happened since the row was read.
LEMMA ChallengeStep ==
    ASSUME Inv, NEW l \in Logins, Challenge(l)
    PROVE  Stepped
  <1>1. UNCHANGED <<work, now, dev, epoch, fenced, chal, sock, req, revoke, intent, attempts, restarts>>
        /\ Moves(l, "challenged") /\ login[l] # "idle" /\ nonce' = [nonce EXCEPT ![Of(l)] = l]
    BY DEF Challenge
  <1>2. Of(l) \in Devices  BY <1>1, LoginOwner
  <1>3. nonce' \in [Devices -> Logins \cup {None}]  BY <1>1, <1>2 DEF Inv, TypeOK
  <1>4. Kept  BY <1>1, <1>3, NonceKeeps
  <1>5. LoginPart'  BY <1>1, <1>2, Parts, LoginGoesOn
  <1> QED  BY <1>1, <1>4, <1>5, Assemble

\* verifyProof and the second read of the grant write nothing that is stored.
LEMMA VerifyStep ==
    ASSUME Inv, NEW l \in Logins, Verify(l) \/ Recheck(l)
    PROVE  Stepped
  <1>1. UNCHANGED <<work, now, stored, sock, req, revoke, intent, attempts, restarts>>
        /\ login[l] # "idle"
    BY DEF Verify, Recheck
  <1>2. Of(l) \in Devices  BY <1>1, LoginOwner
  <1>3. Moves(l, "verified") \/ Moves(l, "admitted") \/ Moves(l, "done")  BY DEF Verify, Recheck
  <1>4. LoginPart'
    <2>1. LoginPart /\ UNCHANGED <<work, sock>>  BY <1>1, Parts
    <2> QED  BY <1>2, <1>3, <2>1, LoginGoesOn
  <1> QED  BY <1>1, <1>4, Assemble

\* consumeAuthorizedProof takes the nonce and sets the epoch, or does nothing.
LEMMA CommitStep ==
    ASSUME Inv, NEW l \in Logins, Commit(l)
    PROVE  Stepped
  <1> DEFINE d == Of(l)
  <1>1. UNCHANGED <<work, now, fenced, chal, sock, req, revoke, intent, attempts, restarts>>
        /\ login[l] # "idle" /\ ~Recovers(l)
    BY DEF Commit
  <1>2. d \in Devices  BY <1>1, LoginOwner
  <1>3. LoginPart'
    <2>1. LoginPart /\ UNCHANGED <<work, sock>>  BY <1>1, Parts
    <2>2. Moves(l, "committed") \/ Moves(l, "done")  BY DEF Commit
    <2> QED  BY <1>2, <2>1, <2>2, LoginGoesOn
  <1>4. CASE nonce[d] = l /\ Proves(l)
    <2>1. /\ nonce' = [nonce EXCEPT ![d] = None] /\ epoch' = [epoch EXCEPT ![d] = l]
          /\ dev' = IF Kind(d) = "permanent"
                    THEN [dev EXCEPT ![d] = [dev[d] EXCEPT !.last = now, !.idle = 0, !.owner = "run"]]
                    ELSE dev
      BY <1>4 DEF Commit
    <2>2. MayLogIn(d)  BY <1>1, <1>4 DEF Proves
    <2>3. nonce' \in [Devices -> Logins \cup {None}]  BY <1>2, <2>1 DEF Inv, TypeOK
    <2>4. Kept
      <3>1. UNCHANGED <<work, now, fenced, chal>>  BY <1>1
      <3>2. \E k \in Logins : epoch' = [epoch EXCEPT ![d] = k]  BY <2>1
      <3> HIDE DEF d
      <3> QED  BY <1>2, <2>1, <2>2, <2>3, <3>1, <3>2, ProofKeeps
    <2> QED  BY <1>1, <1>3, <2>4, Assemble
  <1>5. CASE ~(nonce[d] = l /\ Proves(l))
    <2>1. UNCHANGED <<now, stored>>  BY <1>1, <1>5 DEF Commit, stored
    <2> QED  BY <1>1, <1>3, <2>1, Assemble
  <1> QED  BY <1>4, <1>5

\* authorizeSession spends the nonce and displaces nothing.
LEMMA RecoverStep ==
    ASSUME Inv, NEW l \in Logins, Recover(l)
    PROVE  Stepped
  <1>1. UNCHANGED <<work, now, dev, epoch, fenced, chal, sock, req, revoke, intent, attempts, restarts>>
        /\ login[l] # "idle" /\ Moves(l, "done")
    BY DEF Recover
  <1>2. Of(l) \in Devices  BY <1>1, LoginOwner
  <1>3. nonce' \in [Devices -> Logins \cup {None}]  BY <1>2 DEF Inv, TypeOK, Recover
  <1>4. Kept  BY <1>1, <1>3, NonceKeeps
  <1>5. LoginPart'  BY <1>1, <1>2, Parts, LoginGoesOn
  <1> QED  BY <1>1, <1>4, <1>5, Assemble

\* acceptAuthenticatedSocket opens its socket, waits for the workflow or gives up.
LEMMA AcceptStep ==
    ASSUME Inv, NEW l \in Logins, ReadEpoch(l) \/ SessionAnswered(l)
    PROVE  Stepped
  <1>1. UNCHANGED <<work, now, stored, req, revoke, intent, attempts, restarts>> /\ login[l] # "idle"
    BY DEF ReadEpoch, SessionAnswered
  <1>2. Of(l) \in Devices  BY <1>1, LoginOwner
  <1>3. \/ Attach(l)
        \/ Moves(l, "done") /\ UNCHANGED sock
        \/ Moves(l, "checking") /\ UNCHANGED sock
    BY DEF ReadEpoch, SessionAnswered
  <1>4. LoginPart'
    <2>1. LoginPart /\ UNCHANGED work  BY <1>1, Parts
    <2> QED  BY <1>2, <1>3, <2>1, LoginGoesOn, AttachKeeps
  <1> QED  BY <1>1, <1>4, Assemble


\* Frames that answer nothing: a row is written, or the socket is asked to close.
LEMMA SocketMessageStep ==
    ASSUME Inv, NEW l \in Logins, SocketMessage(l)
    PROVE  Stepped
  <1> DEFINE d == Of(l)
  <1>1. UNCHANGED <<work, now, nonce, epoch, fenced, chal, login, req, revoke, intent, attempts,
                    restarts>>
        /\ sock[l] = "open"
    BY DEF SocketMessage, Inform, Probe
  <1>2. d \in Devices  BY <1>1, LoginOwner
  <1>3. CASE sock' = [sock EXCEPT ![l] = "closing"] /\ UNCHANGED dev
    <2>1. UNCHANGED <<now, stored>>  BY <1>1, <1>3 DEF stored
    <2>2. LoginPart'
      <3>1. LoginPart  BY Parts
      <3>2. /\ sock' \in [Logins -> {"none", "open", "closing", "closed"}]
            /\ \A s \in Logins : sock'[s] # "none" => sock[s] # "none"
        BY <1>1, <1>3, <3>1 DEF LoginPart
      <3> QED  BY <1>1, <3>1, <3>2, SocketsClose
    <2> QED  BY <1>1, <2>1, <2>2, Assemble
  <1>4. CASE dev' = [dev EXCEPT ![d].info = l] /\ UNCHANGED sock
    <2>1. Kept
      <3>1. \E k \in Logins : dev' = [dev EXCEPT ![d].info = k]  BY <1>4
      <3> HIDE DEF d
      <3> QED  BY <1>1, <1>2, <3>1, LabelKeeps
    <2> QED  BY <1>1, <1>4, <2>1, Assemble
  <1>5. CASE /\ Authorized(d) /\ epoch[d] = l /\ Kind(d) = "permanent" /\ UNCHANGED sock
             /\ dev' = [dev EXCEPT ![d] = [dev[d] EXCEPT !.last = now, !.idle = 0]]
    <2>1. dev[d] \in Row /\ dev[d].owner = "run"  BY <1>2, <1>5 DEF Inv, TypeOK, Authorized
    <2>2. [dev[d] EXCEPT !.last = now, !.idle = 0]
             = [dev[d] EXCEPT !.last = now, !.idle = 0, !.owner = "run"]
      BY <2>1 DEF Row
    <2>3. MayLogIn(d) /\ nonce' \in [Devices -> Logins \cup {None}]
      BY <1>1, <1>5 DEF MayLogIn, Inv, TypeOK
    <2>4. dev' = IF Kind(d) = "permanent"
                 THEN [dev EXCEPT ![d] = [dev[d] EXCEPT !.last = now, !.idle = 0, !.owner = "run"]]
                 ELSE dev
      BY <1>5, <2>2
    <2>5. Kept
      <3> HIDE DEF d
      <3> QED  BY <1>1, <1>2, <2>3, <2>4, ProofKeeps
    <2> QED  BY <1>1, <1>5, <2>5, Assemble
  <1> QED  BY <1>3, <1>4, <1>5 DEF SocketMessage, Inform, Probe

\* webSocketClose rejects what waits on the socket, and may start the offline window.
LEMMA SocketClosesStep ==
    ASSUME Inv, NEW l \in Logins, SocketCloses(l)
    PROVE  Stepped
  <1>1. UNCHANGED <<work, now, nonce, epoch, fenced, chal, login, revoke, intent, attempts,
                    restarts>>
        /\ sock[l] # "none" /\ sock' = [sock EXCEPT ![l] = "closed"]
    BY DEF SocketCloses
  <1>2. Of(l) \in Devices  BY <1>1, LoginOwner
  <1>3. LoginPart'
    <2>1. LoginPart  BY Parts
    <2>2. /\ sock' \in [Logins -> {"none", "open", "closing", "closed"}]
          /\ \A s \in Logins : sock'[s] # "none" => sock[s] # "none"
      BY <1>1, <2>1 DEF LoginPart
    <2> QED  BY <1>1, <2>1, <2>2, SocketsClose
  <1>4. RequestPart'
    <2>1. RequestPart /\ UNCHANGED work  BY <1>1, Parts
    <2> DEFINE Gone == {r \in Requests : req[r].pc = "waiting" /\ req[r].seen = l}
    <2>2. req' = [r \in Requests |-> IF r \in Gone
                                     THEN [req[r] EXCEPT !.pc = "done", !.told = Unanswered(r)]
                                     ELSE req[r]]
      BY DEF SocketCloses
    <2> HIDE DEF Gone
    <2> QED  BY <2>1, <2>2, RejectedTogether
  <1>5. Kept \/ UNCHANGED <<now, stored>>
    <2>1. CASE dev' = dev  BY <1>1, <2>1 DEF stored
    <2>2. CASE CloseCounts(l) /\ dev' = [dev EXCEPT ![Of(l)].idle = now + Window]
      BY <1>1, <1>2, <2>2, CloseKeeps
    <2> QED  BY <2>1, <2>2 DEF SocketCloses
  <1> QED  BY <1>1, <1>3, <1>4, <1>5, Assemble

\* readFile and its answers: one command is written, and nothing else.
LEMMA RequestStep ==
    ASSUME Inv, NEW r \in Requests, Ask(r) \/ AgentRuns(r) \/ Serves(r)
    PROVE  Stepped
  <1>1. UNCHANGED <<work, now, stored, login, sock, revoke, intent, attempts, restarts>>
    BY DEF Ask, AgentRuns, Serves, Read, SessionChecked, Result, Timeout
  <1>2. RequestPart /\ RequestSound(r) /\ req[r] \in Command /\ UNCHANGED work
    BY <1>1, Parts DEF RequestPart, RequestsSound
  <1>3. RequestPart'
    <2>1. CASE Ended(r)  BY <1>2, <2>1, EndedKeeps
    <2>2. CASE Told(r, "rejected")  BY <1>2, <2>2, ToldKeeps
    <2>3. CASE Ask(r) /\ ~Ended(r) /\ ~Told(r, "rejected")
      <3> DEFINE row == [req[r] EXCEPT !.pc = "reading"]
      <3>1. req' = [req EXCEPT ![r] = row] /\ req[r].pc = "idle" /\ Target(r) # None
        BY <2>3 DEF Ask, Routed
      <3>2. Target(r) \in Devices
        <4>1. work \in Workloads  BY DEF Inv, TypeOK
        <4> QED  BY <3>1, <4>1, WorkloadAssumption DEF Target
      <3>3. row \in Command /\ row.pc = "reading" /\ row.frame = "none"
        BY <1>2, <3>1 DEF Command, RequestSound
      <3> HIDE DEF row
      <3> QED  BY <1>2, <3>1, <3>2, <3>3, RequestKept
    <2>4. CASE AgentRuns(r)
      <3> DEFINE row == [req[r] EXCEPT !.frame = "run"]
      <3>1. req' = [req EXCEPT ![r] = row] /\ req[r].frame = "sent"  BY <2>4 DEF AgentRuns
      <3>2. row \in Command /\ row.pc = req[r].pc /\ row.seen = req[r].seen  BY <1>2 DEF Command
      <3> HIDE DEF row
      <3> QED  BY <1>2, <3>1, <3>2, RequestKept DEF RequestSound
    <2>5. CASE Read(r) /\ ~Ended(r)
      <3>1. req[r].pc = "reading" /\ Target(r) \in Devices  BY <1>2, <2>5 DEF Read, RequestSound
      <3>2. CASE Dispatch(r, epoch[Target(r)])  BY <1>2, <3>1, <3>2, DispatchKeeps
      <3>3. CASE /\ Kind(Target(r)) = "session" /\ epoch[Target(r)] # None
                 /\ req' = [req EXCEPT ![r] = [req[r] EXCEPT !.pc = "checking",
                                                             !.seen = epoch[Target(r)]]]
        <4> DEFINE row == [req[r] EXCEPT !.pc = "checking", !.seen = epoch[Target(r)]]
        <4>1. epoch[Target(r)] \in Logins \cup {None}  BY <3>1 DEF Inv, TypeOK
        <4>2. row \in Command /\ row.pc = "checking" /\ row.frame = "none"
              /\ row.seen = epoch[Target(r)]
          BY <1>2, <3>1, <4>1 DEF Command, RequestSound
        <4>3. req' = [req EXCEPT ![r] = row]  BY <3>3
        <4> HIDE DEF row
        <4> QED  BY <1>2, <3>1, <3>3, <4>2, <4>3, RequestKept
      <3> QED  BY <2>5, <3>2, <3>3 DEF Read
    <2>6. CASE SessionChecked(r) /\ ~Ended(r)
      <3>1. Target(r) \in Devices /\ Dispatch(r, req[r].seen)
        BY <1>2, <2>6 DEF SessionChecked, RequestSound
      <3> QED  BY <1>2, <3>1, DispatchKeeps
    <2>7. CASE Result(r) /\ ~Ended(r)
      <3>1. PICK what \in Reported(r) : Told(r, what)  BY <2>7 DEF Result
      <3>2. what \in {"completed", "unknown", "unavailable", "error", "rejected"}
        BY <3>1, UnansweredIs DEF Reported
      <3> QED  BY <1>2, <3>1, <3>2, ToldKeeps
    <2> QED  BY <2>1, <2>2, <2>3, <2>4, <2>5, <2>6, <2>7 DEF Serves, Timeout
  <1> QED  BY <1>1, <1>3, Assemble

\* revokeDevice: the grant goes first, then commands are rejected and sockets closed.
LEMMA RevokeStep ==
    ASSUME Inv, NEW d \in Devices, RevokeCommit(d) \/ Revokes(d)
    PROVE  Stepped
  <1>1. UNCHANGED <<work, now, login, intent, attempts, restarts>>
    BY DEF RevokeCommit, Revokes, RevokeTell, RevokeEnd
  <1>2. PICK pc \in {"committed", "cleaning", "done"} : revoke' = [revoke EXCEPT ![d] = pc]
    BY DEF RevokeCommit, Revokes, RevokeTell, RevokeEnd
  <1>3. OtherPart'
    <2>1. OtherPart  BY Parts
    <2> QED  BY <1>1, <1>2, <2>1 DEF OtherPart, Attempt
  <1>4. UNCHANGED sock \/ CloseAll(d)
    BY DEF RevokeCommit, Revokes, RevokeTell, RevokeEnd
  <1>5. LoginPart'
    <2>1. LoginPart  BY Parts
    <2>2. /\ sock' \in [Logins -> {"none", "open", "closing", "closed"}]
          /\ \A s \in Logins : sock'[s] # "none" => sock[s] # "none"
      BY <1>4, <2>1 DEF LoginPart, CloseAll
    <2> QED  BY <1>1, <2>1, <2>2, SocketsClose
  <1>6. RequestPart'
    <2>1. RequestPart /\ UNCHANGED work  BY <1>1, Parts
    <2>2. CASE UNCHANGED req  BY <2>1, <2>2, PartsStay
    <2>3. CASE RevokeTell(d)
      <3> DEFINE Gone == {r \in Requests : req[r].pc = "waiting" /\ Target(r) = d}
      <3>1. req' = [r \in Requests |-> IF r \in Gone
                                       THEN [req[r] EXCEPT !.pc = "done", !.told = Unanswered(r)]
                                       ELSE req[r]]
        BY <2>3 DEF RevokeTell
      <3> HIDE DEF Gone
      <3> QED  BY <2>1, <3>1, RejectedTogether
    <2> QED  BY <2>2, <2>3 DEF RevokeCommit, Revokes, RevokeEnd
  <1>7. Kept \/ UNCHANGED <<now, stored>>
    BY RevokeKeeps DEF Revokes, RevokeTell, RevokeEnd
  <1> QED  BY <1>1, <1>3, <1>5, <1>6, <1>7, Assemble

\* Stop and resume, from the challenge of the console to its transaction.
LEMMA IntentStep ==
    ASSUME Inv, NEW i \in Intents, IntentChallenge(i) \/ IntentVerify(i) \/ IntentCommit(i)
    PROVE  Stepped
  <1>0. TypeOK /\ intent \in [Intents -> Console] /\ intent[i] \in Console /\ work \in Workloads
    BY DEF Inv, TypeOK
  <1>1. UNCHANGED <<work, now, login, sock, req, revoke, attempts, restarts>>
    BY DEF IntentChallenge, IntentVerify, IntentCommit
  <1>2. IDev(i) \in Devices /\ Kind(IDev(i)) = "permanent"
    <2>1. CASE IntentChallenge(i)
      BY <2>1, <1>0, WorkloadAssumption DEF IntentChallenge, IDev
    <2>2. CASE intent[i].pc # "idle"  BY <2>2 DEF Inv, IntentsSound
    <2> QED  BY <2>1, <2>2 DEF IntentVerify, IntentCommit
  <1>3. dev[IDev(i)].gen \in Nat  BY <1>0, <1>2 DEF TypeOK, Row
  <1>4. PICK row \in Console : intent' = [intent EXCEPT ![i] = row]
    <2>1. CASE IntentChallenge(i)
      <3>1. [pc |-> "challenged", gen |-> dev[IDev(i)].gen] \in Console  BY <1>3 DEF Console
      <3> QED  BY <2>1, <3>1 DEF IntentChallenge
    <2>2. CASE IntentVerify(i) \/ IntentCommit(i)
      <3>1. PICK pc \in {"verified", "done"} : intent' = [intent EXCEPT ![i].pc = pc]
        BY <2>2 DEF IntentVerify, IntentCommit
      <3>2. [intent[i] EXCEPT !.pc = pc] \in Console  BY <1>0 DEF Console
      <3> QED  BY <3>1, <3>2
    <2> QED  BY <2>1, <2>2
  <1>5. IntentPart'
    <2>1. IntentsSound  BY DEF Inv
    <2>2. intent' \in [Intents -> Console]  BY <1>0, <1>4
    <2>3. \A j \in Intents \ {i} : intent'[j] = intent[j]  BY <1>0, <1>4
    <2> QED  BY <1>1, <1>2, <2>1, <2>2, <2>3 DEF IntentPart, IntentsSound, IDev, Kind
  <1>6. Kept \/ UNCHANGED <<now, stored>>
    <2>1. CASE IntentChallenge(i)
      <3>1. chal' \in [Devices -> Intents \cup {None}]  BY <1>0, <1>2, <2>1 DEF IntentChallenge, TypeOK
      <3>2. dev' = [dev EXCEPT ![IDev(i)] = Migrated(IDev(i))]
            /\ UNCHANGED <<work, now, nonce, epoch, fenced>>
        BY <2>1 DEF IntentChallenge
      <3> QED  BY <1>2, <3>1, <3>2, MigrateKeeps
    <2>2. CASE IntentVerify(i)  BY <2>2 DEF IntentVerify
    <2>3. CASE IntentCommit(i)  BY <2>3, IntentCommitKeeps
    <2> QED  BY <2>1, <2>2, <2>3
  <1> QED  BY <1>1, <1>5, <1>6, Assemble

\* Time, the end of an attempt, and the eviction of the object, which keeps what is stored.
LEMMA EnvironmentStep ==
    ASSUME Inv, Tick \/ Restart \/ \E a \in attempts : AttemptEnds(a)
    PROVE  Stepped
  <1>1. CASE Tick
    <2>1. UNCHANGED <<work, login, sock, req, revoke, intent, attempts, restarts>>
      BY <1>1 DEF Tick
    <2> QED  BY <1>1, <2>1, TickKeeps, Assemble
  <1>2. CASE \E a \in attempts : AttemptEnds(a)
    <2>1. UNCHANGED <<work, now, stored, login, sock, req, revoke, intent, restarts>>
          /\ attempts' \subseteq attempts
      BY <1>2 DEF AttemptEnds
    <2>2. OtherPart'
      <3>1. OtherPart  BY Parts
      <3> QED  BY <2>1, <3>1 DEF OtherPart, Attempt
    <2> QED  BY <2>1, <2>2, Assemble
  <1>3. CASE Restart
    <2>1. UNCHANGED <<work, now, stored, attempts>>  BY <1>3 DEF Restart
    <2>2. LoginPart'
      <3>1. LoginPart  BY Parts
      <3>2. /\ login' \in [Logins -> {"idle", "asked", "challenged", "verified", "committed",
                                      "admitted", "checking", "done"}]
            /\ sock' \in [Logins -> {"none", "open", "closing", "closed"}]
            /\ \A s \in Logins : login'[s] # "idle" \/ sock'[s] # "none" =>
                                     login[s] # "idle" \/ sock[s] # "none"
        BY <1>3, <3>1 DEF Restart, LoginPart
      <3> QED  BY <2>1, <3>1, <3>2, LoginKept
    <2>3. RequestPart'
      <3>1. RequestPart /\ UNCHANGED work  BY <2>1, Parts
      <3> DEFINE Gone == {r \in Requests : req[r].pc \notin {"idle", "done"}}
      <3>2. req' = [r \in Requests |-> IF r \in Gone
                                       THEN [req[r] EXCEPT !.pc = "done", !.told = Unanswered(r)]
                                       ELSE req[r]]
        BY <1>3 DEF Restart
      <3> HIDE DEF Gone
      <3> QED  BY <3>1, <3>2, RejectedTogether
    <2>4. IntentPart'
      <3>1. IntentPart  BY Parts
      <3>2. \A i \in Intents : /\ intent'[i] \in Console
                               /\ intent'[i].pc # "idle" => intent[i].pc # "idle"
        <4> TAKE i \in Intents
        <4>1. intent[i] \in Console  BY <3>1 DEF IntentPart
        <4>2. [intent[i] EXCEPT !.pc = "done"] \in Console  BY <4>1 DEF Console
        <4>3. intent'[i] = IF intent[i].pc = "verified" THEN [intent[i] EXCEPT !.pc = "done"]
                           ELSE intent[i]
          BY <1>3 DEF Restart
        <4> QED  BY <4>1, <4>2, <4>3
      <3>3. intent' \in [Intents -> Console]
        BY <1>3, <3>2 DEF Restart
      <3> QED  BY <2>1, <3>1, <3>2, <3>3 DEF IntentPart, IntentsSound, IDev, Kind
    <2>5. OtherPart'
      <3>1. OtherPart  BY Parts
      <3>2. restarts' \in 0..Restarts
        <4>1. restarts > 0 /\ restarts' = restarts - 1  BY <1>3 DEF Restart
        <4>2. restarts \in 0..Restarts  BY <3>1 DEF OtherPart
        <4> QED  BY <4>1, <4>2, Bounds
      <3>3. revoke' \in [Devices -> {"idle", "committed", "cleaning", "done"}]
        BY <1>3, <3>1 DEF Restart, OtherPart
      <3> QED  BY <2>1, <3>1, <3>2, <3>3 DEF OtherPart, Attempt
    <2> QED  BY <2>1, <2>2, <2>3, <2>4, <2>5, Assemble
  <1> QED  BY <1>1, <1>2, <1>3


-----------------------------------------------------------------------------
(* The invariant holds *)

\* The object begins with the grants from before the deadlines, and nothing else.
LEMMA InitHolds == Init => Inv
  <1> SUFFICES ASSUME Init PROVE Inv  OBVIOUS
  <1>1. work \in Workloads  BY DEF Init
  <1>2. now = 1 /\ now \in 1..Horizon  BY Bounds DEF Init
  <1>3. \A d \in Devices :
           /\ dev[d] \in Row /\ dev[d].owner = "run"
           /\ dev[d].stage = IF d \in work.legacy THEN "granted" ELSE "new"
    <2> TAKE d \in Devices
    <2> DEFINE stage == IF d \in work.legacy THEN "granted" ELSE "new"
               row == [stage |-> stage, name |-> "given", info |-> None, owner |-> "run",
                       gen |-> 0, last |-> 0, idle |-> 0, until |-> 0]
    <2>1. dev[d] = row  BY DEF Init
    <2>2. /\ stage \in {"new", "asked", "pending", "reviewed", "granted", "gone"}
          /\ 0 \in 0..Horizon /\ 0 \in 0..(Horizon + Window)
      BY Bounds
    <2>3. row.stage = stage /\ row.owner = "run"  OBVIOUS
    <2>4. row \in Row
      <3> HIDE DEF stage
      <3> QED  BY <2>2 DEF Row
    <2> HIDE DEF row
    <2> QED  BY <2>1, <2>3, <2>4
  <1>4. dev \in [Devices -> Row]
    <2>1. dev = [d \in Devices |-> dev[d]]  BY DEF Init
    <2> QED  BY <2>1, <1>3
  <1>5. TypeOK
    <2>1. req \in [Requests -> Command] /\ intent \in [Intents -> Console]
      BY DEF Init, Command, Console
    <2>2. restarts \in 0..Restarts  BY Bounds DEF Init
    <2> QED  BY <1>1, <1>2, <1>4, <2>1, <2>2 DEF Init, TypeOK
  <1>6. RowsSound
    <2> SUFFICES ASSUME NEW d \in Devices PROVE RowSound(d) /\ EpochSound(d)  BY DEF RowsSound
    <2>1. dev[d].stage \in {"granted", "new"} /\ dev[d].owner = "run"
          /\ (dev[d].stage = "granted" => d \in work.legacy)
      BY <1>3
    <2>2. dev[d].stage = "granted" => Kind(d) = "permanent"
      BY <2>1, <1>1, WorkloadAssumption DEF Kind
    <2> QED  BY <2>1, <2>2 DEF RowSound, EpochSound
  <1>7. LoginsSound /\ RequestsSound /\ IntentsSound
    BY DEF Init, LoginsSound, RequestsSound, RequestSound, IntentsSound
  <1>8. GrantsSound
    <2>1. Live \subseteq work.legacy
      <3> SUFFICES ASSUME NEW d \in Devices, dev[d].stage = "granted" PROVE d \in work.legacy
        BY DEF Live, StillGranted, Legacy
      <3> QED  BY <1>3
    <2>2. work.legacy \subseteq Devices /\ Cardinality(work.legacy) <= DeviceLimit
      BY <1>1, WorkloadAssumption
    <2>3. IsFiniteSet(work.legacy)  BY <2>2, Bounds, FS_Subset
    <2>4. Cardinality(Live) <= Cardinality(work.legacy) /\ Cardinality(Live) \in Nat
          /\ Cardinality(work.legacy) \in Nat
      BY <2>1, <2>3, FS_Subset, FS_CardinalityType
    <2>5. Cardinality(Live) <= DeviceLimit  BY <2>2, <2>4, Bounds
    <2>6. \A d, e \in Live : d # e => Key(d) # Key(e)
      BY <2>1, <1>1, WorkloadAssumption DEF Key
    <2>7. \A d \in Live : Kind(d) # "session"
      BY <2>1, <1>1, WorkloadAssumption DEF Kind
    <2> QED  BY <2>5, <2>6, <2>7 DEF GrantsSound
  <1> QED  BY <1>5, <1>6, <1>7, <1>8 DEF Inv

\* Every step keeps the invariant and only moves rows.
LEMMA StepHolds ==
    ASSUME Inv, [Next]_vars
    PROVE  Stepped
  <1>1. CASE UNCHANGED vars
    <2>1. UNCHANGED <<work, now, stored, login, sock, req, revoke, intent, attempts, restarts>>
      BY <1>1 DEF vars, stored
    <2> QED  BY <2>1, Assemble
  <1>2. ASSUME NEW d \in Devices,
               OwnerTool(d) \/ Posts(d) \/ PendingExpires(d) \/ GrantSession(d) \/ Revokes(d)
        PROVE  Stepped
    <2>1. CASE \E l \in Logins : AskChallenge(l)  BY <2>1, AskChallengeStep
    <2>2. CASE \E i \in Intents : IntentChallenge(i) \/ IntentVerify(i)  BY <2>2, IntentStep
    <2>3. CASE RevokeCommit(d) \/ Revokes(d)  BY <2>3, RevokeStep
    <2>4. CASE \/ RegisterPending(d) \/ PendingExpires(d) \/ Lookup(d) \/ Approve(d)
               \/ AskSession(d) \/ GrantSession(d) \/ RePairStatus(d) \/ Rename(d)
      BY <2>4, EnrolmentStep
    <2> QED  BY <1>2, <2>1, <2>2, <2>3, <2>4 DEF OwnerTool, Posts
  <1>3. ASSUME NEW l \in Logins, LogsIn(l) \/ SocketMessage(l) \/ SocketCloses(l)
        PROVE  Stepped
    <2>1. CASE LogsIn(l)
      BY <2>1, ChallengeStep, VerifyStep, CommitStep, RecoverStep, AcceptStep DEF LogsIn
    <2>2. CASE SocketMessage(l)  BY <2>2, SocketMessageStep
    <2>3. CASE SocketCloses(l)  BY <2>3, SocketClosesStep
    <2> QED  BY <1>3, <2>1, <2>2, <2>3
  <1>4. ASSUME NEW r \in Requests, Ask(r) \/ AgentRuns(r) \/ Serves(r) PROVE Stepped
    BY <1>4, RequestStep
  <1>5. ASSUME NEW i \in Intents, IntentCommit(i) PROVE Stepped  BY <1>5, IntentStep
  <1>6. CASE ListDevices  BY <1>6, ListDevicesStep
  <1>7. CASE Tick \/ Restart \/ \E a \in attempts : AttemptEnds(a)  BY <1>7, EnvironmentStep
  <1> QED  BY <1>1, <1>2, <1>3, <1>4, <1>5, <1>6, <1>7 DEF Next

\* So the invariant is inductive.
LEMMA InvKept == Inv /\ [Next]_vars => Inv'
  BY StepHolds DEF Stepped

\* The inductive invariant of the coordinator's rows, logins, commands and intents.
THEOREM RemoteInvariant == Spec => []Inv
  BY InitHolds, InvKept, PTL DEF Spec

\* Every row, nonce, epoch, command and intent has its type, whatever devices there are.
THEOREM RemoteTypeCorrect == Spec => []TypeOK
  <1>1. Inv => TypeOK  BY DEF Inv
  <1> QED  BY <1>1, RemoteInvariant, PTL

\* However pairing codes, jobs and approvals interleave (registerPending, approvePendingKey,
\* registerSessionDevice, revokeDevice), a key has one live grant, an attempt that the owner
\* revoked has none, and there are no more than the limit.
THEOREM GrantsAreExclusive == Spec => []OneGrantPerKey
  <1>1. Inv => OneGrantPerKey  BY DEF Inv, GrantsSound, OneGrantPerKey
  <1> QED  BY <1>1, RemoteInvariant, PTL


-----------------------------------------------------------------------------
(* Commands and results *)

\* A command ends without a result.
EndsUnanswered(r) == req'[r] = [req[r] EXCEPT !.pc = "done", !.told = Unanswered(r)]

\* What a step does to a command: nothing, an end without a result, or a turn of its own
\* handler.
LEMMA RequestMoves ==
    ASSUME Inv, Next, NEW r \in Requests
    PROVE  \/ req'[r] = req[r] \/ EndsUnanswered(r)
           \/ Ask(r) \/ AgentRuns(r) \/ Read(r) \/ SessionChecked(r) \/ Result(r)
  <1>1. req \in [Requests -> Command]  BY DEF Inv, TypeOK
  <1>2. ASSUME NEW q \in Requests, NEW row, req' = [req EXCEPT ![q] = row], q # r
        PROVE  req'[r] = req[r]
    BY <1>1, <1>2
  <1>3. ASSUME NEW q \in Requests, Ended(q)
        PROVE  req'[r] = req[r] \/ EndsUnanswered(r)
    BY <1>1, <1>3 DEF Ended, Told, EndsUnanswered
  <1>4. CASE UNCHANGED req  BY <1>4
  <1>5. ASSUME NEW Gone,
               req' = [q \in Requests |-> IF q \in Gone
                                          THEN [req[q] EXCEPT !.pc = "done", !.told = Unanswered(q)]
                                          ELSE req[q]]
        PROVE  req'[r] = req[r] \/ EndsUnanswered(r)
    BY <1>5 DEF EndsUnanswered
  <1>6. ASSUME NEW d \in Devices,
               OwnerTool(d) \/ Posts(d) \/ PendingExpires(d) \/ GrantSession(d) \/ Revokes(d)
        PROVE  req'[r] = req[r] \/ EndsUnanswered(r)
    <2>1. CASE RevokeTell(d)
      <3> DEFINE Gone == {q \in Requests : req[q].pc = "waiting" /\ Target(q) = d}
      <3>1. req' = [q \in Requests |-> IF q \in Gone
                                       THEN [req[q] EXCEPT !.pc = "done", !.told = Unanswered(q)]
                                       ELSE req[q]]
        BY <2>1 DEF RevokeTell
      <3> HIDE DEF Gone
      <3> QED  BY <3>1, <1>5
    <2>2. CASE ~RevokeTell(d)
      <3>1. UNCHANGED req
        BY <1>6, <2>2 DEF OwnerTool, Posts, PendingExpires, GrantSession, Revokes, RevokeEnd,
              Lookup, Approve, Rename, RevokeCommit, RegisterPending, AskSession, RePairStatus,
              AskChallenge, IntentChallenge, IntentVerify
      <3> QED  BY <3>1
    <2> QED  BY <2>1, <2>2
  <1>7. ASSUME NEW l \in Logins, LogsIn(l) \/ SocketMessage(l) \/ SocketCloses(l)
        PROVE  req'[r] = req[r] \/ EndsUnanswered(r)
    <2>1. CASE SocketCloses(l)
      <3> DEFINE Gone == {q \in Requests : req[q].pc = "waiting" /\ req[q].seen = l}
      <3>1. req' = [q \in Requests |-> IF q \in Gone
                                       THEN [req[q] EXCEPT !.pc = "done", !.told = Unanswered(q)]
                                       ELSE req[q]]
        BY <2>1 DEF SocketCloses
      <3> HIDE DEF Gone
      <3> QED  BY <3>1, <1>5
    <2>2. CASE ~SocketCloses(l)
      <3>1. UNCHANGED req
        BY <1>7, <2>2 DEF LogsIn, SocketMessage, Challenge, Verify, Commit, Recover, Recheck,
              ReadEpoch, SessionAnswered, Inform, Probe
      <3> QED  BY <3>1
    <2> QED  BY <2>1, <2>2
  <1>8. CASE Restart
    <2> DEFINE Gone == {q \in Requests : req[q].pc \notin {"idle", "done"}}
    <2>1. req' = [q \in Requests |-> IF q \in Gone
                                     THEN [req[q] EXCEPT !.pc = "done", !.told = Unanswered(q)]
                                     ELSE req[q]]
      BY <1>8 DEF Restart
    <2> HIDE DEF Gone
    <2> QED  BY <2>1, <1>5
  <1>9. ASSUME NEW q \in Requests, Ask(q) \/ AgentRuns(q) \/ Serves(q)
        PROVE  \/ req'[r] = req[r] \/ EndsUnanswered(r)
               \/ Ask(r) \/ AgentRuns(r) \/ Read(r) \/ SessionChecked(r) \/ Result(r)
    <2>1. CASE q = r
      BY <2>1, <1>3, <1>9 DEF Serves, Timeout
    <2>2. CASE q # r
      <3>1. CASE Ended(q)  BY <3>1, <1>3
      <3>2. CASE \E row : req' = [req EXCEPT ![q] = row]  BY <3>2, <2>2, <1>2
      <3> QED
        BY <3>1, <3>2, <1>9 DEF Serves, Ask, AgentRuns, Read, SessionChecked, Result, Timeout,
              Dispatch, Told
    <2> QED  BY <2>1, <2>2
  <1>10. CASE \/ \E i \in Intents : IntentCommit(i)
              \/ ListDevices \/ Tick \/ \E a \in attempts : AttemptEnds(a)
    BY <1>10, <1>4 DEF IntentCommit, ListDevices, Tick, AttemptEnds
  <1> QED  BY <1>6, <1>7, <1>8, <1>9, <1>10 DEF Next

\* A command leaves in a dispatch that met the current epoch of an authorized personal
\* device; only a Session's waits for the workflow first.
LEMMA FrameLeaves ==
    ASSUME Inv, Next, NEW r \in Requests, req[r].frame = "none", req'[r].frame = "sent",
           Kind(Target(r)) # "session"
    PROVE  Authorized(Target(r)) /\ epoch[Target(r)] = req'[r].seen
  <1>1. req[r] \in Command /\ RequestSound(r) /\ req \in [Requests -> Command]
    BY DEF Inv, TypeOK, RequestsSound
  <1>2. CASE req'[r] = req[r]  BY <1>2
  <1>3. ASSUME NEW pc, NEW told, req'[r] = [req[r] EXCEPT !.pc = pc, !.told = told]
        PROVE  FALSE
    <2>1. req'[r].frame = req[r].frame  BY <1>1, <1>3 DEF Command
    <2> QED  BY <2>1
  <1>4. CASE EndsUnanswered(r)  BY <1>3, <1>4 DEF EndsUnanswered
  <1>5. ASSUME NEW what, Told(r, what) PROVE FALSE
    <2>1. req'[r] = [req[r] EXCEPT !.pc = "done", !.told = what]  BY <1>1, <1>5 DEF Told
    <2> QED  BY <2>1, <1>3
  <1>6. CASE Ask(r)
    <2>1. CASE req' = [req EXCEPT ![r].pc = "reading"]  BY <1>1, <2>1 DEF Command
    <2> QED  BY <1>5, <1>6, <2>1 DEF Ask, Ended
  <1>7. CASE AgentRuns(r)  BY <1>7 DEF AgentRuns
  <1>8. CASE Read(r)
    <2> DEFINE row == [req[r] EXCEPT !.pc = "checking", !.seen = epoch[Target(r)]]
    <2>1. CASE req' = [req EXCEPT ![r] = row]
      <3>1. row.frame = req[r].frame  BY <1>1 DEF Command
      <3> HIDE DEF row
      <3> QED  BY <1>1, <2>1, <3>1
    <2>2. CASE Authorized(Target(r)) /\ Dispatch(r, epoch[Target(r)])
      <3>1. ASSUME NEW l \in Chosen(r, epoch[Target(r)]),
                   req' = [req EXCEPT ![r] = [req[r] EXCEPT !.pc = "waiting", !.seen = l, !.frame = "sent"]]
            PROVE  epoch[Target(r)] = req'[r].seen
        BY <1>1, <3>1 DEF Chosen, Command
      <3> QED  BY <2>2, <3>1, <1>5 DEF Dispatch, Ended
    <2> QED  BY <1>8, <2>1, <2>2, <1>5 DEF Read, Ended
  <1>9. CASE SessionChecked(r)
    BY <1>9, <1>1 DEF SessionChecked, RequestSound
  <1>10. CASE Result(r)  BY <1>10, <1>5 DEF Result, Ended
  <1> QED  BY <1>2, <1>4, <1>6, <1>7, <1>8, <1>9, <1>10, RequestMoves

\* A device that is listed online has an epoch, so no stop has been committed.
LEMMA OnlineIsAuthorized ==
    ASSUME Inv, NEW d \in Devices, Listing(d) = "online"
    PROVE  Authorized(d)
  <1>1. StillGranted(d) /\ \E l \in Logins : epoch[d] = l  BY DEF Listing
  <1>2. epoch[d] # None  BY <1>1, Bounds
  <1>3. dev[d].owner = "run"  BY <1>2 DEF Inv, RowsSound, EpochSound
  <1> QED  BY <1>1, <1>3 DEF Authorized

\* A command to a personal device leaves only over the socket of its current epoch while the
\* device is authorized (readFile, sendReadFrame), and what list_devices shows online is
\* what a command would reach.
THEOREM CommandsGoToCurrent == Spec => SentToCurrent
  <1> DEFINE Sent == /\ \A r \in Requests :
                          req[r].frame = "none" /\ req'[r].frame = "sent"
                          /\ Kind(Target(r)) # "session"
                             => Authorized(Target(r)) /\ epoch[Target(r)] = req'[r].seen
                     /\ \A d \in Devices : Listing(d) = "online" => Authorized(d)
  <1>1. Inv /\ [Next]_vars => [Sent]_vars
    <2> SUFFICES ASSUME Inv, Next PROVE Sent  BY DEF vars
    <2>1. \A r \in Requests :
             req[r].frame = "none" /\ req'[r].frame = "sent" /\ Kind(Target(r)) # "session"
                => Authorized(Target(r)) /\ epoch[Target(r)] = req'[r].seen
      BY FrameLeaves
    <2>2. \A d \in Devices : Listing(d) = "online" => Authorized(d)  BY OnlineIsAuthorized
    <2> QED  BY <2>1, <2>2
  <1> HIDE DEF Sent
  <1>2. Spec => [][Sent]_vars  BY <1>1, RemoteInvariant, PTL DEF Spec
  <1> QED  BY <1>2 DEF SentToCurrent, Sent


\* A mutation that may have run is reported as unknown when there is no result for it.
LEMMA MutationIsUnknown ==
    ASSUME NEW r, Tool(r) \in Mutations
    PROVE  Unanswered(r) = "unknown"
  BY DEF Unanswered, NamesOperation, CallOperation

\* handleReadResult reports a result only for the epoch the command went to.
LEMMA AnswersAreCurrent ==
    ASSUME Inv, Next, NEW r \in Requests, req[r].told = "none", req'[r].told # "none"
    PROVE  /\ req'[r].told = "completed" =>
                 /\ dev[Target(r)].stage = "granted" /\ dev[Target(r)].owner = "run"
                 /\ epoch[Target(r)] = req[r].seen
           /\ Tool(r) \in Mutations /\ req[r].frame # "none" =>
                 req'[r].told \in {"completed", "unknown"}
  <1> DEFINE Goal == /\ req'[r].told = "completed" =>
                           /\ dev[Target(r)].stage = "granted" /\ dev[Target(r)].owner = "run"
                           /\ epoch[Target(r)] = req[r].seen
                     /\ Tool(r) \in Mutations /\ req[r].frame # "none" =>
                           req'[r].told \in {"completed", "unknown"}
  <1>1. req[r] \in Command /\ RequestSound(r) /\ req \in [Requests -> Command]
    BY DEF Inv, TypeOK, RequestsSound
  <1>2. CASE req'[r].told = Unanswered(r)
    BY <1>2, UnansweredIs, MutationIsUnknown
  <1>3. ASSUME NEW what, Told(r, what) PROVE req'[r].told = what
    BY <1>1, <1>3 DEF Told, Command
  <1>4. CASE Ended(r)  BY <1>2, <1>3, <1>4 DEF Ended
  <1>5. CASE EndsUnanswered(r)
    <2>1. req'[r].told = Unanswered(r)  BY <1>1, <1>5 DEF EndsUnanswered, Command
    <2> QED  BY <1>2, <2>1
  <1>6. ASSUME NEW row, req' = [req EXCEPT ![r] = row], row.told = req[r].told PROVE FALSE
    BY <1>1, <1>6
  <1>7. CASE Ask(r)
    <2>1. CASE req' = [req EXCEPT ![r].pc = "reading"]
      <3> DEFINE row == [req[r] EXCEPT !.pc = "reading"]
      <3>1. row.told = req[r].told /\ req' = [req EXCEPT ![r] = row]  BY <1>1, <2>1 DEF Command
      <3> HIDE DEF row
      <3> QED  BY <3>1, <1>6
    <2>2. CASE Told(r, "rejected")
      <3>1. req[r].frame = "none" /\ req'[r].told = "rejected"
        BY <1>1, <1>3, <1>7, <2>2 DEF Ask, RequestSound
      <3> QED  BY <3>1
    <2> QED  BY <1>4, <1>7, <2>1, <2>2 DEF Ask
  <1>8. CASE AgentRuns(r)
    <2> DEFINE row == [req[r] EXCEPT !.frame = "run"]
    <2>1. row.told = req[r].told /\ req' = [req EXCEPT ![r] = row]
      BY <1>1, <1>8 DEF Command, AgentRuns
    <2> HIDE DEF row
    <2> QED  BY <2>1, <1>6
  <1>9. ASSUME NEW e, Dispatch(r, e) PROVE Goal
    <2>1. ASSUME NEW l,
                 req' = [req EXCEPT ![r] = [req[r] EXCEPT !.pc = "waiting", !.seen = l, !.frame = "sent"]]
          PROVE  FALSE
      <3> DEFINE row == [req[r] EXCEPT !.pc = "waiting", !.seen = l, !.frame = "sent"]
      <3>1. row.told = req[r].told /\ req' = [req EXCEPT ![r] = row]  BY <1>1, <2>1 DEF Command
      <3> HIDE DEF row
      <3> QED  BY <3>1, <1>6
    <2> QED  BY <1>4, <1>9, <2>1 DEF Dispatch
  <1>10. CASE Read(r)
    <2>1. CASE req' = [req EXCEPT ![r] = [req[r] EXCEPT !.pc = "checking", !.seen = epoch[Target(r)]]]
      <3> DEFINE row == [req[r] EXCEPT !.pc = "checking", !.seen = epoch[Target(r)]]
      <3>1. row.told = req[r].told /\ req' = [req EXCEPT ![r] = row]  BY <1>1, <2>1 DEF Command
      <3> HIDE DEF row
      <3> QED  BY <3>1, <1>6
    <2> QED  BY <1>4, <1>9, <1>10, <2>1 DEF Read
  <1>11. CASE SessionChecked(r)  BY <1>4, <1>9, <1>11 DEF SessionChecked
  <1>12. CASE Result(r)
    <2>1. ASSUME ResultCounts(r), NEW what \in Reported(r), Told(r, what) PROVE Goal
      <3>1. Target(r) \in Devices /\ req[r].seen # None
        BY <1>1, <1>12 DEF Result, RequestSound
      <3>2. dev[Target(r)].stage = "granted" /\ epoch[Target(r)] = req[r].seen
        BY <2>1 DEF ResultCounts
      <3>3. dev[Target(r)].owner = "run"  BY <3>1, <3>2 DEF Inv, RowsSound, EpochSound
      <3>4. req'[r].told = what  BY <1>3, <2>1
      <3> QED  BY <2>1, <3>2, <3>3, <3>4, MutationIsUnknown DEF Reported
    <2> QED  BY <1>4, <1>12, <2>1 DEF Result
  <1>13. CASE req'[r] = req[r]  BY <1>13
  <1> QED  BY <1>4, <1>5, <1>7, <1>8, <1>10, <1>11, <1>12, <1>13, RequestMoves

\* No result is reported for a device that was revoked, stopped, resumed or logged in again
\* after the command left, and a mutation that may have run is never answered as if it had
\* not (handleReadResult, rejectPendingReads, the timers of readFile).
THEOREM AnswersStayCurrent == Spec => ResultsAreCurrent
  <1> DEFINE Current ==
        \A r \in Requests :
          req[r].told = "none" /\ req'[r].told # "none" =>
            /\ req'[r].told = "completed" =>
                  /\ dev[Target(r)].stage = "granted" /\ dev[Target(r)].owner = "run"
                  /\ epoch[Target(r)] = req[r].seen
            /\ Tool(r) \in Mutations /\ req[r].frame # "none" =>
                  req'[r].told \in {"completed", "unknown"}
  <1>1. Inv /\ [Next]_vars => [Current]_vars
    <2> SUFFICES ASSUME Inv, Next PROVE Current  BY DEF vars
    <2> QED  BY AnswersAreCurrent
  <1> HIDE DEF Current
  <1>2. Spec => [][Current]_vars  BY <1>1, RemoteInvariant, PTL DEF Spec
  <1> QED  BY <1>2 DEF ResultsAreCurrent, Current

-----------------------------------------------------------------------------
(* Deadlines *)

\* What a move of a row may do to its deadline.
Frozen(d) ==
    dev[d].stage = "granted" /\ dev'[d].stage = "granted" =>
        /\ dev[d].owner # "run" /\ dev'[d].owner # "run" =>
              dev'[d].idle # 0 /\ dev'[d].idle <= Deadline(d)
        /\ dev[d].idle # 0 => dev'[d].idle <= dev[d].idle

\* No move of a row gives a stopped device more time, nor puts off a deadline that is set.
LEMMA MovesFreeze ==
    ASSUME NEW d \in Devices, dev[d] \in Row, now \in 1..Horizon, RowSound(d),
           RowMove(d) \/ Enters(d)
    PROVE  Frozen(d)
  <1>0. dev[d].idle \in 0..(Horizon + Window) /\ dev[d].idle \in Nat /\ dev[d].idle >= 0
    BY Bounds DEF Row
  <1>1. dev[d].owner # "run" => dev[d].idle # 0 /\ Deadline(d) = dev[d].idle
    BY DEF RowSound, Deadline
  <1>2. ASSUME dev'[d].idle = dev[d].idle PROVE Frozen(d)  BY <1>0, <1>1, <1>2 DEF Frozen
  <1>3. CASE dev'[d] = dev[d]  BY <1>3, <1>2
  <1>4. CASE Labels(d)
    <2>1. dev'[d].idle = dev[d].idle  BY <1>4 DEF Labels, Row
    <2> QED  BY <2>1, <1>2
  <1>5. CASE Restages(d) \/ Refused(d)
    <2>1. dev'[d].idle = dev[d].idle  BY <1>5 DEF Restages, Refused, Row
    <2> QED  BY <2>1, <1>2
  <1>6. CASE Migrates(d)
    BY <1>1, <1>6 DEF Migrates, Legacy, Frozen
  <1>7. CASE Proven(d)
    <2>1. dev'[d].owner = "run" /\ dev'[d].idle = 0  BY <1>7 DEF Proven, Row
    <2> QED  BY <2>1, <1>0 DEF Frozen
  <1>8. CASE Closes(d)  BY <1>8 DEF Closes, Frozen
  <1>9. CASE Stops(d)
    <2>1. PICK by \in 1..(Horizon + Window) :
            /\ by <= Deadline(d)
            /\ dev'[d] = [dev[d] EXCEPT !.owner = "stopped", !.gen = dev[d].gen + 1, !.idle = by]
      BY <1>9 DEF Stops
    <2>2. dev'[d].idle = by  BY <2>1 DEF Row
    <2>3. Kind(d) = "permanent"  BY <1>9 DEF Stops
    <2>4. dev[d].idle # 0 => Deadline(d) = dev[d].idle  BY <2>3 DEF Deadline
    <2> QED  BY <2>1, <2>2, <2>4 DEF Frozen
  <1>10. CASE ResumesRow(d)
    <2>1. dev'[d].idle = dev[d].idle  BY <1>10 DEF ResumesRow, Row
    <2> QED  BY <2>1, <1>2
  <1>11. CASE Enters(d)  BY <1>11 DEF Enters, Frozen
  <1> QED  BY <1>3, <1>4, <1>5, <1>6, <1>7, <1>8, <1>9, <1>10, <1>11 DEF RowMove

\* A stop freezes the deadline of its device until a login (commitOwnerIntent,
\* recordVerifiedSocketClose, handleIdleSocketMessage), and no listing, migration or second
\* close puts off a deadline that is set.
THEOREM DeadlinesStayFrozen == Spec => StopFreezesDeadline
  <1> DEFINE Freeze == \A d \in Devices : Frozen(d)
  <1>1. Inv /\ [Next]_vars => [Freeze]_vars
    <2> SUFFICES ASSUME Inv, Next PROVE Freeze  BY DEF vars
    <2>1. RowsMove  BY StepHolds DEF Stepped
    <2>2. \A d \in Devices : dev[d] \in Row /\ RowSound(d) /\ now \in 1..Horizon
      BY DEF Inv, TypeOK, RowsSound
    <2> QED  BY <2>1, <2>2, MovesFreeze DEF RowsMove
  <1> HIDE DEF Freeze
  <1>2. Spec => [][Freeze]_vars  BY <1>1, RemoteInvariant, PTL DEF Spec
  <1> QED  BY <1>2 DEF StopFreezesDeadline, Freeze, Frozen

===============================================================================
