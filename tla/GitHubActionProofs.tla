--------------------------- MODULE GitHubActionProofs ---------------------------
(***************************************************************************)
(* What holds of GitHub Action steps for every number of steps, slots,     *)
(* overlapping dispatches and requests, and every combination of faults:   *)
(* the Session quota is physical, every POST is made at most once, the     *)
(* answers are the job's own, and no step of a job's history goes back.    *)
(*                                                                         *)
(* The argument: the rows of a step are written by that step alone, except *)
(* that a reservation looks at everybody's slots; a job exists only after  *)
(* the one dispatch that the attempt's row admits; and a slot is given     *)
(* back only on a row that rules the job out.                              *)
(***************************************************************************)
EXTENDS GitHubAction, FiniteSetTheorems, WellFoundedInduction, TLAPS

-----------------------------------------------------------------------------
(* The inductive invariant *)

\* Places of the code that one process of a step is at, at most: on the way to the dispatch
\* POST and its record, and to the two cancellation POSTs.
Sending == {"refuse", "post", "record"}
Cancelling == {"stopping", "cancelPost"}
Forcing == {"forcePost"}

\* Places where a process holds the conclusion of the job.
Settling == {"settleClaimed", "settleUnclaimed", "compare"}

\* The attempt is settled or the Session terminated, for good.
Over(s) == attempt[s].state \in Settled \/ session[s].state = "terminated"

\* What a process of step s knows where it stands.
ProcSound(s, me) ==
    /\ me.pc = "reserve" => ~IsTask(s)
    /\ me.pc \in Sending \cup {"register"} => IsTask(s) \/ session[s].state # "none"
    /\ me.pc \in Sending => attempt[s].state = "created"
    /\ me.pc \in {"refuse", "post"} => hist[s].posts = 0 /\ job[s].state = "none"
    /\ me.pc = "record" => /\ me.ev \in {"confirmed", "rejected", "dispatch_unknown"}
                           /\ me.ev = "confirmed" => job[s].state # "none"
                           /\ me.ev = "rejected" => job[s].state = "none"
    /\ me.pc \in Settling => me.ev \in Settled /\ Decision(job[s].state) = me.ev
    /\ me.pc = "release" /\ me.kind \notin {"status", "watch"} => attempt[s].state \in Settled
    /\ me.pc = "told" => Over(s)
    /\ me.pc = "stamp" => me.ev \in Receipts /\ (me.ev = "succeeded" => Over(s))
    /\ me.pc \in Cancelling => cancel[s] # "none" /\ hist[s].cancels = 0
    /\ me.pc \in Forcing => cancel[s] = "forced" /\ hist[s].forces = 0
Sound(s) == \A p \in Procs : ProcSound(s, proc[s][p])

\* One process at a time is on its way to a POST.
Apart(s, C) == \A p, q \in Procs : proc[s][p].pc \in C /\ proc[s][q].pc \in C => p = q
Unique(s) == Apart(s, Sending) /\ Apart(s, Cancelling) /\ Apart(s, Forcing)

\* The rows say of every POST whether it was made.
Posted(s) ==
    /\ hist[s].posts \in {0, 1} /\ hist[s].cancels \in {0, 1} /\ hist[s].forces \in {0, 1}
    /\ attempt[s].state = "none" => hist[s].posts = 0
    /\ cancel[s] = "none" => hist[s].cancels = 0
    /\ cancel[s] # "forced" => hist[s].forces = 0

\* The attempt's row agrees with the job.
Physical(s) ==
    /\ attempt[s].state \in {"none", "rejected"} => job[s].state = "none"
    /\ HasCandidate(s) => job[s].state # "none"
    /\ attempt[s].state = "claimed" => attempt[s].owned
    /\ OutcomeIsPhysical(s)
    /\ saga[s] = "succeeded" => Over(s)

\* A Session's slot is given back only on an attempt that rules a live job out, and an attempt
\* of a Session has a reservation.
Slotted(s) ==
    /\ IsTask(s) => session[s].state = "none"
    /\ ~IsTask(s) /\ session[s].state = "none" => attempt[s].state = "none"
    /\ session[s].state = "terminated" =>
          \/ attempt[s].state \in Settled \cup {"rejected"}
          \/ attempt[s].state = "none" /\ ~Active(s)
    /\ Occupies(s) => session[s].slot \in Slots

StepInv(s) == Sound(s) /\ Unique(s) /\ Posted(s) /\ Physical(s) /\ Slotted(s)

\* Sessions that occupy a slot occupy different ones.
Distinct == \A s, t \in Steps :
    s # t /\ Occupies(s) /\ Occupies(t) => session[s].slot # session[t].slot

Inv == TypeOK /\ (\A s \in Steps : StepInv(s)) /\ Distinct

-----------------------------------------------------------------------------
(* A step writes the rows of one step *)

\* Step s has rows of the right types.
Typed(s) ==
    /\ run[s] \in {"active", "terminal"} /\ parent[s] \in Place /\ session[s] \in SessionRow
    /\ attempt[s] \in AttemptRow /\ cancel[s] \in CancelState /\ saga[s] \in Receipts
    /\ job[s] \in Job /\ proc[s] \in [Procs -> Process] /\ hist[s] \in Counts

\* Only the rows of step s are written.
Only(s) ==
    /\ run' = [run EXCEPT ![s] = run'[s]] /\ parent' = [parent EXCEPT ![s] = parent'[s]]
    /\ session' = [session EXCEPT ![s] = session'[s]]
    /\ attempt' = [attempt EXCEPT ![s] = attempt'[s]]
    /\ cancel' = [cancel EXCEPT ![s] = cancel'[s]] /\ saga' = [saga EXCEPT ![s] = saga'[s]]
    /\ job' = [job EXCEPT ![s] = job'[s]] /\ proc' = [proc EXCEPT ![s] = proc'[s]]
    /\ hist' = [hist EXCEPT ![s] = hist'[s]]

\* The type invariant is the type of every step's rows.
LEMMA TypedRows ==
  ASSUME TypeOK, NEW s \in Steps
  PROVE  Typed(s)
BY DEF TypeOK, Typed

\* Writing the rows of one step leaves the rows of the others.
LEMMA OthersStay ==
  ASSUME TypeOK, NEW s \in Steps, Only(s), NEW t \in Steps, t # s
  PROVE  /\ run'[t] = run[t] /\ parent'[t] = parent[t] /\ session'[t] = session[t]
         /\ attempt'[t] = attempt[t] /\ cancel'[t] = cancel[t] /\ saga'[t] = saga[t]
         /\ job'[t] = job[t] /\ proc'[t] = proc[t] /\ hist'[t] = hist[t]
BY DEF TypeOK, Only

\* The types stay if the rows that are written have them.
LEMMA TypesStay ==
  ASSUME TypeOK, NEW s \in Steps, Only(s), Typed(s)'
  PROVE  TypeOK'
<1>1. /\ run' \in [Steps -> {"active", "terminal"}] /\ parent' \in [Steps -> Place]
      /\ session' \in [Steps -> SessionRow]
  BY DEF TypeOK, Only, Typed
<1>2. /\ attempt' \in [Steps -> AttemptRow] /\ cancel' \in [Steps -> CancelState]
      /\ saga' \in [Steps -> Receipts]
  BY DEF TypeOK, Only, Typed
<1>3. /\ job' \in [Steps -> Job] /\ proc' \in [Steps -> [Procs -> Process]]
      /\ hist' \in [Steps -> Counts]
  BY DEF TypeOK, Only, Typed
<1> QED BY <1>1, <1>2, <1>3 DEF TypeOK

\* The invariant stays if it stays for the step whose rows are written and no slot is taken
\* twice.
LEMMA Assemble ==
  ASSUME Inv, NEW s \in Steps, Only(s), Typed(s)', StepInv(s)',
         \A t \in Steps \ {s} : Occupies(s)' /\ Occupies(t) => session'[s].slot # session[t].slot
  PROVE  Inv'
<1>1. TypeOK'
  BY TypesStay DEF Inv
<1>2. ASSUME NEW t \in Steps \ {s} PROVE StepInv(t)'
  <2>1. /\ run'[t] = run[t] /\ parent'[t] = parent[t] /\ session'[t] = session[t]
        /\ attempt'[t] = attempt[t] /\ cancel'[t] = cancel[t] /\ saga'[t] = saga[t]
        /\ job'[t] = job[t] /\ proc'[t] = proc[t] /\ hist'[t] = hist[t]
    BY OthersStay DEF Inv
  <2>2. StepInv(t)
    BY DEF Inv
  <2>3. Unique(t)' /\ Posted(t)'
    BY <2>1, <2>2 DEF StepInv, Unique, Apart, Posted
  <2>4. Slotted(t)' /\ Physical(t)'
    BY <2>1, <2>2 DEF StepInv, Slotted, Physical, IsTask, Occupies, Active, HasCandidate,
                      OutcomeIsPhysical, Over
  <2>5. Sound(t)'
    BY <2>1, <2>2 DEF StepInv, Sound, ProcSound, IsTask, Over
  <2> QED BY <2>3, <2>4, <2>5 DEF StepInv
<1>3. Distinct'
  <2>1. \A t \in Steps \ {s} : session'[t] = session[t]
    BY OthersStay DEF Inv
  <2>2. ASSUME NEW a \in Steps, NEW b \in Steps, a # b, Occupies(a)', Occupies(b)'
        PROVE  session'[a].slot # session'[b].slot
    BY <2>1, <2>2 DEF Inv, Distinct, Occupies
  <2> QED BY <2>2 DEF Distinct
<1> QED BY <1>1, <1>2, <1>3 DEF Inv

-----------------------------------------------------------------------------
(* A step of one process *)

Classes == {Sending, Cancelling, Forcing}

\* Where a process knows nothing that could become wrong.
Quiet == PCs \ (Sending \cup Cancelling \cup Forcing \cup Settling
                   \cup {"reserve", "register", "release", "told", "stamp"})

\* A process in a quiet place is sound whatever the rows say.
LEMMA QuietSound ==
  ASSUME NEW s \in Steps, NEW me \in Process, me.pc \in Quiet
  PROVE  ProcSound(s, me) /\ ProcSound(s, me)' /\ \A C \in Classes : me.pc \notin C
BY DEF Quiet, ProcSound, Classes, Sending, Cancelling, Forcing, Settling

\* What becomes of the processes when one of them goes on.
LEMMA BecomeFacts ==
  ASSUME TypeOK, NEW s \in Steps, NEW p \in Procs, NEW me \in Process, Become(s, p, me)
  PROVE  /\ proc' = [proc EXCEPT ![s] = proc'[s]] /\ proc'[s] \in [Procs -> Process]
         /\ proc'[s][p] = me /\ \A q \in Procs \ {p} : proc'[s][q] = proc[s][q]
<1>1. proc \in [Steps -> [Procs -> Process]]
  BY DEF TypeOK
<1>2. proc' = [proc EXCEPT ![s] = [proc[s] EXCEPT ![p] = me]]
  BY <1>1 DEF Become
<1>3. proc'[s] = [proc[s] EXCEPT ![p] = me]
  BY <1>1, <1>2
<1> QED BY <1>1, <1>2, <1>3

\* When a process goes on and the rows that the others know of change only where none of them
\* stands, all stay sound and apart.
LEMMA Turned ==
  ASSUME Inv, NEW s \in Steps, NEW p \in Procs, NEW me \in Process, Become(s, p, me),
         ProcSound(s, me)',
         NEW C, C = {} \/ (C \in Classes /\ proc[s][p].pc \in C),
         \A x \in Process : x.pc \notin C /\ ProcSound(s, x) => ProcSound(s, x)',
         \A D \in Classes : me.pc \in D =>
            proc[s][p].pc \in D \/ \A q \in Procs : proc[s][q].pc \notin D
  PROVE  /\ Sound(s)' /\ Unique(s)'
         /\ proc' = [proc EXCEPT ![s] = proc'[s]] /\ proc'[s] \in [Procs -> Process]
<1>1. /\ proc' = [proc EXCEPT ![s] = proc'[s]] /\ proc'[s] \in [Procs -> Process]
      /\ proc'[s][p] = me /\ \A q \in Procs \ {p} : proc'[s][q] = proc[s][q]
  BY BecomeFacts DEF Inv
<1>2. /\ \A q \in Procs : proc[s][q] \in Process /\ ProcSound(s, proc[s][q])
      /\ \A D \in Classes : Apart(s, D)
  BY DEF Inv, TypeOK, StepInv, Sound, Unique, Classes
<1>3. Unique(s)'
  <2>1. ASSUME NEW D \in Classes PROVE Apart(s, D)'
    BY <1>1, <1>2 DEF Apart
  <2> QED BY <2>1 DEF Unique, Classes
<1>4. ASSUME NEW q \in Procs \ {p}, NEW x, x = proc[s][q] PROVE ProcSound(s, x)'
  <2>1. x \in Process /\ ProcSound(s, x)
    BY <1>2, <1>4
  <2>2. x.pc \notin C
    BY <1>2, <1>4 DEF Apart
  <2> QED BY <2>1, <2>2
<1>5. ASSUME NEW q \in Procs, NEW x, x = proc'[s][q] PROVE ProcSound(s, x)'
  BY <1>1, <1>4, <1>5
<1>6. Sound(s)'
  BY <1>5 DEF Sound
<1> QED BY <1>1, <1>3, <1>6

\* When no process moves, the rows may change where no process knows them.
LEMMA Unturned ==
  ASSUME Inv, NEW s \in Steps, proc' = proc,
         \A x \in Process : ProcSound(s, x) => ProcSound(s, x)'
  PROVE  /\ Sound(s)' /\ Unique(s)'
         /\ proc' = [proc EXCEPT ![s] = proc'[s]] /\ proc'[s] \in [Procs -> Process]
<1>1. /\ \A q \in Procs : proc[s][q] \in Process /\ ProcSound(s, proc[s][q])
      /\ proc \in [Steps -> [Procs -> Process]] /\ Unique(s)
  BY DEF Inv, TypeOK, StepInv, Sound
<1>2. ASSUME NEW q \in Procs, NEW x, x = proc'[s][q] PROVE ProcSound(s, x)'
  BY <1>1, <1>2
<1>3. Sound(s)'
  BY <1>2 DEF Sound
<1>4. Unique(s)'
  BY <1>1 DEF Unique, Apart
<1> QED BY <1>1, <1>3, <1>4

\* run() goes on in the step, and takes a Task to have succeeded only with its job.
ParentMoves(s) ==
    /\ parent' = [parent EXCEPT ![s] = parent'[s]] /\ parent'[s] \in Place
    /\ parent'[s].type = parent[s].type
    /\ IsTask(s) /\ parent'[s].result = "succeeded" =>
          parent[s].result = "succeeded" \/ job[s].state = "success"

\* A process goes on without touching the rows.
WalksTo(s, p, me) ==
    /\ Become(s, p, me) /\ ProcSound(s, me)
    /\ \A D \in Classes : me.pc \in D => proc[s][p].pc \in D

Rest(s) == UNCHANGED <<run, session, attempt, cancel, saga, job, hist>>

\* A walk keeps the invariant.
LEMMA WalkKeeps ==
  ASSUME Inv, NEW s \in Steps, ParentMoves(s), Rest(s),
         proc' = proc \/ \E p \in Procs, me \in Process : WalksTo(s, p, me)
  PROVE  Inv'
<1>0. TypeOK /\ Typed(s) /\ StepInv(s) /\ IsTask(s)' = IsTask(s)
  BY TypedRows DEF Inv, ParentMoves, IsTask
<1>1. \A x \in Process : ProcSound(s, x) => ProcSound(s, x)'
  BY <1>0 DEF Rest, ProcSound, Over
<1>2. /\ Sound(s)' /\ Unique(s)'
      /\ proc' = [proc EXCEPT ![s] = proc'[s]] /\ proc'[s] \in [Procs -> Process]
  <2>1. CASE proc' = proc
    BY <1>1, <2>1, Unturned
  <2>2. ASSUME NEW p \in Procs, NEW me \in Process, WalksTo(s, p, me)
        PROVE  /\ Sound(s)' /\ Unique(s)'
               /\ proc' = [proc EXCEPT ![s] = proc'[s]] /\ proc'[s] \in [Procs -> Process]
    <3>1. ProcSound(s, me)'
      BY <1>1, <2>2 DEF WalksTo
    <3>2. {} = {}
      OBVIOUS
    <3> QED BY <1>1, <2>2, <3>1, <3>2, Turned DEF WalksTo
  <2> QED BY <2>1, <2>2
<1>3. Only(s)
  BY <1>0, <1>2 DEF Only, Rest, ParentMoves, TypeOK
<1>4. Typed(s)'
  BY <1>0, <1>2 DEF Typed, Rest, ParentMoves
<1>5. Posted(s)' /\ Slotted(s)'
  BY <1>0 DEF StepInv, Posted, Slotted, Rest, Occupies, Active
<1>6. Physical(s)'
  BY <1>0 DEF StepInv, Physical, OutcomeIsPhysical, Rest, HasCandidate, Over, ParentMoves, IsTask
<1>7. \A t \in Steps \ {s} : Occupies(s)' /\ Occupies(t) => session'[s].slot # session[t].slot
  BY DEF Inv, Distinct, Occupies, Rest
<1> QED BY <1>2, <1>3, <1>4, <1>5, <1>6, <1>7, Assemble DEF StepInv

-----------------------------------------------------------------------------
(* How a process goes on *)

\* The ways to go on, to learn, to begin and to stop make processes of the right type.
LEMMA GoMe ==
  ASSUME TypeOK, NEW s \in Steps, NEW p \in Procs, NEW pc \in PCs, Go(s, p, pc)
  PROVE  \E me \in Process : /\ Become(s, p, me) /\ me.pc = pc
                             /\ me.kind = proc[s][p].kind /\ me.ev = "none"
<1> DEFINE me == [proc[s][p] EXCEPT !.pc = pc, !.ev = "none", !.seen = "none"]
<1>1. proc[s][p] \in Process /\ "none" \in Evidence /\ "none" \in CancelState
  BY DEF TypeOK, Evidence, CancelState
<1>2. me \in Process /\ me.pc = pc /\ me.kind = proc[s][p].kind /\ me.ev = "none"
  BY <1>1 DEF Process
<1>3. Become(s, p, me)
  BY DEF Go
<1> HIDE DEF me
<1> QED BY <1>2, <1>3

\* Going on with what it knew.
LEMMA KeepMe ==
  ASSUME TypeOK, NEW s \in Steps, NEW p \in Procs, NEW pc \in PCs, Keep(s, p, pc)
  PROVE  \E me \in Process : /\ Become(s, p, me) /\ me.pc = pc
                             /\ me.kind = proc[s][p].kind /\ me.ev = proc[s][p].ev
<1> DEFINE me == [proc[s][p] EXCEPT !.pc = pc]
<1>1. proc[s][p] \in Process
  BY DEF TypeOK
<1>2. me \in Process /\ me.pc = pc /\ me.kind = proc[s][p].kind /\ me.ev = proc[s][p].ev
  BY <1>1 DEF Process
<1>3. Become(s, p, me)
  BY DEF Keep
<1> HIDE DEF me
<1> QED BY <1>2, <1>3

\* Going on with new evidence.
LEMMA LearnMe ==
  ASSUME TypeOK, NEW s \in Steps, NEW p \in Procs, NEW pc \in PCs, NEW ev \in Evidence,
         Learn(s, p, pc, ev)
  PROVE  \E me \in Process : /\ Become(s, p, me) /\ me.pc = pc
                             /\ me.kind = proc[s][p].kind /\ me.ev = ev
<1> DEFINE me == [proc[s][p] EXCEPT !.pc = pc, !.ev = ev]
<1>1. proc[s][p] \in Process
  BY DEF TypeOK
<1>2. me \in Process /\ me.pc = pc /\ me.kind = proc[s][p].kind /\ me.ev = ev
  BY <1>1 DEF Process
<1>3. Become(s, p, me)
  BY DEF Learn
<1> HIDE DEF me
<1> QED BY <1>2, <1>3

\* Beginning as a kind of request.
LEMMA BeginMe ==
  ASSUME TypeOK, NEW s \in Steps, NEW p \in Procs, NEW pc \in PCs, NEW kind \in Kinds,
         Begin(s, p, pc, kind)
  PROVE  \E me \in Process : Become(s, p, me) /\ me.pc = pc /\ me.kind = kind
<1> DEFINE me == [proc[s][p] EXCEPT !.pc = pc, !.kind = kind]
<1>1. proc[s][p] \in Process
  BY DEF TypeOK
<1>2. me \in Process /\ me.pc = pc /\ me.kind = kind
  BY <1>1 DEF Process
<1>3. Become(s, p, me)
  BY DEF Begin
<1> HIDE DEF me
<1> QED BY <1>2, <1>3

\* Stopping.
LEMMA StopMe ==
  ASSUME NEW s \in Steps, NEW p \in Procs, Stop(s, p)
  PROVE  \E me \in Process : Become(s, p, me) /\ me.pc = "idle"
<1>1. Idle \in Process /\ Idle.pc = "idle"
  BY DEF Idle, Process, PCs, Kinds, Evidence, CancelState
<1> QED BY <1>1 DEF Stop

\* An answer ends the request, tells the caller, or goes to the saga's receipt.
LEMMA AnswerMe ==
  ASSUME TypeOK, NEW s \in Steps, NEW p \in Procs,
         NEW answer \in {"succeeded", "requested", "indeterminate", "uncleared"},
         Answer(s, p, answer)
  PROVE  \E me \in Process : /\ Become(s, p, me)
                             /\ \/ me.pc = "idle"
                                \/ me.pc = "told" /\ answer = "succeeded"
                                \/ me.pc = "stamp" /\ me.ev = answer
<1>1. CASE proc[s][p].kind = "saga"
  <2> DEFINE me == [proc[s][p] EXCEPT !.pc = "stamp", !.ev = answer, !.seen = "none"]
  <2>1. proc[s][p] \in Process
    BY DEF TypeOK
  <2>2. me \in Process /\ me.pc = "stamp" /\ me.ev = answer
    BY <2>1 DEF Process, PCs, Evidence, Settled, Receipts, CancelState
  <2>3. Become(s, p, me)
    BY <1>1 DEF Answer
  <2> HIDE DEF me
  <2> QED BY <2>2, <2>3
<1>2. CASE proc[s][p].kind # "saga" /\ answer = "succeeded"
  <2>1. Go(s, p, "told") /\ "told" \in PCs
    BY <1>2 DEF Answer, PCs
  <2> QED BY <1>2, <2>1, GoMe
<1>3. CASE proc[s][p].kind # "saga" /\ answer # "succeeded"
  <2>1. Stop(s, p)
    BY <1>3 DEF Answer
  <2> QED BY <2>1, StopMe
<1> QED BY <1>1, <1>2, <1>3

\* run() stays where it is.
LEMMA ParentStays ==
  ASSUME TypeOK, NEW s \in Steps, parent' = parent
  PROVE  ParentMoves(s)
BY DEF TypeOK, ParentMoves

\* run() goes elsewhere in the step.
LEMMA ParentGoes ==
  ASSUME TypeOK, NEW s \in Steps, NEW row \in Place, parent' = [parent EXCEPT ![s] = row],
         row.type = parent[s].type,
         \/ row.result \in {parent[s].result, "none", "failed", "indeterminate"}
         \/ ~IsTask(s) \/ job[s].state = "success"
  PROVE  ParentMoves(s)
BY DEF TypeOK, ParentMoves

\* The two ways run() moves on its own.
LEMMA ToMoves ==
  ASSUME TypeOK, NEW s \in Steps,
         NEW pc \in {"begin", "dispatch", "unreserve", "starting", "look", "check",
                     "checking", "free", "wait", "giveup", "finish", "over"},
         To(s, pc)
  PROVE  ParentMoves(s)
<1> DEFINE row == [parent[s] EXCEPT !.pc = pc]
<1>1. parent[s] \in Place /\ parent \in [Steps -> Place]
  BY DEF TypeOK
<1>2. row \in Place /\ row.type = parent[s].type /\ row.result = parent[s].result
  BY <1>1 DEF Place
<1>3. parent' = [parent EXCEPT ![s] = row]
  BY <1>1 DEF To
<1> HIDE DEF row
<1> QED BY <1>2, <1>3, ParentGoes

\* With a result, which is success of a Task only with its job.
LEMMA ResultMoves ==
  ASSUME TypeOK, NEW s \in Steps, NEW result \in {"succeeded", "failed", "indeterminate"},
         Result(s, result),
         result # "succeeded" \/ ~IsTask(s) \/ job[s].state = "success"
  PROVE  ParentMoves(s)
<1> DEFINE row == [parent[s] EXCEPT !.pc = "finish", !.result = result]
<1>1. parent[s] \in Place
  BY DEF TypeOK
<1>2. row \in Place /\ row.type = parent[s].type /\ row.result = result
  BY <1>1 DEF Place
<1>3. parent' = [parent EXCEPT ![s] = row]
  BY DEF Result
<1> HIDE DEF row
<1> QED BY <1>2, <1>3, ParentGoes

\* What run() does with the return of a dispatch is never to take the step to have succeeded.
LEMMA ReturnMoves ==
  ASSUME TypeOK, NEW s \in Steps, NEW d,
         NEW answer \in {"confirmed", "rejected", "refused", "dispatch_unknown", "threw"},
         Return(s, d, answer)
  PROVE  Stop(s, d) /\ ParentMoves(s)
<1> DEFINE row == AfterDispatch(s, answer)
<1>1. parent[s] \in Place
  BY DEF TypeOK
<1>2. \A pc \in {"check", "starting", "finish", "unreserve"},
         result \in {"none", "failed", "indeterminate"} :
         LET to == [parent[s] EXCEPT !.pc = pc, !.by = NoStep, !.result = result]
         IN  to \in Place /\ to.type = parent[s].type /\ to.result = result
  BY <1>1 DEF Place
<1>3. /\ row \in Place /\ row.type = parent[s].type
      /\ row.result \in {"none", "failed", "indeterminate"}
  <2>1. CASE answer = "confirmed"
    BY <2>1, <1>2 DEF AfterDispatch
  <2>2. CASE answer = "rejected"
    BY <2>2, <1>2 DEF AfterDispatch
  <2>3. CASE answer = "refused"
    BY <2>3, <1>2 DEF AfterDispatch
  <2>4. CASE answer \in {"dispatch_unknown", "threw"}
    BY <2>4, <1>2 DEF AfterDispatch
  <2> QED BY <2>1, <2>2, <2>3, <2>4
<1>4. parent' = parent \/ parent' = [parent EXCEPT ![s] = row]
  BY DEF Return
<1>5. Stop(s, d)
  BY DEF Return
<1> HIDE DEF row
<1> QED BY <1>3, <1>4, <1>5, ParentGoes, ParentStays

\* After a reconciliation a process stops, frees the slot (a request only of a settled
\* attempt), or stamps the receipt as indeterminate.
LEMMA ReconciledMe ==
  ASSUME TypeOK, NEW s \in Steps, NEW p \in Procs,
         NEW result \in {"held", "conflict", "settled"}, Reconciled(s, p, result)
  PROVE  /\ ParentMoves(s)
         /\ \E me \in Process :
               /\ Become(s, p, me)
               /\ \/ me.pc = "idle"
                  \/ me.pc = "release" /\ (me.kind \in {"status", "watch"} \/ result = "settled")
                  \/ me.pc = "stamp" /\ me.ev = "indeterminate"
<1>1. CASE proc[s][p].kind = "check"
  <2> DEFINE row == AfterCheck(s, result)
  <2>1. parent' = parent \/ parent' = [parent EXCEPT ![s] = row]
    BY <1>1 DEF Reconciled
  <2>2. parent[s] \in Place
    BY DEF TypeOK
  <2>3. /\ row \in Place /\ row.type = parent[s].type
        /\ row.result \in {parent[s].result, "indeterminate"}
    BY <2>2 DEF AfterCheck, Place
  <2>4. Stop(s, p)
    BY <1>1 DEF Reconciled
  <2> HIDE DEF row
  <2> QED BY <2>1, <2>3, <2>4, ParentGoes, ParentStays, StopMe
<1>2. CASE proc[s][p].kind \in {"status", "watch"}
  <2>1. Go(s, p, "release") /\ parent' = parent /\ "release" \in PCs
    BY <1>2 DEF Reconciled, PCs
  <2> QED BY <1>2, <2>1, GoMe, ParentStays
<1>3. CASE proc[s][p].kind \in {"cancel", "force", "saga"} /\ result = "settled"
  <2>1. Go(s, p, "release") /\ parent' = parent /\ "release" \in PCs
    BY <1>3 DEF Reconciled, PCs
  <2> QED BY <1>3, <2>1, GoMe, ParentStays
<1>4. CASE proc[s][p].kind \in {"cancel", "force", "saga"} /\ result # "settled"
  <2>1. Answer(s, p, "indeterminate") /\ parent' = parent
    BY <1>4 DEF Reconciled
  <2> QED BY <2>1, AnswerMe, ParentStays
<1> QED BY <1>1, <1>2, <1>3, <1>4 DEF Reconciled

-----------------------------------------------------------------------------
(* Steps that write no row *)

\* A process that goes to a quiet place walks.
LEMMA QuietWalk ==
  ASSUME Inv, NEW s \in Steps, NEW p \in Procs, NEW me \in Process, Become(s, p, me),
         me.pc \in Quiet, ParentMoves(s), Rest(s)
  PROVE  Inv'
BY QuietSound, WalkKeeps DEF WalksTo

\* A process that stops, goes to a quiet place, or begins in one.
LEMMA QuietMove ==
  ASSUME Inv, NEW s \in Steps, NEW p \in Procs, ParentMoves(s), Rest(s),
         \/ Stop(s, p)
         \/ \E pc \in Quiet : Go(s, p, pc) \/ Keep(s, p, pc)
         \/ \E pc \in Quiet, kind \in Kinds : Begin(s, p, pc, kind)
  PROVE  Inv'
<1>1. TypeOK /\ Quiet \subseteq PCs /\ "idle" \in Quiet
  BY DEF Inv, Quiet, PCs, Sending, Cancelling, Forcing, Settling
<1>2. CASE Stop(s, p)
  BY <1>1, <1>2, StopMe, QuietWalk
<1>3. ASSUME NEW pc \in Quiet, Go(s, p, pc) PROVE Inv'
  BY <1>1, <1>3, GoMe, QuietWalk
<1>4. ASSUME NEW pc \in Quiet, Keep(s, p, pc) PROVE Inv'
  BY <1>1, <1>4, KeepMe, QuietWalk
<1>5. ASSUME NEW pc \in Quiet, NEW kind \in Kinds, Begin(s, p, pc, kind) PROVE Inv'
  BY <1>1, <1>5, BeginMe, QuietWalk
<1> QED BY <1>2, <1>3, <1>4, <1>5

\* An answer that claims nothing, or that is terminal_confirmed of a step that is over.
LEMMA AnswerWalk ==
  ASSUME Inv, NEW s \in Steps, NEW p \in Procs, parent' = parent, Rest(s),
         NEW answer \in {"succeeded", "requested", "indeterminate", "uncleared"},
         Answer(s, p, answer), answer = "succeeded" => Over(s)
  PROVE  Inv'
<1>1. TypeOK /\ ParentMoves(s)
  BY ParentStays DEF Inv
<1>2. PICK me \in Process : /\ Become(s, p, me)
                            /\ \/ me.pc = "idle"
                               \/ me.pc = "told" /\ answer = "succeeded"
                               \/ me.pc = "stamp" /\ me.ev = answer
  BY <1>1, AnswerMe
<1>3. WalksTo(s, p, me)
  BY <1>2 DEF WalksTo, ProcSound, Classes, Sending, Cancelling, Forcing, Settling, Receipts
<1> QED BY <1>1, <1>3, WalkKeeps

\* A reconciliation that wrote nothing: whoever found the attempt settled read it so.
LEMMA ReconciledWalk ==
  ASSUME Inv, NEW s \in Steps, NEW p \in Procs, Rest(s),
         NEW result \in {"held", "conflict", "settled"}, Reconciled(s, p, result),
         result = "settled" => attempt[s].state \in Settled
  PROVE  Inv'
<1>1. TypeOK
  BY DEF Inv
<1>2. ParentMoves(s) /\ \E me \in Process :
               /\ Become(s, p, me)
               /\ \/ me.pc = "idle"
                  \/ me.pc = "release" /\ (me.kind \in {"status", "watch"} \/ result = "settled")
                  \/ me.pc = "stamp" /\ me.ev = "indeterminate"
  BY <1>1, ReconciledMe
<1>3. ASSUME NEW me \in Process, Become(s, p, me),
               \/ me.pc = "idle"
               \/ me.pc = "release" /\ (me.kind \in {"status", "watch"} \/ result = "settled")
               \/ me.pc = "stamp" /\ me.ev = "indeterminate"
      PROVE  WalksTo(s, p, me)
  BY <1>3 DEF WalksTo, ProcSound, Classes, Sending, Cancelling, Forcing, Settling, Receipts
<1> QED BY <1>2, <1>3, WalkKeeps

\* run() enters the dispatch step, or refuses the plan.
LEMMA EnterKeeps ==
  ASSUME Inv, NEW s \in Steps, NEW d \in Dispatchers, BeginTask(s, d) \/ BeginSession(s, d)
  PROVE  Inv'
<1>1. TypeOK /\ Rest(s) /\ d \in Procs /\ parent[s] \in Place
  BY DEF Inv, BeginTask, BeginSession, Enter, Rest, Procs, TypeOK
<1>2. ASSUME NEW pc \in {"reserve", "register"}, pc = "register" <=> IsTask(s),
             parent' = [parent EXCEPT ![s] = [@ EXCEPT !.pc = "dispatch", !.by = d]],
             Begin(s, d, pc, "dispatch")
      PROVE  Inv'
  <2> DEFINE row == [parent[s] EXCEPT !.pc = "dispatch", !.by = d]
  <2>1. row \in Place /\ row.type = parent[s].type /\ row.result = parent[s].result
    BY <1>1 DEF Place
  <2>2. parent' = [parent EXCEPT ![s] = row]
    BY <1>2
  <2> HIDE DEF row
  <2>3. ParentMoves(s)
    BY <1>1, <2>1, <2>2, ParentGoes
  <2>4. PICK me \in Process : Become(s, d, me) /\ me.pc = pc /\ me.kind = "dispatch"
    BY <1>1, <1>2, BeginMe DEF PCs, Kinds
  <2>5. WalksTo(s, d, me)
    BY <1>2, <2>4 DEF WalksTo, ProcSound, Classes, Sending, Cancelling, Forcing, Settling
  <2> QED BY <1>1, <2>3, <2>5, WalkKeeps
<1>3. ASSUME Result(s, "failed"), proc' = proc PROVE Inv'
  BY <1>1, <1>3, ResultMoves, WalkKeeps
<1> QED BY <1>2, <1>3 DEF BeginTask, BeginSession, Enter

\* The preflight's refusal is no POST.
LEMMA RefuseKeeps ==
  ASSUME Inv, NEW s \in Steps, NEW d \in Dispatchers, Refuse(s, d)
  PROVE  Inv'
<1>1. /\ TypeOK /\ Rest(s) /\ parent' = parent /\ d \in Procs /\ At(s, d, "refuse")
      /\ Learn(s, d, "record", "rejected") /\ ProcSound(s, proc[s][d])
  BY DEF Inv, Refuse, Rest, Procs, StepInv, Sound
<1>2. PICK me \in Process : Become(s, d, me) /\ me.pc = "record" /\ me.ev = "rejected"
  BY <1>1, LearnMe DEF PCs, Evidence
<1>3. WalksTo(s, d, me)
  BY <1>1, <1>2 DEF WalksTo, ProcSound, Classes, Sending, Cancelling, Forcing, Settling, At
<1> QED BY <1>1, <1>3, ParentStays, WalkKeeps

\* What GitHub shows of a job is the job's state, or nothing.
LEMMA DecisionSound ==
  ASSUME TypeOK, NEW s \in Steps, NEW seen \in Observed(s), Decision(seen) # "hold"
  PROVE  seen = job[s].state /\ Decision(seen) \in Settled
<1>1. job[s].state \in {"none"} \cup Live \cup Ended /\ seen \in {job[s].state, "unknown"}
  BY DEF TypeOK, Job, Observed
<1> QED BY <1>1 DEF Decision, Settled, Live, Ended

\* The read of the job, which is held, or gives the conclusion to settle with.
LEMMA InspectKeeps ==
  ASSUME Inv, NEW s \in Steps, NEW p \in Requests \cup {Check}, Inspect(s, p)
  PROVE  Inv'
<1>1. TypeOK /\ Rest(s) /\ p \in Procs /\ ProcSound(s, proc[s][p]) /\ At(s, p, "inspect")
  BY DEF Inv, Inspect, Rest, Procs, StepInv, Sound
<1>2. CASE \E result \in {"held", "conflict"} : Reconciled(s, p, result)
  BY <1>1, <1>2, ReconciledWalk
<1>3. ASSUME NEW seen \in Observed(s), Decision(seen) # "hold", parent' = parent,
             Learn(s, p, "settleClaimed", Decision(seen))
      PROVE  Inv'
  <2>1. seen = job[s].state /\ Decision(seen) \in Settled
    BY <1>1, <1>3, DecisionSound
  <2>4. Decision(seen) \in Evidence /\ "settleClaimed" \in PCs
    BY <2>1 DEF PCs, Evidence
  <2>2. PICK me \in Process :
           Become(s, p, me) /\ me.pc = "settleClaimed" /\ me.ev = Decision(seen)
    BY <1>1, <1>3, <2>4, LearnMe
  <2>3. WalksTo(s, p, me)
    BY <2>1, <2>2 DEF WalksTo, ProcSound, Classes, Sending, Cancelling, Forcing, Settling
  <2> QED BY <1>1, <1>3, <2>3, ParentStays, WalkKeeps
<1> QED BY <1>2, <1>3 DEF Inspect

\* A process that settles walks on with its evidence.
LEMMA SettleWalk ==
  ASSUME Inv, NEW s \in Steps, NEW p \in Procs, Rest(s), parent' = parent,
         proc[s][p].pc \in Settling, NEW pc \in Settling, Keep(s, p, pc)
  PROVE  Inv'
<1>1. TypeOK /\ ProcSound(s, proc[s][p]) /\ pc \in PCs
  BY DEF Inv, StepInv, Sound, Settling, PCs
<1>2. PICK me \in Process : Become(s, p, me) /\ me.pc = pc /\ me.ev = proc[s][p].ev
  BY <1>1, KeepMe
<1>3. WalksTo(s, p, me)
  BY <1>1, <1>2 DEF WalksTo, ProcSound, Classes, Sending, Cancelling, Forcing, Settling
<1> QED BY <1>1, <1>3, ParentStays, WalkKeeps

\* The last read of a settlement.
LEMMA CompareKeeps ==
  ASSUME Inv, NEW s \in Steps, NEW p \in Requests \cup {Check}, Compare(s, p)
  PROVE  Inv'
<1>1. /\ TypeOK /\ Rest(s) /\ p \in Procs /\ ProcSound(s, proc[s][p])
      /\ proc[s][p].pc = "compare"
  BY DEF Inv, Compare, Rest, Procs, StepInv, Sound, At
<1>2. proc[s][p].ev \in Settled
  BY <1>1 DEF ProcSound, Settling
<1>3. \/ Reconciled(s, p, "conflict")
      \/ attempt[s].state = proc[s][p].ev /\ Reconciled(s, p, "settled")
  BY DEF Compare
<1> QED BY <1>1, <1>2, <1>3, ReconciledWalk

\* Requests that begin: status, cancellation, ready, admission.
LEMMA BeginsKeep ==
  ASSUME Inv, NEW s \in Steps, NEW r \in Requests,
         StatusBegin(s, r) \/ CancelBegin(s, r) \/ ReadyBegin(s, r) \/ AdmitBegin(s, r)
  PROVE  Inv'
<1>1. TypeOK /\ Rest(s) /\ parent' = parent /\ r \in Procs
  BY DEF Inv, StatusBegin, CancelBegin, ReadyBegin, AdmitBegin, Rest, Procs
<1>2. \E pc \in {"inspect", "cancelRead", "readyInspect", "admitInspect"},
         kind \in {"status", "cancel", "force", "ready", "admit"} : Begin(s, r, pc, kind)
  BY DEF StatusBegin, CancelBegin, ReadyBegin, AdmitBegin
<1>3. \E pc \in Quiet, kind \in Kinds : Begin(s, r, pc, kind)
  BY <1>2 DEF Quiet, PCs, Kinds, RequestKinds, Sending, Cancelling, Forcing, Settling
<1> QED BY <1>1, <1>3, ParentStays, QuietMove

\* The reads of a ready and of an admission, and the answers.
LEMMA ReadsKeep ==
  ASSUME Inv, NEW s \in Steps, NEW r \in Requests,
         \/ ReadyInspect(s, r) \/ AdmitInspect(s, r) \/ AdmitFinal(s, r) \/ Answered(s, r)
  PROVE  Inv'
<1>1. TypeOK /\ Rest(s) /\ parent' = parent /\ r \in Procs
  BY DEF Inv, ReadyInspect, AdmitInspect, AdmitFinal, Answered, Rest, Procs
<1>2. Stop(s, r) \/ \E pc \in {"readyWrite", "admitFinal", "granted"} : Go(s, r, pc)
  BY DEF ReadyInspect, AdmitInspect, AdmitFinal, Answered
<1>3. Stop(s, r) \/ \E pc \in Quiet : Go(s, r, pc)
  BY <1>2 DEF Quiet, PCs, Sending, Cancelling, Forcing, Settling
<1> QED BY <1>1, <1>3, ParentStays, QuietMove

\* The read at the head of a cancellation.
LEMMA CancelReadKeeps ==
  ASSUME Inv, NEW s \in Steps, NEW r \in Requests, CancelRead(s, r)
  PROVE  Inv'
<1>1. TypeOK /\ Rest(s) /\ parent' = parent /\ r \in Procs
  BY DEF Inv, CancelRead, Rest, Procs
<1>2. \/ Over(s) /\ Answer(s, r, "succeeded")
      \/ Answer(s, r, "uncleared")
      \/ Become(s, r, [proc[s][r] EXCEPT !.pc = "cancelInspect", !.seen = cancel[s]])
  BY DEF CancelRead, Over
<1>3. CASE Answer(s, r, "uncleared") \/ (Over(s) /\ Answer(s, r, "succeeded"))
  BY <1>1, <1>3, AnswerWalk
<1>4. CASE Become(s, r, [proc[s][r] EXCEPT !.pc = "cancelInspect", !.seen = cancel[s]])
  <2> DEFINE me == [proc[s][r] EXCEPT !.pc = "cancelInspect", !.seen = cancel[s]]
  <2>1. proc[s][r] \in Process /\ cancel[s] \in CancelState
    BY <1>1 DEF TypeOK
  <2>2. me \in Process /\ me.pc \in Quiet
    BY <2>1 DEF Process, PCs, Quiet, Sending, Cancelling, Forcing, Settling
  <2>3. Become(s, r, me)
    BY <1>4
  <2> HIDE DEF me
  <2> QED BY <1>1, <2>2, <2>3, ParentStays, QuietWalk
<1> QED BY <1>2, <1>3, <1>4

\* The read of the job in a cancellation.
LEMMA CancelInspectKeeps ==
  ASSUME Inv, NEW s \in Steps, NEW r \in Requests, CancelInspect(s, r)
  PROVE  Inv'
<1>1. TypeOK /\ Rest(s) /\ parent' = parent /\ r \in Procs
  BY DEF Inv, CancelInspect, Rest, Procs
<1>2. \/ \E pc \in {"inspect", "force", "intent", "repair"} : Go(s, r, pc)
      \/ \E answer \in {"requested", "indeterminate", "uncleared"} : Answer(s, r, answer)
  BY DEF CancelInspect
<1>3. CASE \E pc \in {"inspect", "force", "intent", "repair"} : Go(s, r, pc)
  <2>1. \E pc \in Quiet : Go(s, r, pc)
    BY <1>3 DEF Quiet, PCs, Sending, Cancelling, Forcing, Settling
  <2> QED BY <1>1, <2>1, ParentStays, QuietMove
<1>4. CASE \E answer \in {"requested", "indeterminate", "uncleared"} : Answer(s, r, answer)
  BY <1>1, <1>4, AnswerWalk
<1> QED BY <1>2, <1>3, <1>4

\* run() looks, begins its check, and waits.
LEMMA TurnsKeep ==
  ASSUME Inv, NEW s \in Steps, Look(s) \/ CheckBegin(s) \/ Wait(s)
  PROVE  Inv'
<1>1. /\ TypeOK /\ Rest(s) /\ parent[s] \in Place /\ Check \in Procs
      /\ ~IsTask(s) \/ session[s].state = "none"
  BY DEF Inv, Look, CheckBegin, Wait, Rest, TypeOK, Procs, StepInv, Slotted
<1>2. CASE Look(s)
  <2>1. proc' = proc
    BY <1>2 DEF Look
  <2>2. \/ Result(s, "succeeded") /\ ~IsTask(s)
        \/ Result(s, "indeterminate")
        \/ To(s, "free") \/ To(s, "check")
    BY <1>1, <1>2 DEF Look
  <2>3. ParentMoves(s)
    BY <1>1, <2>2, ResultMoves, ToMoves
  <2> QED BY <1>1, <2>1, <2>3, WalkKeeps
<1>3. CASE CheckBegin(s)
  <2>1. CASE Result(s, "indeterminate") /\ proc' = proc
    BY <1>1, <2>1, ResultMoves, WalkKeeps
  <2>2. CASE Begin(s, Check, "inspect", "check") /\ To(s, "checking")
    <3>1. \E pc \in Quiet, kind \in Kinds : Begin(s, Check, pc, kind)
      BY <2>2 DEF Quiet, PCs, Kinds, Sending, Cancelling, Forcing, Settling
    <3> QED BY <1>1, <2>2, <3>1, ToMoves, QuietMove
  <2> QED BY <1>3, <2>1, <2>2 DEF CheckBegin
<1>4. CASE Wait(s)
  <2>1. proc' = proc
    BY <1>4 DEF Wait
  <2>2. CASE parent[s].i = LastPoll
    <3>1. To(s, "giveup")
      BY <1>4, <2>2 DEF Wait, To
    <3> QED BY <1>1, <2>1, <3>1, ToMoves, WalkKeeps
  <2>3. CASE parent[s].i # LastPoll
    <3> DEFINE row == [parent[s] EXCEPT !.pc = IF IsTask(s) THEN "check" ELSE "look",
                                        !.i = parent[s].i + 1]
    <3>1. parent[s].i + 1 \in 0..LastPoll
      BY <1>1, <2>3, PollAssumption DEF Place
    <3>2. row \in Place /\ row.type = parent[s].type /\ row.result = parent[s].result
      BY <1>1, <3>1 DEF Place
    <3>3. parent' = [parent EXCEPT ![s] = row]
      BY <1>4, <2>3 DEF Wait
    <3> HIDE DEF row
    <3> QED BY <1>1, <2>1, <3>2, <3>3, ParentGoes, WalkKeeps
  <2> QED BY <2>2, <2>3
<1> QED BY <1>2, <1>3, <1>4

\* Faults: a durable step times out, the engine runs a dispatch again, an isolate dies.
LEMMA FaultsKeep ==
  ASSUME Inv, NEW s \in Steps, StepTimesOut(s) \/ Replay(s) \/ \E p \in Procs : Dies(s, p)
  PROVE  Inv'
<1>1. TypeOK /\ Rest(s) /\ parent[s] \in Place
  BY DEF Inv, StepTimesOut, Replay, Dies, Rest, TypeOK
<1>2. CASE StepTimesOut(s) \/ Replay(s)
  <2>1. proc' = proc
    BY <1>2 DEF StepTimesOut, Replay
  <2>2. ASSUME NEW pc \in {"finish", "begin"}, NEW row,
               \/ row = [parent[s] EXCEPT !.pc = pc, !.by = NoStep]
               \/ row = [parent[s] EXCEPT !.pc = pc, !.by = NoStep, !.result = "indeterminate"],
               parent' = [parent EXCEPT ![s] = row]
        PROVE  ParentMoves(s)
    <3>1. /\ row \in Place /\ row.type = parent[s].type
          /\ row.result \in {parent[s].result, "indeterminate"}
      BY <1>1, <2>2 DEF Place
    <3> QED BY <1>1, <2>2, <3>1, ParentGoes
  <2>3. ParentMoves(s)
    BY <1>2, <2>2 DEF StepTimesOut, Replay
  <2> QED BY <1>1, <2>1, <2>3, WalkKeeps
<1>3. ASSUME NEW p \in Dispatchers, Dies(s, p) PROVE Inv'
  <2>1. Return(s, p, "threw") /\ p \in Procs
    BY <1>3 DEF Dies, Procs
  <2> QED BY <1>1, <2>1, ReturnMoves, QuietMove
<1>4. ASSUME NEW p \in Procs \ Dispatchers, Dies(s, p) PROVE Inv'
  <2>1. /\ Stop(s, p)
        /\ parent' = parent \/ Result(s, "indeterminate")
    BY <1>4 DEF Dies, Result
  <2>2. ParentMoves(s)
    BY <1>1, <2>1, ResultMoves, ParentStays
  <2> QED BY <1>1, <2>1, <2>2, QuietMove
<1> QED BY <1>2, <1>3, <1>4

-----------------------------------------------------------------------------
(* Steps that write the Session's row *)

\* A process stays, or goes where the new rows bear it out.
Lands(s) ==
    \/ proc' = proc
    \/ \E p \in Procs, me \in Process :
          /\ Become(s, p, me) /\ ProcSound(s, me)'
          /\ \A D \in Classes : me.pc \in D => proc[s][p].pc \in D

\* A write of the Session's row keeps the invariant, if a slot is taken only from the free
\* ones and given back only on an attempt that rules a live job out.
LEMMA SessionKeeps ==
  ASSUME Inv, NEW s \in Steps, ~IsTask(s), ParentMoves(s), Lands(s),
         UNCHANGED <<run, attempt, cancel, saga, job, hist>>,
         NEW row \in SessionRow, session' = [session EXCEPT ![s] = row], row.state # "none",
         session[s].state # "none" \/ (Active(s) /\ attempt[s].state = "none"),
         session[s].state = "terminated" => row.state = "terminated",
         row.state = "terminated" => \/ attempt[s].state \in Settled \cup {"rejected"}
                                     \/ attempt[s].state = "none" /\ ~Active(s),
         row.state # "terminated" =>
            /\ row.slot \in Slots
            /\ \A t \in Steps \ {s} : Occupies(t) => row.slot # session[t].slot
  PROVE  Inv'
<1>0. TypeOK /\ Typed(s) /\ StepInv(s) /\ IsTask(s)' = IsTask(s) /\ session'[s] = row
  BY TypedRows DEF Inv, ParentMoves, IsTask, TypeOK
<1>1. \A x \in Process : ProcSound(s, x) => ProcSound(s, x)'
  BY <1>0 DEF ProcSound, Over
<1>2. /\ Sound(s)' /\ Unique(s)'
      /\ proc' = [proc EXCEPT ![s] = proc'[s]] /\ proc'[s] \in [Procs -> Process]
  <2>1. CASE proc' = proc
    BY <1>1, <2>1, Unturned
  <2>2. ASSUME NEW p \in Procs, NEW me \in Process, Become(s, p, me), ProcSound(s, me)',
               \A D \in Classes : me.pc \in D => proc[s][p].pc \in D
        PROVE  /\ Sound(s)' /\ Unique(s)'
               /\ proc' = [proc EXCEPT ![s] = proc'[s]] /\ proc'[s] \in [Procs -> Process]
    <3>1. {} = {}
      OBVIOUS
    <3> QED BY <1>1, <2>2, <3>1, Turned
  <2> QED BY <2>1, <2>2 DEF Lands
<1>3. Only(s)
  BY <1>0, <1>2 DEF Only, ParentMoves, TypeOK
<1>4. Typed(s)'
  BY <1>0, <1>2 DEF Typed, ParentMoves
<1>5. Posted(s)'
  BY <1>0 DEF StepInv, Posted
<1>6. Slotted(s)'
  BY <1>0 DEF StepInv, Slotted, Occupies, Active
<1>7. Physical(s)'
  BY <1>0 DEF StepInv, Physical, OutcomeIsPhysical, HasCandidate, Over, ParentMoves, IsTask
<1>8. \A t \in Steps \ {s} : Occupies(s)' /\ Occupies(t) => session'[s].slot # session[t].slot
  BY <1>0 DEF Occupies
<1> QED BY <1>2, <1>3, <1>4, <1>5, <1>6, <1>7, <1>8, Assemble DEF StepInv

\* A change of the state of a Session that occupies its slot, or none.
LEMMA StateKeeps ==
  ASSUME Inv, NEW s \in Steps, ParentMoves(s), Lands(s),
         UNCHANGED <<run, attempt, cancel, saga, job, hist>>,
         NEW st \in SessionState \ {"none"},
         session' = session \/ (Occupies(s) /\ Session(s, st)),
         st = "terminated" => \/ attempt[s].state \in Settled \cup {"rejected"}
                              \/ attempt[s].state = "none" /\ ~Active(s)
  PROVE  Inv'
<1>0. TypeOK /\ session[s] \in SessionRow /\ StepInv(s) /\ IsTask(s)' = IsTask(s)
  BY DEF Inv, TypeOK, ParentMoves, IsTask
<1>1. CASE session' = session
  <2>1. Rest(s) /\ \A x \in Process : ProcSound(s, x)' => ProcSound(s, x)
    BY <1>0, <1>1 DEF Rest, ProcSound, Over
  <2>2. proc' = proc \/ \E p \in Procs, me \in Process : WalksTo(s, p, me)
    BY <2>1 DEF Lands, WalksTo
  <2> QED BY <2>1, <2>2, WalkKeeps
<1>2. CASE Occupies(s) /\ Session(s, st)
  <2> DEFINE row == [session[s] EXCEPT !.state = st]
  <2>1. session' = [session EXCEPT ![s] = row]
    BY <1>0, <1>2 DEF Session, TypeOK
  <2>2. row \in SessionRow /\ row.state = st /\ row.slot = session[s].slot
    BY <1>0 DEF SessionRow
  <2>3. /\ session[s].state \notin {"none", "terminated"} /\ ~IsTask(s) /\ row.slot \in Slots
        /\ \A t \in Steps \ {s} : Occupies(t) => row.slot # session[t].slot
    BY <1>0, <1>2, <2>2 DEF StepInv, Slotted, Occupies, Inv, Distinct
  <2> HIDE DEF row
  <2>4. st # "none"
    OBVIOUS
  <2> QED BY <2>1, <2>2, <2>3, <2>4, SessionKeeps
<1> QED BY <1>1, <1>2

\* A slot is taken from those that no Session occupies.
LEMMA LowestFreeIsFree ==
  ASSUME FreeSlots # {}
  PROVE  LowestFree \in FreeSlots
<1> DEFINE Less == {ss \in Nat \X Nat : ss[1] < ss[2]}
<1>1. FreeSlots \subseteq Nat
  BY StepAssumption DEF FreeSlots
<1>2. IsWellFoundedOn(Less, Nat)
  BY NatLessThanWellFounded DEF OpToRel
<1>3. \A x, y \in Nat : <<y, x>> \in Less \/ x <= y
  OBVIOUS
<1> HIDE DEF Less
<1>4. PICK x \in FreeSlots : \A y \in FreeSlots : <<y, x>> \notin Less
  BY <1>1, <1>2, WFMin
<1>5. \A y \in FreeSlots : x <= y
  BY <1>1, <1>3, <1>4
<1> QED BY <1>4, <1>5 DEF LowestFree

\* The reservation.
LEMMA ReserveKeeps ==
  ASSUME Inv, NEW s \in Steps, NEW d \in Dispatchers, Reserve(s, d)
  PROVE  Inv'
<1>1. /\ TypeOK /\ d \in Procs /\ proc[s][d].pc = "reserve" /\ StepInv(s)
      /\ session[s] \in SessionRow /\ "register" \in PCs /\ ProcSound(s, proc[s][d])
  BY DEF Inv, Reserve, At, Procs, TypeOK, PCs, StepInv, Sound
<1>0. ~IsTask(s)
  BY <1>1 DEF ProcSound
<1>2. ASSUME Admissible(s), parent' = parent, Go(s, d, "register"),
             UNCHANGED <<run, attempt, cancel, saga, job, hist>>,
             session' = [session EXCEPT ![s] = [@ EXCEPT !.state = "queued",
                                                        !.slot = LowestFree]]
      PROVE  Inv'
  <2> DEFINE row == [session[s] EXCEPT !.state = "queued", !.slot = LowestFree]
  <2>1. LowestFree \in FreeSlots /\ LowestFree \in Slots
    BY <1>2, LowestFreeIsFree DEF Admissible, FreeSlots
  <2>2. row \in SessionRow /\ row.state = "queued" /\ row.slot = LowestFree
    BY <1>1, <2>1 DEF SessionRow, SessionState
  <2>3. session' = [session EXCEPT ![s] = row]
    BY <1>2
  <2> HIDE DEF row
  <2>4. /\ Active(s) /\ session[s].state = "none" /\ attempt[s].state = "none"
        /\ \A t \in Steps \ {s} : Occupies(t) => row.slot # session[t].slot
    BY <1>0, <1>1, <1>2, <2>1, <2>2 DEF Admissible, StepInv, Slotted, FreeSlots
  <2>5. session'[s] = row /\ IsTask(s)' = IsTask(s)
    BY <1>1, <1>2, <2>3 DEF TypeOK, IsTask
  <2>6. Lands(s)
    <3>1. PICK me \in Process : Become(s, d, me) /\ me.pc = "register"
      BY <1>1, <1>2, GoMe
    <3>2. ProcSound(s, me)' /\ \A D \in Classes : me.pc \notin D
      BY <2>2, <2>5, <3>1 DEF ProcSound, Classes, Sending, Cancelling, Forcing, Settling
    <3>3. d \in Procs /\ \A D \in Classes : me.pc \in D => proc[s][d].pc \in D
      BY <1>1, <3>2
    <3>4. \E p \in Procs : /\ Become(s, p, me) /\ ProcSound(s, me)'
                          /\ \A D \in Classes : me.pc \in D => proc[s][p].pc \in D
      BY <3>1, <3>2, <3>3
    <3> QED BY <3>4 DEF Lands
  <2> QED BY <1>0, <1>1, <1>2, <2>1, <2>2, <2>3, <2>4, <2>6, ParentStays, SessionKeeps
<1>3. ASSUME Occupies(s), Go(s, d, "register"), parent' = parent, Rest(s) PROVE Inv'
  <2>1. PICK me \in Process : Become(s, d, me) /\ me.pc = "register"
    BY <1>1, <1>3, GoMe
  <2>2. WalksTo(s, d, me)
    BY <1>3, <2>1 DEF WalksTo, ProcSound, Classes, Sending, Cancelling, Forcing, Settling,
                      Occupies
  <2> QED BY <1>1, <1>3, <2>2, ParentStays, WalkKeeps
<1>4. ASSUME Return(s, d, "refused"), Rest(s) PROVE Inv'
  BY <1>1, <1>4, ReturnMoves, QuietMove
<1> QED BY <1>2, <1>3, <1>4 DEF Reserve, Rest

\* A process that stops, or goes on to a quiet place, lands there whatever is written.
LEMMA LandsQuiet ==
  ASSUME TypeOK, NEW s \in Steps, NEW p \in Procs,
         \/ Stop(s, p)
         \/ \E pc \in Quiet : Go(s, p, pc)
         \/ \E pc \in Quiet, kind \in Kinds : Begin(s, p, pc, kind)
  PROVE  Lands(s)
<1>1. Quiet \subseteq PCs /\ "idle" \in Quiet
  BY DEF Quiet, PCs, Sending, Cancelling, Forcing, Settling
<1>2. \E me \in Process : Become(s, p, me) /\ me.pc \in Quiet
  <2>1. CASE Stop(s, p)
    BY <1>1, <2>1, StopMe
  <2>2. ASSUME NEW pc \in Quiet, Go(s, p, pc)
        PROVE  \E me \in Process : Become(s, p, me) /\ me.pc \in Quiet
    BY <1>1, <2>2, GoMe
  <2>3. ASSUME NEW pc \in Quiet, NEW kind \in Kinds, Begin(s, p, pc, kind)
        PROVE  \E me \in Process : Become(s, p, me) /\ me.pc \in Quiet
    BY <1>1, <2>3, BeginMe
  <2> QED BY <2>1, <2>2, <2>3
<1>3. ASSUME NEW me \in Process, Become(s, p, me), me.pc \in Quiet PROVE Lands(s)
  <2>1. ProcSound(s, me)' /\ \A D \in Classes : me.pc \notin D
    BY <1>3, QuietSound
  <2> QED BY <1>3, <2>1 DEF Lands
<1> QED BY <1>2, <1>3

\* A process that answers lands, if terminal_confirmed is answered of a step that is over.
LEMMA LandsAnswer ==
  ASSUME TypeOK, NEW s \in Steps, NEW p \in Procs,
         NEW answer \in {"succeeded", "requested", "indeterminate", "uncleared"},
         Answer(s, p, answer), answer = "succeeded" => Over(s)'
  PROVE  Lands(s)
<1>1. PICK me \in Process : /\ Become(s, p, me)
                            /\ \/ me.pc = "idle"
                               \/ me.pc = "told" /\ answer = "succeeded"
                               \/ me.pc = "stamp" /\ me.ev = answer
  BY AnswerMe
<1>2. ProcSound(s, me)' /\ \A D \in Classes : me.pc \notin D
  BY <1>1 DEF ProcSound, Classes, Sending, Cancelling, Forcing, Settling, Receipts
<1> QED BY <1>1, <1>2 DEF Lands

\* releaseVerifiedSessionSlot frees the slot only of a settled attempt.
LEMMA VerifiedIsSettled ==
  ASSUME NEW s \in Steps, ReleaseVerified(s)
  PROVE  \/ session' = session
         \/ /\ Occupies(s) /\ Session(s, "terminated")
            /\ attempt[s].state \in Settled /\ "terminated" \in SessionState \ {"none"}
BY DEF ReleaseVerified, Verified, Settled, SessionState

\* releaseVerifiedSessionSlot, by a status, the watch or a cancellation.
LEMMA ReleaseKeeps ==
  ASSUME Inv, NEW s \in Steps, NEW p \in Requests \cup {Check}, Release(s, p)
  PROVE  Inv'
<1>1. /\ TypeOK /\ p \in Procs /\ ParentMoves(s) /\ ProcSound(s, proc[s][p])
      /\ proc[s][p].pc = "release"
  BY ParentStays DEF Inv, Release, Procs, At, StepInv, Sound
<1>2. UNCHANGED <<run, attempt, cancel, saga, job, hist>>
  BY DEF Release
<1>5. \/ session' = session
      \/ /\ Occupies(s) /\ Session(s, "terminated")
         /\ attempt[s].state \in Settled /\ "terminated" \in SessionState \ {"none"}
  BY VerifiedIsSettled DEF Release
<1>6. "stopping" \in SessionState \ {"none"}
  BY DEF SessionState
<1>3. CASE proc[s][p].kind \in {"status", "watch"}
  <2>1. Stop(s, p) \/ Begin(s, p, "cancelRead", "cancel")
    BY <1>3 DEF Release
  <2>2. "cancelRead" \in Quiet /\ "cancel" \in Kinds
    BY DEF Quiet, PCs, Kinds, RequestKinds, Sending, Cancelling, Forcing, Settling
  <2>3. Lands(s)
    BY <1>1, <2>1, <2>2, LandsQuiet
  <2> QED BY <1>1, <1>2, <1>5, <1>6, <2>3, StateKeeps
<1>4. CASE proc[s][p].kind \notin {"status", "watch"}
  <2>1. Answer(s, p, "succeeded") /\ Over(s)'
    BY <1>1, <1>2, <1>4 DEF Release, ProcSound, Over
  <2>2. Lands(s)
    BY <1>1, <2>1, LandsAnswer
  <2> QED BY <1>1, <1>2, <1>5, <1>6, <2>2, StateKeeps
<1> QED BY <1>3, <1>4

\* A turn of the watch.
LEMMA WatchKeeps ==
  ASSUME Inv, NEW s \in Steps, NEW r \in Requests, Watch(s, r)
  PROVE  Inv'
<1>1. TypeOK /\ r \in Procs /\ ParentMoves(s)
  BY ParentStays DEF Inv, Watch, Procs
<1>2. UNCHANGED <<run, attempt, cancel, saga, job, hist>> /\ Occupies(s)
  BY DEF Watch
<1>3. Lands(s)
  <2>1. proc' = proc \/ \E pc \in Quiet, kind \in Kinds : Begin(s, r, pc, kind)
    BY DEF Watch, Quiet, PCs, Kinds, RequestKinds, Sending, Cancelling, Forcing, Settling
  <2>2. CASE proc' = proc
    BY <2>2 DEF Lands
  <2>3. CASE \E pc \in Quiet, kind \in Kinds : Begin(s, r, pc, kind)
    BY <1>1, <2>3, LandsQuiet
  <2> QED BY <2>1, <2>2, <2>3
<1> QED BY <1>1, <1>2, <1>3, StateKeeps DEF Watch, NeverDispatched, NeverRegistered, Rejected,
                                            SessionState

\* The advisory write of stopping.
LEMMA StoppingKeeps ==
  ASSUME Inv, NEW s \in Steps, NEW r \in Requests, Stopping(s, r)
  PROVE  Inv'
<1>1. /\ TypeOK /\ r \in Procs /\ ParentMoves(s) /\ ProcSound(s, proc[s][r])
      /\ UNCHANGED <<run, attempt, cancel, saga, job, hist>>
  BY ParentStays DEF Inv, Stopping, Procs, At, StepInv, Sound
<1>2. CASE At(s, r, "stopping")
  <2>1. Go(s, r, "cancelPost") /\ "cancelPost" \in PCs
    BY <1>2 DEF Stopping, PCs
  <2>2. PICK me \in Process : Become(s, r, me) /\ me.pc = "cancelPost"
    BY <1>1, <2>1, GoMe
  <2>3. ProcSound(s, me)' /\ \A D \in Classes : me.pc \in D => proc[s][r].pc \in D
    BY <1>1, <1>2, <2>2 DEF ProcSound, Classes, Sending, Cancelling, Forcing, Settling, At
  <2>4. Lands(s)
    BY <1>1, <2>2, <2>3 DEF Lands
  <2> QED BY <1>1, <2>4, StateKeeps DEF Stopping, SessionState
<1>3. CASE ~At(s, r, "stopping")
  <2>1. Answer(s, r, "requested")
    BY <1>3 DEF Stopping
  <2>2. Lands(s)
    BY <1>1, <2>1, LandsAnswer
  <2> QED BY <1>1, <2>2, StateKeeps DEF Stopping, SessionState
<1> QED BY <1>2, <1>3

\* The write of ready, and the release of a reservation whose Run was cancelled.
LEMMA RequestsWrite ==
  ASSUME Inv, NEW s \in Steps, NEW r \in Requests, ReadyWrite(s, r) \/ Abandon(s, r)
  PROVE  Inv'
<1>1. /\ TypeOK /\ r \in Procs /\ ParentMoves(s) /\ Stop(s, r)
      /\ UNCHANGED <<run, attempt, cancel, saga, job, hist>>
  BY ParentStays DEF Inv, ReadyWrite, Abandon, Procs
<1>2. Lands(s)
  BY <1>1, LandsQuiet
<1> QED BY <1>1, <1>2, StateKeeps DEF ReadyWrite, Abandon, MayBeReady, NeverRegistered, Occupies,
                                      SessionState

\* run() writes the Session's row: after a rejected dispatch, when it starts, when the attempt
\* is settled, and when it gives up.
LEMMA RunWrites ==
  ASSUME Inv, NEW s \in Steps, Unreserve(s) \/ Starting(s) \/ Free(s) \/ Giveup(s)
  PROVE  Inv'
<1>1. /\ TypeOK /\ Lands(s) /\ StepInv(s)
      /\ UNCHANGED <<run, attempt, cancel, saga, job, hist>>
  BY DEF Inv, Unreserve, Starting, Free, Giveup, Lands
<1>2. ParentMoves(s)
  <2>1. \/ To(s, "finish") \/ To(s, "look")
        \/ \E result \in {"failed", "indeterminate"} : Result(s, result)
        \/ attempt[s].state = "succeeded" /\ Result(s, "succeeded")
    BY DEF Unreserve, Starting, Free, Giveup
  <2>2. attempt[s].state = "succeeded" => job[s].state = "success"
    BY <1>1 DEF StepInv, Physical, OutcomeIsPhysical
  <2> QED BY <1>1, <2>1, <2>2, ToMoves, ResultMoves
<1>3. \E st \in SessionState \ {"none"} :
         /\ session' = session \/ (Occupies(s) /\ Session(s, st))
         /\ st = "terminated" => \/ attempt[s].state \in Settled \cup {"rejected"}
                                 \/ attempt[s].state = "none" /\ ~Active(s)
  <2>1. {"starting", "uncertain", "terminated"} \subseteq SessionState \ {"none"}
    BY DEF SessionState
  <2>2. CASE Unreserve(s)
    BY <2>1, <2>2 DEF Unreserve, Rejected, Occupies
  <2>3. CASE Starting(s)
    BY <2>1, <2>3 DEF Starting, Occupies
  <2>4. CASE Free(s)
    BY <2>1, <2>4, VerifiedIsSettled DEF Free
  <2>5. CASE Giveup(s)
    BY <2>1, <2>5 DEF Giveup, Occupies
  <2> QED BY <2>2, <2>3, <2>4, <2>5
<1> QED BY <1>1, <1>2, <1>3, StateKeeps

\* Time passes.
LEMMA ElapsesKeeps ==
  ASSUME Inv, NEW s \in Steps, Elapses(s), session' # session
  PROVE  Inv'
<1>1. /\ TypeOK /\ Lands(s) /\ StepInv(s) /\ ParentMoves(s) /\ session[s] \in SessionRow
      /\ UNCHANGED <<run, attempt, cancel, saga, job, hist>>
  BY ParentStays DEF Inv, Elapses, Lands, TypeOK
<1>2. session[s].state = "queued" /\ session' = [session EXCEPT ![s].old = TRUE]
  BY DEF Elapses
<1> DEFINE row == [session[s] EXCEPT !.old = TRUE]
<1>3. session' = [session EXCEPT ![s] = row]
  BY <1>1, <1>2 DEF TypeOK
<1>4. /\ row \in SessionRow /\ row.state = "queued" /\ row.slot = session[s].slot
  BY <1>1, <1>2 DEF SessionRow
<1> HIDE DEF row
<1>5. /\ ~IsTask(s) /\ row.slot \in Slots
      /\ \A t \in Steps \ {s} : Occupies(t) => row.slot # session[t].slot
  BY <1>1, <1>2, <1>4 DEF StepInv, Slotted, Occupies, Inv, Distinct
<1> QED BY <1>1, <1>2, <1>3, <1>4, <1>5, SessionKeeps

-----------------------------------------------------------------------------
(* Steps that write the attempt's row *)

\* The state of the job stays, whatever becomes of its claim.
JobStays(s) == /\ job' = [job EXCEPT ![s] = job'[s]] /\ job'[s] \in Job
               /\ job'[s].state = job[s].state

\* The processes after a step: sound and apart.
Moved(s) == /\ Sound(s)' /\ Unique(s)'
            /\ proc' = [proc EXCEPT ![s] = proc'[s]] /\ proc'[s] \in [Procs -> Process]

\* A write of the attempt's row keeps the invariant, if the attempt was not settled, a Session
\* that is over takes only an outcome, and the new row agrees with the job.
LEMMA AttemptKeeps ==
  ASSUME Inv, NEW s \in Steps, ParentMoves(s), JobStays(s), Moved(s),
         UNCHANGED <<run, session, cancel, saga, hist>>,
         NEW row \in AttemptRow, attempt' = [attempt EXCEPT ![s] = row],
         IsTask(s) \/ session[s].state # "none",
         attempt[s].state \notin Settled, row.state # "none",
         session[s].state = "terminated" => row.state \in Settled,
         row.state = "rejected" => job[s].state = "none",
         row.state \in {"confirmed", "claimed"} => job[s].state # "none",
         row.state = "claimed" => row.owned,
         row.state = "succeeded" => job[s].state = "success" /\ row.owned,
         row.state = "failed" => job[s].state = "failure",
         row.state = "cancelled" => job[s].state = "cancelled"
  PROVE  Inv'
<1>0. /\ TypeOK /\ Typed(s) /\ StepInv(s) /\ IsTask(s)' = IsTask(s) /\ attempt'[s] = row
      /\ session'[s] = session[s] /\ run'[s] = run[s] /\ cancel'[s] = cancel[s]
      /\ hist'[s] = hist[s] /\ saga'[s] = saga[s]
  BY TypedRows DEF Inv, ParentMoves, IsTask, TypeOK
<1>1. Only(s)
  BY <1>0 DEF Only, ParentMoves, JobStays, Moved, TypeOK
<1>2. Typed(s)'
  BY <1>0 DEF Typed, ParentMoves, JobStays, Moved
<1>3. Posted(s)'
  BY <1>0 DEF StepInv, Posted
<1>4. Slotted(s)'
  BY <1>0 DEF StepInv, Slotted, Occupies, Active
<1>5. Physical(s)'
  <2>1. /\ attempt[s].state # "rejected" \/ job[s].state = "none"
        /\ saga[s] = "succeeded" => Over(s)
        /\ IsTask(s) /\ parent'[s].result = "succeeded" => job[s].state = "success"
    BY <1>0 DEF StepInv, Physical, OutcomeIsPhysical, ParentMoves
  <2>2. job'[s].state = job[s].state
    BY DEF JobStays
  <2>3. HasCandidate(s)' => job[s].state # "none"
    BY <1>0 DEF HasCandidate, Settled
  <2>4. OutcomeIsPhysical(s)'
    BY <1>0, <2>1, <2>2 DEF OutcomeIsPhysical
  <2>5. saga'[s] = "succeeded" => Over(s)'
    BY <1>0, <2>1 DEF Over
  <2> QED BY <1>0, <2>2, <2>3, <2>4, <2>5 DEF Physical
<1>6. \A t \in Steps \ {s} : Occupies(s)' /\ Occupies(t) => session'[s].slot # session[t].slot
  BY <1>0 DEF Inv, Distinct, Occupies
<1> QED BY <1>1, <1>2, <1>3, <1>4, <1>5, <1>6, Assemble DEF StepInv, Moved

\* A job of which nothing is written stays.
LEMMA SameJob ==
  ASSUME TypeOK, NEW s \in Steps, job' = job
  PROVE  JobStays(s)
BY DEF TypeOK, JobStays

\* The state of the attempt is a column of its row.
LEMMA AttemptRowOf ==
  ASSUME TypeOK, NEW s \in Steps, NEW st \in AttemptState, Attempt(s, st)
  PROVE  \E row \in AttemptRow : /\ attempt' = [attempt EXCEPT ![s] = row]
                                 /\ row.state = st /\ row.owned = attempt[s].owned
<1> DEFINE row == [attempt[s] EXCEPT !.state = st]
<1>1. attempt[s] \in AttemptRow /\ attempt' = [attempt EXCEPT ![s] = row]
  BY DEF TypeOK, Attempt
<1>2. row \in AttemptRow /\ row.state = st /\ row.owned = attempt[s].owned
  BY <1>1 DEF AttemptRow
<1> HIDE DEF row
<1> QED BY <1>1, <1>2

\* The registration of the attempt.
LEMMA RegisterKeeps ==
  ASSUME Inv, NEW s \in Steps, NEW d \in Dispatchers, Register(s, d)
  PROVE  Inv'
<1>1. /\ TypeOK /\ d \in Procs /\ proc[s][d].pc = "register" /\ StepInv(s)
      /\ ProcSound(s, proc[s][d])
      /\ UNCHANGED <<run, session, cancel, saga, job, hist>>
  BY DEF Inv, Register, At, Procs, StepInv, Sound
<1>2. ASSUME NEW pc \in {"refuse", "post"}, Go(s, d, pc), Registers(s), Attempt(s, "created"),
             parent' = parent
      PROVE  Inv'
  <2>1. /\ attempt[s].state = "none" /\ Active(s) /\ job[s].state = "none"
        /\ hist[s].posts = 0 /\ session[s].state # "terminated"
        /\ IsTask(s) \/ session[s].state # "none"
    <3>1. attempt[s].state = "none" /\ Active(s)
      BY <1>2 DEF Registers
    <3>2. job[s].state = "none" /\ hist[s].posts = 0
      BY <1>1, <3>1 DEF StepInv, Physical, Posted
    <3>3. IsTask(s) \/ session[s].state # "none"
      BY <1>1 DEF ProcSound
    <3> QED BY <1>1, <1>2, <3>1, <3>2, <3>3 DEF StepInv, Slotted, NeverRegistered, Settled
  <2>2. PICK row \in AttemptRow : attempt' = [attempt EXCEPT ![s] = row] /\ row.state = "created"
    BY <1>1, <1>2, AttemptRowOf DEF AttemptState
  <2>3. PICK me \in Process : Become(s, d, me) /\ me.pc = pc
    BY <1>1, <1>2, GoMe DEF PCs
  <2>4. attempt'[s].state = "created" /\ IsTask(s)' = IsTask(s)
    BY <1>1, <1>2, <2>2 DEF TypeOK, IsTask
  <2>5. \A x \in Process : ProcSound(s, x) => ProcSound(s, x)' /\ x.pc \notin Sending
    BY <1>1, <2>1, <2>4 DEF ProcSound, Over, Settled
  <2>6. ProcSound(s, me)'
    BY <1>1, <2>1, <2>3, <2>4 DEF ProcSound, Sending, Cancelling, Forcing, Settling
  <2>7. me.pc \notin Cancelling /\ me.pc \notin Forcing
    BY <2>3 DEF Cancelling, Forcing
  <2>8. \A q \in Procs : proc[s][q].pc \notin Sending
    BY <1>1, <2>5 DEF StepInv, Sound, TypeOK
  <2>9. \A D \in Classes : me.pc \in D =>
            proc[s][d].pc \in D \/ \A q \in Procs : proc[s][q].pc \notin D
    BY <2>7, <2>8 DEF Classes
  <2>10. {} = {} /\ \A x \in Process : x.pc \notin {} /\ ProcSound(s, x) => ProcSound(s, x)'
    BY <2>5
  <2>11. Moved(s)
    BY <1>1, <2>3, <2>6, <2>9, <2>10, Turned DEF Moved
  <2> QED BY <1>1, <1>2, <2>1, <2>2, <2>11, SameJob, ParentStays, AttemptKeeps DEF Settled
<1>3. ASSUME Return(s, d, "threw"), Rest(s) PROVE Inv'
  BY <1>1, <1>3, ReturnMoves, QuietMove
<1> QED BY <1>2, <1>3 DEF Register, Rest

\* The record of the dispatch's answer.
LEMMA RecordKeeps ==
  ASSUME Inv, NEW s \in Steps, NEW d \in Dispatchers, Record(s, d)
  PROVE  Inv'
<1>1. /\ TypeOK /\ d \in Procs /\ proc[s][d].pc = "record" /\ StepInv(s)
      /\ ProcSound(s, proc[s][d])
      /\ UNCHANGED <<run, session, cancel, saga, job, hist>>
  BY DEF Inv, Record, At, Procs, StepInv, Sound
<1>2. ASSUME NEW ev, ev = proc[s][d].ev, attempt[s].state = "created", Attempt(s, ev),
             Return(s, d, ev)
      PROVE  Inv'
  <2>1. /\ ev \in {"confirmed", "rejected", "dispatch_unknown"}
        /\ ev = "confirmed" => job[s].state # "none"
        /\ ev = "rejected" => job[s].state = "none"
        /\ IsTask(s) \/ session[s].state # "none"
    BY <1>1, <1>2 DEF ProcSound, Sending
  <2>2. PICK row \in AttemptRow : attempt' = [attempt EXCEPT ![s] = row] /\ row.state = ev
    BY <1>1, <1>2, <2>1, AttemptRowOf DEF AttemptState
  <2>3. ParentMoves(s) /\ Stop(s, d)
    BY <1>1, <1>2, <2>1, ReturnMoves
  <2>4. PICK me \in Process : Become(s, d, me) /\ me.pc = "idle"
    BY <2>3, <1>1, StopMe
  <2>5. attempt'[s].state = ev /\ IsTask(s)' = IsTask(s)
    BY <1>1, <2>2, <2>3 DEF TypeOK, IsTask, ParentMoves
  <2>6. \A x \in Process : x.pc \notin Sending /\ ProcSound(s, x) => ProcSound(s, x)'
    BY <1>1, <1>2, <2>5 DEF ProcSound, Over, Sending, Settled
  <2>7. ProcSound(s, me)' /\ \A D \in Classes : me.pc \notin D
    BY <2>4 DEF ProcSound, Classes, Sending, Cancelling, Forcing, Settling
  <2>8. Sending \in Classes /\ proc[s][d].pc \in Sending
    BY <1>1 DEF Classes, Sending
  <2>9. Moved(s)
    BY <1>1, <2>4, <2>6, <2>7, <2>8, Turned DEF Moved
  <2>10. session[s].state # "terminated" /\ attempt[s].state \notin Settled
    BY <1>1, <1>2 DEF StepInv, Slotted, Settled
  <2> QED BY <1>1, <2>1, <2>2, <2>3, <2>9, <2>10, SameJob, AttemptKeeps DEF Settled
<1>3. ASSUME Return(s, d, "threw"), Rest(s) PROVE Inv'
  BY <1>1, <1>3, ReturnMoves, QuietMove
<1> QED BY <1>2, <1>3 DEF Record, Rest

\* The two writes of a settlement.
LEMMA SettleKeeps ==
  ASSUME Inv, NEW s \in Steps, NEW p \in Requests \cup {Check},
         SettleClaimed(s, p) \/ SettleUnclaimed(s, p)
  PROVE  Inv'
<1>1. /\ TypeOK /\ p \in Procs /\ StepInv(s) /\ ProcSound(s, proc[s][p])
      /\ proc[s][p].pc \in {"settleClaimed", "settleUnclaimed"}
      /\ UNCHANGED <<run, session, cancel, saga, job, hist>>
  BY DEF Inv, SettleClaimed, SettleUnclaimed, At, Procs, StepInv, Sound
<1>2. ASSUME NEW ev, ev = proc[s][p].ev, Attempt(s, ev), Reconciled(s, p, "settled"),
             \/ attempt[s].state = "claimed"
             \/ attempt[s].state = "confirmed" /\ ev # "succeeded"
      PROVE  Inv'
  <2>1. ev \in Settled /\ Decision(job[s].state) = ev
    BY <1>1, <1>2 DEF ProcSound, Settling
  <2>2. PICK row \in AttemptRow : /\ attempt' = [attempt EXCEPT ![s] = row]
                                  /\ row.state = ev /\ row.owned = attempt[s].owned
    BY <1>1, <1>2, <2>1, AttemptRowOf DEF AttemptState
  <2>3. ParentMoves(s) /\ \E me \in Process :
               /\ Become(s, p, me)
               /\ me.pc = "idle" \/ me.pc = "release"
                     \/ (me.pc = "stamp" /\ me.ev = "indeterminate")
    BY <1>1, <1>2, ReconciledMe
  <2>4. PICK me \in Process :
               /\ Become(s, p, me)
               /\ me.pc = "idle" \/ me.pc = "release"
                     \/ (me.pc = "stamp" /\ me.ev = "indeterminate")
    BY <2>3
  <2>5. attempt'[s].state = ev /\ IsTask(s)' = IsTask(s)
    BY <1>1, <2>2, <2>3 DEF TypeOK, IsTask, ParentMoves
  <2>6. \A x \in Process : x.pc \notin {} /\ ProcSound(s, x) => ProcSound(s, x)'
    BY <1>1, <1>2, <2>1, <2>5 DEF ProcSound, Over, Settled
  <2>7. ProcSound(s, me)' /\ \A D \in Classes : me.pc \notin D
    BY <2>1, <2>4, <2>5 DEF ProcSound, Classes, Sending, Cancelling, Forcing, Settling, Receipts
  <2>8. Moved(s)
    <3>1. {} = {}
      OBVIOUS
    <3> QED BY <1>1, <2>4, <2>6, <2>7, <3>1, Turned DEF Moved
  <2>9. /\ IsTask(s) \/ session[s].state # "none"
        /\ attempt[s].state \notin Settled
        /\ attempt[s].state = "claimed" => attempt[s].owned
    BY <1>1, <1>2 DEF StepInv, Slotted, Settled, Physical
  <2>10. /\ ev = "succeeded" => job[s].state = "success" /\ row.owned
         /\ ev = "failed" => job[s].state = "failure"
         /\ ev = "cancelled" => job[s].state = "cancelled"
    BY <1>2, <2>1, <2>2, <2>9 DEF Decision, Settled
  <2>11. ev \notin {"none", "rejected", "confirmed", "claimed"}
    BY <2>1 DEF Settled
  <2> QED BY <1>1, <2>1, <2>2, <2>3, <2>8, <2>9, <2>10, <2>11, SameJob, AttemptKeeps
<1>3. ASSUME NEW pc \in {"settleUnclaimed", "compare"}, Keep(s, p, pc), Rest(s), parent' = parent
      PROVE  Inv'
  BY <1>1, <1>3, SettleWalk DEF Settling
<1> QED BY <1>2, <1>3 DEF SettleClaimed, SettleUnclaimed, MaySettleUnclaimed, Rest

-----------------------------------------------------------------------------
(* Steps that write the other rows *)

\* The rows of the Run, the cancellation, the receipt, the job and the counts are written for
\* step s alone, and keep their types.
Written(s) ==
    /\ run' = [run EXCEPT ![s] = run'[s]] /\ run'[s] \in {"active", "terminal"}
    /\ cancel' = [cancel EXCEPT ![s] = cancel'[s]] /\ cancel'[s] \in CancelState
    /\ saga' = [saga EXCEPT ![s] = saga'[s]] /\ saga'[s] \in Receipts
    /\ job' = [job EXCEPT ![s] = job'[s]] /\ job'[s] \in Job
    /\ hist' = [hist EXCEPT ![s] = hist'[s]] /\ hist'[s] \in Counts

\* Such a write keeps the invariant, if a terminal Run stays so, a job changes only while the
\* attempt says nothing of it that could become wrong, and a receipt that says succeeded is
\* of a step that is over.
LEMMA RowsKeep ==
  ASSUME Inv, NEW s \in Steps, UNCHANGED <<session, attempt>>, ParentMoves(s), Moved(s),
         Written(s), Posted(s)',
         run[s] = "terminal" => run'[s] = "terminal",
         \/ job'[s].state = job[s].state
         \/ /\ attempt[s].state \notin {"none", "rejected"} \cup Settled
            /\ job'[s].state # "none" /\ job[s].state # "success",
         saga'[s] = "succeeded" => Over(s)
  PROVE  Inv'
<1>0. TypeOK /\ Typed(s) /\ StepInv(s) /\ IsTask(s)' = IsTask(s)
  BY TypedRows DEF Inv, ParentMoves, IsTask
<1>1. Only(s)
  BY <1>0 DEF Only, ParentMoves, Written, Moved, TypeOK
<1>2. Typed(s)'
  BY <1>0 DEF Typed, ParentMoves, Written, Moved
<1>3. Slotted(s)'
  BY <1>0 DEF StepInv, Slotted, Occupies, Active, Typed, Written
<1>4. Physical(s)'
  <2>1. OutcomeIsPhysical(s)'
    BY <1>0 DEF StepInv, Physical, OutcomeIsPhysical, ParentMoves, Settled
  <2>2. HasCandidate(s)' = HasCandidate(s) /\ Over(s)' = Over(s)
    BY DEF HasCandidate, Over
  <2> QED BY <1>0, <2>1, <2>2 DEF StepInv, Physical
<1>5. \A t \in Steps \ {s} : Occupies(s)' /\ Occupies(t) => session'[s].slot # session[t].slot
  BY DEF Inv, Distinct, Occupies
<1> QED BY <1>1, <1>2, <1>3, <1>4, <1>5, Assemble DEF StepInv, Moved

\* The claim, whose answer may be lost.
LEMMA ClaimKeeps ==
  ASSUME Inv, NEW s \in Steps, Claim(s)
  PROVE  Inv'
<1>1. /\ TypeOK /\ StepInv(s) /\ attempt[s] \in AttemptRow /\ job[s] \in Job
      /\ parent' = parent /\ proc' = proc /\ UNCHANGED <<run, session, cancel, saga, hist>>
  BY DEF Inv, Claim, TypeOK
<1>2. JobStays(s)
  <2> DEFINE claim == IF MayClaim(s) \/ AlreadyClaimed(s) THEN "none" ELSE "unmatched"
             row == [job[s] EXCEPT !.claim = claim]
  <2>1. claim \in {"none", "sent", "unmatched"}
    OBVIOUS
  <2>2. job' = [job EXCEPT ![s] = row]
    BY <1>1 DEF Claim, TypeOK
  <2> HIDE DEF claim
  <2>3. row \in Job /\ row.state = job[s].state
    BY <1>1, <2>1 DEF Job
  <2> HIDE DEF row
  <2> QED BY <1>1, <2>2, <2>3 DEF JobStays, TypeOK
<1>3. CASE MayClaim(s)
  <2> DEFINE row == [attempt[s] EXCEPT !.state = "claimed", !.owned = TRUE]
  <2>1. attempt' = [attempt EXCEPT ![s] = row]
    BY <1>1, <1>3 DEF Claim
  <2>2. row \in AttemptRow /\ row.state = "claimed" /\ row.owned
    BY <1>1 DEF AttemptRow, AttemptState
  <2> HIDE DEF row
  <2>3. attempt[s].state = "confirmed" /\ attempt'[s].state = "claimed"
    BY <1>1, <1>3, <2>1, <2>2 DEF MayClaim, TypeOK
  <2>4. job[s].state # "none"
    BY <1>1, <2>3 DEF StepInv, Physical, HasCandidate
  <2>5. \A x \in Process : ProcSound(s, x) => ProcSound(s, x)'
    BY <1>1, <1>2, <2>3 DEF ProcSound, Over, JobStays, Settled, IsTask
  <2>6. Moved(s)
    BY <1>1, <2>5, Unturned DEF Moved
  <2>7. attempt[s].state \notin Settled /\ session[s].state # "terminated"
        /\ (IsTask(s) \/ session[s].state # "none")
    BY <1>1, <2>3 DEF StepInv, Slotted, Settled
  <2> QED BY <1>1, <1>2, <2>1, <2>2, <2>4, <2>6, <2>7, ParentStays, AttemptKeeps
<1>4. CASE ~MayClaim(s)
  <2>1. attempt' = attempt
    BY <1>4 DEF Claim
  <2>2. \A x \in Process : ProcSound(s, x) => ProcSound(s, x)'
    BY <1>1, <1>2, <2>1 DEF ProcSound, Over, JobStays, IsTask
  <2>3. Moved(s)
    BY <1>1, <2>2, Unturned DEF Moved
  <2>4. Written(s) /\ run'[s] = run[s] /\ job'[s].state = job[s].state
    BY <1>1, <1>2 DEF Written, JobStays, TypeOK
  <2>5. Posted(s)' /\ (saga'[s] = "succeeded" => Over(s))
    BY <1>1, <2>1 DEF StepInv, Posted, Physical
  <2> QED BY <1>1, <2>1, <2>3, <2>4, <2>5, ParentStays, RowsKeep
<1> QED BY <1>3, <1>4

\* The result of a Task.
LEMMA TaskResultKeeps ==
  ASSUME Inv, NEW s \in Steps, TaskResult(s)
  PROVE  Inv'
<1>1. /\ TypeOK /\ StepInv(s) /\ attempt[s] \in AttemptRow /\ attempt[s].state = "claimed"
      /\ parent' = parent /\ job' = job /\ proc' = proc /\ IsTask(s)
      /\ UNCHANGED <<run, session, cancel, saga, hist>>
  BY DEF Inv, TaskResult, TypeOK
<1> DEFINE row == [attempt[s] EXCEPT !.output = TRUE]
<1>2. attempt' = [attempt EXCEPT ![s] = row]
  BY <1>1 DEF TaskResult, TypeOK
<1>3. row \in AttemptRow /\ row.state = "claimed" /\ row.owned = attempt[s].owned
  BY <1>1 DEF AttemptRow
<1> HIDE DEF row
<1>4. attempt'[s].state = attempt[s].state
  BY <1>1, <1>2, <1>3 DEF TypeOK
<1>5. \A x \in Process : ProcSound(s, x) => ProcSound(s, x)'
  BY <1>1, <1>4 DEF ProcSound, Over, IsTask
<1>6. Moved(s)
  BY <1>1, <1>5, Unturned DEF Moved
<1>7. row.owned /\ job[s].state # "none" /\ session[s].state # "terminated"
  BY <1>1, <1>3 DEF StepInv, Physical, HasCandidate, Slotted
<1>8. attempt[s].state \notin Settled
  BY <1>1 DEF Settled
<1> QED BY <1>1, <1>2, <1>3, <1>6, <1>7, <1>8, SameJob, ParentStays, AttemptKeeps

\* The POST of the dispatch.
LEMMA PostKeeps ==
  ASSUME Inv, NEW s \in Steps, NEW d \in Dispatchers, Post(s, d)
  PROVE  Inv'
<1>1. /\ TypeOK /\ d \in Procs /\ proc[s][d].pc = "post" /\ StepInv(s)
      /\ ProcSound(s, proc[s][d]) /\ job[s] \in Job /\ hist[s] \in Counts
      /\ UNCHANGED <<run, parent, session, attempt, cancel, saga>>
  BY DEF Inv, Post, At, Procs, StepInv, Sound, TypeOK
<1>2. PICK ev \in {"confirmed", "rejected", "dispatch_unknown"}, made \in BOOLEAN,
           sent \in BOOLEAN :
          /\ made => sent
          /\ ev = "confirmed" => made
          /\ ev = "rejected" => ~made /\ sent
          /\ hist' = [hist EXCEPT ![s].posts = IF sent THEN Twice(hist[s].posts) ELSE @]
          /\ job' = IF made THEN [job EXCEPT ![s].state = "queued"] ELSE job
          /\ Learn(s, d, "record", ev)
  BY DEF Post
<1>3. /\ attempt[s].state = "created" /\ hist[s].posts = 0 /\ job[s].state = "none"
      /\ IsTask(s) \/ session[s].state # "none"
  BY <1>1 DEF ProcSound, Sending
<1>4. /\ job' = [job EXCEPT ![s] = job'[s]] /\ job'[s] \in Job
      /\ made => job'[s].state # "none"
      /\ ~made => job'[s].state = "none"
  <2>1. CASE made
    <3> DEFINE row == [job[s] EXCEPT !.state = "queued"]
    <3>1. job' = [job EXCEPT ![s] = row]
      BY <1>1, <1>2, <2>1 DEF TypeOK
    <3>2. row \in Job /\ row.state = "queued"
      BY <1>1 DEF Job, Live
    <3> HIDE DEF row
    <3> QED BY <1>1, <2>1, <3>1, <3>2 DEF TypeOK
  <2>2. CASE ~made
    BY <1>1, <1>2, <1>3, <2>2 DEF TypeOK
  <2> QED BY <2>1, <2>2
<1>5. /\ hist' = [hist EXCEPT ![s] = hist'[s]] /\ hist'[s] \in Counts
      /\ hist'[s].posts \in {0, 1} /\ hist'[s].cancels = hist[s].cancels
      /\ hist'[s].forces = hist[s].forces
  <2> DEFINE n == IF sent THEN 1 ELSE 0
             row == [hist[s] EXCEPT !.posts = n]
  <2>1. hist' = [hist EXCEPT ![s] = row]
    BY <1>1, <1>2, <1>3 DEF TypeOK, Twice
  <2>2. n \in {0, 1}
    OBVIOUS
  <2> HIDE DEF n
  <2>3. /\ row \in Counts /\ row.posts = n /\ row.cancels = hist[s].cancels
        /\ row.forces = hist[s].forces
    BY <1>1, <2>2 DEF Counts
  <2> HIDE DEF row
  <2> QED BY <1>1, <2>1, <2>2, <2>3 DEF TypeOK
<1>6. PICK me \in Process : Become(s, d, me) /\ me.pc = "record" /\ me.ev = ev
  BY <1>1, <1>2, LearnMe DEF PCs, Evidence
<1>7. ProcSound(s, me)'
  BY <1>1, <1>2, <1>3, <1>4, <1>6 DEF ProcSound, Sending, Cancelling, Forcing, Settling, IsTask
<1>8. \A x \in Process : x.pc \notin Sending /\ ProcSound(s, x) => ProcSound(s, x)'
  <2>1. Decision(job[s].state) \notin Settled
    BY <1>3 DEF Decision, Settled
  <2> QED BY <1>1, <1>3, <1>5, <2>1
          DEF ProcSound, Sending, Over, IsTask
<1>9. Sending \in Classes /\ proc[s][d].pc \in Sending
  BY <1>1 DEF Classes, Sending
<1>10. \A D \in Classes : me.pc \in D => proc[s][d].pc \in D
  BY <1>6, <1>9 DEF Classes, Sending, Cancelling, Forcing
<1>11. Moved(s)
  BY <1>1, <1>6, <1>7, <1>8, <1>9, <1>10, Turned DEF Moved
<1>12. Written(s) /\ run'[s] = run[s]
  BY <1>1, <1>4, <1>5 DEF Written, TypeOK
<1>13. Posted(s)' /\ (saga'[s] = "succeeded" => Over(s))
  BY <1>1, <1>3, <1>5 DEF StepInv, Posted, Physical
<1>14. \/ job'[s].state = job[s].state
       \/ /\ attempt[s].state \notin {"none", "rejected"} \cup Settled
          /\ job'[s].state # "none" /\ job[s].state # "success"
  BY <1>3, <1>4 DEF Settled
<1> QED BY <1>1, <1>11, <1>12, <1>13, <1>14, ParentStays, RowsKeep

\* The receipt is claimed, or its answer is stamped.
LEMMA SagaKeeps ==
  ASSUME Inv, NEW s \in Steps, NEW r \in Requests, CompensateBegin(s, r) \/ Stamp(s, r)
  PROVE  Inv'
<1>1. /\ TypeOK /\ r \in Procs /\ StepInv(s) /\ ProcSound(s, proc[s][r])
      /\ UNCHANGED <<run, parent, session, attempt, cancel, job, hist>>
  BY DEF Inv, CompensateBegin, Stamp, Procs, StepInv, Sound
<1>2. ASSUME NEW st \in Receipts, st = "succeeded" => Over(s),
             saga' = [saga EXCEPT ![s] = st],
             proc' = proc \/ \E me \in Process : Become(s, r, me) /\ me.pc \in Quiet
      PROVE  Inv'
  <2>1. saga'[s] = st /\ Written(s) /\ run'[s] = run[s] /\ job'[s] = job[s]
    BY <1>1, <1>2 DEF Written, TypeOK
  <2>2. \A x \in Process : x.pc \notin {} /\ ProcSound(s, x) => ProcSound(s, x)'
    BY <1>1 DEF ProcSound, Over, IsTask
  <2>3. Moved(s)
    <3>1. CASE proc' = proc
      BY <2>2, <3>1, Unturned DEF Moved
    <3>2. ASSUME NEW me \in Process, Become(s, r, me), me.pc \in Quiet PROVE Moved(s)
      <4>1. ProcSound(s, me)' /\ \A D \in Classes : me.pc \notin D
        BY <3>2, QuietSound
      <4>2. {} = {}
        OBVIOUS
      <4> QED BY <1>1, <2>2, <3>2, <4>1, <4>2, Turned DEF Moved
    <3> QED BY <1>2, <3>1, <3>2
  <2>4. Posted(s)'
    BY <1>1 DEF StepInv, Posted
  <2> QED BY <1>1, <1>2, <2>1, <2>3, <2>4, ParentStays, RowsKeep
<1>3. CASE Stamp(s, r)
  <2>1. \E me \in Process : Become(s, r, me) /\ me.pc \in Quiet
    BY <1>1, <1>3, StopMe DEF Stamp, Quiet, PCs, Sending, Cancelling, Forcing, Settling
  <2>2. /\ proc[s][r].ev \in Receipts /\ (proc[s][r].ev = "succeeded" => Over(s))
        /\ saga[s] \in Receipts /\ (saga[s] = "succeeded" => Over(s))
    BY <1>1, <1>3 DEF Stamp, At, ProcSound, TypeOK, StepInv, Physical
  <2>3. \/ saga' = [saga EXCEPT ![s] = proc[s][r].ev]
        \/ saga' = [saga EXCEPT ![s] = saga[s]]
    BY <1>3 DEF Stamp
  <2> QED BY <1>2, <2>1, <2>2, <2>3
<1>4. CASE CompensateBegin(s, r)
  <2>1. CASE session[s].state = "terminated" /\ Go(s, r, "told") /\ saga' = saga
    <3>1. PICK me \in Process : Become(s, r, me) /\ me.pc = "told"
      BY <1>1, <2>1, GoMe DEF PCs
    <3>2. WalksTo(s, r, me)
      BY <2>1, <3>1 DEF WalksTo, ProcSound, Classes, Sending, Cancelling, Forcing, Settling, Over
    <3> QED BY <1>1, <2>1, <3>2, ParentStays, WalkKeeps DEF Rest
  <2>2. CASE saga' = [saga EXCEPT ![s] = "uncleared"] /\ proc' = proc
    BY <1>2, <2>2 DEF Receipts
  <2>3. CASE saga' = [saga EXCEPT ![s] = "running"] /\ Begin(s, r, "cancelRead", "saga")
    <3>1. "cancelRead" \in PCs /\ "cancelRead" \in Quiet /\ "saga" \in Kinds
      BY DEF Quiet, PCs, Kinds, RequestKinds, Sending, Cancelling, Forcing, Settling
    <3>2. \E me \in Process : Become(s, r, me) /\ me.pc \in Quiet
      BY <1>1, <2>3, <3>1, BeginMe
    <3>3. "running" \in Receipts
      BY DEF Receipts
    <3> QED BY <1>2, <2>3, <3>2, <3>3
  <2> QED BY <1>4, <2>1, <2>2, <2>3 DEF CompensateBegin
<1> QED BY <1>3, <1>4

\* The INSERT of the cancellation's row, and the UPDATE that claims the force.
LEMMA CancellationKeeps ==
  ASSUME Inv, NEW s \in Steps, NEW r \in Requests, Intent(s, r) \/ RequestForce(s, r)
  PROVE  Inv'
<1>1. /\ TypeOK /\ r \in Procs /\ StepInv(s)
      /\ UNCHANGED <<run, parent, session, attempt, saga, job, hist>>
  BY DEF Inv, Intent, RequestForce, Procs
<1>2. ASSUME NEW answer \in {"requested", "uncleared"}, Answer(s, r, answer), cancel' = cancel
      PROVE  Inv'
  BY <1>1, <1>2, AnswerWalk DEF Rest
<1>3. ASSUME NEW pc \in {"stopping", "cancelPost", "forcePost"}, Go(s, r, pc),
             NEW st \in {"requested", "forced"}, cancel' = [cancel EXCEPT ![s] = st],
             \/ st = "requested" /\ pc # "forcePost" /\ cancel[s] = "none"
             \/ st = "forced" /\ pc = "forcePost" /\ cancel[s] = "due"
      PROVE  Inv'
  <2>1. cancel'[s] = st /\ Written(s) /\ run'[s] = run[s] /\ job'[s] = job[s]
    BY <1>1, <1>3 DEF Written, TypeOK, CancelState
  <2>2. /\ cancel[s] = "none" => hist[s].cancels = 0
        /\ hist[s].forces = 0
    BY <1>1, <1>3 DEF StepInv, Posted
  <2>3. PICK me \in Process : Become(s, r, me) /\ me.pc = pc
    BY <1>1, <1>3, GoMe DEF PCs
  <2>4. ProcSound(s, me)'
    BY <1>1, <1>3, <2>1, <2>2, <2>3 DEF ProcSound, Sending, Cancelling, Forcing, Settling
  <2>5. \A x \in Process : x.pc \notin {} /\ ProcSound(s, x) => ProcSound(s, x)'
    BY <1>1, <1>3, <2>1 DEF ProcSound, Over, IsTask
  <2>6. \A q \in Procs : /\ pc \in Cancelling => proc[s][q].pc \notin Cancelling
                         /\ pc \in Forcing => proc[s][q].pc \notin Forcing
    BY <1>1, <1>3 DEF StepInv, Sound, ProcSound, Cancelling, Forcing
  <2>7. \A D \in Classes : me.pc \in D =>
            proc[s][r].pc \in D \/ \A q \in Procs : proc[s][q].pc \notin D
    <3>1. me.pc \notin Sending
      BY <1>3, <2>3 DEF Sending
    <3> QED BY <2>3, <2>6, <3>1 DEF Classes
  <2>8. Moved(s)
    <3>1. {} = {}
      OBVIOUS
    <3> QED BY <1>1, <2>3, <2>4, <2>5, <2>7, <3>1, Turned DEF Moved
  <2>9. Posted(s)' /\ (saga'[s] = "succeeded" => Over(s))
    BY <1>1, <1>3, <2>1 DEF StepInv, Posted, Physical
  <2> QED BY <1>1, <2>1, <2>8, <2>9, ParentStays, RowsKeep
<1>4. CASE Intent(s, r)
  BY <1>2, <1>3, <1>4 DEF Intent, MayIntend
<1>5. CASE RequestForce(s, r)
  BY <1>2, <1>3, <1>5 DEF RequestForce, MayForce
<1> QED BY <1>4, <1>5

\* The two cancellation POSTs.
LEMMA CancelPostKeeps ==
  ASSUME Inv, NEW s \in Steps, NEW r \in Requests, CancelPost(s, r)
  PROVE  Inv'
<1>1. /\ TypeOK /\ r \in Procs /\ StepInv(s) /\ ProcSound(s, proc[s][r]) /\ hist[s] \in Counts
      /\ proc[s][r].pc \in {"cancelPost", "forcePost"}
      /\ UNCHANGED <<run, parent, session, attempt, cancel, saga, job>>
  BY DEF Inv, CancelPost, Procs, StepInv, Sound, TypeOK, At
<1>2. \E me \in Process :
         /\ Become(s, r, me)
         /\ me.pc = "idle" \/ (me.pc = "stamp" /\ me.ev \in {"requested", "indeterminate"})
  <2>1. \/ Stop(s, r)
        \/ \E answer \in {"requested", "indeterminate"} : Learn(s, r, "stamp", answer)
    BY DEF CancelPost
  <2>2. CASE Stop(s, r)
    BY <1>1, <2>2, StopMe
  <2>3. ASSUME NEW answer \in {"requested", "indeterminate"}, Learn(s, r, "stamp", answer)
        PROVE  \E me \in Process :
                  /\ Become(s, r, me)
                  /\ me.pc = "stamp" /\ me.ev \in {"requested", "indeterminate"}
    BY <1>1, <2>3, LearnMe DEF PCs, Evidence, Receipts
  <2> QED BY <2>1, <2>2, <2>3
<1>3. PICK me \in Process :
         /\ Become(s, r, me)
         /\ me.pc = "idle" \/ (me.pc = "stamp" /\ me.ev \in {"requested", "indeterminate"})
  BY <1>2
<1>4. ProcSound(s, me)' /\ \A D \in Classes : me.pc \notin D
  BY <1>3 DEF ProcSound, Classes, Sending, Cancelling, Forcing, Settling, Receipts
<1>5. ASSUME NEW C \in {Cancelling, Forcing}, proc[s][r].pc \in C,
             NEW row \in Counts, hist' = [hist EXCEPT ![s] = row],
             row.posts = hist[s].posts,
             C = Cancelling => row.cancels = 1 /\ row.forces = hist[s].forces /\ cancel[s] # "none",
             C = Forcing => /\ row.forces = 1 /\ row.cancels = hist[s].cancels
                            /\ cancel[s] = "forced"
      PROVE  Inv'
  <2>1. hist'[s] = row /\ Written(s) /\ run'[s] = run[s] /\ job'[s] = job[s]
    BY <1>1, <1>5 DEF Written, TypeOK
  <2>2. \A x \in Process : x.pc \notin C /\ ProcSound(s, x) => ProcSound(s, x)'
    BY <1>1, <1>5, <2>1 DEF ProcSound, Over, IsTask
  <2>3. C \in Classes
    BY <1>5 DEF Classes
  <2>4. Moved(s)
    BY <1>1, <1>3, <1>4, <1>5, <2>2, <2>3, Turned DEF Moved
  <2>5. Posted(s)' /\ (saga'[s] = "succeeded" => Over(s))
    BY <1>1, <1>5, <2>1 DEF StepInv, Posted, Physical
  <2> QED BY <1>1, <2>1, <2>4, <2>5, ParentStays, RowsKeep
<1>6. Cancelling # Forcing
  BY DEF Cancelling, Forcing
<1>7. CASE proc[s][r].pc = "cancelPost"
  <2> DEFINE row == [hist[s] EXCEPT !.cancels = 1]
  <2>1. cancel[s] # "none" /\ hist[s].cancels = 0 /\ proc[s][r].pc \in Cancelling
    BY <1>1, <1>7 DEF ProcSound, Cancelling
  <2>2. hist' = [hist EXCEPT ![s] = row]
    BY <1>1, <1>7, <2>1 DEF CancelPost, At, Twice, TypeOK
  <2>3. /\ row \in Counts /\ row.cancels = 1 /\ row.posts = hist[s].posts
        /\ row.forces = hist[s].forces
    BY <1>1 DEF Counts
  <2> HIDE DEF row
  <2> QED BY <1>5, <1>6, <2>1, <2>2, <2>3
<1>8. CASE proc[s][r].pc = "forcePost"
  <2> DEFINE row == [hist[s] EXCEPT !.forces = 1]
  <2>1. cancel[s] = "forced" /\ hist[s].forces = 0 /\ proc[s][r].pc \in Forcing
    BY <1>1, <1>8 DEF ProcSound, Forcing
  <2>2. hist' = [hist EXCEPT ![s] = row]
    BY <1>1, <1>8, <2>1 DEF CancelPost, At, Twice, TypeOK
  <2>3. /\ row \in Counts /\ row.forces = 1 /\ row.posts = hist[s].posts
        /\ row.cancels = hist[s].cancels
    BY <1>1 DEF Counts
  <2> HIDE DEF row
  <2> QED BY <1>5, <1>6, <2>1, <2>2, <2>3
<1> QED BY <1>1, <1>7, <1>8

\* What GitHub does to a job: it starts, sends its claim, is refused it, and ends.
LEMMA JobKeeps ==
  ASSUME Inv, NEW s \in Steps, JobRuns(s) \/ JobEnds(s) \/ ClaimRefused(s)
  PROVE  Inv'
<1>1. /\ TypeOK /\ StepInv(s) /\ job[s] \in Job /\ parent' = parent /\ proc' = proc
      /\ UNCHANGED <<run, parent, session, attempt, cancel, saga, proc, hist>>
  BY DEF Inv, JobRuns, JobEnds, ClaimRefused, TypeOK
<1>2. ASSUME NEW row \in Job, job' = [job EXCEPT ![s] = row],
             \/ row.state = job[s].state
             \/ job[s].state \in Live /\ row.state \in Live \cup Ended
      PROVE  Inv'
  <2>1. job'[s] = row /\ Written(s) /\ run'[s] = run[s]
    BY <1>1, <1>2 DEF Written, TypeOK
  <2>2. job[s].state \in Live => /\ Decision(job[s].state) \notin Settled
                                 /\ row.state # "none" /\ job[s].state # "none"
    BY <1>2 DEF Decision, Live, Settled, Ended
  <2>3. \A x \in Process : ProcSound(s, x) => ProcSound(s, x)'
    BY <1>1, <1>2, <2>1, <2>2 DEF ProcSound, Over, IsTask
  <2>4. Moved(s)
    BY <1>1, <2>3, Unturned DEF Moved
  <2>5. job[s].state \in Live => /\ attempt[s].state \notin {"none", "rejected"} \cup Settled
                                 /\ job[s].state # "success"
    BY <1>1 DEF StepInv, Physical, OutcomeIsPhysical, Live, Settled
  <2>6. Posted(s)' /\ (saga'[s] = "succeeded" => Over(s))
    BY <1>1 DEF StepInv, Posted, Physical
  <2> QED BY <1>1, <1>2, <2>1, <2>2, <2>4, <2>5, <2>6, ParentStays, RowsKeep
<1>3. ASSUME NEW st \in {"running"} \cup Ended, job[s].state \in Live,
             job' = [job EXCEPT ![s].state = st]
      PROVE  Inv'
  <2> DEFINE row == [job[s] EXCEPT !.state = st]
  <2>1. job' = [job EXCEPT ![s] = row]
    BY <1>1, <1>3 DEF TypeOK
  <2>2. row \in Job /\ row.state = st /\ st \in Live \cup Ended
    BY <1>1, <1>3 DEF Job, Live
  <2> HIDE DEF row
  <2> QED BY <1>2, <1>3, <2>1, <2>2
<1>4. ASSUME NEW claim \in {"none", "sent"}, job' = [job EXCEPT ![s].claim = claim]
      PROVE  Inv'
  <2> DEFINE row == [job[s] EXCEPT !.claim = claim]
  <2>1. job' = [job EXCEPT ![s] = row]
    BY <1>1, <1>4 DEF TypeOK
  <2>2. row \in Job /\ row.state = job[s].state
    BY <1>1, <1>4 DEF Job
  <2> HIDE DEF row
  <2> QED BY <1>2, <2>1, <2>2
<1>5. CASE JobRuns(s)
  BY <1>3, <1>4, <1>5 DEF JobRuns, Live
<1>6. CASE JobEnds(s)
  BY <1>3, <1>6, EndAssumption DEF JobEnds, Ended
<1>7. CASE ClaimRefused(s)
  BY <1>4, <1>7 DEF ClaimRefused
<1> QED BY <1>5, <1>6, <1>7

\* The Run ends, by its last write or by workflow_cancel.
LEMMA RunEndKeeps ==
  ASSUME Inv, NEW s \in Steps, RunEnds(s) \/ \E r \in Requests : RunCancelled(s, r)
  PROVE  Inv'
<1>1. /\ TypeOK /\ StepInv(s)
      /\ UNCHANGED <<session, attempt, cancel, saga, job, hist>>
      /\ run' = [run EXCEPT ![s] = "terminal"]
  BY DEF Inv, RunEnds, RunCancelled
<1>2. Written(s) /\ run'[s] = "terminal" /\ job'[s] = job[s]
  BY <1>1 DEF Written, TypeOK
<1>3. ASSUME ParentMoves(s), Moved(s) PROVE Inv'
  <2>1. Posted(s)' /\ (saga'[s] = "succeeded" => Over(s))
    BY <1>1 DEF StepInv, Posted, Physical
  <2> QED BY <1>1, <1>2, <1>3, <2>1, RowsKeep
<1>4. ASSUME ParentMoves(s) PROVE \A x \in Process : ProcSound(s, x) => ProcSound(s, x)'
  BY <1>1, <1>4 DEF ProcSound, Over, IsTask, ParentMoves
<1>5. CASE RunEnds(s)
  <2>1. proc' = proc /\ ParentMoves(s)
    BY <1>1, <1>5, ToMoves DEF RunEnds
  <2>2. Moved(s)
    BY <1>4, <2>1, Unturned DEF Moved
  <2> QED BY <1>3, <2>1, <2>2
<1>6. ASSUME NEW r \in Requests, RunCancelled(s, r) PROVE Inv'
  <2>1. ParentMoves(s) /\ r \in Procs
    BY <1>1, <1>6, ParentStays DEF RunCancelled, Procs
  <2>2. CASE proc' = proc
    <3>1. Moved(s)
      BY <1>4, <2>1, <2>2, Unturned DEF Moved
    <3> QED BY <1>3, <2>1, <3>1
  <2>3. CASE Begin(s, r, "abandon", "gated")
    <3>1. "abandon" \in PCs /\ "abandon" \in Quiet /\ "gated" \in Kinds
      BY DEF Quiet, PCs, Kinds, RequestKinds, Sending, Cancelling, Forcing, Settling
    <3>2. PICK me \in Process : Become(s, r, me) /\ me.pc = "abandon"
      BY <1>1, <2>1, <2>3, <3>1, BeginMe
    <3>3. ProcSound(s, me)' /\ \A D \in Classes : me.pc \notin D
      BY <3>1, <3>2, QuietSound
    <3>4. {} = {} /\ \A x \in Process : x.pc \notin {} /\ ProcSound(s, x) => ProcSound(s, x)'
      BY <1>4, <2>1
    <3>5. Moved(s)
      BY <2>1, <3>2, <3>3, <3>4, Turned DEF Moved
    <3> QED BY <1>3, <2>1, <3>5
  <2> QED BY <1>6, <2>2, <2>3 DEF RunCancelled
<1> QED BY <1>1, <1>5, <1>6

\* A cancellation becomes old enough to be forced.
LEMMA DueKeeps ==
  ASSUME Inv, NEW s \in Steps, Elapses(s)
  PROVE  Inv'
<1>1. /\ TypeOK /\ StepInv(s) /\ proc' = proc
      /\ UNCHANGED <<run, parent, attempt, saga, job, hist>>
  BY DEF Inv, Elapses
<1>2. CASE session' # session
  BY <1>2, ElapsesKeeps
<1>3. CASE session' = session
  <2>1. cancel' = cancel \/ (cancel[s] = "requested" /\ cancel' = [cancel EXCEPT ![s] = "due"])
    BY <1>3 DEF Elapses
  <2>2. Written(s) /\ run'[s] = run[s] /\ job'[s] = job[s]
    BY <1>1, <2>1 DEF Written, TypeOK, CancelState
  <2>3. cancel'[s] = cancel[s] \/ (cancel[s] = "requested" /\ cancel'[s] = "due")
    BY <1>1, <2>1 DEF TypeOK
  <2>4. \A x \in Process : ProcSound(s, x) => ProcSound(s, x)'
    BY <1>1, <1>3, <2>3 DEF ProcSound, Over, IsTask
  <2>5. Moved(s)
    BY <1>1, <2>4, Unturned DEF Moved
  <2>6. Posted(s)' /\ (saga'[s] = "succeeded" => Over(s))
    BY <1>1, <2>3 DEF StepInv, Posted, Physical
  <2> QED BY <1>1, <1>3, <2>2, <2>5, <2>6, ParentStays, RowsKeep
<1> QED BY <1>2, <1>3

-----------------------------------------------------------------------------
(* The invariant holds *)

\* It holds when nothing has begun.
LEMMA InitHolds == Init => Inv
<1> SUFFICES ASSUME Init PROVE Inv
  OBVIOUS
<1>1. PICK type \in [Steps -> Types] :
         parent = [s \in Steps |-> [type |-> type[s], pc |-> "begin", by |-> NoStep, i |-> 0,
                                    result |-> "none"]]
  BY DEF Init
<1>2. /\ run \in [Steps -> {"active", "terminal"}]
      /\ session \in [Steps -> SessionRow] /\ attempt \in [Steps -> AttemptRow]
      /\ cancel \in [Steps -> CancelState] /\ saga \in [Steps -> Receipts]
  BY DEF Init, SessionRow, SessionState, AttemptRow, AttemptState, CancelState, Receipts
<1>3. job \in [Steps -> Job] /\ hist \in [Steps -> Counts]
  BY DEF Init, Job, Counts
<1>4. proc \in [Steps -> [Procs -> Process]]
  <2>1. Idle \in Process
    BY DEF Idle, Process, PCs, Kinds, Evidence, CancelState
  <2> QED BY <2>1 DEF Init
<1>5. parent \in [Steps -> Place]
  BY <1>1, PollAssumption DEF Place, NoStep
<1>6. ASSUME NEW s \in Steps PROVE StepInv(s)
  <2>1. \A p \in Procs : proc[s][p].pc = "idle"
    BY DEF Init, Idle
  <2>2. Sound(s) /\ Unique(s)
    BY <2>1 DEF Sound, ProcSound, Unique, Apart, Sending, Cancelling, Forcing, Settling
  <2>3. /\ run[s] = "active" /\ session[s].state = "none" /\ attempt[s].state = "none"
        /\ cancel[s] = "none" /\ saga[s] = "none" /\ job[s].state = "none"
        /\ hist[s].posts = 0 /\ hist[s].cancels = 0 /\ hist[s].forces = 0
        /\ parent[s].result = "none"
    BY <1>1 DEF Init
  <2>4. Posted(s) /\ Slotted(s)
    BY <2>3 DEF Posted, Slotted, Occupies
  <2>5. Physical(s)
    BY <2>3 DEF Physical, OutcomeIsPhysical, HasCandidate, Settled
  <2> QED BY <2>2, <2>4, <2>5 DEF StepInv
<1>7. Distinct
  BY DEF Init, Distinct, Occupies
<1> QED BY <1>2, <1>3, <1>4, <1>5, <1>6, <1>7 DEF Inv, TypeOK

\* Every step keeps it.
LEMMA NextKeeps == Inv /\ [Next]_vars => Inv'
<1> SUFFICES ASSUME Inv, [Next]_vars PROVE Inv'
  OBVIOUS
<1>1. CASE UNCHANGED vars
  <2>1. TypeOK' /\ Distinct'
    BY <1>1 DEF vars, Inv, TypeOK, Distinct, Occupies
  <2>2. ASSUME NEW s \in Steps PROVE StepInv(s)'
    <3>1. StepInv(s)
      BY DEF Inv
    <3>2. Sound(s)' /\ Unique(s)' /\ Posted(s)'
      BY <1>1, <3>1 DEF vars, StepInv, Sound, ProcSound, Unique, Apart, Posted, IsTask, Over
    <3>3. Physical(s)' /\ Slotted(s)'
      BY <1>1, <3>1 DEF vars, StepInv, Physical, OutcomeIsPhysical, HasCandidate, Over, IsTask,
                        Slotted, Occupies, Active
    <3> QED BY <3>2, <3>3 DEF StepInv
  <2> QED BY <2>1, <2>2 DEF Inv
<1>2. ASSUME NEW s \in Steps, RunStep(s) PROVE Inv'
  BY <1>2, RunWrites, TurnsKeep, RunEndKeeps DEF RunStep
<1>3. ASSUME NEW s \in Steps,
             \/ Claim(s) \/ ClaimRefused(s) \/ TaskResult(s) \/ JobRuns(s) \/ JobEnds(s)
             \/ StepTimesOut(s) \/ Replay(s) \/ Elapses(s) \/ \E p \in Procs : Dies(s, p)
      PROVE  Inv'
  BY <1>3, ClaimKeeps, TaskResultKeeps, JobKeeps, FaultsKeep, DueKeeps
<1>4. ASSUME NEW s \in Steps, NEW d \in Dispatchers, Dispatch(s, d) PROVE Inv'
  BY <1>4, EnterKeeps, ReserveKeeps, RegisterKeeps, RefuseKeeps, PostKeeps, RecordKeeps
     DEF Dispatch
<1>5. ASSUME NEW s \in Steps, NEW p \in Requests \cup {Check}, Reconcile(s, p) PROVE Inv'
  BY <1>5, InspectKeeps, SettleKeeps, CompareKeeps, ReleaseKeeps DEF Reconcile
<1>6. ASSUME NEW s \in Steps, NEW r \in Requests, Cancellation(s, r) PROVE Inv'
  BY <1>6, CancelReadKeeps, CancelInspectKeeps, CancellationKeeps, StoppingKeeps,
     CancelPostKeeps, SagaKeeps DEF Cancellation
<1>7. ASSUME NEW s \in Steps, NEW r \in Requests, ReadyRequest(s, r) \/ Admission(s, r)
      PROVE  Inv'
  BY <1>7, BeginsKeep, ReadsKeep, RequestsWrite DEF ReadyRequest, Admission
<1>8. ASSUME NEW s \in Steps, NEW r \in Requests,
             \/ StatusBegin(s, r) \/ Watch(s, r) \/ CancelBegin(s, r) \/ CompensateBegin(s, r)
             \/ RunCancelled(s, r) \/ Abandon(s, r)
      PROVE  Inv'
  BY <1>8, BeginsKeep, WatchKeeps, SagaKeeps, RunEndKeeps, RequestsWrite
<1> QED BY <1>1, <1>2, <1>3, <1>4, <1>5, <1>6, <1>7, <1>8 DEF Next

\* The inductive invariant of the protocol.
LEMMA InvHolds == Spec => []Inv
BY InitHolds, NextKeeps, PTL DEF Spec

-----------------------------------------------------------------------------
(* Safety *)

\* The rows keep their types.
THEOREM GitHubTypeCorrect == Spec => []TypeOK
<1>1. Inv => TypeOK
  BY DEF Inv
<1> QED BY <1>1, InvHolds, PTL

\* A Session whose job may be alive occupies its slot.
LEMMA CoveredByInv == Inv => SlotCoversJob
<1> SUFFICES ASSUME Inv, NEW s \in Sessions, MayExist(s) PROVE Occupies(s)
  BY DEF SlotCoversJob
<1>1. s \in Steps /\ ~IsTask(s) /\ StepInv(s)
  BY DEF Inv, Sessions
<1>2. CASE job[s].state \in Live
  BY <1>1, <1>2 DEF StepInv, Slotted, Physical, OutcomeIsPhysical, Occupies, Live, Settled
<1>3. ASSUME NEW d \in Dispatchers, At(s, d, "post") PROVE Occupies(s)
  <2>1. ProcSound(s, proc[s][d]) /\ proc[s][d].pc = "post"
    BY <1>1, <1>3 DEF StepInv, Sound, Procs, At
  <2>2. attempt[s].state = "created" /\ session[s].state # "none"
    BY <1>1, <2>1 DEF ProcSound, Sending
  <2> QED BY <1>1, <2>2 DEF StepInv, Slotted, Occupies, Settled
<1> QED BY <1>2, <1>3 DEF MayExist

\* No release frees the slot of a job that may be alive: not run() after a rejected dispatch or
\* a settled attempt, not a status, the watch or a cancellation.
THEOREM SlotsCoverJobs == Spec => []SlotCoversJob
BY InvHolds, CoveredByInv, PTL

\* There are never more Session jobs that may be alive than slots, and each has its own.
THEOREM QuotaIsPhysical == Spec => []PhysicalQuota
<1>1. ASSUME Inv PROVE PhysicalQuota
  <2> DEFINE live == {s \in Sessions : MayExist(s)}
             slot == [s \in live |-> session[s].slot]
  <2>1. \A s \in live : s \in Steps /\ Occupies(s) /\ session[s].slot \in Slots
    BY <1>1, CoveredByInv DEF SlotCoversJob, Inv, StepInv, Slotted, Sessions
  <2>2. \A s, t \in live : s # t => session[s].slot # session[t].slot
    BY <1>1, <2>1 DEF Inv, Distinct
  <2>3. slot \in Injection(live, Slots)
    BY <2>1, <2>2 DEF Injection, IsInjective
  <2> HIDE DEF slot, live
  <2>4. Cardinality(live) <= Cardinality(Slots)
    BY <2>3, FS_Injection, StepAssumption
  <2> QED BY <2>2, <2>4 DEF PhysicalQuota, live
<1> QED BY <1>1, InvHolds, PTL

\* One dispatch, one normal and one forced cancellation of a step at most, over any number of
\* executions and requests.
THEOREM PostsOnce == Spec => []OncePosted
<1>1. Inv => OncePosted
  BY DEF Inv, StepInv, Posted, OncePosted
<1> QED BY <1>1, InvHolds, PTL

\* No job of a step that is over is alive or on its way.
LEMMA OverIsQuiet ==
  ASSUME Inv, NEW s \in Steps, Over(s)
  PROVE  ~MayExist(s)
<1>1. StepInv(s)
  BY DEF Inv
<1>2. CASE session[s].state = "terminated"
  <2>1. ~IsTask(s) /\ ~Occupies(s)
    BY <1>1, <1>2 DEF StepInv, Slotted, Occupies
  <2> QED BY <2>1, CoveredByInv DEF SlotCoversJob, Sessions
<1>3. CASE attempt[s].state \in Settled
  <2>1. job[s].state \notin Live
    BY <1>1, <1>3 DEF StepInv, Physical, OutcomeIsPhysical, Live, Settled
  <2>2. ASSUME NEW d \in Dispatchers PROVE ~At(s, d, "post")
    <3>1. ProcSound(s, proc[s][d])
      BY <1>1 DEF StepInv, Sound, Procs
    <3> QED BY <1>3, <3>1 DEF ProcSound, Sending, Settled, At
  <2> QED BY <2>1, <2>2 DEF MayExist
<1> QED BY <1>2, <1>3 DEF Over

\* What rows, results and answers say of a job is what happened at GitHub.
THEOREM AnswersArePhysicallyTrue == Spec => []AnswersArePhysical
<1>1. ASSUME Inv, NEW s \in Steps PROVE OutcomeIsPhysical(s) /\ ToldOnlyWhenStopped(s)
  <2>1. StepInv(s)
    BY <1>1 DEF Inv
  <2>2. OutcomeIsPhysical(s) /\ (saga[s] = "succeeded" => Over(s))
    BY <2>1 DEF StepInv, Physical
  <2>3. ASSUME NEW r \in Requests, At(s, r, "told") PROVE Over(s)
    BY <2>1, <2>3 DEF StepInv, Sound, ProcSound, At, Procs
  <2> QED BY <1>1, <2>2, <2>3, OverIsQuiet DEF ToldOnlyWhenStopped
<1>2. Inv => AnswersArePhysical
  BY <1>1 DEF AnswersArePhysical
<1> QED BY <1>2, InvHolds, PTL

-----------------------------------------------------------------------------
(* No step of a job's history goes back *)

\* What a step may do once a cancellation is recorded, row by row: no claim and no result, no
\* ready and no revival, no admission.
AttemptFenced == \A s \in Steps : cancel[s] # "none" =>
    /\ ~attempt[s].owned => ~attempt'[s].owned
    /\ ~attempt[s].output => ~attempt'[s].output
SessionFenced == \A s \in Steps :
    /\ cancel[s] # "none" /\ session[s].state # "ready" => session'[s].state # "ready"
    /\ DoesNotRevive(s)
AdmissionFenced ==
    \/ proc' = proc
    \/ \E t \in Steps, p \in Procs, me \in Process :
          Become(t, p, me) /\ (me.pc = "granted" => cancel[t] = "none")

\* A change of the attempt's state alone is no claim and no result.
LEMMA StateIsFenced ==
  ASSUME TypeOK, NEW t \in Steps, NEW st, Attempt(t, st)
  PROVE  AttemptFenced
<1>1. \A s \in Steps : attempt'[s].owned = attempt[s].owned /\ attempt'[s].output = attempt[s].output
  BY DEF TypeOK, AttemptRow, Attempt
<1> QED BY <1>1 DEF AttemptFenced

\* No step makes a claim or a result after a cancellation.
LEMMA AttemptsFenced ==
  ASSUME TypeOK, Next
  PROVE  AttemptFenced
<1>1. CASE attempt' = attempt
  BY <1>1 DEF AttemptFenced
<1>2. CASE \E t \in Steps, st \in Evidence \cup AttemptState : Attempt(t, st)
  BY <1>2, StateIsFenced
<1>3. ASSUME NEW t \in Steps, Claim(t) PROVE AttemptFenced
  <2>1. attempt' = attempt \/ (cancel[t] = "none" /\ \A s \in Steps \ {t} : attempt'[s] = attempt[s])
    BY <1>3 DEF Claim, MayClaim, TypeOK
  <2> QED BY <1>1, <2>1 DEF AttemptFenced
<1>4. ASSUME NEW t \in Steps, TaskResult(t) PROVE AttemptFenced
  <2>1. cancel[t] = "none" /\ \A s \in Steps \ {t} : attempt'[s] = attempt[s]
    BY <1>4 DEF TaskResult, TypeOK
  <2> QED BY <2>1 DEF AttemptFenced
<1>5. ASSUME NEW t \in Steps, NEW d \in Dispatchers, Dispatch(t, d) PROVE AttemptFenced
  <2>1. proc[t][d].ev \in Evidence /\ "created" \in AttemptState
    BY DEF TypeOK, Process, Procs, AttemptState
  <2>2. \/ attempt' = attempt
        \/ \E st \in Evidence \cup AttemptState : Attempt(t, st)
    BY <1>5, <2>1 DEF Dispatch, BeginTask, BeginSession, Enter, Reserve, Register, Refuse, Post,
                      Record
  <2> QED BY <1>1, <1>2, <2>2
<1>6. ASSUME NEW t \in Steps, NEW p \in Requests \cup {Check}, Reconcile(t, p)
      PROVE  AttemptFenced
  <2>1. proc[t][p].ev \in Evidence
    BY DEF TypeOK, Process, Procs
  <2>2. attempt' = attempt \/ Attempt(t, proc[t][p].ev)
    BY <1>6 DEF Reconcile, Inspect, SettleClaimed, SettleUnclaimed, Compare, Release
  <2> QED BY <1>1, <1>2, <2>1, <2>2
<1>7. ASSUME NEW t \in Steps, NEW r \in Requests,
             \/ StatusBegin(t, r) \/ Watch(t, r) \/ CancelBegin(t, r) \/ CompensateBegin(t, r)
             \/ Cancellation(t, r) \/ ReadyRequest(t, r) \/ Admission(t, r)
             \/ RunCancelled(t, r) \/ Abandon(t, r)
      PROVE  attempt' = attempt
  BY <1>7 DEF StatusBegin, Watch, CancelBegin, CompensateBegin, Cancellation, CancelRead,
     CancelInspect, Intent, RequestForce, Stopping, CancelPost, Stamp, ReadyRequest, ReadyBegin,
     ReadyInspect, ReadyWrite, Admission, AdmitBegin, AdmitInspect, AdmitFinal, Answered,
     RunCancelled, Abandon
<1>8. ASSUME NEW t \in Steps,
             \/ RunStep(t) \/ ClaimRefused(t) \/ JobRuns(t) \/ JobEnds(t) \/ StepTimesOut(t)
             \/ Replay(t) \/ Elapses(t) \/ \E p \in Procs : Dies(t, p)
      PROVE  attempt' = attempt
  BY <1>8 DEF RunStep, Unreserve, Starting, Look, CheckBegin, Free, Wait, Giveup, RunEnds,
     ClaimRefused, JobRuns, JobEnds, StepTimesOut, Replay, Elapses, Dies
<1> QED BY <1>1, <1>3, <1>4, <1>5, <1>6, <1>7, <1>8 DEF Next

\* A write of the Session's row is fenced by its guard.
LEMMA RowIsFenced ==
  ASSUME TypeOK, NEW t \in Steps, NEW row, session' = [session EXCEPT ![t] = row],
         session[t].state = "terminated" => row.state = "terminated",
         session[t].state \in {"stopping", "uncertain"} =>
            row.state \in {"stopping", "terminated", session[t].state},
         row.state = "ready" => cancel[t] = "none" \/ session[t].state = "ready"
  PROVE  SessionFenced
<1>1. session'[t] = row /\ \A s \in Steps \ {t} : session'[s] = session[s]
  BY DEF TypeOK
<1> QED BY <1>1 DEF SessionFenced, DoesNotRevive

\* So is a change of its state.
LEMMA StateWrite ==
  ASSUME TypeOK, NEW t \in Steps, NEW st, Session(t, st),
         session[t].state = "terminated" => st = "terminated",
         session[t].state \in {"stopping", "uncertain"} => st \in {"stopping", "terminated"},
         st = "ready" => cancel[t] = "none"
  PROVE  SessionFenced
<1> DEFINE row == [session[t] EXCEPT !.state = st]
<1>1. session' = [session EXCEPT ![t] = row] /\ session[t] \in SessionRow
  BY DEF TypeOK, Session
<1>2. row.state = st
  BY <1>1 DEF SessionRow
<1> HIDE DEF row
<1> QED BY <1>1, <1>2, RowIsFenced

\* No step makes a Session ready after a cancellation, and none revives one.
LEMMA SessionsFenced ==
  ASSUME TypeOK, Next
  PROVE  SessionFenced
<1>1. CASE session' = session
  BY <1>1 DEF SessionFenced, DoesNotRevive
<1>2. ASSUME NEW t \in Steps, Session(t, "terminated") PROVE SessionFenced
  BY <1>2, StateWrite
<1>3. ASSUME NEW t \in Steps, RunStep(t) PROVE SessionFenced
  <2>1. CASE Unreserve(t) \/ Free(t)
    BY <1>1, <1>2, <2>1 DEF Unreserve, Free, ReleaseVerified
  <2>2. CASE Starting(t)
    <3>1. session' = session \/ (session[t].state = "queued" /\ Session(t, "starting"))
      BY <2>2 DEF Starting
    <3> QED BY <1>1, <3>1, StateWrite
  <2>3. CASE Giveup(t)
    <3>1. \/ session' = session
          \/ session[t].state \in {"queued", "starting"} /\ Session(t, "uncertain")
      BY <2>3 DEF Giveup
    <3> QED BY <1>1, <3>1, StateWrite
  <2>4. CASE Look(t) \/ CheckBegin(t) \/ Wait(t) \/ RunEnds(t)
    BY <1>1, <2>4 DEF Look, CheckBegin, Wait, RunEnds
  <2> QED BY <1>3, <2>1, <2>2, <2>3, <2>4 DEF RunStep
<1>4. ASSUME NEW t \in Steps, NEW d \in Dispatchers, Dispatch(t, d) PROVE SessionFenced
  <2>1. CASE Admissible(t) /\ session' = [session EXCEPT ![t] = [@ EXCEPT !.state = "queued",
                                                                   !.slot = LowestFree]]
    <3> DEFINE row == [session[t] EXCEPT !.state = "queued", !.slot = LowestFree]
    <3>1. session' = [session EXCEPT ![t] = row] /\ session[t] \in SessionRow
      BY <2>1 DEF TypeOK
    <3>2. row.state = "queued"
      BY <3>1 DEF SessionRow
    <3> HIDE DEF row
    <3> QED BY <2>1, <3>1, <3>2, RowIsFenced DEF Admissible
  <2>2. CASE session' = session
    BY <1>1, <2>2
  <2> QED BY <1>4, <2>1, <2>2 DEF Dispatch, BeginTask, BeginSession, Enter, Reserve, Register,
                                  Refuse, Post, Record
<1>5. ASSUME NEW t \in Steps, NEW p \in Requests \cup {Check}, Reconcile(t, p)
      PROVE  SessionFenced
  BY <1>1, <1>2, <1>5 DEF Reconcile, Inspect, SettleClaimed, SettleUnclaimed, Compare, Release,
                          ReleaseVerified
<1>6. ASSUME NEW t \in Steps, NEW r \in Requests,
             \/ StatusBegin(t, r) \/ Watch(t, r) \/ CancelBegin(t, r) \/ CompensateBegin(t, r)
             \/ Admission(t, r) \/ RunCancelled(t, r) \/ Abandon(t, r)
      PROVE  SessionFenced
  BY <1>1, <1>2, <1>6 DEF StatusBegin, Watch, CancelBegin, CompensateBegin, Admission, AdmitBegin,
     AdmitInspect, AdmitFinal, Answered, RunCancelled, Abandon
<1>7. ASSUME NEW t \in Steps, NEW r \in Requests, Cancellation(t, r) PROVE SessionFenced
  <2>1. CASE Stopping(t, r)
    <3>1. session' = session \/ (Occupies(t) /\ Session(t, "stopping"))
      BY <2>1 DEF Stopping
    <3> QED BY <1>1, <3>1, StateWrite DEF Occupies
  <2>2. CASE ~Stopping(t, r)
    BY <1>1, <1>7, <2>2 DEF Cancellation, CancelRead, CancelInspect, Intent, RequestForce,
                            CancelPost, Stamp
  <2> QED BY <2>1, <2>2
<1>8. ASSUME NEW t \in Steps, NEW r \in Requests, ReadyRequest(t, r) PROVE SessionFenced
  <2>1. session' = session \/ (MayBeReady(t) /\ Session(t, "ready"))
    BY <1>8 DEF ReadyRequest, ReadyBegin, ReadyInspect, ReadyWrite
  <2> QED BY <1>1, <2>1, StateWrite DEF MayBeReady
<1>9. ASSUME NEW t \in Steps, Elapses(t) PROVE SessionFenced
  <2>1. CASE session' = [session EXCEPT ![t].old = TRUE]
    <3> DEFINE row == [session[t] EXCEPT !.old = TRUE]
    <3>1. session' = [session EXCEPT ![t] = row] /\ session[t] \in SessionRow
      BY <2>1 DEF TypeOK
    <3>2. row.state = session[t].state
      BY <3>1 DEF SessionRow
    <3> HIDE DEF row
    <3> QED BY <3>1, <3>2, RowIsFenced
  <2> QED BY <1>1, <1>9, <2>1 DEF Elapses
<1>10. ASSUME NEW t \in Steps,
              \/ Claim(t) \/ ClaimRefused(t) \/ TaskResult(t) \/ JobRuns(t) \/ JobEnds(t)
              \/ StepTimesOut(t) \/ Replay(t) \/ \E p \in Procs : Dies(t, p)
       PROVE  session' = session
  BY <1>10 DEF Claim, ClaimRefused, TaskResult, JobRuns, JobEnds, StepTimesOut, Replay, Dies
<1> QED BY <1>1, <1>3, <1>4, <1>5, <1>6, <1>7, <1>8, <1>9, <1>10 DEF Next

\* A process that stops, answers, or goes anywhere but to an admission is granted nothing.
LEMMA PlainMove ==
  ASSUME TypeOK, NEW t \in Steps, NEW p \in Procs,
         \/ Stop(t, p)
         \/ \E pc \in PCs \ {"granted"} : Go(t, p, pc) \/ Keep(t, p, pc)
         \/ \E pc \in PCs \ {"granted"}, kind \in Kinds : Begin(t, p, pc, kind)
         \/ \E pc \in PCs \ {"granted"}, ev \in Evidence : Learn(t, p, pc, ev)
         \/ \E answer \in {"succeeded", "requested", "indeterminate", "uncleared"} :
               Answer(t, p, answer)
         \/ \E result \in {"held", "conflict", "settled"} : Reconciled(t, p, result)
  PROVE  AdmissionFenced
<1>1. ASSUME \E me \in Process : Become(t, p, me) /\ me.pc # "granted" PROVE AdmissionFenced
  BY <1>1 DEF AdmissionFenced
<1>2. CASE Stop(t, p)
  BY <1>1, <1>2, StopMe
<1>3. ASSUME NEW pc \in PCs \ {"granted"}, Go(t, p, pc) PROVE AdmissionFenced
  BY <1>1, <1>3, GoMe
<1>4. ASSUME NEW pc \in PCs \ {"granted"}, Keep(t, p, pc) PROVE AdmissionFenced
  BY <1>1, <1>4, KeepMe
<1>5. ASSUME NEW pc \in PCs \ {"granted"}, NEW kind \in Kinds, Begin(t, p, pc, kind)
      PROVE  AdmissionFenced
  BY <1>1, <1>5, BeginMe
<1>6. ASSUME NEW pc \in PCs \ {"granted"}, NEW ev \in Evidence, Learn(t, p, pc, ev)
      PROVE  AdmissionFenced
  BY <1>1, <1>6, LearnMe
<1>7. ASSUME NEW answer \in {"succeeded", "requested", "indeterminate", "uncleared"},
             Answer(t, p, answer)
      PROVE  AdmissionFenced
  BY <1>1, <1>7, AnswerMe
<1>8. ASSUME NEW result \in {"held", "conflict", "settled"}, Reconciled(t, p, result)
      PROVE  AdmissionFenced
  BY <1>1, <1>8, ReconciledMe
<1> QED BY <1>2, <1>3, <1>4, <1>5, <1>6, <1>7, <1>8

\* No admission is granted after a cancellation.
LEMMA AdmissionsFenced ==
  ASSUME TypeOK, Next
  PROVE  AdmissionFenced
<1>0. /\ PCs \ {"granted"} =
            {"idle", "reserve", "register", "refuse", "post", "record",
             "inspect", "settleClaimed", "settleUnclaimed", "compare", "release",
             "cancelRead", "cancelInspect", "intent", "force", "stopping", "repair",
             "cancelPost", "forcePost", "stamp", "readyInspect", "readyWrite", "admitInspect",
             "admitFinal", "told", "abandon"}
      /\ {"dispatch", "check", "status", "watch", "cancel", "force", "saga", "ready", "admit",
          "gated"} \subseteq Kinds
      /\ {"confirmed", "rejected", "dispatch_unknown", "requested", "indeterminate"} \cup Settled
            \subseteq Evidence
      /\ Dispatchers \cup Requests \cup {Check} = Procs
  BY DEF PCs, Kinds, RequestKinds, Evidence, Receipts, Procs
<1>1. CASE proc' = proc
  BY <1>1 DEF AdmissionFenced
<1>2. ASSUME NEW t \in Steps, NEW d \in Dispatchers, Dispatch(t, d) PROVE AdmissionFenced
  <2>1. CASE BeginTask(t, d) \/ BeginSession(t, d)
    BY <1>0, <1>1, <2>1, PlainMove DEF BeginTask, BeginSession, Enter
  <2>2. CASE Reserve(t, d) \/ Register(t, d)
    <3>1. \/ Stop(t, d)
          \/ \E pc \in PCs \ {"granted"} : Go(t, d, pc)
      BY <1>0, <2>2 DEF Reserve, Register, Return
    <3> QED BY <1>0, <3>1, PlainMove
  <2>3. CASE Refuse(t, d) \/ Post(t, d)
    <3>1. \E ev \in Evidence : Learn(t, d, "record", ev)
      BY <1>0, <2>3 DEF Refuse, Post
    <3> QED BY <1>0, <3>1, PlainMove
  <2>4. CASE Record(t, d)
    <3>1. Stop(t, d)
      BY <2>4 DEF Record, Return
    <3> QED BY <1>0, <3>1, PlainMove
  <2> QED BY <1>2, <2>1, <2>2, <2>3, <2>4 DEF Dispatch
<1>3. ASSUME NEW t \in Steps, NEW p \in Requests \cup {Check}, Reconcile(t, p)
      PROVE  AdmissionFenced
  <2>1. CASE Inspect(t, p)
    <3>1. ASSUME NEW seen \in Observed(t), Decision(seen) # "hold",
                 Learn(t, p, "settleClaimed", Decision(seen))
          PROVE  AdmissionFenced
      <4>1. Decision(seen) \in Evidence
        BY <1>0, <3>1, DecisionSound
      <4> QED BY <1>0, <3>1, <4>1, PlainMove
    <3>2. CASE \E result \in {"held", "conflict"} : Reconciled(t, p, result)
      BY <1>0, <3>2, PlainMove
    <3> QED BY <2>1, <3>1, <3>2 DEF Inspect
  <2>2. CASE SettleClaimed(t, p) \/ SettleUnclaimed(t, p) \/ Compare(t, p)
    <3>1. \/ \E result \in {"conflict", "settled"} : Reconciled(t, p, result)
          \/ \E pc \in PCs \ {"granted"} : Keep(t, p, pc)
      BY <1>0, <2>2 DEF SettleClaimed, SettleUnclaimed, Compare
    <3> QED BY <1>0, <3>1, PlainMove
  <2>3. CASE Release(t, p)
    <3>1. Stop(t, p) \/ Begin(t, p, "cancelRead", "cancel") \/ Answer(t, p, "succeeded")
      BY <2>3 DEF Release
    <3> QED BY <1>0, <3>1, PlainMove
  <2> QED BY <1>3, <2>1, <2>2, <2>3 DEF Reconcile
<1>4. ASSUME NEW t \in Steps, NEW r \in Requests,
             \/ StatusBegin(t, r) \/ Watch(t, r) \/ CancelBegin(t, r) \/ CompensateBegin(t, r)
             \/ RunCancelled(t, r) \/ Abandon(t, r) \/ ReadyRequest(t, r)
      PROVE  AdmissionFenced
  <2>1. \/ proc' = proc \/ Stop(t, r)
        \/ \E pc \in PCs \ {"granted"} : Go(t, r, pc)
        \/ \E pc \in PCs \ {"granted"}, kind \in Kinds : Begin(t, r, pc, kind)
    BY <1>0, <1>4 DEF StatusBegin, Watch, CancelBegin, CompensateBegin, RunCancelled, Abandon,
       ReadyRequest, ReadyBegin, ReadyInspect, ReadyWrite
  <2> QED BY <1>0, <1>1, <2>1, PlainMove
<1>5. ASSUME NEW t \in Steps, NEW r \in Requests, Admission(t, r) PROVE AdmissionFenced
  <2>1. \/ Stop(t, r)
        \/ \E pc \in PCs \ {"granted"} : Go(t, r, pc)
        \/ Begin(t, r, "admitInspect", "admit")
        \/ cancel[t] = "none" /\ Go(t, r, "granted")
    BY <1>0, <1>5 DEF Admission, AdmitBegin, AdmitInspect, AdmitFinal, Answered, FinalRead,
                      AdmitRead
  <2>2. CASE cancel[t] = "none" /\ Go(t, r, "granted")
    <3>1. r \in Procs /\ "granted" \in PCs
      BY <1>0 DEF PCs
    <3> QED BY <2>2, <3>1, GoMe DEF AdmissionFenced
  <2> QED BY <1>0, <2>1, <2>2, PlainMove
<1>6. ASSUME NEW t \in Steps, NEW r \in Requests, Cancellation(t, r) PROVE AdmissionFenced
  <2>1. CASE CancelRead(t, r)
    <3>1. CASE \E answer \in {"succeeded", "uncleared"} : Answer(t, r, answer)
      BY <1>0, <3>1, PlainMove
    <3>2. CASE Become(t, r, [proc[t][r] EXCEPT !.pc = "cancelInspect", !.seen = cancel[t]])
      <4> DEFINE me == [proc[t][r] EXCEPT !.pc = "cancelInspect", !.seen = cancel[t]]
      <4>1. proc[t][r] \in Process /\ cancel[t] \in CancelState /\ r \in Procs
        BY <1>0 DEF TypeOK
      <4>2. me \in Process /\ me.pc = "cancelInspect" /\ Become(t, r, me)
        BY <3>2, <4>1 DEF Process, PCs
      <4> HIDE DEF me
      <4> QED BY <4>1, <4>2 DEF AdmissionFenced
    <3> QED BY <2>1, <3>1, <3>2 DEF CancelRead
  <2>2. CASE CancelInspect(t, r) \/ Intent(t, r) \/ RequestForce(t, r) \/ Stopping(t, r)
    <3>1. \/ \E pc \in PCs \ {"granted"} : Go(t, r, pc)
          \/ \E answer \in {"requested", "indeterminate", "uncleared"} : Answer(t, r, answer)
      BY <1>0, <2>2 DEF CancelInspect, Intent, RequestForce, Stopping
    <3> QED BY <1>0, <3>1, PlainMove
  <2>3. CASE CancelPost(t, r) \/ Stamp(t, r)
    <3>1. Stop(t, r) \/ \E ev \in Evidence : Learn(t, r, "stamp", ev)
      BY <1>0, <2>3 DEF CancelPost, Stamp
    <3> QED BY <1>0, <3>1, PlainMove
  <2> QED BY <1>6, <2>1, <2>2, <2>3 DEF Cancellation
<1>7. ASSUME NEW t \in Steps, NEW p \in Procs, Dies(t, p) PROVE AdmissionFenced
  BY <1>7, PlainMove DEF Dies, Return
<1>8. ASSUME NEW t \in Steps, RunStep(t) PROVE AdmissionFenced
  <2>1. proc' = proc \/ Begin(t, Check, "inspect", "check")
    BY <1>8 DEF RunStep, Unreserve, Starting, Look, CheckBegin, Free, Wait, Giveup, RunEnds
  <2> QED BY <1>0, <1>1, <2>1, PlainMove
<1>9. ASSUME NEW t \in Steps,
             \/ Claim(t) \/ ClaimRefused(t) \/ TaskResult(t) \/ JobRuns(t) \/ JobEnds(t)
             \/ StepTimesOut(t) \/ Replay(t) \/ Elapses(t)
      PROVE  proc' = proc
  BY <1>9 DEF Claim, ClaimRefused, TaskResult, JobRuns, JobEnds, StepTimesOut, Replay, Elapses
<1> QED BY <1>1, <1>2, <1>3, <1>4, <1>5, <1>6, <1>7, <1>8, <1>9 DEF Next

\* A recorded cancellation fences the claim, the result, Ready and every device admission, and a
\* Session that was told to stop, gave up or ended does not come back.
THEOREM HistoryNeverReturns == Spec => SessionHistory
<1> DEFINE Stays == \A s \in Steps : CancelFences(s) /\ (s \in Sessions => DoesNotRevive(s))
<1>1. ASSUME TypeOK, [Next]_vars PROVE Stays
  <2>1. CASE UNCHANGED vars
    BY <2>1 DEF vars, CancelFences, DoesNotRevive, At
  <2>2. CASE Next
    <3>1. AttemptFenced /\ SessionFenced /\ AdmissionFenced
      BY <1>1, <2>2, AttemptsFenced, SessionsFenced, AdmissionsFenced
    <3>2. ASSUME NEW s \in Steps, NEW r \in Requests, cancel[s] # "none", ~At(s, r, "granted")
          PROVE  proc'[s][r].pc # "granted"
      <4>1. CASE proc' = proc
        BY <3>2, <4>1 DEF At
      <4>2. ASSUME NEW t \in Steps, NEW p \in Procs, NEW me \in Process, Become(t, p, me),
                   me.pc = "granted" => cancel[t] = "none"
            PROVE  proc'[s][r].pc # "granted"
        <5>1. proc'[s][r] = IF s = t /\ r = p THEN me ELSE proc[s][r]
          BY <1>1, <4>2 DEF TypeOK, Become, Procs
        <5> QED BY <3>2, <4>2, <5>1 DEF At
      <4> QED BY <3>1, <4>1, <4>2 DEF AdmissionFenced
    <3> QED BY <3>1, <3>2 DEF AttemptFenced, SessionFenced, CancelFences
  <2> QED BY <1>1, <2>1, <2>2
<1> HIDE DEF Stays
<1>2. Spec => [][Stays]_vars
  BY <1>1, GitHubTypeCorrect, PTL DEF Spec
<1> QED BY <1>2 DEF SessionHistory, Stays

===============================================================================
