---------------------------- MODULE RunStepsProofs ----------------------------
(***************************************************************************)
(* Proofs about RunSteps for every set of workloads and every limit.       *)
(*                                                                         *)
(* Basic ties the state to the plan the compiler stored for the accepted   *)
(* draft, says where a step of each kind can stand, and keeps what the     *)
(* cancellation call has seen.  Each action rewrites one record (Alone,    *)
(* Safe): it stays well formed, keeps its fence, and is newly fenced only  *)
(* where the INSERT of the fence was admitted (Reservable).  So a step     *)
(* whose cancellation is recorded, or whose Run has ended, is never fenced *)
(* again, and no step past its fence was fenced after a revocation.        *)
(* InLayers says that what is done is a union of the compiler's layers,    *)
(* which is why every wave of an accepted plan has room and none is empty. *)
(* Honest says what a record may claim: a success only of what was carried *)
(* out, a call only behind its fence, a gated step only with the approval. *)
(* Each action moves the records on (Follows, Repays), so every effect     *)
(* leaves once and every verdict that is settled stays.                    *)
(***************************************************************************)
EXTENDS RunSteps, PlanRulesProofs

-----------------------------------------------------------------------------
(* The types, and what each record of a step may hold.                      *)

PCs == {"idle", "begin", "prior", "discover", "reserve", "send", "reply", "poll",
        "gate", "decide", "consume", "listen", "kids", "put", "done"}

Rows == Open \cup Outcomes \cup {"cancelled"}
Checkpoints == {"?", "threw", "over"} \cup Outcomes
Picked == {"?", "yes", "no", "error", "frozen"}
Lates == {"no", "reserve", "send", "reply"}

StepState ==
    [pc : PCs, row : Rows, out : {"?"} \cup Outcomes, saved : Checkpoints,
     picked : Picked, items : Nat, at : Nat,
     fenced : BOOLEAN, acked : BOOLEAN, ghost : BOOLEAN, late : Lates,
     effect : {"untouched"} \cup Effects, over : BOOLEAN]

RunStates == {"draft", "rejected", "published", "queued", "running",
              "succeeded", "failed", "indeterminate", "cancelled"}

CompState ==
    [row : {"none", "running", "requested", "uncleared", "succeeded", "indeterminate"},
     effect : {"untouched"} \cup Effects, live : BOOLEAN,
     native : {"no", "reserve", "post", "record", "done"},
     fallback : {"no", "reserve", "post", "record", "done"}]

EngState(S) == [pc : {"top", "loop", "exec", "final", "throws", "over"},
                wave : SUBSET S, ctx : [S -> {"?"} \cup Outcomes]]

GateState == [state : {"closed", "open", "late"},
              request : {"none", "approved", "denied", "told"},
              decision : {"none", "approved", "denied"}]

EventState == [receipt : {"none", "e1", "e2"}, sent : BOOLEAN, native : {"none", "e1", "e2"},
               sender : [{"e1", "e2"} -> {"idle", "check", "refused", "told", "send"}]]

CancelState(S) == [pc : {"idle", "look", "fence", "mark", "terminate", "done"},
                   row : BOOLEAN, of : S \cup {<<>>},
                   told : {"nothing", "dispatched", "requested", "unverified"}]

TypeOK ==
    /\ run \in RunStates
    /\ eng \in EngState(Steps)
    /\ st \in [DOMAIN st -> StepState]
    /\ conn \in {"current", "revoked", "regained"}
    /\ gate \in GateState
    /\ evt \in EventState
    /\ up \in {"idle", "send", "refused", "record", "done"}
    /\ cx \in CancelState(DOMAIN st)
    /\ comp \in [DOMAIN comp -> CompState]
    /\ left \in [crashes : Nat, faults : Nat]

Published == run \notin {"draft", "rejected"}
Going == run \in {"queued", "running"}

\* Before publication nothing has happened; afterwards the plan is what the compiler stored.
Untouched ==
    /\ eng = Idle /\ st = <<>> /\ comp = <<>> /\ conn = "current" /\ up = "idle"
    /\ gate = [state |-> "closed", request |-> "none", decision |-> "none"]
    /\ evt.sender = [e \in {"e1", "e2"} |-> "idle"]
    /\ cx = [pc |-> "idle", row |-> FALSE, of |-> <<>>, told |-> "nothing"]

Origin == \E w \in Workloads :
    /\ work = [f \in DOMAIN w \ {"def"} |-> w[f]]
    /\ IF Published
       THEN /\ Accepts(w.def) /\ plan = Stored(w.def)
            /\ DOMAIN st = Keys(w.def) /\ Steps = Ids(w.def)
            /\ DOMAIN comp = {k \in Ids(w.def) : Step(w.def, k).undo}
       ELSE plan = w.def /\ Untouched

Controller(k) == Use(k) \in {"foreach", "while", "until"}
Outside == Mcp \cup Http \cup GitHub \cup (Providers \ {"litterbox"})

\* Where a step of each kind can be, and what its fence, its call and its memory say.
Fits(k, r) ==
    /\ r.pc \in {"begin", "kids", "listen"} => k \in Steps
    /\ r.pc = "prior" => Use(k) \in Providers \ {"litterbox"}
    /\ r.pc = "discover" => Use(k) \in Mcp \cup (Providers \ {"litterbox"})
    /\ r.pc \in {"reserve", "send", "reply"} => Use(k) \in Outside
    /\ r.pc = "poll" => Use(k) \in GitHub
    /\ r.pc \in {"gate", "decide", "consume"} => Gated(k) /\ Use(k) \in GitHub
    /\ r.pc = "listen" => Use(k) \in {"wait", "wait_event", "litterbox"}
    /\ r.pc = "kids" => Controller(k) /\ r.at >= 1
    /\ r.pc \in {"put", "done"} => r.out # "?"
    /\ r.saved = "over" => Controller(k)
    /\ r.saved = "threw" => Controller(k) \/ Use(k) \in GitHub
    /\ r.picked = "frozen" => Controller(k)
    /\ r.pc \in {"send", "reply", "poll"} => r.fenced /\ r.saved # "threw"
    /\ r.late # "no" => Use(k) \in GitHub
    /\ r.late \in {"send", "reply"} => r.fenced
    /\ r.effect # "untouched" => r.fenced
    /\ r.acked => r.fenced /\ Use(k) \in GitHub
    /\ r.fenced => Use(k) \in Mcp \cup Http \cup GitHub \cup Providers

Well(k, r) == r \in StepState /\ Fits(k, r)

\* The upload's step, and what the cancellation call has seen.
UploadFits ==
    up \in {"send", "record"} =>
        /\ \E k \in Steps : Use(k) = "litterbox"
        /\ st[FileStep].fenced

CancelFits ==
    /\ cx.pc # "idle" => cx.of \in DOMAIN st
    /\ cx.pc = "idle" => cx.told = "nothing" /\ ~cx.row
    /\ cx.pc \in {"look", "fence"} => Use(cx.of) \in Providers /\ (cx.row \/ ~Going)
    /\ cx.pc = "fence" => ~st[cx.of].fenced
    /\ cx.pc \in {"mark", "terminate"} => Use(cx.of) = "wait_event"
    /\ cx.told = "requested" =>
          \/ Use(cx.of) = "wait_event"
          \/ ~st[cx.of].fenced /\ (~Going \/ (Use(cx.of) \in Providers /\ cx.row))

StepsFit == \A k \in DOMAIN st : Fits(k, st[k])

Basic == TypeOK /\ Origin /\ StepsFit /\ UploadFits /\ CancelFits

\* One step at most is rewritten.
Alone(k) == /\ DOMAIN st' = DOMAIN st /\ st' = [j \in DOMAIN st |-> st'[j]]
            /\ \A j \in DOMAIN st \ {k} : st'[j] = st[j]

\* A record that may follow: well formed, its fence kept, a new fence only by the INSERT.
Safe(k, r) == /\ Well(k, r)
              /\ st[k].fenced => r.fenced
              /\ r.fenced => st[k].fenced \/ Reservable(k)

\* Rewriting one record leaves every other step as it was.
LEMMA BecomesAlone ==
  ASSUME NEW k \in DOMAIN st
  PROVE  \A r : Becomes(k, r) => Alone(k) /\ st'[k] = r
BY DEF Becomes, Alone

\* The plan of a published Run has everything the compiler guarantees.
LEMMA PlanFitsNow ==
  ASSUME Origin, Published
  PROVE  PlanFits(plan, Steps, DOMAIN st)
<1>1. PICK w \in Workloads : /\ Accepts(w.def) /\ plan = Stored(w.def)
                             /\ DOMAIN st = Keys(w.def) /\ Steps = Ids(w.def)
  BY DEF Origin
<1>2. Parsed(w.def)
  BY WorkloadsAssumption
<1>3. PlanFits(Stored(w.def), Ids(w.def), Keys(w.def))
  BY <1>1, <1>2, AcceptedPlansFit
<1> QED
  BY <1>1, <1>3

\* While a controller has a child to run, the child exists and is of a kind a stage may be.
LEMMA KidInRange ==
  ASSUME PlanFits(plan, Steps, DOMAIN st), TypeOK, NEW k \in Steps,
         st[k].at >= 1, st[k].at <= LastAt(k)
  PROVE  /\ st[k].at \in DOMAIN Src(k).kids
         /\ Current(k) \in DOMAIN st \ Steps /\ Current(k) # k
         /\ Use(Current(k)) \in StageUses
         /\ Looping(k) => Use(Current(k)) = "mcp.read"
<1>1. k \in DOMAIN st /\ st[k] \in StepState /\ Src(k) \in PlanStep(Steps, DOMAIN st)
  BY DEF PlanFits, StoredSteps, TypeOK, Src
<1>2. Src(k).kids # <<>>
  BY <1>1 DEF LastAt, StepState
<1>3. /\ Src(k).count \in Nat /\ Src(k).stages \in Nat
      /\ Len(Src(k).kids) = Src(k).count * Src(k).stages
  BY <1>1, <1>2 DEF PlanFits, OwnedKids, Src, PlanStep
<1>4. Rounds(k) \in Nat /\ Rounds(k) <= Src(k).count
  BY <1>1, <1>3 DEF Rounds, StepState
<1>5. Rounds(k) * Src(k).stages <= Src(k).count * Src(k).stages
  <2> DEFINE x == Rounds(k)
             y == Src(k).count
             z == Src(k).stages
  <2>1. x \in Nat /\ y \in Nat /\ z \in Nat /\ x <= y
    BY <1>3, <1>4
  <2> HIDE DEF x, y, z
  <2>2. x * z <= y * z
    <3>1. PICK e \in Nat : y = x + e
      <4>1. y - x \in Nat /\ y = x + (y - x)
        BY <2>1
      <4> QED BY <4>1
    <3>2. y * z = x * z + e * z
      BY <2>1, <3>1
    <3>3. e * z \in Nat /\ x * z \in Nat
      BY <2>1, <3>1
    <3> QED BY <3>2, <3>3
  <2> QED
    BY <2>2 DEF x, y, z
<1>6. st[k].at \in Nat /\ st[k].at <= Len(Src(k).kids)
  BY <1>1, <1>2, <1>3, <1>4, <1>5 DEF LastAt, StepState
<1>7. st[k].at \in DOMAIN Src(k).kids
  BY <1>1, <1>6 DEF PlanStep
<1>8. Current(k) \in DOMAIN st \ Steps
  BY <1>2, <1>7 DEF PlanFits, OwnedKids, Current, Src
<1> QED
  BY <1>2, <1>7, <1>8 DEF PlanFits, OwnedKids, Current, Src, Use, Looping

-----------------------------------------------------------------------------
(* What each way of rewriting a record leaves alone.                         *)

\* Moving on changes the callback alone.
LEMMA GoesFields ==
  ASSUME NEW r \in StepState, NEW pc \in PCs
  PROVE  LET q == Goes(r, pc)
         IN  /\ q \in StepState
             /\ q.pc = pc
             /\ q.row = r.row /\ q.out = r.out /\ q.saved = r.saved /\ q.picked = r.picked
             /\ q.items = r.items /\ q.at = r.at /\ q.fenced = r.fenced
             /\ q.acked = r.acked /\ q.ghost = r.ghost /\ q.late = r.late /\ q.effect = r.effect
BY DEF StepState, PCs, Goes

\* Writing the row changes the row alone.
LEMMA WritesFields ==
  ASSUME NEW r \in StepState, NEW row \in Rows
  PROVE  LET q == Writes(r, row)
         IN  /\ q \in StepState
             /\ q.row = row
             /\ q.pc = r.pc /\ q.out = r.out /\ q.saved = r.saved /\ q.picked = r.picked
             /\ q.items = r.items /\ q.at = r.at /\ q.fenced = r.fenced
             /\ q.acked = r.acked /\ q.ghost = r.ghost /\ q.late = r.late /\ q.effect = r.effect
BY DEF StepState, PCs, Writes

\* A native checkpoint changes what replays see, and nothing else.
LEMMA KeepsFields ==
  ASSUME NEW r \in StepState, NEW o \in Checkpoints
  PROVE  LET q == Keeps(r, o)
         IN  /\ q \in StepState
             /\ q.saved = o
             /\ q.pc = r.pc /\ q.row = r.row /\ q.out = r.out /\ q.picked = r.picked
             /\ q.items = r.items /\ q.at = r.at /\ q.fenced = r.fenced
             /\ q.acked = r.acked /\ q.ghost = r.ghost /\ q.late = r.late /\ q.effect = r.effect
BY DEF StepState, PCs, Keeps

\* The answer of a condition is all that is kept of it.
LEMMA AnsweredFields ==
  ASSUME NEW r \in StepState, NEW p \in Picked
  PROVE  LET q == Answered(r, p)
         IN  /\ q \in StepState
             /\ q.picked = p
             /\ q.pc = r.pc /\ q.row = r.row /\ q.out = r.out /\ q.saved = r.saved
             /\ q.items = r.items /\ q.at = r.at /\ q.fenced = r.fenced
             /\ q.acked = r.acked /\ q.ghost = r.ghost /\ q.late = r.late /\ q.effect = r.effect
BY DEF StepState, PCs, Answered

\* The reservation changes the fence alone.
LEMMA FencesFields ==
  ASSUME NEW r \in StepState
  PROVE  LET q == Fences(r)
         IN  /\ q \in StepState
             /\ q.fenced = TRUE
             /\ q.pc = r.pc /\ q.row = r.row /\ q.out = r.out /\ q.saved = r.saved
             /\ q.picked = r.picked /\ q.items = r.items /\ q.at = r.at
             /\ q.acked = r.acked /\ q.ghost = r.ghost /\ q.late = r.late /\ q.effect = r.effect
BY DEF StepState, PCs, Fences

\* The acknowledged dispatch changes that mark alone.
LEMMA AcksFields ==
  ASSUME NEW r \in StepState
  PROVE  LET q == Acks(r)
         IN  /\ q \in StepState
             /\ q.acked = TRUE
             /\ q.pc = r.pc /\ q.row = r.row /\ q.out = r.out /\ q.saved = r.saved
             /\ q.picked = r.picked /\ q.items = r.items /\ q.at = r.at
             /\ q.fenced = r.fenced /\ q.ghost = r.ghost /\ q.late = r.late /\ q.effect = r.effect
BY DEF StepState, PCs, Acks

\* What leaves changes the effect alone.
LEMMA AffectsFields ==
  ASSUME NEW r \in StepState, NEW e \in {"untouched"} \cup Effects
  PROVE  LET q == Affects(r, e)
         IN  /\ q \in StepState
             /\ q.effect = e
             /\ q.pc = r.pc /\ q.row = r.row /\ q.out = r.out /\ q.saved = r.saved
             /\ q.picked = r.picked /\ q.items = r.items /\ q.at = r.at
             /\ q.fenced = r.fenced /\ q.acked = r.acked /\ q.ghost = r.ghost /\ q.late = r.late
BY DEF StepState, PCs, Affects

\* The snapshot of a controller sets its items and starts at the first child.
LEMMA FreezesFields ==
  ASSUME NEW r \in StepState, NEW n \in Nat
  PROVE  LET q == Freezes(r, n)
         IN  /\ q \in StepState
             /\ q.items = n /\ q.picked = "frozen" /\ q.at = 1
             /\ q.pc = r.pc /\ q.row = r.row /\ q.out = r.out /\ q.saved = r.saved
             /\ q.fenced = r.fenced /\ q.acked = r.acked /\ q.ghost = r.ghost /\ q.late = r.late
             /\ q.effect = r.effect
BY DEF StepState, PCs, Picked, Freezes

\* A finished child moves its controller to the next one.
LEMMA AdvancesFields ==
  ASSUME NEW r \in StepState
  PROVE  LET q == Advances(r)
         IN  /\ q \in StepState
             /\ q.at = r.at + 1
             /\ q.pc = r.pc /\ q.row = r.row /\ q.out = r.out /\ q.saved = r.saved
             /\ q.picked = r.picked /\ q.items = r.items /\ q.fenced = r.fenced
             /\ q.acked = r.acked /\ q.ghost = r.ghost /\ q.late = r.late /\ q.effect = r.effect
BY DEF StepState, PCs, Advances

\* A callback whose checkpoint gave up on it is marked as unheard, no more.
LEMMA UnheardFields ==
  ASSUME NEW r \in StepState
  PROVE  LET q == Unheard(r)
         IN  /\ q \in StepState
             /\ q.ghost = TRUE
             /\ q.pc = r.pc /\ q.row = r.row /\ q.out = r.out /\ q.saved = r.saved
             /\ q.picked = r.picked /\ q.items = r.items /\ q.at = r.at
             /\ q.fenced = r.fenced /\ q.acked = r.acked /\ q.late = r.late
             /\ q.effect = r.effect
BY DEF StepState, PCs, Unheard

\* A dispatch that goes on unheard, or has ended, is marked as such, no more.
LEMMA LingersFields ==
  ASSUME NEW r \in StepState, NEW at \in Lates
  PROVE  LET q == Lingers(r, at)
         IN  /\ q \in StepState
             /\ q.late = at
             /\ q.pc = r.pc /\ q.row = r.row /\ q.out = r.out /\ q.saved = r.saved
             /\ q.picked = r.picked /\ q.items = r.items /\ q.at = r.at
             /\ q.fenced = r.fenced /\ q.acked = r.acked /\ q.ghost = r.ghost
             /\ q.effect = r.effect
BY DEF StepState, PCs, Lingers

\* The verified end of a Session is marked, no more.
LEMMA ClosesFields ==
  ASSUME NEW r \in StepState
  PROVE  LET q == Closes(r)
         IN  /\ q \in StepState
             /\ q.pc = r.pc /\ q.row = r.row /\ q.out = r.out /\ q.saved = r.saved
             /\ q.picked = r.picked /\ q.items = r.items /\ q.at = r.at
             /\ q.fenced = r.fenced /\ q.acked = r.acked /\ q.ghost = r.ghost
             /\ q.late = r.late /\ q.effect = r.effect
BY DEF StepState, PCs, Closes

\* A crash loses the callback and nothing that is stored.
LEMMA DiesFields ==
  ASSUME NEW r \in StepState
  PROVE  LET q == Dies(r)
         IN  /\ q \in StepState
             /\ q.pc = "idle" /\ q.ghost = FALSE /\ q.late = "no"
             /\ q.row = r.row /\ q.out = r.out /\ q.saved = r.saved /\ q.picked = r.picked
             /\ q.items = r.items /\ q.at = r.at /\ q.fenced = r.fenced
             /\ q.acked = r.acked /\ q.effect = r.effect
BY DEF StepState, PCs, Lates, Dies

\* The outcome this execution will record changes the callback and that outcome.
LEMMA PutsFields ==
  ASSUME NEW r \in StepState, NEW o \in Outcomes
  PROVE  LET q == Puts(r, o)
         IN  /\ q \in StepState
             /\ q.pc = "put" /\ q.out = o
             /\ q.row = r.row /\ q.saved = r.saved /\ q.picked = r.picked
             /\ q.items = r.items /\ q.at = r.at /\ q.fenced = r.fenced
             /\ q.acked = r.acked /\ q.ghost = r.ghost /\ q.late = r.late /\ q.effect = r.effect
BY DEF StepState, PCs, Puts

\* The outcome kept in the checkpoint is the one that will be recorded.
LEMMA EndsFields ==
  ASSUME NEW r \in StepState, NEW o \in Outcomes
  PROVE  LET q == Ends(r, o)
         IN  /\ q \in StepState
             /\ q.pc = "put" /\ q.out = o /\ q.saved = o
             /\ q.row = r.row /\ q.picked = r.picked /\ q.items = r.items /\ q.at = r.at
             /\ q.fenced = r.fenced /\ q.acked = r.acked /\ q.ghost = r.ghost /\ q.late = r.late
             /\ q.effect = r.effect
<1>1. o \in Checkpoints
  BY DEF Checkpoints
<1> DEFINE p == Keeps(r, o)
<1>2. /\ p \in StepState /\ p.saved = o
      /\ p.pc = r.pc /\ p.row = r.row /\ p.out = r.out /\ p.picked = r.picked
      /\ p.items = r.items /\ p.at = r.at /\ p.fenced = r.fenced
      /\ p.acked = r.acked /\ p.ghost = r.ghost /\ p.late = r.late /\ p.effect = r.effect
  BY <1>1, KeepsFields
<1> HIDE DEF p
<1>3. /\ Puts(p, o) \in StepState /\ Puts(p, o).pc = "put" /\ Puts(p, o).out = o
      /\ Puts(p, o).saved = p.saved /\ Puts(p, o).row = p.row /\ Puts(p, o).picked = p.picked
      /\ Puts(p, o).items = p.items /\ Puts(p, o).at = p.at /\ Puts(p, o).fenced = p.fenced
      /\ Puts(p, o).acked = p.acked /\ Puts(p, o).ghost = p.ghost
      /\ Puts(p, o).late = p.late
      /\ Puts(p, o).effect = p.effect
  BY <1>2, PutsFields
<1>4. Ends(r, o) = Puts(p, o)
  BY DEF Ends, p
<1> QED BY <1>2, <1>3, <1>4

\* What threw is kept as such, with the doubt or with the outcome left to its controller.
LEMMA ThrownFields ==
  ASSUME NEW r \in StepState,
         NEW q \in {Puts(Keeps(r, "threw"), "indeterminate"), Goes(Keeps(r, "threw"), "idle")}
  PROVE  /\ q \in StepState
         /\ q.pc \in {"put", "idle"} /\ (q.pc = "put" => q.out = "indeterminate")
         /\ q.saved = "threw" /\ q.row = r.row /\ q.picked = r.picked /\ q.items = r.items
         /\ q.at = r.at /\ q.fenced = r.fenced /\ q.acked = r.acked /\ q.ghost = r.ghost
         /\ q.late = r.late /\ q.effect = r.effect
<1> DEFINE p == Keeps(r, "threw")
<1>1. /\ p \in StepState /\ p.saved = "threw" /\ p.row = r.row /\ p.picked = r.picked
      /\ p.items = r.items /\ p.at = r.at /\ p.fenced = r.fenced /\ p.acked = r.acked
      /\ p.ghost = r.ghost /\ p.late = r.late /\ p.effect = r.effect
  BY KeepsFields DEF Checkpoints
<1> HIDE DEF p
<1>2. CASE q = Puts(p, "indeterminate")
  BY <1>1, <1>2, PutsFields DEF Outcomes
<1>3. CASE q = Goes(p, "idle")
  BY <1>1, <1>3, GoesFields DEF PCs
<1> QED
  BY <1>2, <1>3 DEF p

-----------------------------------------------------------------------------
(* Safe records.                                                            *)

\* Every record of a reachable state is safe as it stands.
LEMMA SafeNow ==
  ASSUME Basic, NEW k \in DOMAIN st
  PROVE  /\ Safe(k, st[k]) /\ st[k] \in StepState /\ Fits(k, st[k])
         /\ \A r : Becomes(k, r) => Alone(k) /\ st'[k] = r
<1>1. st[k] \in StepState /\ Fits(k, st[k])
  BY DEF Basic, TypeOK, StepsFit
<1> QED
  BY <1>1, BecomesAlone DEF Safe, Well

\* A safe record stays safe when its outcome is decided.
LEMMA SafePuts ==
  ASSUME NEW k, NEW r, Safe(k, r), NEW o \in Outcomes
  PROVE  Safe(k, Puts(r, o)) /\ Safe(k, Ends(r, o))
<1>1. o # "?"
  BY DEF Outcomes
<1>2. Safe(k, Puts(r, o))
  BY <1>1, PutsFields DEF Safe, Well, Fits
<1>3. o \notin {"threw", "over"}
  BY DEF Outcomes
<1>4. Safe(k, Ends(r, o))
  BY <1>1, <1>3, EndsFields DEF Safe, Well, Fits
<1> QED
  BY <1>2, <1>4

\* Rows, answers, interruptions, crashes and the progress of a controller keep a record safe.
LEMMA SafeMarks ==
  ASSUME NEW k, NEW r, Safe(k, r)
  PROVE  /\ \A row \in Rows : Safe(k, Writes(r, row)) /\ Writes(r, row).pc = r.pc
                              /\ Writes(r, row).fenced = r.fenced
                              /\ Writes(r, row).at = r.at
         /\ \A p \in Picked \ {"frozen"} : Safe(k, Answered(r, p)) /\ Answered(r, p).pc = r.pc
         /\ Safe(k, Unheard(r)) /\ Safe(k, Dies(r)) /\ Safe(k, Closes(r))
         /\ Safe(k, Advances(r))
         /\ \A n \in Nat : Controller(k) => Safe(k, Freezes(r, n)) /\ Freezes(r, n).at = 1
<1>1. ASSUME NEW row \in Rows
      PROVE  Safe(k, Writes(r, row)) /\ Writes(r, row).pc = r.pc /\ Writes(r, row).at = r.at
             /\ Writes(r, row).fenced = r.fenced
  BY WritesFields DEF Safe, Well, Fits
<1>2. ASSUME NEW p \in Picked \ {"frozen"} PROVE Safe(k, Answered(r, p)) /\ Answered(r, p).pc = r.pc
  <2> DEFINE q == Answered(r, p)
  <2>1. /\ q \in StepState /\ q.picked = p /\ p # "frozen"
        /\ q.pc = r.pc /\ q.row = r.row /\ q.out = r.out /\ q.saved = r.saved
        /\ q.at = r.at /\ q.fenced = r.fenced /\ q.acked = r.acked /\ q.late = r.late
        /\ q.effect = r.effect
    BY AnsweredFields DEF Safe, Well
  <2> HIDE DEF q
  <2>2. Fits(k, q)
    BY <2>1 DEF Safe, Well, Fits
  <2> QED BY <2>1, <2>2 DEF q, Safe, Well
<1>3. Safe(k, Unheard(r))
  <2> DEFINE q == Unheard(r)
  <2>1. /\ q \in StepState /\ q.pc = r.pc /\ q.row = r.row /\ q.out = r.out
        /\ q.saved = r.saved /\ q.picked = r.picked /\ q.at = r.at /\ q.fenced = r.fenced
        /\ q.acked = r.acked /\ q.late = r.late /\ q.effect = r.effect
    BY UnheardFields DEF Safe, Well
  <2> HIDE DEF q
  <2>2. Fits(k, q)
    BY <2>1 DEF Safe, Well, Fits
  <2> QED BY <2>1, <2>2 DEF q, Safe, Well
<1>4. Safe(k, Dies(r))
  BY DiesFields DEF Safe, Well, Fits
<1>5. Safe(k, Advances(r))
  <2>1. r.at \in Nat
    BY DEF Safe, Well, StepState
  <2> QED BY <2>1, AdvancesFields DEF Safe, Well, Fits
<1>6. ASSUME NEW n \in Nat, Controller(k) PROVE Safe(k, Freezes(r, n)) /\ Freezes(r, n).at = 1
  BY <1>6, FreezesFields DEF Safe, Well, Fits
<1>7. Safe(k, Closes(r))
  <2> DEFINE q == Closes(r)
  <2>1. /\ q \in StepState /\ q.pc = r.pc /\ q.row = r.row /\ q.out = r.out
        /\ q.saved = r.saved /\ q.picked = r.picked /\ q.at = r.at /\ q.fenced = r.fenced
        /\ q.acked = r.acked /\ q.late = r.late /\ q.effect = r.effect
    BY ClosesFields DEF Safe, Well
  <2> HIDE DEF q
  <2>2. Fits(k, q)
    BY <2>1 DEF Safe, Well, Fits
  <2> QED BY <2>1, <2>2 DEF q, Safe, Well
<1> QED
  BY <1>1, <1>2, <1>3, <1>4, <1>5, <1>6, <1>7

\* A dispatch that goes on unheard, and one that threw, leave a safe record.
LEMMA SafeLingers ==
  ASSUME NEW k, NEW r, Safe(k, r), Use(k) \in GitHub
  PROVE  /\ \A at \in Lates : (at \in {"send", "reply"} => r.fenced) => Safe(k, Lingers(r, at))
         /\ Safe(k, Puts(Keeps(r, "threw"), "indeterminate"))
         /\ Safe(k, Goes(Keeps(r, "threw"), "idle"))
<1>1. ASSUME NEW at \in Lates, at \in {"send", "reply"} => r.fenced
      PROVE  Safe(k, Lingers(r, at))
  <2> DEFINE q == Lingers(r, at)
  <2>1. /\ q \in StepState /\ q.late = at /\ q.pc = r.pc /\ q.row = r.row /\ q.out = r.out
        /\ q.saved = r.saved /\ q.picked = r.picked /\ q.at = r.at /\ q.fenced = r.fenced
        /\ q.acked = r.acked /\ q.effect = r.effect
    BY LingersFields DEF Safe, Well
  <2> HIDE DEF q
  <2>2. Fits(k, q)
    BY <1>1, <2>1 DEF Safe, Well, Fits
  <2> QED BY <2>1, <2>2 DEF q, Safe, Well
<1>2. ASSUME NEW q \in {Puts(Keeps(r, "threw"), "indeterminate"), Goes(Keeps(r, "threw"), "idle")}
      PROVE  Safe(k, q)
  <2>1. /\ q \in StepState
        /\ q.pc \in {"put", "idle"} /\ (q.pc = "put" => q.out = "indeterminate")
        /\ q.saved = "threw" /\ q.row = r.row /\ q.picked = r.picked /\ q.at = r.at
        /\ q.fenced = r.fenced /\ q.acked = r.acked /\ q.late = r.late /\ q.effect = r.effect
    BY ThrownFields DEF Safe, Well
  <2>2. Fits(k, q)
    BY <2>1 DEF Safe, Well, Fits
  <2> QED BY <2>1, <2>2 DEF Safe, Well
<1> QED
  BY <1>1, <1>2

\* A checkpoint keeps a record safe, a controller's own marks on controllers only.
LEMMA SafeKeeps ==
  ASSUME NEW k, NEW r, Safe(k, r), NEW o \in Checkpoints,
         o \in {"threw", "over"} => Controller(k) /\ r.pc = "kids"
  PROVE  Safe(k, Keeps(r, o))
BY KeepsFields DEF Safe, Well, Fits

\* The fence is set where the INSERT admits it, and only a fenced record calls out.
LEMMA SafeCalls ==
  ASSUME NEW k, NEW r, Safe(k, r)
  PROVE  /\ (Reservable(k) /\ Use(k) \in Outside \cup Providers) =>
               Safe(k, Fences(r)) /\ Fences(r).fenced /\ Fences(r).saved = r.saved
         /\ (r.fenced /\ Use(k) \in GitHub) =>
               Safe(k, Acks(r)) /\ Acks(r).fenced /\ Acks(r).saved = r.saved
         /\ \A e \in {"untouched"} \cup Effects : r.fenced =>
               Safe(k, Affects(r, e)) /\ Affects(r, e).fenced /\ Affects(r, e).saved = r.saved
<1>1. ASSUME Reservable(k), Use(k) \in Outside \cup Providers
      PROVE  Safe(k, Fences(r)) /\ Fences(r).fenced /\ Fences(r).saved = r.saved
  BY <1>1, FencesFields DEF Safe, Well, Fits, Outside
<1>2. ASSUME r.fenced, Use(k) \in GitHub
      PROVE  Safe(k, Acks(r)) /\ Acks(r).fenced /\ Acks(r).saved = r.saved
  BY <1>2, AcksFields DEF Safe, Well, Fits
<1>3. ASSUME NEW e \in {"untouched"} \cup Effects, r.fenced
      PROVE  Safe(k, Affects(r, e)) /\ Affects(r, e).fenced /\ Affects(r, e).saved = r.saved
  BY <1>3, AffectsFields DEF Safe, Well, Fits
<1> QED
  BY <1>1, <1>2, <1>3

\* A callback that fits the kind of its step keeps a record safe.
LEMMA SafeGoes ==
  ASSUME NEW k, NEW r, Safe(k, r), NEW pc \in PCs \ {"put", "done"},
         pc \in {"begin", "kids", "listen"} => k \in Steps,
         pc = "prior" => Use(k) \in Providers \ {"litterbox"},
         pc = "discover" => Use(k) \in Mcp \cup (Providers \ {"litterbox"}),
         pc \in {"reserve", "send", "reply"} => Use(k) \in Outside,
         pc \in {"send", "reply", "poll"} => r.fenced /\ r.saved # "threw",
         pc = "poll" => Use(k) \in GitHub,
         pc \in {"gate", "decide", "consume"} => Gated(k) /\ Use(k) \in GitHub,
         pc = "listen" => Use(k) \in {"wait", "wait_event", "litterbox"},
         pc = "kids" => Controller(k) /\ r.at >= 1
  PROVE  Safe(k, Goes(r, pc))
BY GoesFields DEF Safe, Well, Fits

\* A controller that froze its snapshot may run its children.
LEMMA SafeFreezes ==
  ASSUME NEW k \in Steps, NEW r, Safe(k, r), NEW n \in Nat, Controller(k)
  PROVE  Safe(k, Freezes(r, n)) /\ Safe(k, Goes(Freezes(r, n), "kids"))
<1>1. Safe(k, Freezes(r, n)) /\ Freezes(r, n).at = 1
  BY SafeMarks
<1>2. Freezes(r, n).at >= 1
  BY <1>1
<1> QED
  BY <1>1, <1>2, SafeGoes DEF PCs

\* A step that is one native checkpoint begins, is skipped, or is replayed, safely.
LEMMA CheckpointedMoves ==
  ASSUME Basic, Published, NEW k \in DOMAIN st, BeginCheckpointed(k)
  PROVE  Alone(k) /\ Safe(k, st'[k])
<1>1. /\ Safe(k, st[k]) /\ st[k] \in StepState /\ Fits(k, st[k])
      /\ \A r : Becomes(k, r) => Alone(k) /\ st'[k] = r
  BY SafeNow
<1>2. st[k].saved # "?" => st[k].saved \in Outcomes
  BY <1>1 DEF Fits, StepState, Checkpoints, BeginCheckpointed, Checkpointed, Controller,
       Mcp, Http, Providers, GitHub
<1>3. Claimed(k) \in Rows /\ Picks(k) \subseteq Picked \ {"frozen"}
  BY <1>1 DEF Claimed, Rows, Open, Picks, Picked, StepState, Fits, Controller,
              BeginCheckpointed, BeginGitHub, Checkpointed, GitHub, Mcp, Http, Providers
<1>4. {"succeeded", "failed", "skipped", "indeterminate"} \subseteq Outcomes
  BY DEF Outcomes
<1>5. \A r : Safe(k, r) /\ Use(k) # "result.emit" => Safe(k, Goes(r, First(k)))
  BY SafeGoes DEF BeginCheckpointed, Checkpointed, First, PCs, Outside
<1>6. CASE st[k].saved # "?"
  BY <1>1, <1>2, <1>6, SafePuts DEF BeginCheckpointed
<1>7. CASE st[k].saved = "?"
  <2>1. PICK pick \in Picks(k) :
          LET r == Answered(Writes(st[k], Claimed(k)), pick)
          IN  \/ \E o \in Outcomes : Becomes(k, Ends(r, o))
              \/ Use(k) # "result.emit" /\ Becomes(k, Goes(r, First(k)))
    BY <1>4, <1>7 DEF BeginCheckpointed
  <2>2. Safe(k, Answered(Writes(st[k], Claimed(k)), pick))
    BY <1>1, <1>3, SafeMarks
  <2> QED
    BY <1>1, <1>5, <2>1, <2>2, SafePuts
<1> QED
  BY <1>6, <1>7

\* A GitHub step begins, waits for its owner, or is skipped, safely.
LEMMA GitHubBegins ==
  ASSUME Basic, Published, NEW k \in DOMAIN st, BeginGitHub(k)
  PROVE  Alone(k) /\ Safe(k, st'[k])
<1>1. /\ Safe(k, st[k]) /\ st[k] \in StepState /\ Fits(k, st[k])
      /\ \A r : Becomes(k, r) => Alone(k) /\ st'[k] = r
  BY SafeNow
<1>2. {"succeeded", "failed", "skipped", "indeterminate"} \subseteq Outcomes
  BY DEF Outcomes
<1>3. Claimed(k) \in Rows /\ Picks(k) \subseteq Picked \ {"frozen"}
  BY <1>1 DEF Claimed, Rows, Open, Picks, Picked, StepState, Fits, Controller,
              BeginCheckpointed, BeginGitHub, Checkpointed, GitHub, Mcp, Http, Providers
<1>4. PICK pick \in Picks(k) :
        LET r == Answered(Writes(st[k], Claimed(k)), pick)
        IN  \/ \E o \in Outcomes : Becomes(k, Puts(r, o))
            \/ Becomes(k, Goes(r, IF Gated(k) THEN "gate" ELSE "reserve"))
  BY <1>2 DEF BeginGitHub
<1>5. Safe(k, Answered(Writes(st[k], Claimed(k)), pick))
  BY <1>1, <1>3, SafeMarks
<1>6. \A r : Safe(k, r) => Safe(k, Goes(r, IF Gated(k) THEN "gate" ELSE "reserve"))
  BY SafeGoes DEF BeginGitHub, PCs, Outside
<1> QED
  BY <1>1, <1>4, <1>5, <1>6, SafePuts

\* A wait begins, is skipped, or finds what was recorded before, safely.
LEMMA WaitBegins ==
  ASSUME Basic, Published, NEW k \in DOMAIN st, BeginWait(k)
  PROVE  Alone(k) /\ Safe(k, st'[k])
<1>1. /\ Safe(k, st[k]) /\ st[k] \in StepState /\ Fits(k, st[k])
      /\ \A r : Becomes(k, r) => Alone(k) /\ st'[k] = r
  BY SafeNow
<1>2. {"succeeded", "failed", "skipped", "indeterminate"} \subseteq Outcomes
  BY DEF Outcomes
<1> DEFINE row == IF st[k].row = "none" /\ run = "running" THEN "waiting" ELSE st[k].row
<1>3. row \in Rows
  BY <1>1 DEF Rows, Open, StepState
<1>4. \/ \E o \in Outcomes : Becomes(k, Puts(st[k], o)) \/ Becomes(k, Puts(Writes(st[k], row), o))
      \/ Becomes(k, Goes(Writes(st[k], row), "listen"))
  <2>1. row \in {"succeeded", "failed", "indeterminate"} => row \in Outcomes
    BY <1>2
  <2> QED BY <1>2, <2>1 DEF BeginWait
<1> HIDE DEF row
<1>5. Safe(k, Writes(st[k], row))
  BY <1>1, <1>3, SafeMarks
<1>6. k \in Steps
  BY <1>1 DEF Fits, BeginWait
<1>7. Safe(k, Goes(Writes(st[k], row), "listen"))
  BY <1>5, <1>6, SafeGoes DEF BeginWait, PCs
<1> QED
  BY <1>1, <1>4, <1>5, <1>7, SafePuts

\* A child Run answers safely.
LEMMA ChildBegins ==
  ASSUME Basic, Published, NEW k \in DOMAIN st, BeginChild(k)
  PROVE  Alone(k) /\ Safe(k, st'[k])
<1>1. /\ Safe(k, st[k]) /\ st[k] \in StepState /\ Fits(k, st[k])
      /\ \A r : Becomes(k, r) => Alone(k) /\ st'[k] = r
  BY SafeNow
<1>2. {"succeeded", "failed", "skipped", "indeterminate"} \subseteq Outcomes
  BY DEF Outcomes
<1>3. PICK o \in Outcomes : Becomes(k, Puts(st[k], o))
  BY <1>2 DEF BeginChild
<1> QED
  BY <1>1, <1>3, SafePuts

\* A foreach freezes its snapshot safely.
LEMMA ForeachBegins ==
  ASSUME Basic, Published, NEW k \in DOMAIN st, BeginForeach(k)
  PROVE  Alone(k) /\ Safe(k, st'[k])
<1>1. /\ Safe(k, st[k]) /\ st[k] \in StepState /\ Fits(k, st[k])
      /\ \A r : Becomes(k, r) => Alone(k) /\ st'[k] = r
  BY SafeNow
<1>2. {"succeeded", "failed", "skipped", "indeterminate"} \subseteq Outcomes
  BY DEF Outcomes
<1>3. Claimed(k) \in Rows
  BY <1>1 DEF Claimed, Rows, Open, StepState
<1>4. Safe(k, Writes(st[k], Claimed(k)))
  BY <1>1, <1>3, SafeMarks
<1>5. k \in Steps
  BY <1>1 DEF Fits, BeginForeach
<1>6. Src(k).count \in Nat /\ st[k].items \in Nat
  BY <1>1, <1>5, PlanFitsNow DEF Basic, PlanFits, StoredSteps, PlanStep, Src, StepState
<1>7. \/ Becomes(k, Puts(Writes(st[k], Claimed(k)), "skipped"))
      \/ \E n \in Nat : LET f == Freezes(Writes(st[k], Claimed(k)), n) IN
            Becomes(k, Puts(f, "failed")) \/ Becomes(k, Goes(f, "kids"))
  BY <1>6 DEF BeginForeach
<1>8. \A n \in Nat : LET f == Freezes(Writes(st[k], Claimed(k)), n) IN
         Safe(k, f) /\ Safe(k, Goes(f, "kids"))
  BY <1>4, <1>5, SafeFreezes DEF BeginForeach, Controller
<1>9. CASE Becomes(k, Puts(Writes(st[k], Claimed(k)), "skipped"))
  BY <1>1, <1>2, <1>4, <1>9, SafePuts
<1>10. ASSUME NEW n \in Nat,
              LET f == Freezes(Writes(st[k], Claimed(k)), n) IN
                Becomes(k, Puts(f, "failed")) \/ Becomes(k, Goes(f, "kids"))
       PROVE  Alone(k) /\ Safe(k, st'[k])
  BY <1>1, <1>2, <1>8, <1>10, SafePuts
<1> QED
  BY <1>7, <1>9, <1>10

\* A loop freezes its snapshot safely.
LEMMA LoopBegins ==
  ASSUME Basic, Published, NEW k \in DOMAIN st, BeginLoop(k)
  PROVE  Alone(k) /\ Safe(k, st'[k])
<1>1. /\ Safe(k, st[k]) /\ st[k] \in StepState /\ Fits(k, st[k])
      /\ \A r : Becomes(k, r) => Alone(k) /\ st'[k] = r
  BY SafeNow
<1>2. {"succeeded", "failed", "skipped", "indeterminate"} \subseteq Outcomes
  BY DEF Outcomes
<1>3. k \in Steps
  BY <1>1 DEF Fits, BeginLoop
<1>4. Src(k).count \in Nat /\ st[k].items \in Nat
  BY <1>1, <1>3, PlanFitsNow DEF Basic, PlanFits, StoredSteps, PlanStep, Src, StepState
<1>5. \/ Becomes(k, Puts(st[k], "skipped"))
      \/ \E n \in Nat : Becomes(k, Goes(Freezes(st[k], n), "kids"))
  <2>1. ASSUME NEW n \in IF st[k].picked # "?" THEN {st[k].items}
                          ELSE (IF Use(k) = "until" THEN 1 ELSE 0) .. Src(k).count + 1
        PROVE  n \in Nat
    BY <1>4
  <2> QED BY <2>1 DEF BeginLoop
<1>6. \A n \in Nat : Safe(k, Goes(Freezes(st[k], n), "kids"))
  BY <1>1, <1>3, SafeFreezes DEF BeginLoop, Looping, Controller
<1> QED
  BY <1>1, <1>2, <1>5, <1>6, SafePuts

\* Recording an outcome is safe.
LEMMA PutMoves ==
  ASSUME Basic, Published, NEW k \in DOMAIN st, Put(k)
  PROVE  Alone(k) /\ Safe(k, st'[k])
<1>1. /\ Safe(k, st[k]) /\ st[k] \in StepState /\ Fits(k, st[k])
      /\ \A r : Becomes(k, r) => Alone(k) /\ st'[k] = r
  BY SafeNow
<1> DEFINE row == IF Writable(k) THEN st[k].out ELSE st[k].row
<1>2. row \in Rows /\ st[k].out # "?"
  BY <1>1 DEF Rows, StepState, Put, Fits
<1>3. Becomes(k, Goes(Writes(st[k], row), "done"))
  BY DEF Put
<1> HIDE DEF row
<1>4. Safe(k, Writes(st[k], row)) /\ Writes(st[k], row) \in StepState
      /\ Writes(st[k], row).out # "?"
  BY <1>1, <1>2, SafeMarks, WritesFields
<1>5. \A r : Safe(k, r) /\ r.out # "?" => Safe(k, Goes(r, "done"))
  BY GoesFields DEF Safe, Well, Fits, PCs
<1> QED
  BY <1>1, <1>3, <1>4, <1>5

\* A failed registration of the rollback handler is recorded safely.
LEMMA RegistrationMoves ==
  ASSUME Basic, Published, NEW k \in DOMAIN st, RegistrationFails(k)
  PROVE  Alone(k) /\ Safe(k, st'[k])
<1>1. /\ Safe(k, st[k]) /\ st[k] \in StepState /\ Fits(k, st[k])
      /\ \A r : Becomes(k, r) => Alone(k) /\ st'[k] = r
  BY SafeNow
<1>2. {"succeeded", "failed", "skipped", "indeterminate"} \subseteq Outcomes
  BY DEF Outcomes
<1> DEFINE r == Writes(Ends(st[k], "indeterminate"), "indeterminate")
<1>3. Becomes(k, Goes(r, "done"))
  BY DEF RegistrationFails
<1>4. Safe(k, Ends(st[k], "indeterminate")) /\ Ends(st[k], "indeterminate") \in StepState
      /\ Ends(st[k], "indeterminate").out = "indeterminate"
  BY <1>1, <1>2, SafePuts, EndsFields
<1>5. Safe(k, r) /\ r.out = "indeterminate"
  BY <1>2, <1>4, SafeMarks, WritesFields DEF Rows
<1> HIDE DEF r
<1>6. Safe(k, Goes(r, "done"))
  BY <1>5, GoesFields DEF Safe, Well, Fits, PCs
<1> QED
  BY <1>1, <1>3, <1>6

\* A callback that ends, heard or unheard, leaves a safe record.
LEMMA FinishMoves ==
  ASSUME Basic, NEW k \in DOMAIN st, NEW o \in Outcomes, Finish(k, o)
  PROVE  Alone(k) /\ Safe(k, st'[k])
<1>1. /\ Safe(k, st[k]) /\ st[k] \in StepState /\ Fits(k, st[k])
      /\ \A r : Becomes(k, r) => Alone(k) /\ st'[k] = r
  BY SafeNow
<1>2. Safe(k, Goes(st[k], "idle"))
  BY <1>1, SafeGoes DEF PCs
<1> QED
  BY <1>1, <1>2, SafePuts DEF Finish

\* A live check lets the call pass or fails it, safely.
LEMMA CheckedMoves ==
  ASSUME Basic, NEW k \in DOMAIN st, NEW b, Checked(k, b)
  PROVE  Alone(k) /\ Safe(k, st'[k])
<1>1. /\ Safe(k, st[k]) /\ st[k] \in StepState /\ Fits(k, st[k])
      /\ \A r : Becomes(k, r) => Alone(k) /\ st'[k] = r
  BY SafeNow
<1>2. {"succeeded", "failed", "skipped", "indeterminate"} \subseteq Outcomes
  BY DEF Outcomes
<1>3. Safe(k, Goes(st[k], "reserve"))
  BY <1>1, SafeGoes DEF PCs, Checked, Fits, Outside
<1> QED
  BY <1>1, <1>2, <1>3, FinishMoves DEF Checked

\* The look for an earlier reservation is safe.
LEMMA PriorMoves ==
  ASSUME Basic, Published, NEW k \in DOMAIN st, Prior(k)
  PROVE  Alone(k) /\ Safe(k, st'[k])
<1>1. /\ Safe(k, st[k]) /\ st[k] \in StepState /\ Fits(k, st[k])
      /\ \A r : Becomes(k, r) => Alone(k) /\ st'[k] = r
  BY SafeNow
<1>2. {"succeeded", "failed", "skipped", "indeterminate"} \subseteq Outcomes
  BY DEF Outcomes
<1>3. Safe(k, Goes(st[k], "discover"))
  BY <1>1, SafeGoes DEF PCs, Prior, Fits
<1> QED
  BY <1>1, <1>2, <1>3, FinishMoves DEF Prior

\* A reservation is the only way a callback fences its step.
LEMMA ReserveMoves ==
  ASSUME Basic, Published, NEW k \in DOMAIN st, Reserve(k)
  PROVE  Alone(k) /\ Safe(k, st'[k])
<1>1. /\ Safe(k, st[k]) /\ st[k] \in StepState /\ Fits(k, st[k])
      /\ \A r : Becomes(k, r) => Alone(k) /\ st'[k] = r
  BY SafeNow
<1>2. {"succeeded", "failed", "skipped", "indeterminate"} \subseteq Outcomes
  BY DEF Outcomes
<1>3. Use(k) \in Outside /\ st[k].saved # "threw"
  BY <1>1 DEF Reserve, Fits, Outside, Controller, Mcp, Http, GitHub, Providers
<1>4. Reservable(k) => Safe(k, Goes(Fences(st[k]), "send"))
  BY <1>1, <1>3, SafeCalls, SafeGoes DEF PCs
<1> QED
  BY <1>1, <1>2, <1>4, FinishMoves DEF Reserve

\* A GitHub dispatch is reserved, found in its checkpoint, or refused, safely.
LEMMA ReserveGitHubMoves ==
  ASSUME Basic, Published, NEW k \in DOMAIN st, ReserveGitHub(k)
  PROVE  Alone(k) /\ Safe(k, st'[k])
<1>1. /\ Safe(k, st[k]) /\ st[k] \in StepState /\ Fits(k, st[k])
      /\ \A r : Becomes(k, r) => Alone(k) /\ st'[k] = r
  BY SafeNow
<1>2. "failed" \in Outcomes
  BY DEF Outcomes
<1>3. /\ Use(k) \in Outside /\ Use(k) \in GitHub
      /\ st[k].saved # "?" => st[k].saved \in Outcomes
  BY <1>1 DEF ReserveGitHub, Outside, Fits, StepState, Checkpoints, Controller, GitHub
<1>4. Reservable(k) => Safe(k, Goes(Fences(st[k]), "send"))
  BY <1>1, <1>3, SafeCalls, SafeGoes DEF PCs, ReserveGitHub
<1>5. st[k].acked => Safe(k, Goes(st[k], "poll"))
  BY <1>1, <1>3, SafeGoes DEF PCs, Fits, ReserveGitHub
<1> QED
  BY <1>1, <1>2, <1>3, <1>4, <1>5, SafePuts DEF ReserveGitHub

\* What leaves is fenced.
LEMMA LeavesMoves ==
  ASSUME Basic, NEW k \in DOMAIN st, NEW es, es \subseteq {"untouched"} \cup Effects, Leaves(k, es)
  PROVE  Alone(k) /\ Safe(k, st'[k])
<1>1. /\ Safe(k, st[k]) /\ st[k] \in StepState /\ Fits(k, st[k])
      /\ \A r : Becomes(k, r) => Alone(k) /\ st'[k] = r
  BY SafeNow
<1>2. st[k].fenced /\ Use(k) \in Outside /\ st[k].saved # "threw"
  BY <1>1 DEF Leaves, Fits
<1>3. \A e \in es : Safe(k, Goes(Affects(st[k], e), "reply"))
  BY <1>1, <1>2, SafeCalls, SafeGoes DEF PCs
<1> QED
  BY <1>1, <1>3 DEF Leaves

\* What the other side carries out later was fenced.
LEMMA LandMoves ==
  ASSUME Basic, Published, NEW k \in DOMAIN st, Land(k)
  PROVE  Alone(k) /\ Safe(k, st'[k])
<1>1. /\ Safe(k, st[k]) /\ st[k] \in StepState /\ Fits(k, st[k])
      /\ \A r : Becomes(k, r) => Alone(k) /\ st'[k] = r
  BY SafeNow
<1>2. st[k].fenced
  BY <1>1 DEF Land, Fits
<1> QED
  BY <1>1, <1>2, SafeCalls DEF Land, Effects

\* Every answer is an outcome.
LEMMA AnswersFit ==
  ASSUME NEW k PROVE Answers(k) \subseteq Outcomes
BY DEF Answers, ToolAnswers, HttpAnswers, ActionAnswers, Outcomes

\* An answer is taken safely.
LEMMA ReplyMoves ==
  ASSUME Basic, Published, NEW k \in DOMAIN st, Reply(k)
  PROVE  Alone(k) /\ Safe(k, st'[k])
<1>1. /\ Safe(k, st[k]) /\ st[k] \in StepState /\ Fits(k, st[k])
      /\ \A r : Becomes(k, r) => Alone(k) /\ st'[k] = r
  BY SafeNow
<1>2. st[k].fenced /\ st[k].saved # "threw"
  BY <1>1 DEF Reply, Fits
<1>3. Use(k) \in GitHub => Safe(k, Goes(Acks(st[k]), "poll"))
  BY <1>1, <1>2, SafeCalls, SafeGoes DEF PCs
<1> QED
  BY <1>1, <1>3, AnswersFit, FinishMoves DEF Reply

\* A poll of a dispatched job is safe.
LEMMA PollMoves ==
  ASSUME Basic, Published, NEW k \in DOMAIN st, PollTask(k) \/ PollSession(k)
  PROVE  Alone(k) /\ Safe(k, st'[k])
<1>1. /\ Safe(k, st[k]) /\ st[k] \in StepState /\ Fits(k, st[k])
      /\ \A r : Becomes(k, r) => Alone(k) /\ st'[k] = r
  BY SafeNow
<1>2. CASE PollTask(k)
  <2>1. st[k].saved # "?" => st[k].saved \in Outcomes
    BY <1>1, <1>2 DEF Fits, StepState, Checkpoints, PollTask, Controller
  <2>2. \A o \in Outcomes : TaskTells(o) \subseteq Outcomes
    BY DEF TaskTells, Outcomes
  <2>3. ActionAnswers(k) \subseteq Outcomes
    BY DEF ActionAnswers, Outcomes
  <2>4. PICK o \in Outcomes, told \in Outcomes : Becomes(k, Puts(Keeps(st[k], o), told))
    BY <1>2, <2>1, <2>2, <2>3 DEF PollTask
  <2>5. Safe(k, Keeps(st[k], o))
    BY <1>1, SafeKeeps DEF Checkpoints, Outcomes
  <2> QED BY <1>1, <2>4, <2>5, SafePuts
<1>3. CASE PollSession(k)
  <2>1. SessionAnswers(k) \subseteq Outcomes
    BY DEF SessionAnswers, Outcomes
  <2> QED BY <1>1, <1>3, <2>1, SafePuts DEF PollSession
<1> QED
  BY <1>2, <1>3

\* A dispatch that goes on unheard, and the end of a Session, leave a safe record.
LEMMA LateMoves ==
  ASSUME Basic, Published, NEW k \in DOMAIN st, LateDispatch(k) \/ SessionEnds(k)
  PROVE  Alone(k) /\ Safe(k, st'[k])
<1>1. /\ Safe(k, st[k]) /\ st[k] \in StepState /\ Fits(k, st[k])
      /\ \A r : Becomes(k, r) => Alone(k) /\ st'[k] = r
  BY SafeNow
<1>2. CASE SessionEnds(k)
  BY <1>1, <1>2, SafeMarks DEF SessionEnds
<1>3. CASE LateDispatch(k)
  <2>1. Use(k) \in GitHub /\ (st[k].late \in {"send", "reply"} => st[k].fenced)
    BY <1>1, <1>3 DEF LateDispatch, Fits
  <2>2. Safe(k, Lingers(st[k], "no"))
    BY <1>1, <2>1, SafeLingers DEF Lates
  <2>3. Reservable(k) => Safe(k, Lingers(Fences(st[k]), "send"))
    BY <1>1, <2>1, SafeCalls, SafeLingers DEF Lates, Outside
  <2>4. \A e \in Effects : st[k].late = "send" => Safe(k, Lingers(Affects(st[k], e), "reply"))
    BY <1>1, <2>1, SafeCalls, SafeLingers DEF Lates
  <2> QED BY <1>1, <1>3, <2>2, <2>3, <2>4 DEF LateDispatch
<1> QED
  BY <1>2, <1>3

\* The end of a wait, or of the approval, is safe.
LEMMA ResumeMoves ==
  ASSUME Basic, Published, NEW k \in DOMAIN st,
         Resume(k) \/ EventTimeout(k) \/ FileWait(k) \/ Decide(k)
  PROVE  Alone(k) /\ Safe(k, st'[k])
<1>1. /\ Safe(k, st[k]) /\ st[k] \in StepState /\ Fits(k, st[k])
      /\ \A r : Becomes(k, r) => Alone(k) /\ st'[k] = r
  BY SafeNow
<1>2. {"succeeded", "failed", "skipped", "indeterminate"} \subseteq Outcomes
  BY DEF Outcomes
<1>3. CASE Resume(k) \/ EventTimeout(k)
  BY <1>1, <1>2, <1>3, SafePuts DEF Resume, EventTimeout
<1>4. CASE FileWait(k)
  <2>1. st[k].row \in {"succeeded", "failed", "indeterminate"} => st[k].row \in Outcomes
    BY <1>2
  <2> QED BY <1>1, <1>2, <1>4, <2>1, SafePuts DEF FileWait
<1>5. CASE Decide(k)
  <2>1. Safe(k, Goes(st[k], "consume"))
    BY <1>1, <1>5, SafeGoes DEF PCs, Decide, Fits
  <2> QED BY <1>1, <1>2, <1>5, <2>1, SafePuts DEF Decide
<1> QED
  BY <1>3, <1>4, <1>5

\* Opening the approval gate is safe.
LEMMA GateMoves ==
  ASSUME Basic, Published, NEW k \in DOMAIN st, OpenGate(k)
  PROVE  Alone(k) /\ Safe(k, st'[k])
<1>1. /\ Safe(k, st[k]) /\ st[k] \in StepState /\ Fits(k, st[k])
      /\ \A r : Becomes(k, r) => Alone(k) /\ st'[k] = r
  BY SafeNow
<1> DEFINE row == IF gate.state = "closed" /\ st[k].row \in Active
                 THEN "waiting_approval" ELSE st[k].row
<1>2. row \in Rows
  BY <1>1 DEF Rows, Open, StepState
<1>3. Becomes(k, Goes(Writes(st[k], row), "decide"))
  BY DEF OpenGate
<1> HIDE DEF row
<1>4. Safe(k, Writes(st[k], row))
  BY <1>1, <1>2, SafeMarks
<1>5. Safe(k, Goes(Writes(st[k], row), "decide"))
  BY <1>1, <1>4, SafeGoes DEF PCs, OpenGate, Fits
<1> QED
  BY <1>1, <1>3, <1>5

\* Consuming the approval is safe.
LEMMA ConsumeMoves ==
  ASSUME Basic, Published, NEW k \in DOMAIN st, Consume(k)
  PROVE  Alone(k) /\ Safe(k, st'[k])
<1>1. /\ Safe(k, st[k]) /\ st[k] \in StepState /\ Fits(k, st[k])
      /\ \A r : Becomes(k, r) => Alone(k) /\ st'[k] = r
  BY SafeNow
<1>2. {"succeeded", "failed", "skipped", "indeterminate"} \subseteq Outcomes
  BY DEF Outcomes
<1> DEFINE row == IF st[k].row = "waiting_approval" THEN "running" ELSE st[k].row
<1>3. row \in Rows
  BY <1>1 DEF Rows, Open, StepState
<1>4. Becomes(k, IF run # "running" THEN Puts(st[k], "failed")
                 ELSE Goes(Writes(st[k], row), "reserve"))
  BY DEF Consume
<1> HIDE DEF row
<1>5. Safe(k, Writes(st[k], row))
  BY <1>1, <1>3, SafeMarks
<1>6. Safe(k, Goes(Writes(st[k], row), "reserve"))
  BY <1>1, <1>5, SafeGoes DEF PCs, Consume, Fits, Outside
<1> QED
  BY <1>1, <1>2, <1>4, <1>6, SafePuts

\* A controller goes on, ends or throws, safely.
LEMMA LoopMoves ==
  ASSUME Basic, Published, NEW k \in DOMAIN st,
         KidEnds(k) \/ ForeachEnds(k) \/ LoopEnds(k) \/ LoopThrows(k)
  PROVE  Alone(k) /\ Safe(k, st'[k])
<1>1. /\ Safe(k, st[k]) /\ st[k] \in StepState /\ Fits(k, st[k])
      /\ \A r : Becomes(k, r) => Alone(k) /\ st'[k] = r
  BY SafeNow
<1>2. {"succeeded", "failed", "skipped", "indeterminate"} \subseteq Outcomes
  BY DEF Outcomes
<1>3. CASE KidEnds(k)
  BY <1>1, <1>2, <1>3, SafePuts, SafeMarks DEF KidEnds
<1>4. CASE ForeachEnds(k)
  BY <1>1, <1>2, <1>4, SafePuts DEF ForeachEnds
<1>5. CASE LoopEnds(k)
  <2>1. Safe(k, Keeps(st[k], "over"))
    BY <1>1, <1>5, SafeKeeps DEF LoopEnds, Ended, Looping, Controller, Checkpoints
  <2> QED BY <1>1, <1>2, <1>5, <2>1, SafePuts DEF LoopEnds
<1>6. CASE LoopThrows(k)
  <2>1. Safe(k, Keeps(st[k], "threw"))
    BY <1>1, <1>6, SafeKeeps DEF LoopThrows, AtKid, Looping, Controller, Checkpoints
  <2> QED BY <1>1, <1>2, <1>6, <2>1, SafePuts DEF LoopThrows
<1> QED
  BY <1>3, <1>4, <1>5, <1>6

\* A stage that emits or reads begins safely.
LEMMA ChildMoves ==
  ASSUME Basic, Published, NEW c \in DOMAIN st, NEW pick \in {"yes", "no"},
         Use(c) \in StageUses, Use(c) # "github.task" \/ pick = "no", Child(c, pick)
  PROVE  Alone(c) /\ Safe(c, st'[c])
<1>1. /\ Safe(c, st[c]) /\ st[c] \in StepState
      /\ \A r : Becomes(c, r) => Alone(c) /\ st'[c] = r
  BY SafeNow
<1>2. {"succeeded", "failed", "skipped", "indeterminate"} \subseteq Outcomes
  BY DEF Outcomes
<1>3. Safe(c, Answered(st[c], pick))
  BY <1>1, SafeMarks DEF Picked
<1>4. Safe(c, Writes(Answered(st[c], pick), "running"))
  BY <1>3, SafeMarks DEF Rows, Open
<1>5. Use(c) \in Mcp => Safe(c, Goes(Writes(Answered(st[c], pick), "running"), "discover"))
  BY <1>4, SafeGoes DEF PCs
<1>6. pick = "no" \/ Use(c) = "result.emit" \/ Use(c) \in Mcp
  BY DEF StageUses, Mcp
<1>7. /\ Safe(c, Ends(st[c], "indeterminate"))
      /\ \A o \in {"succeeded", "skipped"} : Safe(c, Ends(Answered(st[c], pick), o))
  BY <1>1, <1>2, <1>3, SafePuts
<1>8. \/ Becomes(c, Ends(st[c], "indeterminate"))
      \/ \E o \in {"succeeded", "skipped"} : Becomes(c, Ends(Answered(st[c], pick), o))
      \/ /\ Use(c) \in Mcp
         /\ Becomes(c, Goes(Writes(Answered(st[c], pick), "running"), "discover"))
  <2>1. CASE pick = "no"
    BY <2>1 DEF Child
  <2>2. CASE pick # "no" /\ Use(c) = "result.emit"
    BY <2>2 DEF Child
  <2>3. CASE pick # "no" /\ Use(c) # "result.emit"
    BY <1>6, <2>3 DEF Child
  <2> QED BY <2>1, <2>2, <2>3
<1> QED
  BY <1>1, <1>5, <1>7, <1>8

\* A stage that dispatches a Task begins safely.
LEMMA DispatchedMoves ==
  ASSUME Basic, Published, NEW c \in DOMAIN st, NEW row \in Rows,
         Use(c) = "github.task", Dispatched(c, row)
  PROVE  Alone(c) /\ Safe(c, st'[c])
<1>1. /\ Safe(c, st[c])
      /\ \A r : Becomes(c, r) => Alone(c) /\ st'[c] = r
  BY SafeNow
<1>2. Safe(c, Writes(st[c], row))
  BY <1>1, SafeMarks
<1>3. Safe(c, Answered(Writes(st[c], row), "yes"))
  BY <1>2, SafeMarks DEF Picked
<1>4. Safe(c, Goes(Answered(Writes(st[c], row), "yes"), "reserve"))
  BY <1>3, SafeGoes DEF PCs, Outside, GitHub
<1> QED
  BY <1>1, <1>4 DEF Dispatched

\* A controller that runs its children has a child of its own before it.
LEMMA AtKidFits ==
  ASSUME Basic, Published, NEW k \in DOMAIN st, st[k].pc = "kids", st[k].at <= LastAt(k)
  PROVE  /\ k \in Steps /\ Controller(k)
         /\ Current(k) \in DOMAIN st \ Steps /\ Current(k) # k /\ Use(Current(k)) \in StageUses
         /\ Looping(k) => Use(Current(k)) = "mcp.read"
         /\ st[k].at \in DOMAIN Src(k).kids
<1>1. k \in Steps /\ st[k].at >= 1 /\ Controller(k)
  BY DEF Basic, StepsFit, Fits
<1>2. PlanFits(plan, Steps, DOMAIN st) /\ TypeOK
  BY PlanFitsNow DEF Basic
<1> QED
  BY <1>1, <1>2, KidInRange

\* A child of a controller begins, or is replayed, safely.
LEMMA KidBegins ==
  ASSUME Basic, Published, NEW k \in DOMAIN st,
         BeginItem(k) \/ BeginStage(k) \/ BeginRound(k)
  PROVE  Alone(Current(k)) /\ Safe(Current(k), st'[Current(k)])
<1> DEFINE c == Current(k)
<1>1. /\ c \in DOMAIN st /\ Use(c) \in StageUses
      /\ Looping(k) => Use(c) = "mcp.read"
  BY AtKidFits DEF BeginItem, BeginStage, BeginRound, AtKid
<1>2. {"succeeded", "failed", "skipped", "indeterminate"} \subseteq Outcomes
  BY DEF Outcomes
<1> SUFFICES Alone(c) /\ Safe(c, st'[c])
  OBVIOUS
<1> HIDE DEF c
<1>3. /\ Safe(c, st[c]) /\ st[c] \in StepState /\ Fits(c, st[c])
      /\ \A r : Becomes(c, r) => Alone(c) /\ st'[c] = r
  BY <1>1, SafeNow
<1>4. Kept(c) => st[c].saved \in Outcomes
  BY <1>1, <1>3 DEF Kept, Fits, StepState, Checkpoints, Controller, StageUses
<1>5. CASE Kept(c) /\ Replayed(c)
  BY <1>3, <1>4, <1>5, SafePuts DEF Replayed
<1>6. Picks(c) \ {"error"} \subseteq {"yes", "no"}
  BY <1>1, <1>3 DEF Picks, Picked, StepState, Fits, Controller, StageUses
<1>7. Claimed(c) \in Rows /\ st[c].row \in Rows /\ "running" \in Rows
  BY <1>3 DEF Claimed, Rows, Open, StepState
<1>8. ASSUME NEW pick \in Picks(c) \ {"error"}, NEW row \in Rows,
             IF pick = "yes" /\ Use(c) = "github.task" THEN Dispatched(c, row) ELSE Child(c, pick)
      PROVE  Alone(c) /\ Safe(c, st'[c])
  <2>1. CASE pick = "yes" /\ Use(c) = "github.task"
    BY <1>1, <1>8, <2>1, DispatchedMoves
  <2>2. CASE ~(pick = "yes" /\ Use(c) = "github.task")
    BY <1>1, <1>6, <1>8, <2>2, ChildMoves
  <2> QED BY <2>1, <2>2
<1>9. CASE Becomes(c, Ends(st[c], "skipped"))
  BY <1>2, <1>3, <1>9, SafePuts
<1>10. CASE Looping(k) /\ Child(c, "yes")
  BY <1>1, <1>10, ChildMoves
<1>11. CASE BeginItem(k)
  BY <1>5, <1>7, <1>8, <1>11 DEF BeginItem, c
<1>12. CASE BeginStage(k)
  BY <1>5, <1>7, <1>8, <1>9, <1>12 DEF BeginStage, c
<1>13. CASE BeginRound(k)
  BY <1>5, <1>10, <1>13 DEF BeginRound, c
<1> QED
  BY <1>11, <1>12, <1>13 DEF c

\* Every record that follows is safe.
Sound == /\ DOMAIN st' = DOMAIN st /\ st' = [j \in DOMAIN st |-> st'[j]]
         /\ \A k \in DOMAIN st : Safe(k, st'[k])

\* One safe record is a safe step.
LEMMA AloneSound ==
  ASSUME Basic, NEW k \in DOMAIN st, Alone(k), Safe(k, st'[k])
  PROVE  Sound
BY SafeNow DEF Sound, Alone

\* A step that leaves every record alone is safe.
LEMMA StaysSound ==
  ASSUME Basic, UNCHANGED st
  PROVE  Sound
BY SafeNow DEF Sound, Basic, TypeOK

\* A wave begins, or skips, safely.
LEMMA WaveSound ==
  ASSUME Basic, Published, Wave
  PROVE  Sound
<1>1. \A k \in DOMAIN st : Safe(k, st[k]) /\ Safe(k, Writes(st[k], "skipped"))
  BY SafeNow, SafeMarks DEF Rows, Outcomes
<1>2. ASSUME NEW rows, SkipPending(rows)
      PROVE  Sound
  BY <1>1, <1>2 DEF SkipPending, Sound
<1>3. ASSUME NEW W \in Waves,
             st' = [k \in DOMAIN st |-> IF k \in W THEN Goes(st[k], "begin") ELSE st[k]]
      PROVE  Sound
  <2>1. W \subseteq Steps
    BY DEF Waves, Ready, Pending
  <2>2. \A k \in DOMAIN st : k \in W => Safe(k, Goes(st[k], "begin"))
    BY <1>1, <2>1, SafeGoes DEF PCs
  <2> QED
    BY <1>1, <1>3, <2>2 DEF Sound
<1> QED
  BY <1>2, <1>3, StaysSound DEF Wave

\* A stage that throws or is given up on leaves safe records.
LEMMA StageSound ==
  ASSUME Basic, Published, NEW k \in DOMAIN st, StageThrows(k) \/ KidTimeout(k)
  PROVE  Sound
<1> DEFINE c == Current(k)
<1>1. Controller(k) /\ st[k].pc = "kids"
  BY AtKidFits DEF StageThrows, KidTimeout, AtKid
<1>2. \A j \in DOMAIN st : Safe(j, st[j])
  BY SafeNow
<1>3. /\ \A o \in Outcomes : Safe(k, Puts(Keeps(st[k], "threw"), o)) /\ Safe(k, Puts(st[k], o))
      /\ \A j \in DOMAIN st : Safe(j, Writes(st[j], "failed")) /\ Safe(j, Unheard(st[j]))
  <2>1. Safe(k, Keeps(st[k], "threw"))
    BY <1>1, <1>2, SafeKeeps DEF Checkpoints
  <2> QED
    BY <1>2, <2>1, SafePuts, SafeMarks DEF Rows, Outcomes
<1>4. CASE StageThrows(k)
  <2>1. PICK o \in Outcomes, b \in BOOLEAN : st' = [j \in DOMAIN st |->
              IF j = k THEN Puts(Keeps(st[j], "threw"), o)
              ELSE IF b /\ j = c /\ st[j].row = "none"
              THEN Writes(st[j], "failed") ELSE st[j]]
    <3> DEFINE called == \E p \in 1 .. st[k].at - 1 :
                            /\ Use(Src(k).kids[p]) # "result.emit"
                            /\ st[Src(k).kids[p]].picked = "yes"
               reads == Use(Current(k)) = "mcp.read"
               o == IF called /\ ~reads THEN "indeterminate" ELSE "failed"
    <3>1. o \in Outcomes /\ reads \in BOOLEAN
      BY DEF Outcomes
    <3>2. st' = [j \in DOMAIN st |->
              IF j = k THEN Puts(Keeps(st[j], "threw"), o)
              ELSE IF reads /\ j = c /\ st[j].row = "none"
              THEN Writes(st[j], "failed") ELSE st[j]]
      BY <1>4 DEF StageThrows
    <3> HIDE DEF o, reads, c
    <3> QED BY <3>1, <3>2
  <2> HIDE DEF c
  <2> QED
    BY <1>2, <1>3, <2>1 DEF Sound
<1>5. CASE KidTimeout(k)
  <2>1. st' = [j \in DOMAIN st |-> IF j = k THEN Puts(st[j], "indeterminate")
                                   ELSE IF j = c THEN Unheard(st[j]) ELSE st[j]]
    BY <1>5 DEF KidTimeout
  <2> HIDE DEF c
  <2> QED
    BY <1>2, <1>3, <2>1 DEF Sound, Outcomes
<1> QED
  BY <1>4, <1>5

\* A dispatch that throws or is given up on leaves safe records, its controller's included.
LEMMA ThrowsSound ==
  ASSUME Basic, Published, NEW k \in DOMAIN st, DispatchThrows(k) \/ DispatchTimeout(k)
  PROVE  Sound
<1>1. Use(k) \in GitHub
  BY DEF DispatchThrows, DispatchTimeout
<1>2. \A j \in DOMAIN st : /\ Safe(j, st[j]) /\ Fits(j, st[j])
                           /\ Safe(j, Puts(st[j], "indeterminate"))
  BY SafeNow, SafePuts DEF Outcomes
<1>3. PICK r : Throws(k, r) /\ Safe(k, r)
  <2>1. CASE DispatchThrows(k)
    BY <1>2, <2>1 DEF DispatchThrows
  <2>2. CASE DispatchTimeout(k)
    <3>1. /\ st[k].pc \in Lates
          /\ st[k].pc \in {"send", "reply"} => st[k].fenced
      BY <1>2, <2>2 DEF DispatchTimeout, Lates, Fits
    <3>2. Safe(k, Lingers(st[k], st[k].pc))
      BY <1>1, <1>2, <3>1, SafeLingers
    <3> QED BY <2>2, <3>2 DEF DispatchTimeout
  <2> QED BY <2>1, <2>2
<1>4. /\ Safe(k, Puts(Keeps(r, "threw"), "indeterminate"))
      /\ Safe(k, Goes(Keeps(r, "threw"), "idle"))
  BY <1>1, <1>3, SafeLingers
<1>5. st' = [j \in DOMAIN st |->
         IF j = k THEN IF Hearing(k) = {} THEN Puts(Keeps(r, "threw"), "indeterminate")
                       ELSE Goes(Keeps(r, "threw"), "idle")
         ELSE IF j \in Hearing(k) THEN Puts(st[j], "indeterminate") ELSE st[j]]
  BY <1>3 DEF Throws
<1> QED
  BY <1>2, <1>4, <1>5 DEF Sound

\* A crash and a termination leave safe records.
LEMMA CrashSound ==
  ASSUME Basic, Published, Crash \/ Terminate
  PROVE  Sound
<1>1. \A k \in DOMAIN st : Safe(k, st[k]) /\ Safe(k, Dies(st[k])) /\ Safe(k, Goes(st[k], "idle"))
  BY SafeNow, SafeMarks, SafeGoes DEF PCs
<1>2. CASE Crash
  BY <1>1, <1>2 DEF Crash, Sound
<1>3. CASE Terminate
  BY <1>1, <1>3, StaysSound DEF Terminate, Sound
<1> QED
  BY <1>2, <1>3

\* The upload, which runs outside the Run, leaves a safe record.
LEMMA UploadSound ==
  ASSUME Basic, Published, OfUpload
  PROVE  Sound
<1> DEFINE k == FileStep
<1>0. OfUpload => \E j \in Steps : Use(j) = "litterbox"
  BY DEF OfUpload, UploadReserve, UploadSend, UploadRecord, Basic, UploadFits
<1>1. k \in Steps /\ Use(k) = "litterbox"
  BY <1>0 DEF FileStep
<1>2. k \in DOMAIN st
  BY <1>1, PlanFitsNow DEF Basic, PlanFits, StoredSteps
<1>3. /\ Safe(k, st[k]) /\ st[k] \in StepState /\ Fits(k, st[k])
      /\ \A r : Becomes(k, r) => Alone(k) /\ st'[k] = r
  BY <1>2, SafeNow
<1>4. up \in {"send", "record"} => st[k].fenced
  BY DEF Basic, UploadFits
<1>5. Use(k) \in Outside \cup Providers
  BY <1>1 DEF Providers
<1> HIDE DEF k
<1>6. CASE UploadReserve
  <2>1. Reservable(k) => Safe(k, Fences(st[k]))
    BY <1>3, <1>5, SafeCalls
  <2> QED BY <1>2, <1>3, <1>6, <2>1, AloneSound, StaysSound DEF UploadReserve, k
<1>7. CASE UploadSend
  <2>1. \A e \in Effects : Safe(k, Affects(st[k], e))
    BY <1>3, <1>4, <1>7, SafeCalls DEF UploadSend
  <2>2. \E e \in Effects : Becomes(k, Affects(st[k], e))
    BY <1>7 DEF UploadSend, k
  <2> QED BY <1>2, <1>3, <2>1, <2>2, AloneSound
<1>8. CASE UploadRecord
  <2>1. \A o \in Outcomes : LET row == st[k].row
                                new == IF row \in {"none", "waiting", "running"} THEN o ELSE row
                            IN  Safe(k, Writes(st[k], new))
    BY <1>3, SafeMarks DEF Rows, StepState
  <2>2. \E o \in Outcomes : LET row == st[k].row
                                new == IF row \in {"none", "waiting", "running"} THEN o ELSE row
                            IN  Becomes(k, Writes(st[k], new))
    BY <1>8, AnswersFit DEF UploadRecord, k
  <2> QED BY <1>2, <1>3, <2>1, <2>2, AloneSound
<1> QED
  BY <1>6, <1>7, <1>8 DEF OfUpload

\* A cancellation and an interrupted checkpoint leave safe records.
LEMMA CancelSound ==
  ASSUME Basic, Published,
         CancelMark \/ (\E k \in DOMAIN st : CancelGate(k) \/ Interrupt(k))
  PROVE  Sound
<1>1. \A k \in DOMAIN st : /\ Safe(k, Writes(st[k], "cancelled")) /\ Safe(k, Unheard(st[k]))
                           /\ \A r : Becomes(k, r) => Alone(k) /\ st'[k] = r
  BY SafeNow, SafeMarks DEF Rows
<1>2. CASE CancelMark
  <2>1. cx.of \in DOMAIN st
    BY <1>2 DEF Basic, CancelFits, CancelMark
  <2>2. CASE UNCHANGED st
    BY <2>2, StaysSound
  <2>3. CASE Becomes(cx.of, Writes(st[cx.of], "cancelled"))
    BY <1>1, <2>1, <2>3, AloneSound
  <2> QED BY <1>2, <2>2, <2>3 DEF CancelMark
<1>3. CASE \E k \in DOMAIN st : CancelGate(k) \/ Interrupt(k)
  <2>1. PICK k \in DOMAIN st : Becomes(k, Writes(st[k], "cancelled")) \/ Becomes(k, Unheard(st[k]))
    BY <1>3 DEF CancelGate, Interrupt
  <2> QED BY <1>1, <2>1, AloneSound
<1> QED
  BY <1>2, <1>3

\* Whatever one step does is safe.
LEMMA StepSound ==
  ASSUME Basic, Published, NEW k \in DOMAIN st,
         \/ OfStep(k) \/ Land(k) \/ RegistrationFails(k)
         \/ DispatchTimeout(k) \/ LateDispatch(k) \/ SessionEnds(k)
  PROVE  Sound
<1>1. CASE BeginCheckpointed(k)
  BY <1>1, CheckpointedMoves, AloneSound
<1>2. CASE BeginGitHub(k)
  BY <1>2, GitHubBegins, AloneSound
<1>3. CASE BeginWait(k)
  BY <1>3, WaitBegins, AloneSound
<1>4. CASE BeginChild(k)
  BY <1>4, ChildBegins, AloneSound
<1>5. CASE BeginForeach(k)
  BY <1>5, ForeachBegins, AloneSound
<1>6. CASE BeginLoop(k)
  BY <1>6, LoopBegins, AloneSound
<1>7. CASE BeginItem(k) \/ BeginStage(k) \/ BeginRound(k)
  <2>1. Current(k) \in DOMAIN st
    BY <1>7, AtKidFits DEF BeginItem, BeginStage, BeginRound, AtKid
  <2> QED BY <1>7, <2>1, KidBegins, AloneSound
<1>8. CASE KidEnds(k) \/ ForeachEnds(k) \/ LoopEnds(k) \/ LoopThrows(k)
  BY <1>8, LoopMoves, AloneSound
<1>9. CASE StageThrows(k)
  BY <1>9, StageSound
<1>10. CASE Put(k)
  BY <1>10, PutMoves, AloneSound
<1>11. CASE Prior(k)
  BY <1>11, PriorMoves, AloneSound
<1>12. CASE DiscoverTool(k) \/ DiscoverDub(k) \/ DiscoverEnvshare(k) \/ DiscoverBark(k)
  BY <1>12, CheckedMoves, AloneSound DEF DiscoverTool, DiscoverDub, DiscoverEnvshare, DiscoverBark
<1>13. CASE Reserve(k) \/ ReserveGitHub(k)
  BY <1>13, ReserveMoves, ReserveGitHubMoves, AloneSound
<1>14. CASE CallTool(k) \/ SendHttp(k) \/ ExecuteAction(k) \/ DispatchGitHub(k)
  <2>1. \E es : es \subseteq {"untouched"} \cup Effects /\ Leaves(k, es)
    <3>1. /\ Effects \subseteq {"untouched"} \cup Effects
          /\ (IF Effectful(k) THEN Effects ELSE {"untouched"}) \subseteq {"untouched"} \cup Effects
      OBVIOUS
    <3> QED BY <1>14, <3>1 DEF CallTool, SendHttp, ExecuteAction, DispatchGitHub
  <2> QED BY <2>1, LeavesMoves, AloneSound
<1>15. CASE Reply(k)
  BY <1>15, ReplyMoves, AloneSound
<1>16. CASE PollTask(k) \/ PollSession(k)
  BY <1>16, PollMoves, AloneSound
<1>17. CASE Resume(k) \/ EventTimeout(k) \/ FileWait(k) \/ Decide(k)
  BY <1>17, ResumeMoves, AloneSound
<1>18. CASE OpenGate(k)
  BY <1>18, GateMoves, AloneSound
<1>19. CASE Consume(k)
  BY <1>19, ConsumeMoves, AloneSound
<1>20. CASE Land(k)
  BY <1>20, LandMoves, AloneSound
<1>21. CASE RegistrationFails(k)
  BY <1>21, RegistrationMoves, AloneSound
<1>22. CASE DispatchThrows(k) \/ DispatchTimeout(k)
  BY <1>22, ThrowsSound
<1>23. CASE LateDispatch(k) \/ SessionEnds(k)
  BY <1>23, LateMoves, AloneSound
<1> QED
  BY <1>1, <1>2, <1>3, <1>4, <1>5, <1>6, <1>7, <1>8, <1>9, <1>10, <1>11, <1>12, <1>13, <1>14,
     <1>15, <1>16, <1>17, <1>18, <1>19, <1>20, <1>21, <1>22, <1>23 DEF OfStep

-----------------------------------------------------------------------------
(* What the other variables come to.                                         *)

\* The rest of the state after a step of a published Run.
Rest == /\ plan' = plan /\ work' = work
        /\ run' \in RunStates \ {"draft", "rejected"} /\ (~Going => ~Going')
        /\ eng' \in EngState(Steps)
        /\ conn' \in {"current", "revoked", "regained"}
        /\ gate' \in GateState /\ evt' \in EventState
        /\ up' \in {"idle", "send", "refused", "record", "done"}
        /\ comp' \in [DOMAIN comp -> CompState]
        /\ left' \in [crashes : Nat, faults : Nat]

\* A step of a published Run changes neither its plan nor the kind of a step.
LEMMA SamePlan ==
  ASSUME Rest
  PROVE  /\ Steps' = Steps /\ \A k : Use(k)' = Use(k) /\ Src(k)' = Src(k)
         /\ \A k : Gated(k)' = Gated(k) /\ (Controller(k) <=> Controller(k)')
<1>1. plan' = plan
  BY DEF Rest
<1>2. \A k : Use(k)' = Use(k) /\ Src(k)' = Src(k) /\ Gated(k)' = Gated(k)
  BY <1>1 DEF Use, Src, Gated
<1>3. eng'.ctx \in [Steps -> {"?"} \cup Outcomes]
  BY DEF Rest, EngState
<1>4. Steps' = Steps
  BY <1>3 DEF Steps
<1> QED
  BY <1>2, <1>4 DEF Controller

\* What leaves the other variables alone keeps their types.
LEMMA StillRest ==
  ASSUME Basic, Published, UNCHANGED <<plan, work, run, eng, conn, gate, evt, up, comp, left>>
  PROVE  Rest
BY DEF Basic, TypeOK, Published, Rest, Going

\* Whatever one step does keeps the types of the rest.
LEMMA StepRest ==
  ASSUME Basic, Published, NEW k \in DOMAIN st, OfStep(k) \/ Land(k) \/ LateDispatch(k)
  PROVE  Rest
<1>1. CASE OpenGate(k)
  <2>1. gate' \in GateState
    BY <1>1 DEF OpenGate, GateState, Basic, TypeOK
  <2> QED
    BY <1>1, <2>1 DEF OpenGate, fixed, Basic, TypeOK, Published, Rest, Going
<1>2. CASE ~OpenGate(k)
  <2>1. UNCHANGED <<run, eng, others>>
    <3>1. CASE \/ BeginCheckpointed(k) \/ BeginGitHub(k) \/ BeginWait(k) \/ BeginChild(k)
               \/ BeginForeach(k) \/ BeginLoop(k) \/ BeginItem(k) \/ BeginStage(k)
               \/ BeginRound(k)
      BY <3>1 DEF BeginCheckpointed, BeginGitHub, BeginWait, BeginChild, BeginForeach,
                  BeginLoop, BeginItem, BeginStage, BeginRound
    <3>2. CASE \/ KidEnds(k) \/ ForeachEnds(k) \/ LoopEnds(k) \/ StageThrows(k)
               \/ LoopThrows(k) \/ Put(k) \/ Prior(k)
      BY <3>2 DEF KidEnds, ForeachEnds, LoopEnds, StageThrows, LoopThrows, Put, Prior
    <3>3. CASE \/ DiscoverTool(k) \/ DiscoverDub(k) \/ DiscoverEnvshare(k) \/ DiscoverBark(k)
               \/ Reserve(k) \/ ReserveGitHub(k) \/ DispatchThrows(k)
               \/ CallTool(k) \/ SendHttp(k) \/ ExecuteAction(k)
               \/ DispatchGitHub(k)
      BY <3>3 DEF DiscoverTool, DiscoverDub, DiscoverEnvshare, DiscoverBark, Checked, Reserve,
                  ReserveGitHub, DispatchThrows,
                  CallTool, SendHttp, ExecuteAction, DispatchGitHub, Leaves
    <3>4. CASE \/ Reply(k) \/ PollTask(k) \/ PollSession(k) \/ Resume(k)
               \/ EventTimeout(k) \/ FileWait(k)
               \/ Decide(k) \/ Consume(k) \/ Land(k) \/ LateDispatch(k)
      BY <3>4 DEF Reply, PollTask, PollSession, Resume, EventTimeout, FileWait, Decide, Consume,
                  Land, LateDispatch
    <3> QED BY <1>2, <3>1, <3>2, <3>3, <3>4 DEF OfStep
  <2> QED
    BY <2>1, StillRest DEF others, fixed
<1> QED
  BY <1>1, <1>2

\* The approval keeps the types of the rest.
LEMMA GateRest ==
  ASSUME Basic, Published,
         Deadline \/ \E k \in DOMAIN st : Approve(k) \/ RecordApproval(k)
  PROVE  Rest
<1>1. gate' \in GateState
  BY DEF Deadline, Approve, RecordApproval, GateState, Basic, TypeOK
<1>2. UNCHANGED <<plan, work, run, eng, conn, evt, up, comp, left>>
  BY DEF Deadline, Approve, RecordApproval, fixed
<1> QED
  BY <1>1, <1>2 DEF Basic, TypeOK, Published, Rest, Going

\* The orchestrator keeps the types of the rest, and ends a Run once.
LEMMA EngineRest ==
  ASSUME Basic, Published, Top \/ Wave \/ WaveEnds \/ Final
  PROVE  Rest
<1>1. UNCHANGED others
  BY DEF Top, Wave, WaveEnds, Final
<1>2. run' \in RunStates \ {"draft", "rejected"} /\ (~Going => ~Going')
  BY DEF Top, Wave, WaveEnds, Final, Verdict, Going, Published, Basic, TypeOK, RunStates
<1>3. eng' \in EngState(Steps)
  <2>1. eng \in EngState(Steps)
    BY DEF Basic, TypeOK
  <2>2. CASE Top \/ Final
    BY <2>1, <2>2 DEF Top, Final, EngState
  <2>3. CASE Wave
    <3>1. \A W \in Waves : W \in SUBSET Steps
      BY DEF Waves, Ready, Pending
    <3>2. \/ \E W \in Waves : eng' = [eng EXCEPT !.pc = "exec", !.wave = W]
          \/ eng' = [eng EXCEPT !.pc = "over"]
          \/ eng' = [eng EXCEPT !.pc = "final"]
      BY <2>3 DEF Wave
    <3>3. ASSUME NEW W \in SUBSET Steps, eng' = [eng EXCEPT !.pc = "exec", !.wave = W]
          PROVE  eng' \in EngState(Steps)
      BY <2>1, <3>3 DEF EngState
    <3>4. ASSUME NEW p \in {"over", "final"}, eng' = [eng EXCEPT !.pc = p]
          PROVE  eng' \in EngState(Steps)
      BY <2>1, <3>4 DEF EngState
    <3> QED BY <3>1, <3>2, <3>3, <3>4
  <2>4. CASE WaveEnds
    <3>1. \A k \in Steps : st[k].out \in {"?"} \cup Outcomes
      <4>1. Steps \subseteq DOMAIN st
        BY PlanFitsNow DEF Basic, PlanFits, StoredSteps
      <4>2. st \in [DOMAIN st -> StepState]
        BY DEF Basic, TypeOK
      <4>3. \A r \in StepState : r.out \in {"?"} \cup Outcomes
        BY DEF StepState
      <4> QED BY <4>1, <4>2, <4>3
    <3>2. \A k \in Steps : eng.ctx[k] \in {"?"} \cup Outcomes
      BY <2>1 DEF EngState
    <3>3. [k \in Steps |-> IF k \in eng.wave THEN st[k].out ELSE eng.ctx[k]]
             \in [Steps -> {"?"} \cup Outcomes]
      BY <3>1, <3>2
    <3> QED BY <2>4, <3>3 DEF WaveEnds, EngState
  <2> QED BY <2>2, <2>3, <2>4
<1> QED
  BY <1>1, <1>2, <1>3 DEF others, fixed, Basic, TypeOK, Rest

\* Compensation keeps the types of the rest.
LEMMA CompRest ==
  ASSUME Basic, Published,
         \/ Rollback \/ Terminate \/ \E k \in DOMAIN st : SessionEnds(k)
         \/ \E k \in DOMAIN comp : \/ StatusRepairs(k)
                                   \/ \E c \in Callers : OfCompensation(k, c)
  PROVE  Rest
<1>1. /\ eng \in EngState(Steps) /\ comp = [k \in DOMAIN comp |-> comp[k]]
      /\ \A k \in DOMAIN comp : comp[k] \in CompState
  BY DEF Basic, TypeOK
<1>2. eng' \in EngState(Steps)
  BY <1>1 DEF Rollback, Terminate, SessionEnds, StatusRepairs, OfCompensation,
              CompensateReserve, CompensatePost, CompensateRecord, EngState
<1>3. UNCHANGED <<plan, work, run, conn, gate, evt, up, left>>
  BY DEF Rollback, Terminate, SessionEnds, StatusRepairs, OfCompensation,
         CompensateReserve, CompensatePost, CompensateRecord, fixed
<1>4. comp' \in [DOMAIN comp -> CompState]
  <2>1. CASE Rollback
    <3>1. \A k \in DOMAIN comp : [comp[k] EXCEPT !.native = "reserve"] \in CompState
      BY <1>1 DEF CompState
    <3> QED BY <1>1, <2>1, <3>1 DEF Rollback
  <2>2. CASE Terminate
    <3>1. PICK f \in [DOMAIN comp -> CompState] : comp' = Fallback(f)
      <4>1. \A k \in DOMAIN comp : [comp[k] EXCEPT !.native = "reserve"] \in CompState
        BY <1>1 DEF CompState
      <4>2. PICK ends \in BOOLEAN, rollsBack \in BOOLEAN : comp' = Fallback([k \in DOMAIN comp |->
               IF "cancel" \in plan.saga /\ ends /\ rollsBack /\ st[k].row = "succeeded"
               THEN [comp[k] EXCEPT !.native = "reserve"] ELSE comp[k]])
        BY <2>2 DEF Terminate
      <4>3. [k \in DOMAIN comp |->
               IF "cancel" \in plan.saga /\ ends /\ rollsBack /\ st[k].row = "succeeded"
               THEN [comp[k] EXCEPT !.native = "reserve"] ELSE comp[k]]
              \in [DOMAIN comp -> CompState]
        BY <1>1, <4>1
      <4> QED BY <4>2, <4>3
    <3>2. \A r \in CompState : [r EXCEPT !.fallback = "reserve"] \in CompState
      BY DEF CompState
    <3> QED BY <3>1, <3>2 DEF Fallback
  <2>3. ASSUME NEW k \in DOMAIN comp,
               StatusRepairs(k) \/ \E c \in Callers : OfCompensation(k, c)
        PROVE  comp' \in [DOMAIN comp -> CompState]
    <3> DEFINE Alter(r) == comp' = [comp EXCEPT ![k] = r]
    <3>1. \A r \in CompState : Alter(r) => comp' \in [DOMAIN comp -> CompState]
      BY <1>1
    <3>2. CASE StatusRepairs(k)
      <4>1. Alter([comp[k] EXCEPT !.row = "succeeded"])
        BY <3>2 DEF StatusRepairs
      <4>2. [comp[k] EXCEPT !.row = "succeeded"] \in CompState
        BY <1>1 DEF CompState
      <4> HIDE DEF Alter
      <4> QED BY <3>1, <4>1, <4>2
    <3>3. ASSUME NEW c \in Callers, OfCompensation(k, c)
          PROVE  comp' \in [DOMAIN comp -> CompState]
      <4> DEFINE r == comp[k]
      <4>1. r \in CompState
        BY <1>1
      <4>2. CASE CompensateReserve(k, c)
        <5>1. \/ Alter([r EXCEPT ![c] = "post", !.row = "running"])
              \/ Alter([r EXCEPT ![c] = "done", !.row = @])
          BY <1>1, <4>2 DEF CompensateReserve
        <5>2. /\ [r EXCEPT ![c] = "post", !.row = "running"] \in CompState
              /\ [r EXCEPT ![c] = "done", !.row = @] \in CompState
          BY <4>1 DEF CompState, Callers
        <5> HIDE DEF Alter
        <5> QED BY <3>1, <5>1, <5>2
      <4>3. CASE CompensatePost(k, c)
        <5>1. \E e \in Effects : Alter([r EXCEPT ![c] = "record", !.effect = e])
          <6>1. PICK e \in Effects : comp' = [comp EXCEPT ![k][c] = "record", ![k].effect = e]
            BY <4>3 DEF CompensatePost
          <6>2. Alter([r EXCEPT ![c] = "record", !.effect = e])
            BY <1>1, <6>1
          <6> QED BY <6>2
        <5>2. \A e \in Effects : [r EXCEPT ![c] = "record", !.effect = e] \in CompState
          BY <4>1 DEF CompState, Callers
        <5> HIDE DEF Alter
        <5> QED BY <3>1, <5>1, <5>2
      <4>4. CASE CompensateRecord(k, c)
        <5>1. \E o \in {"requested", "succeeded", "indeterminate", "uncleared"} :
                 Alter([r EXCEPT ![c] = "done", !.row = o])
          <6>1. PICK o \in {"requested", "succeeded", "indeterminate", "uncleared"} :
                   comp' = [comp EXCEPT ![k][c] = "done", ![k].row = o]
            BY <4>4 DEF CompensateRecord
          <6>2. Alter([r EXCEPT ![c] = "done", !.row = o])
            BY <1>1, <6>1
          <6> QED BY <6>2
        <5>2. \A o \in {"requested", "succeeded", "indeterminate", "uncleared"} :
                 [r EXCEPT ![c] = "done", !.row = o] \in CompState
          BY <4>1 DEF CompState, Callers
        <5> HIDE DEF Alter
        <5> QED BY <3>1, <5>1, <5>2
      <4> QED BY <3>3, <4>2, <4>3, <4>4 DEF OfCompensation
    <3> QED BY <2>3, <3>2, <3>3
  <2>4. ASSUME NEW k \in DOMAIN st, SessionEnds(k)
        PROVE  comp' \in [DOMAIN comp -> CompState]
    <3>1. \A j \in DOMAIN comp : [comp[j] EXCEPT !.live = FALSE] \in CompState
      BY <1>1 DEF CompState
    <3> QED BY <1>1, <2>4, <3>1 DEF SessionEnds
  <2> QED BY <2>1, <2>2, <2>3, <2>4
<1> QED
  BY <1>2, <1>3, <1>4 DEF Basic, TypeOK, Published, Rest, Going

\* A cancellation keeps the types of the rest.
LEMMA CancelRest ==
  ASSUME Basic, Published,
         \/ CancelLook \/ CancelFence \/ CancelMark
         \/ \E k \in DOMAIN st : CancelAction(k) \/ CancelEvent(k) \/ CancelGate(k)
  PROVE  Rest
<1>1. UNCHANGED <<plan, work, eng, conn, gate, evt, up, comp, left>>
  BY DEF CancelLook, CancelFence, CancelMark, CancelAction, CancelEvent, CancelGate, fixed
<1>2. run' \in {run, "cancelled"}
  BY DEF CancelLook, CancelFence, CancelMark, CancelAction, CancelEvent, CancelGate
<1> QED
  BY <1>1, <1>2 DEF Basic, TypeOK, Published, Rest, Going, RunStates

\* The upload and the revocation keep the types of the rest.
LEMMA UploadRest ==
  ASSUME Basic, Published, OfUpload \/ Revoke
  PROVE  Rest
BY DEF OfUpload, UploadReserve, UploadSend, UploadRecord, Revoke, fixed, Basic, TypeOK,
       Published, Rest, Going

\* The event receiver keeps the types of the rest.
LEMMA EventRest ==
  ASSUME Basic, Published,
         \E e \in {"e1", "e2"} : EventReceipt(e) \/ EventCheck(e) \/ EventSend(e)
  PROVE  Rest
<1>1. UNCHANGED <<plan, work, run, eng, conn, gate, up, comp>>
  BY DEF EventReceipt, EventCheck, EventSend, fixed
<1>2. left' \in [crashes : Nat, faults : Nat]
  BY DEF EventReceipt, EventCheck, EventSend, Basic, TypeOK
<1>3. evt' \in EventState
  <2>1. PICK e \in {"e1", "e2"} : EventReceipt(e) \/ EventCheck(e) \/ EventSend(e)
    OBVIOUS
  <2>2. evt \in EventState
    BY DEF Basic, TypeOK
  <2>3. CASE EventReceipt(e)
    BY <2>2, <2>3 DEF EventReceipt, EventState
  <2>4. CASE EventCheck(e)
    BY <2>2, <2>4 DEF EventCheck, EventState
  <2>5. CASE EventSend(e)
    <3>1. \/ evt' = [evt EXCEPT !.native = e, !.sent = TRUE, !.sender[e] = "told"]
          \/ \E n \in {e, evt.native} : evt' = [evt EXCEPT !.native = n, !.sender[e] = "idle"]
      BY <2>5 DEF EventSend
    <3>2. CASE evt' = [evt EXCEPT !.native = e, !.sent = TRUE, !.sender[e] = "told"]
      BY <2>2, <3>2 DEF EventState
    <3>3. ASSUME NEW n \in {e, evt.native},
                 evt' = [evt EXCEPT !.native = n, !.sender[e] = "idle"]
          PROVE  evt' \in EventState
      <4>1. n \in {"none", "e1", "e2"}
        BY <2>2 DEF EventState
      <4> QED BY <2>2, <3>3, <4>1 DEF EventState
    <3> QED BY <3>1, <3>2, <3>3
  <2> QED BY <2>1, <2>3, <2>4, <2>5
<1> QED
  BY <1>1, <1>2, <1>3 DEF Basic, TypeOK, Published, Rest, Going

\* A fault keeps the types of the rest.
LEMMA FaultRest ==
  ASSUME Basic, Published,
         Crash \/ \E k \in DOMAIN st : Interrupt(k) \/ KidTimeout(k)
                                          \/ RegistrationFails(k) \/ DispatchTimeout(k)
  PROVE  Rest
<1>1. UNCHANGED <<plan, work, conn, gate, evt, up, comp>>
  BY DEF Crash, Interrupt, KidTimeout, RegistrationFails, DispatchTimeout, fixed
<1>2. left' \in [crashes : Nat, faults : Nat]
  BY DEF Crash, Interrupt, KidTimeout, RegistrationFails, DispatchTimeout, Basic, TypeOK
<1>3. run' \in {run, "indeterminate"}
  BY DEF Crash, Interrupt, KidTimeout, RegistrationFails, DispatchTimeout
<1>4. eng' \in EngState(Steps)
  <2>1. eng \in EngState(Steps)
    BY DEF Basic, TypeOK
  <2>2. \/ eng' \in {eng, [eng EXCEPT !.pc = "over"]}
        \/ eng' = [Idle EXCEPT !.ctx = [k \in Steps |-> "?"]]
    BY DEF Crash, Interrupt, KidTimeout, RegistrationFails, DispatchTimeout
  <2> QED BY <2>1, <2>2 DEF EngState, Idle
<1> QED
  BY <1>1, <1>2, <1>3, <1>4 DEF Basic, TypeOK, Published, Rest, Going, RunStates

\* Every step of a published Run is safe for its records and well typed for the rest.
LEMMA NextRest ==
  ASSUME Basic, Published, Next
  PROVE  Rest /\ Sound
<1>1. ~Publish
  BY DEF Publish, Published
<1>2. CASE Top \/ WaveEnds \/ Final
  BY <1>2, EngineRest, StaysSound DEF Top, WaveEnds, Final
<1>3. CASE Wave
  BY <1>3, EngineRest, WaveSound
<1>4. CASE Rollback
  BY <1>4, CompRest, StaysSound DEF Rollback
<1>5. CASE OfUpload
  BY <1>5, UploadRest, UploadSound
<1>6. CASE CancelLook \/ CancelFence
  BY <1>6, CancelRest, StaysSound DEF CancelLook, CancelFence
<1>7. CASE CancelMark
  BY <1>7, CancelRest, CancelSound
<1>8. CASE Terminate
  BY <1>8, CompRest, CrashSound
<1>9. CASE Revoke
  BY <1>9, UploadRest, StaysSound DEF Revoke
<1>10. CASE Deadline
  BY <1>10, GateRest, StaysSound DEF Deadline
<1>11. CASE Crash
  BY <1>11, FaultRest, CrashSound
<1>12. ASSUME NEW k \in DOMAIN st, OfStep(k) \/ Land(k) \/ LateDispatch(k)
       PROVE  Rest /\ Sound
  BY <1>12, StepRest, StepSound
<1>13. ASSUME NEW k \in DOMAIN st, Approve(k) \/ RecordApproval(k)
       PROVE  Rest /\ Sound
  BY <1>13, GateRest, StaysSound DEF Approve, RecordApproval
<1>14. ASSUME NEW k \in DOMAIN st, CancelAction(k) \/ CancelEvent(k)
       PROVE  Rest /\ Sound
  BY <1>14, CancelRest, StaysSound DEF CancelAction, CancelEvent
<1>15. ASSUME NEW k \in DOMAIN st, CancelGate(k)
       PROVE  Rest /\ Sound
  BY <1>15, CancelRest, CancelSound
<1>16. ASSUME NEW k \in DOMAIN st, Interrupt(k)
       PROVE  Rest /\ Sound
  BY <1>16, FaultRest, CancelSound
<1>17. ASSUME NEW k \in DOMAIN st, KidTimeout(k)
       PROVE  Rest /\ Sound
  BY <1>17, FaultRest, StageSound
<1>18. ASSUME NEW k \in DOMAIN st, RegistrationFails(k) \/ DispatchTimeout(k)
       PROVE  Rest /\ Sound
  BY <1>18, FaultRest, StepSound
<1>19. ASSUME NEW k \in DOMAIN comp,
              StatusRepairs(k) \/ \E c \in Callers : OfCompensation(k, c)
       PROVE  Rest /\ Sound
  BY <1>19, CompRest, StaysSound
     DEF StatusRepairs, OfCompensation, CompensateReserve, CompensatePost,
         CompensateRecord
<1>20. ASSUME NEW e \in {"e1", "e2"}, EventReceipt(e) \/ EventCheck(e) \/ EventSend(e)
       PROVE  Rest /\ Sound
  BY <1>20, EventRest, StaysSound DEF EventReceipt, EventCheck, EventSend
<1>21. ASSUME NEW k \in DOMAIN st, SessionEnds(k)
       PROVE  Rest /\ Sound
  BY <1>21, CompRest, StepSound
<1> QED
  BY <1>1, <1>2, <1>3, <1>4, <1>5, <1>6, <1>7, <1>8, <1>9, <1>10, <1>11, <1>12, <1>13, <1>14,
     <1>15, <1>16, <1>17, <1>18, <1>19, <1>20, <1>21 DEF Next, OfEngine, OfCancel

\* A step of the plan changes its records and, to ask its owner, the gate.
LEMMA StepOnly ==
  ASSUME NEW k, OfStep(k) \/ Land(k) \/ LateDispatch(k)
  PROVE  UNCHANGED <<run, eng, conn, evt, up, cx, comp, left>>
<1>1. CASE OpenGate(k)
  BY <1>1 DEF OpenGate
<1>2. CASE \/ BeginCheckpointed(k) \/ BeginGitHub(k) \/ BeginWait(k) \/ BeginChild(k)
           \/ BeginForeach(k) \/ BeginLoop(k) \/ BeginItem(k) \/ BeginStage(k)
           \/ BeginRound(k)
  BY <1>2 DEF BeginCheckpointed, BeginGitHub, BeginWait, BeginChild, BeginForeach,
              BeginLoop, BeginItem, BeginStage, BeginRound, others
<1>3. CASE \/ KidEnds(k) \/ ForeachEnds(k) \/ LoopEnds(k) \/ StageThrows(k)
           \/ LoopThrows(k) \/ Put(k) \/ Prior(k)
  BY <1>3 DEF KidEnds, ForeachEnds, LoopEnds, StageThrows, LoopThrows, Put, Prior, others
<1>4. CASE \/ DiscoverTool(k) \/ DiscoverDub(k) \/ DiscoverEnvshare(k) \/ DiscoverBark(k)
           \/ Reserve(k) \/ ReserveGitHub(k) \/ DispatchThrows(k)
           \/ CallTool(k) \/ SendHttp(k) \/ ExecuteAction(k)
           \/ DispatchGitHub(k)
  BY <1>4 DEF DiscoverTool, DiscoverDub, DiscoverEnvshare, DiscoverBark, Checked, Reserve,
              ReserveGitHub, DispatchThrows,
              CallTool, SendHttp, ExecuteAction, DispatchGitHub, Leaves, others
<1>5. CASE \/ Reply(k) \/ PollTask(k) \/ PollSession(k) \/ Resume(k)
           \/ EventTimeout(k) \/ FileWait(k)
           \/ Decide(k) \/ Consume(k) \/ Land(k) \/ LateDispatch(k)
  BY <1>5 DEF Reply, PollTask, PollSession, Resume, EventTimeout, FileWait, Decide, Consume,
              Land, LateDispatch, others
<1> QED BY <1>1, <1>2, <1>3, <1>4, <1>5 DEF OfStep

\* Only the cancellation call changes what it has seen and told.
LEMMA CancelOnly ==
  ASSUME Next, Published
  PROVE  \/ UNCHANGED cx \/ CancelLook \/ CancelFence \/ CancelMark \/ Terminate
         \/ \E k \in DOMAIN st : CancelAction(k) \/ CancelEvent(k) \/ CancelGate(k)
<1>1. CASE OfEngine
  BY <1>1 DEF OfEngine, Publish, Top, Wave, WaveEnds, Final, Rollback, others, Published
<1>2. CASE OfUpload \/ Revoke \/ Deadline \/ Crash
  BY <1>2 DEF OfUpload, UploadReserve, UploadSend, UploadRecord, Revoke, Deadline, Crash
<1>3. ASSUME NEW k \in DOMAIN st,
             \/ OfStep(k) \/ Land(k) \/ LateDispatch(k) \/ Approve(k) \/ RecordApproval(k)
             \/ Interrupt(k) \/ KidTimeout(k) \/ RegistrationFails(k)
             \/ DispatchTimeout(k) \/ SessionEnds(k)
      PROVE  UNCHANGED cx
  BY <1>3, StepOnly DEF Approve, RecordApproval, Interrupt, KidTimeout, RegistrationFails,
                        DispatchTimeout, SessionEnds
<1>4. ASSUME NEW k \in DOMAIN comp,
             StatusRepairs(k) \/ \E c \in Callers : OfCompensation(k, c)
      PROVE  UNCHANGED cx
  BY <1>4 DEF StatusRepairs, OfCompensation, CompensateReserve, CompensatePost,
              CompensateRecord
<1>5. ASSUME NEW e \in {"e1", "e2"}, EventReceipt(e) \/ EventCheck(e) \/ EventSend(e)
      PROVE  UNCHANGED cx
  BY <1>5 DEF EventReceipt, EventCheck, EventSend
<1> QED
  BY <1>1, <1>2, <1>3, <1>4, <1>5 DEF Next, OfCancel

\* Only the upload changes how far it is.
LEMMA UploadOnly ==
  ASSUME Next, Published
  PROVE  up' = up \/ UploadReserve \/ UploadSend \/ UploadRecord
<1>1. CASE OfEngine \/ OfCancel
  BY <1>1 DEF OfEngine, Publish, Top, Wave, WaveEnds, Final, Rollback, others, Published,
              OfCancel, CancelLook, CancelFence, CancelMark, Terminate
<1>2. CASE OfUpload \/ Revoke \/ Deadline \/ Crash
  BY <1>2 DEF OfUpload, Revoke, Deadline, Crash
<1>3. ASSUME NEW k \in DOMAIN st,
             \/ OfStep(k) \/ Land(k) \/ LateDispatch(k) \/ Approve(k) \/ RecordApproval(k)
             \/ CancelAction(k) \/ CancelEvent(k) \/ CancelGate(k)
             \/ Interrupt(k) \/ KidTimeout(k) \/ RegistrationFails(k)
             \/ DispatchTimeout(k) \/ SessionEnds(k)
      PROVE  UNCHANGED up
  BY <1>3, StepOnly DEF Approve, RecordApproval, Interrupt, KidTimeout, RegistrationFails,
                        DispatchTimeout, SessionEnds,
                        CancelAction, CancelEvent, CancelGate
<1>4. ASSUME NEW k \in DOMAIN comp,
             StatusRepairs(k) \/ \E c \in Callers : OfCompensation(k, c)
      PROVE  UNCHANGED up
  BY <1>4 DEF StatusRepairs, OfCompensation, CompensateReserve, CompensatePost,
              CompensateRecord
<1>5. ASSUME NEW e \in {"e1", "e2"}, EventReceipt(e) \/ EventCheck(e) \/ EventSend(e)
      PROVE  UNCHANGED up
  BY <1>5 DEF EventReceipt, EventCheck, EventSend
<1> QED
  BY <1>1, <1>2, <1>3, <1>4, <1>5 DEF Next

\* What a cancellation was told stays true: the fence refuses its step from then on.
LEMMA CancelKept ==
  ASSUME Basic, Published, Next, Rest, Sound
  PROVE  cx' \in CancelState(DOMAIN st) /\ CancelFits'
<1>1. /\ cx \in CancelState(DOMAIN st) /\ CancelFits /\ StepsFit
      /\ DOMAIN st' = DOMAIN st /\ \A k \in DOMAIN st : Use(k)' = Use(k)
  BY DEF Basic, TypeOK, Rest, Sound, Use
<1>2. \A k \in DOMAIN st : st'[k].fenced => st[k].fenced \/ Reservable(k)
  BY DEF Sound, Safe
<1>3. /\ ~Going => ~Going'
      /\ \A k : Reservable(k) => Going /\ (Use(k) \in Providers => ~cx.row)
  BY DEF Rest, Reservable, PortalFence, HttpFence, ActionFence, FileFence, GitHubFence, Going,
         Mcp, Http, GitHub, Providers
<1>4. \A k \in DOMAIN st : ~Going \/ (Use(k) \in Providers /\ cx.row)
                              => (st'[k].fenced => st[k].fenced)
  BY <1>2, <1>3
<1>5. CASE UNCHANGED cx
  BY <1>1, <1>3, <1>4, <1>5 DEF CancelFits
<1>6. CASE CancelLook
  BY <1>1, <1>3, <1>6 DEF CancelLook, CancelFits, CancelState, Going
<1>7. CASE CancelFence
  <2>1. ~st'[cx.of].fenced
    BY <1>1, <1>4, <1>7 DEF CancelFence, CancelFits
  <2> QED
    BY <1>1, <1>3, <1>7, <2>1 DEF CancelFence, CancelFits, CancelState, Going
<1>8. CASE CancelMark \/ Terminate
  BY <1>1, <1>3, <1>4, <1>8 DEF CancelMark, Terminate, CancelFits, CancelState
<1>9. ASSUME NEW k \in DOMAIN st, CancelAction(k)
      PROVE  cx' \in CancelState(DOMAIN st) /\ CancelFits'
  <2>1. /\ cx'.pc = "look" /\ cx'.of = k /\ cx'.told = "nothing" /\ cx' \in CancelState(DOMAIN st)
        /\ cx'.row = (run \in {"queued", "running"})
    <3> DEFINE b == run \in {"queued", "running"}
    <3>1. cx' = [cx EXCEPT !.pc = "look", !.of = k, !.row = b] /\ cx.pc = "idle"
      BY <1>9 DEF CancelAction, Cancelling
    <3>2. b \in BOOLEAN
      OBVIOUS
    <3> HIDE DEF b
    <3>3. cx.told = "nothing"
      BY <1>1, <3>1 DEF CancelFits
    <3>4. cx'.row = b /\ cx'.pc = "look" /\ cx'.of = k /\ cx'.told = "nothing"
      BY <1>1, <3>1, <3>3 DEF CancelState
    <3>5. cx' \in CancelState(DOMAIN st)
      BY <1>1, <3>1, <3>2 DEF CancelState
    <3> QED BY <3>4, <3>5 DEF b
  <2>2. cx'.row \/ ~Going'
    BY <1>3, <2>1 DEF Going
  <2>3. Use(k)' \in Providers
    BY <1>1, <1>9 DEF CancelAction
  <2> QED
    BY <1>1, <2>1, <2>2, <2>3 DEF CancelFits
<1>10. ASSUME NEW k \in DOMAIN st, CancelEvent(k)
      PROVE  cx' \in CancelState(DOMAIN st) /\ CancelFits'
  BY <1>1, <1>10 DEF CancelEvent, Cancelling, CancelFits, CancelState
<1>11. ASSUME NEW k \in DOMAIN st, CancelGate(k)
      PROVE  cx' \in CancelState(DOMAIN st) /\ CancelFits'
  <2>1. Becomes(k, Writes(st[k], "cancelled")) /\ ~Going'
    BY <1>11 DEF CancelGate, Going
  <2>2. st'[k].fenced = st[k].fenced
    BY <2>1, SafeNow, WritesFields DEF Rows
  <2>3. /\ cx'.pc = "done" /\ cx'.of = k /\ cx' \in CancelState(DOMAIN st)
        /\ cx'.told = "requested" => ~st[k].fenced
    BY <1>1, <1>11 DEF CancelGate, CancelState
  <2> QED
    BY <1>1, <2>1, <2>2, <2>3 DEF CancelFits
<1>12. UNCHANGED cx \/ CancelLook \/ CancelFence \/ CancelMark \/ Terminate
       \/ \E k \in DOMAIN st : CancelAction(k) \/ CancelEvent(k) \/ CancelGate(k)
  BY CancelOnly
<1> QED
  BY <1>5, <1>6, <1>7, <1>8, <1>9, <1>10, <1>11, <1>12

\* An upload that goes on has its fence.
LEMMA UploadKept ==
  ASSUME Basic, Published, Next, Rest, Sound
  PROVE  UploadFits'
<1>1. /\ UploadFits /\ Steps' = Steps /\ DOMAIN st' = DOMAIN st /\ Steps \subseteq DOMAIN st
      /\ \A k \in DOMAIN st : Use(k)' = Use(k)
  BY SamePlan, PlanFitsNow DEF Basic, Sound, PlanFits, StoredSteps
<1>2. FileStep' = FileStep
  BY <1>1 DEF FileStep
<1>3. \A k \in DOMAIN st : st[k].fenced => st'[k].fenced
  BY DEF Sound, Safe
<1>4. ASSUME \E k \in Steps : Use(k) = "litterbox"
      PROVE  FileStep \in DOMAIN st
  BY <1>1, <1>4 DEF FileStep
<1>5. CASE up' = up
  BY <1>1, <1>2, <1>3, <1>4, <1>5 DEF UploadFits
<1>6. CASE UploadReserve
  <2>1. CASE Reservable(FileStep)
    <3>1. FileStep \in DOMAIN st
      BY <1>4, <1>6 DEF UploadReserve
    <3>2. st'[FileStep] = Fences(st[FileStep])
      BY <1>6, <2>1, <3>1, SafeNow DEF UploadReserve
    <3>3. st'[FileStep].fenced
      BY <3>1, <3>2, SafeNow, FencesFields
    <3> QED BY <1>1, <1>2, <1>6, <3>3 DEF UploadReserve, UploadFits
  <2>2. CASE ~Reservable(FileStep)
    BY <1>6, <2>2 DEF UploadReserve, UploadFits
  <2> QED BY <2>1, <2>2
<1>7. CASE UploadSend \/ UploadRecord
  BY <1>1, <1>2, <1>3, <1>4, <1>7 DEF UploadSend, UploadRecord, UploadFits
<1>8. up' = up \/ UploadReserve \/ UploadSend \/ UploadRecord
  BY UploadOnly
<1> QED
  BY <1>5, <1>6, <1>7, <1>8

\* The records fit their steps after a safe step.
LEMMA FitsKept ==
  ASSUME Rest, Sound
  PROVE  st' \in [DOMAIN st' -> StepState] /\ StepsFit'
<1>1. DOMAIN st' = DOMAIN st /\ st' = [j \in DOMAIN st |-> st'[j]]
  BY DEF Sound
<1>2. ASSUME NEW k \in DOMAIN st
      PROVE  st'[k] \in StepState /\ Fits(k, st[k])'
  <2>1. st'[k] \in StepState /\ Fits(k, st'[k])
    BY DEF Sound, Safe, Well
  <2> QED
    BY <2>1, SamePlan DEF Fits
<1> QED
  BY <1>1, <1>2 DEF StepsFit

\* A published Run keeps the plan it was compiled to.
LEMMA OriginKept ==
  ASSUME Basic, Published, Rest, Sound
  PROVE  Origin' /\ Published'
<1>1. Published'
  BY DEF Rest, Published
<1>2. DOMAIN comp' = DOMAIN comp /\ plan' = plan /\ work' = work /\ DOMAIN st' = DOMAIN st
  BY DEF Rest, Sound
<1>3. Steps' = Steps
  BY SamePlan
<1> QED
  BY <1>1, <1>2, <1>3 DEF Basic, Origin

\* The invariant of a published Run is inductive.
LEMMA PublishedKept ==
  ASSUME Basic, Published, Next
  PROVE  Basic' /\ Published' /\ Rest /\ Sound
<1>1. Rest /\ Sound
  BY NextRest
<1>2. Origin' /\ Published' /\ UploadFits' /\ CancelFits' /\ StepsFit'
  BY <1>1, OriginKept, UploadKept, CancelKept, FitsKept
<1>3. TypeOK'
  <2>1. st' \in [DOMAIN st' -> StepState] /\ cx' \in CancelState(DOMAIN st)
        /\ DOMAIN st' = DOMAIN st /\ Steps' = Steps
    BY <1>1, FitsKept, CancelKept, SamePlan DEF Sound
  <2>2. DOMAIN comp' = DOMAIN comp
    BY <1>1 DEF Rest
  <2> QED
    BY <1>1, <2>1, <2>2 DEF Rest, TypeOK, EngState
<1> QED
  BY <1>1, <1>2, <1>3 DEF Basic

\* The only step of a draft is its publication, and that establishes the invariant.
LEMMA DraftKept ==
  ASSUME Basic, ~Published, Next
  PROVE  Basic' /\ Publish
<1>1. /\ eng = Idle /\ st = <<>> /\ comp = <<>> /\ up = "idle" /\ conn = "current"
      /\ gate = [state |-> "closed", request |-> "none", decision |-> "none"]
      /\ evt.sender = [e \in {"e1", "e2"} |-> "idle"]
      /\ cx = [pc |-> "idle", row |-> FALSE, of |-> <<>>, told |-> "nothing"]
  BY DEF Basic, Origin, Untouched
<1>2. /\ DOMAIN st = {} /\ DOMAIN comp = {} /\ eng.pc = "top" /\ ~Started
  BY <1>1 DEF Idle, Published, Started
<1>3. Publish
  <2>1. ~Top /\ ~Wave /\ ~WaveEnds /\ ~Final /\ ~Rollback
    BY <1>2 DEF Top, Wave, WaveEnds, Final, Rollback
  <2>2. ~OfUpload /\ ~OfCancel /\ ~Revoke /\ ~Deadline /\ ~Crash
    BY <1>1, <1>2 DEF OfUpload, UploadReserve, UploadSend, UploadRecord, OfCancel, CancelLook,
                      CancelFence, CancelMark, Terminate, Revoke, Deadline, Crash
  <2>3. \A e \in {"e1", "e2"} : ~EventReceipt(e) /\ ~EventCheck(e) /\ ~EventSend(e)
    BY <1>1, <1>2 DEF EventReceipt, EventCheck, EventSend
  <2> QED
    BY <1>2, <2>1, <2>2, <2>3 DEF Next, OfEngine
<1>4. PICK w \in Workloads : work = [f \in DOMAIN w \ {"def"} |-> w[f]] /\ plan = w.def
  BY DEF Basic, Origin
<1>5. UNCHANGED <<work, conn, gate, evt, up, cx, left>>
  BY <1>3 DEF Publish
<1>6. CASE ~Publishable(plan, work.grants, work.hub)
  <2>1. run' = "rejected" /\ UNCHANGED <<plan, eng, st, comp>>
    BY <1>3, <1>6 DEF Publish
  <2>2. ~Published' /\ run' \in RunStates
    BY <2>1 DEF Published, RunStates
  <2>3. Origin'
    BY <1>5, <2>1, <2>2 DEF Basic, Origin, Untouched
  <2>4. TypeOK' /\ UploadFits' /\ CancelFits' /\ StepsFit'
    <3>1. st' = <<>> /\ comp' = <<>> /\ eng' = eng /\ DOMAIN st' = {} /\ up' = "idle"
      BY <1>1, <1>2, <1>5, <2>1
    <3>2. TypeOK'
      <4>1. st' = st /\ comp' = comp
        BY <2>1
      <4> QED BY <1>5, <2>2, <3>1, <4>1 DEF Basic, TypeOK, Steps
    <3>3. cx' = [pc |-> "idle", row |-> FALSE, of |-> <<>>, told |-> "nothing"]
      BY <1>1, <1>5
    <3> QED BY <3>1, <3>2, <3>3 DEF UploadFits, CancelFits, StepsFit
  <2> QED BY <1>3, <2>3, <2>4 DEF Basic
<1>7. CASE Publishable(plan, work.grants, work.hub)
  <2>1. /\ run' \in {"queued", "published"} /\ plan' = Stored(plan)
        /\ st' = [k \in Keys(plan) |-> Fresh]
        /\ comp' = [k \in {j \in Ids(plan) : Step(plan, j).undo} |->
                      [row |-> "none", effect |-> "untouched", live |-> TRUE,
                       native |-> "no", fallback |-> "no"]]
        /\ eng' = [Idle EXCEPT !.ctx = [k \in Ids(plan) |-> "?"]]
        /\ Accepts(plan)
    BY <1>3, <1>7 DEF Publish, Publishable, Stored
  <2>2. Published' /\ run' \in RunStates
    BY <2>1 DEF Published, RunStates
  <2>3. Steps' = Ids(plan) /\ eng' \in EngState(Ids(plan))
    BY <2>1 DEF Steps, Idle, EngState
  <2>4. Origin'
    <3>1. /\ DOMAIN st' = Keys(w.def) /\ Steps' = Ids(w.def)
          /\ DOMAIN comp' = {k \in Ids(w.def) : Step(w.def, k).undo}
          /\ Accepts(w.def) /\ plan' = Stored(w.def)
      BY <1>4, <2>1, <2>3
    <3> QED BY <1>4, <1>5, <2>2, <3>1 DEF Origin
  <2>5. /\ Fresh \in StepState /\ Fresh.pc = "idle" /\ Fresh.effect = "untouched"
        /\ ~Fresh.fenced /\ ~Fresh.acked /\ Fresh.saved = "?" /\ Fresh.picked = "?"
        /\ Fresh.late = "no"
    BY DEF Fresh, StepState, PCs, Rows, Open, Checkpoints, Picked, Lates
  <2>6. \A k : Fits(k, Fresh)'
    BY <2>5 DEF Fits, Fresh
  <2>7. StepsFit' /\ st' \in [DOMAIN st' -> StepState]
    BY <2>1, <2>5, <2>6 DEF StepsFit
  <2>8. comp' \in [DOMAIN comp' -> CompState]
    BY <2>1 DEF CompState
  <2>9. UploadFits' /\ CancelFits' /\ cx' \in CancelState(DOMAIN st')
    BY <1>1, <1>5 DEF UploadFits, CancelFits, CancelState
  <2>10. TypeOK'
    BY <1>5, <2>2, <2>3, <2>7, <2>8, <2>9 DEF Basic, TypeOK
  <2> QED BY <1>3, <2>4, <2>7, <2>9, <2>10 DEF Basic
<1> QED
  BY <1>3, <1>6, <1>7

\* A draft satisfies the invariant.
LEMMA BasicInit ==
  ASSUME Init
  PROVE  Basic /\ ~Published
<1>1. PICK w \in Workloads : plan = w.def /\ work = [f \in DOMAIN w \ {"def"} |-> w[f]]
  BY DEF Init
<1>2. work.crashes \in Nat /\ work.faults \in Nat
  BY <1>1, WorkloadsAssumption
<1>3. ~Published /\ Origin
  BY <1>1 DEF Init, Published, Origin, Untouched
<1>4. eng \in EngState(Steps) /\ st \in [DOMAIN st -> StepState] /\ DOMAIN st = {}
      /\ comp \in [DOMAIN comp -> CompState]
  BY DEF Init, Idle, EngState, Steps
<1>5. gate \in GateState /\ evt \in EventState /\ cx \in CancelState(DOMAIN st)
  BY DEF Init, GateState, EventState, CancelState
<1>6. TypeOK
  BY <1>2, <1>4, <1>5 DEF Init, TypeOK, RunStates
<1>7. StepsFit /\ UploadFits /\ CancelFits
  BY <1>4 DEF Init, StepsFit, UploadFits, CancelFits
<1> QED
  BY <1>3, <1>6, <1>7 DEF Basic

\* Stuttering changes nothing.
LEMMA StutterKept ==
  ASSUME Basic, UNCHANGED vars
  PROVE  Basic'
<1>1. /\ work' = work /\ plan' = plan /\ run' = run /\ eng' = eng /\ st' = st /\ conn' = conn
      /\ gate' = gate /\ evt' = evt /\ up' = up /\ cx' = cx /\ comp' = comp /\ left' = left
  BY DEF vars, fixed
<1>2. TypeOK'
  BY <1>1 DEF Basic, TypeOK, Steps
<1>3. Origin'
  BY <1>1 DEF Basic, Origin, Published, Untouched, Steps
<1>4. Steps' = Steps /\ \A k : Use(k)' = Use(k) /\ Gated(k)' = Gated(k)
  BY <1>1 DEF Steps, Use, Gated, Src
<1>5. StepsFit'
  BY <1>1, <1>4 DEF Basic, StepsFit, Fits, Controller
<1>6. FileStep' = FileStep
  BY <1>4 DEF FileStep
<1>7. UploadFits'
  BY <1>1, <1>4, <1>6 DEF Basic, UploadFits
<1>8. CancelFits'
  BY <1>1, <1>4 DEF Basic, CancelFits, Going
<1> QED
  BY <1>2, <1>3, <1>5, <1>7, <1>8 DEF Basic

\* Types, the origin of the plan, and what fences and cancellations say, always.
LEMMA BasicHolds == Spec => []Basic
<1>1. Init => Basic
  BY BasicInit
<1>2. Basic /\ [Next]_vars => Basic'
  BY PublishedKept, DraftKept, StutterKept
<1> QED
  BY <1>1, <1>2, PTL DEF Spec

\* Type correctness: every variable of a Run keeps its type, from the draft to the last replay.
THEOREM TypeCorrect == Spec => []TypeOK
<1>1. Basic => TypeOK
  BY DEF Basic
<1> QED
  BY <1>1, BasicHolds, PTL

\* A caller told that its cancellation was requested is not contradicted by an effect of
\* that step, before or after: the row it left makes the fence refuse, in replays as well.
THEOREM CancellationHonest == Spec => []CancelHonest
<1>1. Basic => CancelHonest
  <2> SUFFICES ASSUME Basic, cx.told = "requested"
               PROVE  st[cx.of].effect = "untouched"
    BY DEF CancelHonest
  <2>1. cx.of \in DOMAIN st
    BY DEF Basic, CancelFits
  <2>2. ~st[cx.of].fenced
    <3>1. Fits(cx.of, st[cx.of])
      BY <2>1, SafeNow
    <3>2. Use(cx.of) = "wait_event" => ~st[cx.of].fenced
      BY <3>1 DEF Fits, Mcp, Http, GitHub, Providers
    <3> QED BY <3>2 DEF Basic, CancelFits
  <2> QED
    BY <2>1, <2>2, SafeNow DEF Fits
<1> QED
  BY <1>1, BasicHolds, PTL

\* What a revocation found unreserved is not reserved and not sent from then on, by this
\* execution, by a replay, or after the connection is enabled again.
THEOREM RevocationHolds == Spec => RevokedNeverCalls
<1> DEFINE Silent == \A k \in DOMAIN st :
          conn # "current" /\ Use(k) \in Mcp \cup Http /\ ~st[k].fenced
          => ~st'[k].fenced /\ st'[k].effect = "untouched"
<1>1. Basic /\ [Next]_vars => [Silent]_vars
  <2> SUFFICES ASSUME Basic, Next, NEW k \in DOMAIN st,
                      conn # "current", Use(k) \in Mcp \cup Http, ~st[k].fenced
               PROVE  ~st'[k].fenced /\ st'[k].effect = "untouched"
    OBVIOUS
  <2>1. Published
    BY DEF Basic, Origin, Untouched
  <2>2. Safe(k, st'[k])
    BY <2>1, PublishedKept DEF Sound
  <2>3. ~Reservable(k)
    BY DEF Reservable, PortalFence, HttpFence, ActionFence, FileFence, GitHubFence, Mcp, Http,
           GitHub, Providers
  <2> QED
    BY <2>2, <2>3 DEF Safe, Well, Fits
<1> QED
  BY <1>1, BasicHolds, PTL DEF Spec, RevokedNeverCalls

-----------------------------------------------------------------------------
(* The waves are the compiler's layers.                                      *)

\* D is what some number of layers holds.
Layer(p, T, D) == \/ D = {}
                  \/ \E N \in Nat : \E L \in [0 .. N -> SUBSET T] :
                        LayersOf(p, T, N, L) /\ \E n \in 0 .. N : D = L[n]

Done == Steps \ Pending

InLayers == Published /\ ~Saga =>
    /\ Layer(plan, Steps, Done)
    /\ eng.pc = "exec" => eng.wave = Ready

\* The layers of a plan do not change.
LEMMA SameLayer ==
  ASSUME plan' = plan, Steps' = Steps, Layer(plan, Steps, Done')
  PROVE  Layer(plan, Steps, Done)'
<1>1. CASE Done' = {}
  BY <1>1 DEF Layer
<1>2. CASE Done' # {}
  <2>1. PICK N \in Nat : \E L \in [0 .. N -> SUBSET Steps] :
               LayersOf(plan, Steps, N, L) /\ \E n \in 0 .. N : Done' = L[n]
    BY <1>2 DEF Layer
  <2>2. PICK L \in [0 .. N -> SUBSET Steps] :
               LayersOf(plan, Steps, N, L) /\ \E n \in 0 .. N : Done' = L[n]
    BY <2>1
  <2>3. LayersOf(plan, Steps, N, L)'
    BY <2>2 DEF LayersOf
  <2>4. L \in [0 .. N -> SUBSET Steps]'
    BY <2>2
  <2> QED
    BY <2>2, <2>3, <2>4 DEF Layer
<1> QED
  BY <1>1, <1>2

\* What is ready after some layers is the next layer, and fits one slice of the runner.
LEMMA NextLayer ==
  ASSUME PlanFits(plan, Steps, DOMAIN st), ~Saga, Layer(plan, Steps, Done)
  PROVE  /\ IsFiniteSet(Ready) /\ Cardinality(Ready) <= MaxParallel
         /\ Layer(plan, Steps, Done \cup Ready)
<1>1. PICK N \in Nat : \E L \in [0 .. N -> SUBSET Steps] :
           LayersOf(plan, Steps, N, L) /\ \E n \in 0 .. N : Done = L[n]
  <2>1. CASE Done = {}
    <3>1. PICK N \in Nat : \E L \in [0 .. N -> SUBSET Steps] : LayersOf(plan, Steps, N, L)
      BY DEF PlanFits, LayeredSteps
    <3>2. PICK L \in [0 .. N -> SUBSET Steps] : LayersOf(plan, Steps, N, L)
      BY <3>1
    <3>3. Done = L[0] /\ 0 \in 0 .. N
      BY <2>1, <3>2 DEF LayersOf
    <3> QED BY <3>2, <3>3
  <2>2. CASE Done # {}
    BY <2>2 DEF Layer
  <2> QED BY <2>1, <2>2
<1>2. PICK L \in [0 .. N -> SUBSET Steps] :
           LayersOf(plan, Steps, N, L) /\ \E n \in 0 .. N : Done = L[n]
  BY <1>1
<1>3. PICK n \in 0 .. N : Done = L[n]
  BY <1>2
<1>4. IsFiniteSet(Steps)
  BY FS_Subset DEF PlanFits, StoredSteps
<1>5. \A k \in Steps : Src(k).needs \subseteq Steps
  BY DEF PlanFits, StoredSteps, PlanStep, Src
<1>6. Ready = {k \in Steps : Src(k).needs \subseteq Done} \ Done
  BY <1>5 DEF Ready, Done, Pending
<1>7. CASE n = N
  <2>1. Done = Steps
    BY <1>2, <1>3, <1>7 DEF LayersOf
  <2>2. Ready = {}
    BY <1>6, <2>1
  <2>3. Done \cup Ready = Done
    BY <2>2
  <2> QED
    BY <2>2, <2>3, FS_EmptySet, LimitsAssumption
<1>8. CASE n # N
  <2>1. n + 1 \in 1 .. N /\ (n + 1) - 1 = n /\ n + 1 \in 0 .. N
    BY <1>3, <1>8
  <2>2. /\ L[n + 1] = {k \in Steps : plan.steps[k].needs \subseteq L[n]}
        /\ L[n] \subseteq L[n + 1]
        /\ Cardinality(L[n + 1] \ L[n]) <= MaxParallel
    BY <1>2, <2>1 DEF LayersOf
  <2>3. Ready = L[n + 1] \ L[n]
    BY <1>3, <1>6, <2>2 DEF Src
  <2>4. Done \cup Ready = L[n + 1]
    BY <1>3, <2>2, <2>3
  <2>5. IsFiniteSet(Ready)
    BY <1>4, FS_Subset DEF Ready, Pending
  <2> QED
    BY <1>2, <2>1, <2>2, <2>3, <2>4, <2>5 DEF Layer
<1> QED
  BY <1>7, <1>8

\* As long as a step is pending, one is ready.
LEMMA SomeReady ==
  ASSUME PlanFits(plan, Steps, DOMAIN st), Pending # {}
  PROVE  Ready # {}
<1>1. Pending \in SUBSET Steps
  BY DEF Pending
<1>2. PICK k \in Pending : Src(k).before \cap Pending = {}
  BY <1>1 DEF PlanFits, OrderedSteps, Src
<1>3. Src(k).needs \subseteq Src(k).before /\ Src(k).needs \subseteq Steps
  BY <1>1, <1>2 DEF PlanFits, OrderedSteps, StoredSteps, PlanStep, Src
<1> QED
  BY <1>2, <1>3 DEF Ready, Pending

\* Who moves the orchestrator.
LEMMA EngineOnly ==
  ASSUME Next, Published
  PROVE  \/ UNCHANGED eng \/ Top \/ Wave \/ WaveEnds \/ Final \/ Rollback \/ Terminate \/ Crash
         \/ \E k \in DOMAIN st : Interrupt(k)
<1>1. CASE Publish
  BY <1>1 DEF Publish, Published
<1>2. CASE OfUpload \/ Revoke \/ Deadline \/ CancelLook \/ CancelFence \/ CancelMark
  BY <1>2 DEF OfUpload, UploadReserve, UploadSend, UploadRecord, Revoke, Deadline, CancelLook,
              CancelFence, CancelMark
<1>3. ASSUME NEW k \in DOMAIN st,
             \/ OfStep(k) \/ Land(k) \/ LateDispatch(k) \/ Approve(k) \/ RecordApproval(k)
             \/ CancelAction(k) \/ CancelEvent(k) \/ CancelGate(k)
             \/ KidTimeout(k) \/ RegistrationFails(k) \/ DispatchTimeout(k) \/ SessionEnds(k)
      PROVE  UNCHANGED eng
  BY <1>3, StepOnly DEF Approve, RecordApproval, KidTimeout, RegistrationFails,
                        DispatchTimeout, SessionEnds,
                        CancelAction, CancelEvent, CancelGate
<1>4. ASSUME NEW k \in DOMAIN comp,
             StatusRepairs(k) \/ \E c \in Callers : OfCompensation(k, c)
      PROVE  UNCHANGED eng
  BY <1>4 DEF StatusRepairs, OfCompensation, CompensateReserve, CompensatePost,
              CompensateRecord
<1>5. ASSUME NEW e \in {"e1", "e2"}, EventReceipt(e) \/ EventCheck(e) \/ EventSend(e)
      PROVE  UNCHANGED eng
  BY <1>5 DEF EventReceipt, EventCheck, EventSend
<1> QED
  BY <1>1, <1>2, <1>3, <1>4, <1>5 DEF Next, OfEngine, OfCancel

\* The waves of a plan without a Saga are its layers, through crashes and replays.
LEMMA LayersKept ==
  ASSUME Basic, InLayers, Next
  PROVE  InLayers'
<1>1. CASE ~Published
  <2>1. Publish
    BY <1>1, DraftKept
  <2>2. CASE run' = "rejected"
    BY <2>2 DEF InLayers, Published
  <2>3. CASE eng' = [Idle EXCEPT !.ctx = [k \in Ids(plan) |-> "?"]]
    <3>1. eng'.pc = "top" /\ Done' = {}
      BY <2>3 DEF Idle, Done, Pending, Steps
    <3> QED BY <3>1 DEF InLayers, Layer
  <2> QED BY <2>1, <2>2, <2>3 DEF Publish
<1>2. ASSUME Published, ~Saga'
      PROVE  Layer(plan, Steps, Done)' /\ (eng'.pc = "exec" => eng'.wave = Ready')
  <2>1. Rest
    BY <1>2, PublishedKept
  <2>2. Steps' = Steps /\ plan' = plan /\ (\A k : Src(k)' = Src(k)) /\ ~Saga
    BY <1>2, <2>1, SamePlan DEF Rest, Saga
  <2>3. Layer(plan, Steps, Done) /\ (eng.pc = "exec" => eng.wave = Ready)
    BY <1>2, <2>2 DEF InLayers
  <2>4. PlanFits(plan, Steps, DOMAIN st)
    BY <1>2, PlanFitsNow DEF Basic
  <2>5. /\ IsFiniteSet(Ready) /\ Cardinality(Ready) <= MaxParallel
        /\ Layer(plan, Steps, Done \cup Ready)
    BY <2>2, <2>3, <2>4, NextLayer
  <2>6. ASSUME eng'.ctx = eng.ctx
        PROVE  Layer(plan, Steps, Done)' /\ Ready' = Ready
    <3>1. Done' = Done /\ Ready' = Ready
      BY <2>2, <2>6 DEF Done, Ready, Pending
    <3> QED BY <2>2, <2>3, <3>1, SameLayer
  <2>7. eng \in EngState(Steps)
    BY DEF Basic, TypeOK
  <2>8. CASE UNCHANGED eng
    BY <2>3, <2>6, <2>8
  <2>9. CASE Top \/ Final \/ Rollback \/ Terminate \/ \E k \in DOMAIN st : Interrupt(k)
    <3>1. \/ UNCHANGED eng
          \/ \E pc \in {"loop", "over", "throws"} : eng' = [eng EXCEPT !.pc = pc]
          \/ eng' = [eng EXCEPT !.pc = "over", !.wave = {}]
      BY <2>9 DEF Top, Final, Rollback, Terminate, Interrupt
    <3>2. CASE \E pc \in {"loop", "over", "throws"} : eng' = [eng EXCEPT !.pc = pc]
      <4>1. eng'.ctx = eng.ctx /\ eng'.pc # "exec"
        BY <2>7, <3>2 DEF EngState
      <4> QED BY <2>6, <4>1
    <3>3. CASE eng' = [eng EXCEPT !.pc = "over", !.wave = {}]
      <4>1. eng'.ctx = eng.ctx /\ eng'.pc # "exec"
        BY <2>7, <3>3 DEF EngState
      <4> QED BY <2>6, <4>1
    <3> QED BY <2>8, <3>1, <3>2, <3>3
  <2>10. CASE Wave
    <3>1. ASSUME NEW W \in Waves, eng' = [eng EXCEPT !.pc = "exec", !.wave = W]
          PROVE  Layer(plan, Steps, Done)' /\ (eng'.pc = "exec" => eng'.wave = Ready')
      <4>1. W \subseteq Ready /\ Cardinality(W) = Cardinality(Ready)
        <5>1. /\ W \in SUBSET Ready
              /\ Cardinality(W) = IF Cardinality(Ready) < MaxParallel
                                 THEN Cardinality(Ready) ELSE MaxParallel
          BY <2>2 DEF Waves
        <5>2. Cardinality(Ready) \in Nat /\ MaxParallel \in Nat
          BY <2>5, FS_CardinalityType, LimitsAssumption
        <5> QED BY <2>5, <5>1, <5>2
      <4>2. W = Ready
        BY <2>5, <4>1, FS_Subset
      <4>3. eng'.ctx = eng.ctx /\ eng'.wave = W
        BY <2>7, <3>1 DEF EngState
      <4> QED BY <2>6, <4>2, <4>3
    <3>2. ASSUME NEW pc \in {"over", "final"}, eng' = [eng EXCEPT !.pc = pc]
          PROVE  Layer(plan, Steps, Done)' /\ (eng'.pc = "exec" => eng'.wave = Ready')
      <4>1. eng'.ctx = eng.ctx /\ eng'.pc # "exec"
        BY <2>7, <3>2 DEF EngState
      <4> QED BY <2>6, <4>1
    <3> QED BY <2>10, <3>1, <3>2 DEF Wave
  <2>11. CASE WaveEnds
    <3>1. /\ eng'.pc = "loop" /\ eng.wave = Ready
          /\ eng'.ctx = [k \in Steps |-> IF k \in eng.wave THEN st[k].out ELSE eng.ctx[k]]
          /\ \A k \in eng.wave : st[k].pc = "done"
      BY <2>3, <2>11 DEF WaveEnds
    <3>2. \A k \in Ready : st[k].out # "?"
      <4>1. Steps \subseteq DOMAIN st
        BY <2>4 DEF PlanFits, StoredSteps
      <4> QED BY <3>1, <4>1, SafeNow DEF Ready, Pending, Fits
    <3>3. Done' = Done \cup Ready
      <4>1. Done' = {k \in Steps : eng'.ctx[k] # "?"}
        BY <2>2 DEF Done, Pending
      <4>2. Done = {k \in Steps : eng.ctx[k] # "?"} /\ Ready \subseteq Steps
        BY DEF Done, Pending, Ready
      <4> QED BY <3>1, <3>2, <4>1, <4>2
    <3> QED BY <2>2, <2>5, <3>1, <3>3, SameLayer
  <2>12. CASE Crash
    <3>1. eng'.pc = "top" /\ Done' = {}
      BY <2>12 DEF Crash, Idle, Done, Pending, Steps
    <3> QED BY <3>1 DEF Layer
  <2> QED
    BY <1>2, <2>8, <2>9, <2>10, <2>11, <2>12, EngineOnly
<1> QED
  BY <1>1, <1>2 DEF InLayers

\* The waves are the compiler's layers, always.
LEMMA LayersHold == Spec => [](Basic /\ InLayers)
<1>1. Init => Basic /\ InLayers
  BY BasicInit DEF InLayers
<1>2. Basic /\ InLayers /\ UNCHANGED vars => InLayers'
  <2> SUFFICES ASSUME InLayers, UNCHANGED vars PROVE InLayers'
    OBVIOUS
  <2>1. plan' = plan /\ eng' = eng /\ run' = run
    BY DEF vars, fixed
  <2>2. Steps' = Steps /\ Done' = Done /\ Ready' = Ready
    BY <2>1 DEF Steps, Done, Pending, Ready, Src
  <2>3. Layer(plan, Steps, Done) => Layer(plan, Steps, Done)'
    BY <2>1, <2>2, SameLayer
  <2> QED BY <2>1, <2>2, <2>3 DEF InLayers, Published, Saga
<1>3. Basic /\ InLayers /\ [Next]_vars => InLayers'
  BY <1>2, LayersKept
<1> QED
  BY <1>1, <1>3, BasicHolds, PTL DEF Spec

\* An accepted plan has no cycle and one row per step and child within the budget, and the
\* runner takes it layer by layer, each in one slice, and is never stuck.
THEOREM PlansRun == Spec => []AcceptedPlansRun
<1>1. Basic /\ InLayers => AcceptedPlansRun
  <2> SUFFICES ASSUME Basic, InLayers PROVE AcceptedPlansRun
    OBVIOUS
  <2>1. ASSUME run = "draft", Accepts(plan)
        PROVE  /\ Acyclic(plan) /\ Cardinality(Keys(plan)) <= MaxSteps
               /\ Cardinality(Keys(plan)) = Cardinality(AllKeys(plan))
    <3>1. \E w \in Workloads : plan = w.def
      BY <2>1 DEF Basic, Origin, Published
    <3>2. Parsed(plan)
      BY <3>1, WorkloadsAssumption
    <3> QED BY <2>1, <3>2, AcceptedAcyclic, BudgetCovers
  <2>2. ASSUME eng.pc = "loop", Pending # {}
        PROVE  Ready # {} /\ (Cardinality(Ready) <= MaxParallel \/ Saga)
    <3>1. Published
      BY <2>2 DEF Basic, Origin, Untouched, Idle
    <3>2. PlanFits(plan, Steps, DOMAIN st)
      BY <3>1, PlanFitsNow DEF Basic
    <3> QED
      BY <2>2, <3>1, <3>2, SomeReady, NextLayer DEF InLayers
  <2> QED
    BY <2>1, <2>2 DEF AcceptedPlansRun
<1> QED
  BY <1>1, LayersHold, PTL

-----------------------------------------------------------------------------
(* What leaves, leaves once, and what is said of it is true.                 *)

\* From reserved to sent, from sent to carried out or refused, and never back.
Leaving(from, to, reserved) ==
    \/ to = from
    \/ from = "untouched" /\ reserved /\ to \in Effects
    \/ from = "sent" /\ to \in {"applied", "refused"}

\* Where a gated step can only be with the owner's approval.
Granted == {"consume", "reserve", "send", "reply", "poll"}

\* A record claims a success only of what was carried out, and acts only on an approval.
Earned(k, r) ==
    /\ r.pc = "send" => r.effect = "untouched"
    /\ r.late = "send" => r.effect = "untouched" /\ r.pc # "send"
    /\ Effectful(k) /\ (\/ r.row = "succeeded" \/ r.saved = "succeeded"
                        \/ r.pc \in {"put", "done"} /\ r.out = "succeeded")
          => r.effect = "applied"
    /\ Gated(k) /\ (r.pc \in Granted \/ r.fenced \/ r.late # "no") => Approved

\* A call leaves once it is reserved, and the file only when the upload sends it.
Due(k) == st[k].fenced /\ (Use(k) = "litterbox" => up' # "send")

\* A record that may follow in this respect: its settled row stays, its effect moves on.
Follows(k, r) == /\ r \in StepState /\ Earned(k, r)
                 /\ st[k].row \notin Open => r.row = st[k].row
                 /\ Leaving(st[k].effect, r.effect, Due(k))

\* The owner decides once, and a compensation has one caller at a time.
DecidedOnce == gate.decision # "none" => gate.request = "told"

Sending(r, c) == r[c] \in {"post", "record"}

Repaid(r) ==
    /\ \A c \in Callers : Sending(r, c) => r.row = "running"
    /\ \A c \in Callers : r[c] = "post" => r.effect = "untouched"
    /\ ~(Sending(r, "native") /\ Sending(r, "fallback"))
    /\ r.row = "none" => r.effect = "untouched"
    /\ r.row \in {"requested", "succeeded"} => r.effect = "applied"
    /\ r.row = "uncleared" => r.effect = "refused"
    /\ r.row = "succeeded" => ~r.live

Settled(row) == row \notin {"none", "running"}

\* A compensation that may follow: one POST, its verdict final but for a confirmed request.
Repays(k, r) == /\ Repaid(r)
                /\ Leaving(comp[k].effect, r.effect, comp[k].row = "running")
                /\ r.row = comp[k].row \/ (r.effect = comp[k].effect /\ r.row # "none")
                /\ Settled(comp[k].row) => \/ r.row = comp[k].row
                                           \/ comp[k].row = "requested" /\ r.row = "succeeded"

Honest == /\ \A k \in DOMAIN st : Earned(k, st[k])
          /\ DecidedOnce
          /\ up = "send" => st[FileStep].effect = "untouched"
          /\ \A k \in DOMAIN comp : Repaid(comp[k])

\* Only GitHub steps of the plan are gated, and a child never is.
LEMMA GatedSteps ==
  ASSUME Basic, Published, NEW k \in DOMAIN st, Gated(k)
  PROVE  Use(k) \in GitHub /\ k \in Steps
<1>1. PlanFits(plan, Steps, DOMAIN st)
  BY PlanFitsNow DEF Basic
<1> QED
  BY <1>1 DEF PlanFits, OwnedKids, FewOfEach, Gated, Src, Use

\* Every record of a reachable state follows itself.
LEMMA FollowsNow ==
  ASSUME Basic, Honest, NEW k \in DOMAIN st
  PROVE  /\ Follows(k, st[k]) /\ st[k] \in StepState /\ Fits(k, st[k]) /\ Earned(k, st[k])
         /\ \A r : Becomes(k, r) => Alone(k) /\ st'[k] = r
BY SafeNow DEF Honest, Follows, Leaving

\* A callback that moves on claims nothing; it sends what has not left, once approved.
LEMMA FollowsGoes ==
  ASSUME NEW k, NEW r, Follows(k, r), NEW pc \in PCs \ {"put", "done"},
         pc = "send" => r.effect = "untouched" /\ r.late # "send",
         Gated(k) /\ pc \in Granted => Approved
  PROVE  Follows(k, Goes(r, pc))
<1> DEFINE q == Goes(r, pc)
<1>1. /\ q \in StepState /\ q.pc = pc /\ q.row = r.row /\ q.out = r.out /\ q.saved = r.saved
      /\ q.fenced = r.fenced /\ q.late = r.late /\ q.effect = r.effect
  BY GoesFields DEF Follows
<1> HIDE DEF q
<1>2. Earned(k, q)
  BY <1>1 DEF Follows, Earned
<1> QED
  BY <1>1, <1>2 DEF Follows, q

\* An outcome is a success only of what was carried out.
LEMMA FollowsPuts ==
  ASSUME NEW k, NEW r, Follows(k, r), NEW o \in Outcomes,
         Effectful(k) /\ o = "succeeded" => r.effect = "applied"
  PROVE  Follows(k, Puts(r, o)) /\ Follows(k, Ends(r, o))
<1>1. Follows(k, Puts(r, o))
  <2> DEFINE q == Puts(r, o)
  <2>1. /\ q \in StepState /\ q.pc = "put" /\ q.row = r.row /\ q.out = o /\ q.saved = r.saved
        /\ q.fenced = r.fenced /\ q.late = r.late /\ q.effect = r.effect
    BY PutsFields DEF Follows
  <2> HIDE DEF q
  <2>2. Earned(k, q)
    BY <2>1 DEF Follows, Earned, Granted
  <2> QED BY <2>1, <2>2 DEF Follows, q
<1>2. Follows(k, Ends(r, o))
  <2> DEFINE q == Ends(r, o)
  <2>1. /\ q \in StepState /\ q.pc = "put" /\ q.row = r.row /\ q.out = o /\ q.saved = o
        /\ q.fenced = r.fenced /\ q.late = r.late /\ q.effect = r.effect
    BY EndsFields DEF Follows
  <2> HIDE DEF q
  <2>2. Earned(k, q)
    BY <2>1 DEF Follows, Earned, Granted
  <2> QED BY <2>1, <2>2 DEF Follows, q
<1> QED
  BY <1>1, <1>2

\* An open row is written, with a success only of what was carried out.
LEMMA FollowsWrites ==
  ASSUME NEW k, NEW r, Follows(k, r), NEW row \in Rows,
         st[k].row \notin Open => row = st[k].row,
         Effectful(k) /\ row = "succeeded" => r.effect = "applied"
  PROVE  Follows(k, Writes(r, row))
<1> DEFINE q == Writes(r, row)
<1>1. /\ q \in StepState /\ q.pc = r.pc /\ q.row = row /\ q.out = r.out /\ q.saved = r.saved
      /\ q.fenced = r.fenced /\ q.late = r.late /\ q.effect = r.effect
  BY WritesFields DEF Follows
<1> HIDE DEF q
<1>2. Earned(k, q)
  BY <1>1 DEF Follows, Earned
<1> QED
  BY <1>1, <1>2 DEF Follows, q

\* A row that is open may take any open mark, and one that is settled keeps its own.
LEMMA FollowsMark ==
  ASSUME NEW k, NEW r, Follows(k, r), NEW row \in Rows \ {"succeeded"},
         st[k].row \in Open \/ row = st[k].row
  PROVE  Follows(k, Writes(r, row))
BY FollowsWrites

\* Answers, snapshots, progress, interruptions and crashes claim nothing.
LEMMA FollowsMarks ==
  ASSUME NEW k, NEW r, Follows(k, r)
  PROVE  /\ \A p \in Picked : Follows(k, Answered(r, p)) /\ Answered(r, p).effect = r.effect
         /\ Follows(k, Unheard(r)) /\ Follows(k, Dies(r)) /\ Follows(k, Advances(r))
         /\ Follows(k, Closes(r))
         /\ \A n \in Nat : Follows(k, Freezes(r, n))
         /\ \A o \in {"threw", "over"} : Follows(k, Keeps(r, o)) /\ Keeps(r, o).effect = r.effect
<1>1. r \in StepState
  BY DEF Follows
<1>2. ASSUME NEW q \in StepState, q.pc \in {r.pc, "idle"}, q.row = r.row, q.out = r.out,
             q.saved \in {r.saved, "threw", "over"}, q.fenced = r.fenced, q.effect = r.effect,
             q.late \in {r.late, "no"}
      PROVE  Follows(k, q)
  <2>1. Earned(k, q)
    BY <1>2 DEF Follows, Earned, Granted
  <2> QED BY <1>2, <2>1 DEF Follows
<1>3. ASSUME NEW p \in Picked PROVE Follows(k, Answered(r, p)) /\ Answered(r, p).effect = r.effect
  BY <1>1, <1>2, AnsweredFields
<1>4. Follows(k, Unheard(r))
  BY <1>1, <1>2, UnheardFields
<1>5. Follows(k, Dies(r))
  BY <1>1, <1>2, DiesFields
<1>6. Follows(k, Advances(r))
  <2>1. r.at \in Nat
    BY <1>1 DEF StepState
  <2> QED BY <1>1, <1>2, <2>1, AdvancesFields
<1>7. ASSUME NEW n \in Nat PROVE Follows(k, Freezes(r, n))
  BY <1>1, <1>2, FreezesFields
<1>8. ASSUME NEW o \in {"threw", "over"}
      PROVE  Follows(k, Keeps(r, o)) /\ Keeps(r, o).effect = r.effect
  <2>1. o \in Checkpoints
    BY DEF Checkpoints
  <2> QED BY <1>1, <1>2, <2>1, KeepsFields
<1>9. Follows(k, Closes(r))
  BY <1>1, <1>2, ClosesFields
<1> QED
  BY <1>3, <1>4, <1>5, <1>6, <1>7, <1>8, <1>9

\* A checkpoint keeps a success only of what was carried out.
LEMMA FollowsKeeps ==
  ASSUME NEW k, NEW r, Follows(k, r), NEW o \in Outcomes,
         Effectful(k) /\ o = "succeeded" => r.effect = "applied"
  PROVE  Follows(k, Keeps(r, o)) /\ Keeps(r, o).effect = r.effect
<1> DEFINE q == Keeps(r, o)
<1>1. /\ q \in StepState /\ q.pc = r.pc /\ q.row = r.row /\ q.out = r.out /\ q.saved = o
      /\ q.fenced = r.fenced /\ q.late = r.late /\ q.effect = r.effect
  BY KeepsFields DEF Follows, Checkpoints
<1> HIDE DEF q
<1>2. Earned(k, q)
  BY <1>1 DEF Follows, Earned
<1> QED
  BY <1>1, <1>2 DEF Follows, q

\* A reservation and an acknowledgement send nothing; what leaves was reserved.
LEMMA FollowsCalls ==
  ASSUME NEW k, NEW r, Follows(k, r), Gated(k) => Approved
  PROVE  /\ Follows(k, Fences(r)) /\ Fences(r).effect = r.effect
         /\ Follows(k, Acks(r)) /\ Acks(r).effect = r.effect
         /\ \A e : /\ Leaving(st[k].effect, e, Due(k))
                   /\ e \in {"untouched"} \cup Effects
                   /\ r.effect # "applied" /\ r.pc # "send" /\ r.late # "send"
                   => Follows(k, Affects(r, e))
<1>1. r \in StepState
  BY DEF Follows
<1>2. Follows(k, Fences(r)) /\ Fences(r).effect = r.effect
  <2> DEFINE q == Fences(r)
  <2>1. /\ q \in StepState /\ q.pc = r.pc /\ q.row = r.row /\ q.out = r.out /\ q.saved = r.saved
        /\ q.late = r.late /\ q.effect = r.effect
    BY <1>1, FencesFields
  <2> HIDE DEF q
  <2>2. Earned(k, q)
    BY <2>1 DEF Follows, Earned
  <2> QED BY <2>1, <2>2 DEF Follows, q
<1>3. Follows(k, Acks(r)) /\ Acks(r).effect = r.effect
  <2> DEFINE q == Acks(r)
  <2>1. /\ q \in StepState /\ q.pc = r.pc /\ q.row = r.row /\ q.out = r.out /\ q.saved = r.saved
        /\ q.fenced = r.fenced /\ q.late = r.late /\ q.effect = r.effect
    BY <1>1, AcksFields
  <2> HIDE DEF q
  <2>2. Earned(k, q)
    BY <2>1 DEF Follows, Earned
  <2> QED BY <2>1, <2>2 DEF Follows, q
<1>4. ASSUME NEW e \in {"untouched"} \cup Effects, Leaving(st[k].effect, e, Due(k)),
             r.effect # "applied", r.pc # "send", r.late # "send"
      PROVE  Follows(k, Affects(r, e))
  <2> DEFINE q == Affects(r, e)
  <2>1. /\ q \in StepState /\ q.pc = r.pc /\ q.row = r.row /\ q.out = r.out /\ q.saved = r.saved
        /\ q.fenced = r.fenced /\ q.late = r.late /\ q.effect = e
    BY <1>1, AffectsFields
  <2> HIDE DEF q
  <2>2. Earned(k, q)
    BY <1>4, <2>1 DEF Follows, Earned
  <2> QED BY <1>4, <2>1, <2>2 DEF Follows, q
<1> QED
  BY <1>2, <1>3, <1>4

\* What is written where a row is claimed is open, or what it was.
LEMMA ClaimFollows ==
  ASSUME NEW k, NEW r, Follows(k, r), st[k] \in StepState, r.row = st[k].row
  PROVE  Follows(k, Writes(r, Claimed(k)))
<1>1. Claimed(k) \in Rows /\ (st[k].row \notin Open => Claimed(k) = st[k].row)
  BY DEF Claimed, Rows, Open, StepState
<1>2. Effectful(k) /\ Claimed(k) = "succeeded" => r.effect = "applied"
  BY DEF Claimed, Follows, Earned
<1> QED
  BY <1>1, <1>2, FollowsWrites

Followed == \A k \in DOMAIN st : Follows(k, st'[k])

\* One record that follows, and the others stay.
LEMMA AloneFollowed ==
  ASSUME Basic, Honest, NEW k \in DOMAIN st, Alone(k), Follows(k, st'[k])
  PROVE  Followed
BY FollowsNow DEF Followed, Alone

\* What leaves has not left before.
LEMMA LeavesFollowed ==
  ASSUME Basic, Honest, NEW k \in DOMAIN st, NEW es, es \subseteq {"untouched"} \cup Effects,
         Leaves(k, es)
  PROVE  Followed
<1>1. /\ Follows(k, st[k]) /\ st[k] \in StepState /\ Earned(k, st[k]) /\ Fits(k, st[k])
      /\ \A r : Becomes(k, r) => Alone(k) /\ st'[k] = r
  BY FollowsNow
<1>2. PICK e \in es : Becomes(k, Goes(Affects(st[k], e), "reply"))
  BY DEF Leaves
<1> DEFINE p == Affects(st[k], e)
           q == Goes(p, "reply")
<1>3. /\ p \in StepState /\ p.row = st[k].row /\ p.out = st[k].out /\ p.saved = st[k].saved
      /\ p.fenced = st[k].fenced /\ p.late = st[k].late /\ p.effect = e
  BY <1>1, AffectsFields
<1> HIDE DEF p
<1>4. /\ q \in StepState /\ q.pc = "reply" /\ q.row = p.row /\ q.saved = p.saved
      /\ q.fenced = p.fenced /\ q.late = p.late /\ q.effect = p.effect
  BY <1>3, GoesFields DEF PCs
<1>5. st[k].fenced /\ st[k].effect = "untouched" /\ st[k].pc = "send" /\ st[k].late # "send"
  BY <1>1 DEF Leaves, Earned, Fits
<1>6. Leaving(st[k].effect, q.effect, Due(k))
  <2>1. Use(k) # "litterbox"
    BY <1>1, <1>5 DEF Fits, Outside, Mcp, Http, GitHub, Providers
  <2> QED BY <1>2, <1>3, <1>4, <1>5, <2>1 DEF Leaving, Due
<1> HIDE DEF q
<1>7. Earned(k, q)
  BY <1>1, <1>3, <1>4, <1>5 DEF Earned, Granted
<1>8. Follows(k, q)
  BY <1>3, <1>4, <1>6, <1>7 DEF Follows
<1> QED
  BY <1>1, <1>2, <1>8, AloneFollowed DEF p, q

\* A callback that ends claims a success only of what was carried out.
LEMMA FinishFollowed ==
  ASSUME Basic, Honest, NEW k \in DOMAIN st, NEW o \in Outcomes, Finish(k, o),
         Effectful(k) /\ o = "succeeded" => st[k].effect = "applied"
  PROVE  Followed
<1>1. /\ Follows(k, st[k])
      /\ \A r : Becomes(k, r) => Alone(k) /\ st'[k] = r
  BY FollowsNow
<1>2. Follows(k, Goes(st[k], "idle"))
  BY <1>1, FollowsGoes DEF PCs, Granted
<1>3. Follows(k, Ends(st[k], o))
  BY <1>1, FollowsPuts
<1> QED
  BY <1>1, <1>2, <1>3, AloneFollowed DEF Finish

\* Success is answered only of what was carried out.
LEMMA AnswersEarned ==
  ASSUME NEW k, Effectful(k), "succeeded" \in Answers(k)
  PROVE  st[k].effect = "applied"
BY DEF Answers, ToolAnswers, HttpAnswers, ActionAnswers, Effectful, Http, Mcp, GitHub, Providers

\* A step that is one native checkpoint claims nothing it did not do when it begins.
LEMMA CheckpointedFollows ==
  ASSUME Basic, Honest, Published, NEW k \in DOMAIN st, BeginCheckpointed(k)
  PROVE  Followed
<1>1. /\ Follows(k, st[k]) /\ st[k] \in StepState /\ Fits(k, st[k]) /\ Earned(k, st[k])
      /\ \A r : Becomes(k, r) => Alone(k) /\ st'[k] = r
  BY FollowsNow
<1>2. st[k].saved # "?" => st[k].saved \in Outcomes
  BY <1>1 DEF Fits, StepState, Checkpoints, BeginCheckpointed, Checkpointed, Controller,
       Mcp, Http, Providers, GitHub
<1>3. Picks(k) \subseteq Picked
  BY <1>1 DEF Picks, Picked, StepState
<1>4. {"succeeded", "failed", "skipped", "indeterminate"} \subseteq Outcomes
  BY DEF Outcomes
<1>5. ~Gated(k)
  BY GatedSteps DEF BeginCheckpointed, Checkpointed, GitHub, Mcp, Http, Providers
<1>6. \A r : Follows(k, r) => Follows(k, Goes(r, First(k)))
  <2>1. First(k) \in PCs \ {"put", "done"} /\ First(k) # "send"
    BY DEF First, PCs
  <2> QED BY <1>5, <2>1, FollowsGoes
<1>7. CASE st[k].saved # "?"
  <2>1. Effectful(k) /\ st[k].saved = "succeeded" => st[k].effect = "applied"
    BY <1>1 DEF Earned
  <2>2. Follows(k, Puts(st[k], st[k].saved))
    BY <1>1, <1>2, <1>7, <2>1, FollowsPuts
  <2> QED BY <1>1, <1>7, <2>2, AloneFollowed DEF BeginCheckpointed
<1>8. CASE st[k].saved = "?"
  <2>1. PICK pick \in Picks(k) :
          LET r == Answered(Writes(st[k], Claimed(k)), pick)
          IN  \/ \E o \in Outcomes : /\ Becomes(k, Ends(r, o))
                                     /\ o = "succeeded" => Use(k) = "result.emit"
              \/ Becomes(k, Goes(r, First(k)))
    BY <1>4, <1>8 DEF BeginCheckpointed
  <2>2. Follows(k, Answered(Writes(st[k], Claimed(k)), pick))
    BY <1>1, <1>3, ClaimFollows, FollowsMarks
  <2>3. Use(k) = "result.emit" => ~Effectful(k)
    BY DEF Effectful, Mcp, GitHub, Providers
  <2>4. \A o \in Outcomes : (o = "succeeded" => Use(k) = "result.emit") =>
           Follows(k, Ends(Answered(Writes(st[k], Claimed(k)), pick), o))
    BY <2>2, <2>3, FollowsPuts
  <2> QED
    BY <1>1, <1>6, <2>1, <2>2, <2>4, AloneFollowed
<1> QED
  BY <1>7, <1>8

\* A GitHub step begins without claiming anything.
LEMMA GitHubFollows ==
  ASSUME Basic, Honest, Published, NEW k \in DOMAIN st, BeginGitHub(k)
  PROVE  Followed
<1>1. /\ Follows(k, st[k]) /\ st[k] \in StepState
      /\ \A r : Becomes(k, r) => Alone(k) /\ st'[k] = r
  BY FollowsNow
<1>2. {"skipped", "indeterminate"} \subseteq Outcomes
  BY DEF Outcomes
<1>3. Picks(k) \subseteq Picked
  BY <1>1 DEF Picks, Picked, StepState
<1>4. PICK pick \in Picks(k) :
        LET r == Answered(Writes(st[k], Claimed(k)), pick)
        IN  \/ \E o \in {"skipped", "indeterminate"} : Becomes(k, Puts(r, o))
            \/ Becomes(k, Goes(r, IF Gated(k) THEN "gate" ELSE "reserve"))
  BY DEF BeginGitHub
<1>5. Follows(k, Answered(Writes(st[k], Claimed(k)), pick))
  BY <1>1, <1>3, ClaimFollows, FollowsMarks
<1>6. \A r : Follows(k, r) => Follows(k, Goes(r, IF Gated(k) THEN "gate" ELSE "reserve"))
  BY FollowsGoes DEF PCs, Granted
<1> QED
  BY <1>1, <1>2, <1>4, <1>5, <1>6, FollowsPuts, AloneFollowed

\* A wait, or a file, begins without claiming anything but what its row says.
LEMMA WaitFollows ==
  ASSUME Basic, Honest, Published, NEW k \in DOMAIN st, BeginWait(k)
  PROVE  Followed
<1>1. /\ Follows(k, st[k]) /\ st[k] \in StepState /\ Earned(k, st[k])
      /\ \A r : Becomes(k, r) => Alone(k) /\ st'[k] = r
  BY FollowsNow
<1>2. {"succeeded", "failed", "skipped", "indeterminate"} \subseteq Outcomes
  BY DEF Outcomes
<1> DEFINE row == IF st[k].row = "none" /\ run = "running" THEN "waiting" ELSE st[k].row
<1>3. row \in Rows /\ (st[k].row \notin Open => row = st[k].row)
  BY <1>1 DEF Rows, Open, StepState
<1>4. Effectful(k) /\ row = "succeeded" => st[k].effect = "applied"
  BY <1>1 DEF Earned
<1>5. \/ Becomes(k, Puts(st[k], "skipped"))
      \/ \E o \in Outcomes : /\ o = "succeeded" => row = "succeeded"
                             /\ Becomes(k, Puts(Writes(st[k], row), o))
      \/ Becomes(k, Goes(Writes(st[k], row), "listen"))
  <2>1. row \in {"succeeded", "failed", "indeterminate"} => row \in Outcomes
    BY <1>2
  <2> QED BY <1>2, <2>1 DEF BeginWait
<1> HIDE DEF row
<1>6. Follows(k, Writes(st[k], row)) /\ Writes(st[k], row).effect = st[k].effect
  BY <1>1, <1>3, <1>4, FollowsWrites, WritesFields
<1>7. Follows(k, Goes(Writes(st[k], row), "listen"))
  BY <1>6, FollowsGoes DEF PCs, Granted
<1>8. \A o \in Outcomes : (o = "succeeded" => row = "succeeded") =>
         Follows(k, Puts(Writes(st[k], row), o))
  BY <1>4, <1>6, FollowsPuts
<1>9. Follows(k, Puts(st[k], "skipped"))
  BY <1>1, <1>2, FollowsPuts
<1> QED
  BY <1>1, <1>5, <1>7, <1>8, <1>9, AloneFollowed

\* What children and controllers report is not an effect of their own.
LEMMA InsideOnly ==
  ASSUME NEW k, Use(k) = "child" \/ Controller(k) \/ Use(k) \in {"wait", "wait_event"}
  PROVE  ~Effectful(k) /\ Use(k) \notin GitHub
BY DEF Effectful, Controller, Mcp, GitHub, Providers

\* A child's answer, a snapshot and the progress of a controller claim nothing outside.
LEMMA FlowFollows ==
  ASSUME Basic, Honest, Published, NEW k \in DOMAIN st,
         \/ BeginChild(k) \/ BeginForeach(k) \/ BeginLoop(k)
         \/ KidEnds(k) \/ ForeachEnds(k) \/ LoopEnds(k) \/ LoopThrows(k)
  PROVE  Followed
<1>1. /\ Follows(k, st[k]) /\ st[k] \in StepState /\ Fits(k, st[k])
      /\ \A r : Becomes(k, r) => Alone(k) /\ st'[k] = r
  BY FollowsNow
<1>2. {"succeeded", "failed", "skipped", "indeterminate"} \subseteq Outcomes
  BY DEF Outcomes
<1>3. ~Effectful(k) /\ ~Gated(k)
  <2>1. Use(k) = "child" \/ Controller(k)
    BY <1>1 DEF BeginChild, BeginForeach, BeginLoop, KidEnds, ForeachEnds, LoopEnds, LoopThrows,
                Looping, Controller, Fits
  <2> QED BY <2>1, InsideOnly, GatedSteps
<1>4. \A r : Follows(k, r) => \A o \in Outcomes : Follows(k, Puts(r, o))
  BY <1>3, FollowsPuts
<1>5. CASE BeginChild(k)
  <2>1. PICK o \in Outcomes : Becomes(k, Puts(st[k], o))
    BY <1>2, <1>5 DEF BeginChild
  <2> QED BY <1>1, <1>4, <2>1, AloneFollowed
<1>6. CASE BeginForeach(k) \/ BeginLoop(k)
  <2>1. k \in Steps
    BY <1>1, <1>6 DEF Fits, BeginForeach, BeginLoop
  <2>2. Src(k).count \in Nat /\ st[k].items \in Nat
    BY <1>1, <2>1, PlanFitsNow DEF Basic, PlanFits, StoredSteps, PlanStep, Src, StepState
  <2>3. Follows(k, Writes(st[k], Claimed(k)))
    BY <1>1, ClaimFollows
  <2>4. PICK r \in {st[k], Writes(st[k], Claimed(k))} :
           \/ Becomes(k, Puts(r, "skipped"))
           \/ \E n \in Nat : \/ Becomes(k, Puts(Freezes(r, n), "failed"))
                             \/ Becomes(k, Goes(Freezes(r, n), "kids"))
    <3>1. ASSUME NEW n \in IF st[k].picked # "?" THEN {st[k].items}
                            ELSE (IF Use(k) = "until" THEN 1 ELSE 0) .. Src(k).count + 1
          PROVE  n \in Nat
      BY <2>2
    <3>2. CASE BeginLoop(k)
      BY <3>1, <3>2 DEF BeginLoop
    <3>3. CASE BeginForeach(k)
      <4>1. ASSUME NEW n \in IF st[k].picked # "?" THEN {st[k].items}
                              ELSE 0 .. Src(k).count + 1
            PROVE  n \in Nat
        BY <2>2
      <4> QED BY <3>3, <4>1 DEF BeginForeach
    <3> QED BY <1>6, <3>2, <3>3
  <2>5. Follows(k, r)
    BY <1>1, <2>3
  <2>6. \A n \in Nat : Follows(k, Freezes(r, n))
    BY <2>5, FollowsMarks
  <2>7. \A n \in Nat : Follows(k, Goes(Freezes(r, n), "kids"))
    BY <2>6, FollowsGoes DEF PCs, Granted
  <2> QED BY <1>1, <1>2, <1>4, <2>4, <2>5, <2>6, <2>7, AloneFollowed
<1>7. CASE KidEnds(k)
  BY <1>1, <1>2, <1>4, <1>7, FollowsMarks, AloneFollowed DEF KidEnds
<1>8. CASE ForeachEnds(k)
  BY <1>1, <1>2, <1>4, <1>8, AloneFollowed DEF ForeachEnds
<1>9. CASE LoopEnds(k) \/ LoopThrows(k)
  <2>1. Follows(k, Keeps(st[k], "over")) /\ Follows(k, Keeps(st[k], "threw"))
    BY <1>1, FollowsMarks
  <2> QED BY <1>1, <1>2, <1>4, <1>9, <2>1, AloneFollowed DEF LoopEnds, LoopThrows
<1> QED
  BY <1>5, <1>6, <1>7, <1>8, <1>9

\* The outcome is recorded once, and only of an open row.
LEMMA PutFollows ==
  ASSUME Basic, Honest, Published, NEW k \in DOMAIN st, Put(k) \/ RegistrationFails(k)
  PROVE  Followed
<1>1. /\ Follows(k, st[k]) /\ st[k] \in StepState /\ Fits(k, st[k]) /\ Earned(k, st[k])
      /\ \A r : Becomes(k, r) => Alone(k) /\ st'[k] = r
  BY FollowsNow
<1>2. ASSUME NEW r, Follows(k, r), r.out \in Outcomes,
             Effectful(k) /\ r.out = "succeeded" => r.effect = "applied"
      PROVE  Follows(k, Goes(r, "done"))
  <2> DEFINE q == Goes(r, "done")
  <2>1. /\ q \in StepState /\ q.pc = "done" /\ q.row = r.row /\ q.out = r.out
        /\ q.saved = r.saved /\ q.fenced = r.fenced /\ q.late = r.late /\ q.effect = r.effect
    BY <1>2, GoesFields DEF Follows, PCs
  <2> HIDE DEF q
  <2>2. Earned(k, q)
    BY <1>2, <2>1 DEF Follows, Earned, Granted
  <2> QED BY <1>2, <2>1, <2>2 DEF Follows, q
<1>3. CASE Put(k)
  <2> DEFINE row == IF Writable(k) THEN st[k].out ELSE st[k].row
             w == Writes(st[k], row)
  <2>1. st[k].out \in Outcomes /\ row \in Rows /\ (st[k].row \notin Open => row = st[k].row)
    BY <1>1, <1>3 DEF Rows, StepState, Put, Fits, Writable
  <2>2. /\ Effectful(k) /\ row = "succeeded" => st[k].effect = "applied"
        /\ Effectful(k) /\ st[k].out = "succeeded" => st[k].effect = "applied"
    BY <1>1, <1>3 DEF Earned, Put
  <2>3. Becomes(k, Goes(w, "done"))
    BY <1>3 DEF Put
  <2> HIDE DEF row
  <2>4. Follows(k, w) /\ w.out = st[k].out /\ w.effect = st[k].effect
    BY <1>1, <2>1, <2>2, FollowsWrites, WritesFields
  <2> HIDE DEF w
  <2>5. Follows(k, Goes(w, "done"))
    BY <1>2, <2>1, <2>2, <2>4
  <2> QED BY <1>1, <2>3, <2>5, AloneFollowed
<1>4. CASE RegistrationFails(k)
  <2> DEFINE p == Ends(st[k], "indeterminate")
             w == Writes(p, "indeterminate")
  <2>1. Becomes(k, Goes(w, "done")) /\ st[k].row \in Open
    BY <1>4 DEF RegistrationFails, Writable
  <2>2. "indeterminate" \in Outcomes /\ "indeterminate" \in Rows
    BY DEF Outcomes, Rows
  <2>3. Follows(k, p) /\ p \in StepState /\ p.out = "indeterminate"
    BY <1>1, <2>2, FollowsPuts, EndsFields
  <2> HIDE DEF p
  <2>4. Follows(k, w) /\ w.out = "indeterminate"
    BY <2>1, <2>2, <2>3, FollowsMark, WritesFields
  <2> HIDE DEF w
  <2>5. Follows(k, Goes(w, "done"))
    BY <1>2, <2>2, <2>4
  <2> QED BY <1>1, <2>1, <2>5, AloneFollowed
<1> QED
  BY <1>3, <1>4

\* Looking before the call claims nothing, and a refusal is not a success.
LEMMA LookFollows ==
  ASSUME Basic, Honest, Published, NEW k \in DOMAIN st,
         \/ Prior(k) \/ DiscoverTool(k) \/ DiscoverDub(k) \/ DiscoverEnvshare(k)
         \/ DiscoverBark(k)
  PROVE  Followed
<1>1. /\ Follows(k, st[k]) /\ Fits(k, st[k])
      /\ \A r : Becomes(k, r) => Alone(k) /\ st'[k] = r
  BY FollowsNow
<1>2. {"failed", "indeterminate"} \subseteq Outcomes
  BY DEF Outcomes
<1>3. ~Gated(k)
  <2>1. Use(k) \in Mcp \cup Providers
    BY <1>1 DEF Prior, DiscoverTool, DiscoverDub, DiscoverEnvshare, DiscoverBark, Checked,
                Fits, Providers
  <2> QED BY <2>1, GatedSteps DEF GitHub, Mcp, Providers
<1>4. Follows(k, Goes(st[k], "discover")) /\ Follows(k, Goes(st[k], "reserve"))
  BY <1>1, <1>3, FollowsGoes DEF PCs
<1>5. \/ \E pc \in {"discover", "reserve"} : Becomes(k, Goes(st[k], pc))
      \/ \E o \in {"failed", "indeterminate"} : Finish(k, o)
  BY DEF Prior, DiscoverTool, DiscoverDub, DiscoverEnvshare, DiscoverBark, Checked
<1> QED
  BY <1>1, <1>2, <1>4, <1>5, FinishFollowed, AloneFollowed

\* The fence is placed before anything left, with the approval a gated step needs.
LEMMA ReserveFollows ==
  ASSUME Basic, Honest, Published, NEW k \in DOMAIN st, Reserve(k) \/ ReserveGitHub(k)
  PROVE  Followed
<1>1. /\ Follows(k, st[k]) /\ st[k] \in StepState /\ Fits(k, st[k]) /\ Earned(k, st[k])
      /\ \A r : Becomes(k, r) => Alone(k) /\ st'[k] = r
  BY FollowsNow
<1>2. {"failed", "indeterminate"} \subseteq Outcomes
  BY DEF Outcomes
<1>3. Gated(k) => Approved
  BY <1>1 DEF Reserve, ReserveGitHub, Earned, Granted
<1>4. Reservable(k) => Follows(k, Goes(Fences(st[k]), "send"))
  <2>1. Reservable(k) => Fences(st[k]).effect = "untouched" /\ Fences(st[k]).late # "send"
    BY <1>1, <1>3, FollowsCalls, FencesFields DEF Reservable, Fits
  <2> QED BY <1>1, <1>3, <2>1, FollowsCalls, FollowsGoes DEF PCs
<1>5. CASE Reserve(k)
  <2>1. \/ Reservable(k) /\ Becomes(k, Goes(Fences(st[k]), "send"))
        \/ \E o \in {"failed", "indeterminate"} : Finish(k, o)
    BY <1>5 DEF Reserve
  <2> QED BY <1>1, <1>2, <1>4, <2>1, FinishFollowed, AloneFollowed
<1>6. CASE ReserveGitHub(k)
  <2>1. Follows(k, Goes(st[k], "poll"))
    BY <1>1, <1>3, FollowsGoes DEF PCs
  <2>2. Follows(k, Ends(st[k], "failed"))
    BY <1>1, <1>2, FollowsPuts
  <2>3. st[k].saved # "?" => Follows(k, Puts(st[k], st[k].saved))
    <3>1. st[k].saved # "?" => st[k].saved \in Outcomes
      BY <1>1, <1>6 DEF ReserveGitHub, Fits, StepState, Checkpoints, Controller, GitHub
    <3>2. Effectful(k) /\ st[k].saved = "succeeded" => st[k].effect = "applied"
      BY <1>1 DEF Earned
    <3> QED BY <1>1, <3>1, <3>2, FollowsPuts
  <2>4. \/ Reservable(k) /\ Becomes(k, Goes(Fences(st[k]), "send"))
        \/ Becomes(k, Goes(st[k], "poll")) \/ Becomes(k, Ends(st[k], "failed"))
        \/ st[k].saved # "?" /\ Becomes(k, Puts(st[k], st[k].saved))
    BY <1>6 DEF ReserveGitHub
  <2> QED BY <1>1, <1>4, <2>1, <2>2, <2>3, <2>4, AloneFollowed
<1> QED
  BY <1>5, <1>6

\* A call leaves once, and what was sent lands as it was sent.
LEMMA CallFollows ==
  ASSUME Basic, Honest, Published, NEW k \in DOMAIN st,
         CallTool(k) \/ SendHttp(k) \/ ExecuteAction(k) \/ DispatchGitHub(k) \/ Land(k)
  PROVE  Followed
<1>1. /\ Follows(k, st[k]) /\ st[k] \in StepState /\ Fits(k, st[k]) /\ Earned(k, st[k])
      /\ \A r : Becomes(k, r) => Alone(k) /\ st'[k] = r
  BY FollowsNow
<1>2. CASE CallTool(k) \/ SendHttp(k) \/ ExecuteAction(k) \/ DispatchGitHub(k)
  <2>1. \E es : es \subseteq {"untouched"} \cup Effects /\ Leaves(k, es)
    <3>1. /\ Effects \subseteq {"untouched"} \cup Effects
          /\ (IF Effectful(k) THEN Effects ELSE {"untouched"}) \subseteq {"untouched"} \cup Effects
      OBVIOUS
    <3> QED BY <1>2, <3>1 DEF CallTool, SendHttp, ExecuteAction, DispatchGitHub
  <2> QED BY <2>1, LeavesFollowed
<1>3. CASE Land(k)
  <2>1. PICK e \in {"applied", "refused"} : Becomes(k, Affects(st[k], e)) /\ st[k].effect = "sent"
    BY <1>3 DEF Land
  <2>2. st[k].fenced /\ st[k].pc # "send" /\ st[k].late # "send"
        /\ Leaving(st[k].effect, e, Due(k))
    BY <1>1, <2>1 DEF Fits, Earned, Leaving
  <2>3. Gated(k) => Approved
    BY <1>1, <2>2 DEF Earned
  <2>4. Follows(k, Affects(st[k], e))
    BY <1>1, <2>1, <2>2, <2>3, FollowsCalls DEF Effects
  <2> QED BY <1>1, <2>1, <2>4, AloneFollowed
<1> QED
  BY <1>2, <1>3

\* A success is answered only of what was carried out.
LEMMA ReplyFollows ==
  ASSUME Basic, Honest, Published, NEW k \in DOMAIN st, Reply(k)
  PROVE  Followed
<1>1. /\ Follows(k, st[k]) /\ st[k] \in StepState /\ Fits(k, st[k]) /\ Earned(k, st[k])
      /\ \A r : Becomes(k, r) => Alone(k) /\ st'[k] = r
  BY FollowsNow
<1>2. Gated(k) => Approved
  BY <1>1 DEF Reply, Earned, Granted
<1>3. Follows(k, Goes(Acks(st[k]), "poll"))
  BY <1>1, <1>2, FollowsCalls, FollowsGoes DEF PCs
<1>4. ASSUME NEW o \in Answers(k), Finish(k, o) PROVE Followed
  BY <1>4, AnswersFit, AnswersEarned, FinishFollowed
<1>5. Becomes(k, Goes(Acks(st[k]), "poll")) \/ \E o \in Answers(k) : Finish(k, o)
  BY DEF Reply
<1> QED
  BY <1>1, <1>3, <1>4, <1>5, AloneFollowed

\* A poll tells of a success only of what was carried out, and as long as it is wanted.
LEMMA PollFollows ==
  ASSUME Basic, Honest, Published, NEW k \in DOMAIN st, PollTask(k) \/ PollSession(k)
  PROVE  Followed
<1>1. /\ Follows(k, st[k]) /\ st[k] \in StepState /\ Fits(k, st[k]) /\ Earned(k, st[k])
      /\ \A r : Becomes(k, r) => Alone(k) /\ st'[k] = r
  BY FollowsNow
<1>2. CASE PollTask(k)
  <2>1. PICK o : /\ o \in Outcomes /\ (Effectful(k) /\ o = "succeeded" => st[k].effect = "applied")
                 /\ \E told \in TaskTells(o) : Becomes(k, Puts(Keeps(st[k], o), told))
    <3>1. CASE st[k].saved # "?"
      <4>1. st[k].saved \in Outcomes
        BY <1>1, <1>2, <3>1 DEF Fits, StepState, Checkpoints, PollTask, Controller
      <4> QED BY <1>1, <1>2, <3>1, <4>1 DEF PollTask, Earned
    <3>2. CASE st[k].saved = "?"
      <4>1. \A o \in ActionAnswers(k) : /\ o \in Outcomes
                                        /\ o = "succeeded" => st[k].effect = "applied"
        BY DEF ActionAnswers, Outcomes
      <4> QED BY <1>2, <3>2, <4>1 DEF PollTask
    <3> QED BY <3>1, <3>2
  <2>2. PICK told : /\ Becomes(k, Puts(Keeps(st[k], o), told))
                    /\ told \in Outcomes /\ (told = "succeeded" => o = "succeeded")
    BY <2>1 DEF TaskTells, Outcomes
  <2>3. Follows(k, Keeps(st[k], o)) /\ Keeps(st[k], o).effect = st[k].effect
    BY <1>1, <2>1, FollowsKeeps
  <2>4. Follows(k, Puts(Keeps(st[k], o), told))
    BY <2>1, <2>2, <2>3, FollowsPuts
  <2> QED BY <1>1, <2>2, <2>4, AloneFollowed
<1>3. CASE PollSession(k)
  <2>1. \A o \in SessionAnswers(k) : /\ o \in Outcomes
                                     /\ o = "succeeded" => st[k].effect = "applied"
    BY DEF SessionAnswers, Outcomes
  <2>2. \A o \in SessionAnswers(k) : Follows(k, Puts(st[k], o))
    BY <1>1, <2>1, FollowsPuts
  <2> QED BY <1>1, <1>3, <2>2, AloneFollowed DEF PollSession
<1> QED
  BY <1>2, <1>3

\* A dispatch that outlived its checkpoint leaves once, behind its fence and its approval.
LEMMA LateFollows ==
  ASSUME Basic, Honest, Published, NEW k \in DOMAIN st, LateDispatch(k) \/ SessionEnds(k)
  PROVE  Followed
<1>1. /\ Follows(k, st[k]) /\ st[k] \in StepState /\ Fits(k, st[k]) /\ Earned(k, st[k])
      /\ \A r : Becomes(k, r) => Alone(k) /\ st'[k] = r
  BY FollowsNow
<1>2. CASE SessionEnds(k)
  <2>1. Follows(k, Closes(st[k]))
    BY <1>1, FollowsMarks
  <2> QED BY <1>1, <1>2, <2>1, AloneFollowed DEF SessionEnds
<1>3. CASE LateDispatch(k)
  <2>1. st[k].late # "no" /\ (Gated(k) => Approved) /\ Use(k) # "litterbox"
    BY <1>1, <1>3 DEF LateDispatch, Earned, Fits, GitHub
  <2>2. ASSUME NEW q \in StepState, q.pc = st[k].pc, q.row = st[k].row, q.out = st[k].out,
               q.saved = st[k].saved, Leaving(st[k].effect, q.effect, Due(k)),
               st[k].effect # "applied" \/ q.effect = st[k].effect,
               q.effect = "untouched" \/ q.pc # "send",
               q.late = "send" => q.effect = "untouched" /\ q.pc # "send",
               Becomes(k, q)
        PROVE  Followed
    <3>1. Earned(k, q)
      BY <1>1, <2>1, <2>2 DEF Earned
    <3>2. Follows(k, q)
      BY <2>2, <3>1 DEF Follows
    <3> QED BY <1>1, <2>2, <3>2, AloneFollowed
  <2>3. CASE Becomes(k, Lingers(st[k], "no"))
    <3> DEFINE q == Lingers(st[k], "no")
    <3>1. /\ q \in StepState /\ q.late = "no" /\ q.pc = st[k].pc /\ q.row = st[k].row
          /\ q.out = st[k].out /\ q.saved = st[k].saved /\ q.effect = st[k].effect
      BY <1>1, LingersFields DEF Lates
    <3>2. Leaving(st[k].effect, q.effect, Due(k)) /\ (q.effect = "untouched" \/ q.pc # "send")
      BY <1>1, <3>1 DEF Leaving, Earned
    <3> HIDE DEF q
    <3> QED BY <2>2, <2>3, <3>1, <3>2 DEF q
  <2>4. CASE Reservable(k) /\ Becomes(k, Lingers(Fences(st[k]), "send"))
    <3> DEFINE p == Fences(st[k])
               q == Lingers(p, "send")
    <3>1. /\ p \in StepState /\ p.pc = st[k].pc /\ p.row = st[k].row
          /\ p.out = st[k].out /\ p.saved = st[k].saved /\ p.effect = st[k].effect
      BY <1>1, FencesFields
    <3> HIDE DEF p
    <3>2. /\ q \in StepState /\ q.late = "send" /\ q.pc = st[k].pc /\ q.row = st[k].row
          /\ q.out = st[k].out /\ q.saved = st[k].saved /\ q.effect = st[k].effect
      BY <3>1, LingersFields DEF Lates
    <3> HIDE DEF q
    <3>3. st[k].pc # "send" /\ st[k].effect = "untouched"
      BY <1>1, <2>4 DEF Reservable, Fits
    <3>4. Leaving(st[k].effect, q.effect, Due(k))
      BY <3>2 DEF Leaving
    <3> QED BY <2>2, <2>4, <3>2, <3>3, <3>4 DEF p, q
  <2>5. ASSUME st[k].late = "send", NEW e \in Effects,
               Becomes(k, Lingers(Affects(st[k], e), "reply"))
        PROVE  Followed
    <3> DEFINE p == Affects(st[k], e)
               q == Lingers(p, "reply")
    <3>1. /\ p \in StepState /\ p.pc = st[k].pc /\ p.row = st[k].row
          /\ p.out = st[k].out /\ p.saved = st[k].saved /\ p.effect = e
      BY <1>1, AffectsFields
    <3> HIDE DEF p
    <3>2. /\ q \in StepState /\ q.late = "reply" /\ q.pc = st[k].pc /\ q.row = st[k].row
          /\ q.out = st[k].out /\ q.saved = st[k].saved /\ q.effect = e
      BY <3>1, LingersFields DEF Lates
    <3> HIDE DEF q
    <3>3. st[k].pc # "send" /\ st[k].effect = "untouched" /\ st[k].fenced
      BY <1>1, <2>5 DEF Earned, Fits
    <3>4. Leaving(st[k].effect, q.effect, Due(k))
      BY <2>1, <3>2, <3>3 DEF Leaving, Due
    <3> QED BY <2>2, <2>5, <3>2, <3>3, <3>4 DEF p, q
  <2> QED BY <1>3, <2>3, <2>4, <2>5 DEF LateDispatch
<1> QED
  BY <1>2, <1>3

\* A wait that ends, or a file that is looked for, claims what the event or the row says.
LEMMA ResumeFollows ==
  ASSUME Basic, Honest, Published, NEW k \in DOMAIN st,
         Resume(k) \/ EventTimeout(k) \/ FileWait(k)
  PROVE  Followed
<1>1. /\ Follows(k, st[k]) /\ Earned(k, st[k])
      /\ \A r : Becomes(k, r) => Alone(k) /\ st'[k] = r
  BY FollowsNow
<1>2. {"succeeded", "failed", "indeterminate"} \subseteq Outcomes
  BY DEF Outcomes
<1>3. CASE Resume(k) \/ EventTimeout(k)
  <2>1. ~Effectful(k)
    BY <1>3, InsideOnly DEF Resume, EventTimeout
  <2>2. PICK o \in {"succeeded", "failed", "indeterminate"} : Becomes(k, Puts(st[k], o))
    BY <1>3 DEF Resume, EventTimeout
  <2>3. Follows(k, Puts(st[k], o))
    BY <1>1, <1>2, <2>1, FollowsPuts
  <2> QED BY <1>1, <2>2, <2>3, AloneFollowed
<1>4. CASE FileWait(k)
  <2>1. PICK o \in {"succeeded", "failed", "indeterminate"} :
           /\ Becomes(k, Puts(st[k], o))
           /\ o = "succeeded" => st[k].row = "succeeded"
    BY <1>4 DEF FileWait
  <2>2. Effectful(k) /\ o = "succeeded" => st[k].effect = "applied"
    BY <1>1, <2>1 DEF Earned
  <2>3. Follows(k, Puts(st[k], o))
    BY <1>1, <1>2, <2>2, FollowsPuts
  <2> QED BY <1>1, <2>1, <2>3, AloneFollowed
<1> QED
  BY <1>3, <1>4

\* The gate opens onto an open row, and only an approval leads past it.
LEMMA GateFollows ==
  ASSUME Basic, Honest, Published, NEW k \in DOMAIN st, OpenGate(k) \/ Decide(k) \/ Consume(k)
  PROVE  Followed
<1>1. /\ Follows(k, st[k]) /\ st[k] \in StepState /\ Earned(k, st[k])
      /\ \A r : Becomes(k, r) => Alone(k) /\ st'[k] = r
  BY FollowsNow
<1>2. Follows(k, Puts(st[k], "failed"))
  BY <1>1, FollowsPuts DEF Outcomes
<1>3. ASSUME NEW row \in Rows, NEW pc \in {"decide", "reserve"},
             row = st[k].row \/ (st[k].row \in Open /\ row \in Active),
             Gated(k) /\ pc \in Granted => Approved
      PROVE  Follows(k, Goes(Writes(st[k], row), pc))
  <2>1. Effectful(k) /\ row = "succeeded" => st[k].effect = "applied"
    BY <1>1, <1>3 DEF Earned, Active
  <2>2. Follows(k, Writes(st[k], row))
    BY <1>1, <1>3, <2>1, FollowsWrites
  <2> QED BY <1>3, <2>2, FollowsGoes DEF PCs
<1>4. st[k].row \in Rows /\ {"running", "waiting_approval"} \subseteq Rows
      /\ Active \subseteq Open /\ {"running", "waiting_approval"} \subseteq Active
  BY <1>1 DEF StepState, Rows, Open, Active
<1>5. CASE OpenGate(k)
  <2> DEFINE row == IF gate.state = "closed" /\ st[k].row \in Active
                   THEN "waiting_approval" ELSE st[k].row
  <2>1. Becomes(k, Goes(Writes(st[k], row), "decide"))
    BY <1>5 DEF OpenGate
  <2>2. row \in Rows /\ (row = st[k].row \/ (st[k].row \in Open /\ row \in Active))
    BY <1>4
  <2> HIDE DEF row
  <2>3. Follows(k, Goes(Writes(st[k], row), "decide"))
    BY <1>3, <2>2 DEF Granted
  <2> QED BY <1>1, <2>1, <2>3, AloneFollowed
<1>6. CASE Decide(k)
  <2>1. Approved => Follows(k, Goes(st[k], "consume"))
    BY <1>1, FollowsGoes DEF PCs
  <2> QED BY <1>1, <1>2, <1>6, <2>1, AloneFollowed DEF Decide
<1>7. CASE Consume(k)
  <2> DEFINE row == IF st[k].row = "waiting_approval" THEN "running" ELSE st[k].row
  <2>1. \/ Becomes(k, Puts(st[k], "failed"))
        \/ Becomes(k, Goes(Writes(st[k], row), "reserve"))
    BY <1>7 DEF Consume
  <2>2. row \in Rows /\ (row = st[k].row \/ (st[k].row \in Open /\ row \in Active))
    BY <1>4 DEF Open
  <2>3. Gated(k) => Approved
    BY <1>1, <1>7 DEF Consume, Earned, Granted
  <2> HIDE DEF row
  <2>4. Follows(k, Goes(Writes(st[k], row), "reserve"))
    BY <1>3, <2>2, <2>3
  <2> QED BY <1>1, <1>2, <2>1, <2>4, AloneFollowed
<1> QED
  BY <1>5, <1>6, <1>7

\* A child begins, is replayed or is skipped without claiming what was not carried out.
LEMMA KidFollows ==
  ASSUME Basic, Honest, Published, NEW k \in DOMAIN st,
         BeginItem(k) \/ BeginStage(k) \/ BeginRound(k)
  PROVE  Followed
<1> DEFINE c == Current(k)
<1>1. c \in DOMAIN st \ Steps /\ Use(c) \in StageUses /\ (Looping(k) => Use(c) = "mcp.read")
  BY AtKidFits DEF BeginItem, BeginStage, BeginRound, AtKid
<1> HIDE DEF c
<1>2. /\ Follows(c, st[c]) /\ st[c] \in StepState /\ Fits(c, st[c]) /\ Earned(c, st[c])
      /\ \A r : Becomes(c, r) => Alone(c) /\ st'[c] = r
  BY <1>1, FollowsNow
<1>3. {"succeeded", "failed", "skipped", "indeterminate"} \subseteq Outcomes
  BY DEF Outcomes
<1>4. ~Gated(c)
  BY <1>1, GatedSteps
<1>5. CASE Kept(c) /\ Replayed(c)
  <2>1. st[c].saved \in Outcomes
    BY <1>1, <1>2, <1>5 DEF Kept, Fits, StepState, Checkpoints, Controller, StageUses
  <2>2. Effectful(c) /\ st[c].saved = "succeeded" => st[c].effect = "applied"
    BY <1>2 DEF Earned
  <2>3. Follows(c, Puts(st[c], st[c].saved))
    BY <1>2, <2>1, <2>2, FollowsPuts
  <2> QED BY <1>1, <1>2, <1>5, <2>3, AloneFollowed DEF Replayed
<1>6. Picks(c) \ {"error"} \subseteq {"yes", "no"} /\ {"yes", "no"} \subseteq Picked
  BY <1>1, <1>2 DEF Picks, Picked, StepState, Fits, Controller, StageUses
<1>7. ASSUME NEW row \in {Claimed(c), st[c].row, "running"}, Dispatched(c, row),
             row = "running" => MayClaim(c) \/ st[c].row = "running" \/ row = Claimed(c)
      PROVE  Followed
  <2>1. row \in Rows /\ (st[c].row \notin Open => row = st[c].row)
    BY <1>2, <1>7 DEF Claimed, MayClaim, Rows, Open, StepState
  <2>2. Effectful(c) /\ row = "succeeded" => st[c].effect = "applied"
    BY <1>2, <1>7 DEF Earned, Claimed
  <2>3. Follows(c, Writes(st[c], row))
    BY <1>2, <2>1, <2>2, FollowsWrites
  <2>4. Follows(c, Answered(Writes(st[c], row), "yes"))
    BY <2>3, FollowsMarks DEF Picked
  <2>5. Follows(c, Goes(Answered(Writes(st[c], row), "yes"), "reserve"))
    BY <1>4, <2>4, FollowsGoes DEF PCs
  <2> QED BY <1>1, <1>2, <1>7, <2>5, AloneFollowed DEF Dispatched
<1>8. ASSUME NEW pick \in {"yes", "no"}, Child(c, pick) PROVE Followed
  <2> DEFINE r == Answered(st[c], pick)
  <2>1. Follows(c, r) /\ r.row = st[c].row
    BY <1>2, <1>6, FollowsMarks, AnsweredFields
  <2>2. \/ Becomes(c, Ends(st[c], "indeterminate"))
        \/ Becomes(c, Ends(r, "skipped"))
        \/ Use(c) = "result.emit" /\ Becomes(c, Ends(r, "succeeded"))
        \/ MayClaim(c) /\ Becomes(c, Goes(Writes(r, "running"), "discover"))
    BY <1>8 DEF Child
  <2> HIDE DEF r
  <2>3. Use(c) = "result.emit" => ~Effectful(c)
    BY DEF Effectful, Mcp, GitHub, Providers
  <2>4. MayClaim(c) => Follows(c, Goes(Writes(r, "running"), "discover"))
    BY <2>1, FollowsMark, FollowsGoes DEF MayClaim, Open, Rows, PCs, Granted
  <2> QED BY <1>1, <1>2, <1>3, <2>1, <2>2, <2>3, <2>4, FollowsPuts, AloneFollowed
<1>9. CASE Becomes(c, Ends(st[c], "skipped"))
  BY <1>1, <1>2, <1>3, <1>9, FollowsPuts, AloneFollowed
<1>10. CASE BeginItem(k)
  BY <1>5, <1>6, <1>7, <1>8, <1>10 DEF BeginItem, c
<1>11. CASE BeginStage(k)
  <2>1. (IF MayClaim(c) THEN "running" ELSE st[c].row) = "running"
           => MayClaim(c) \/ st[c].row = "running"
    OBVIOUS
  <2> QED BY <1>5, <1>6, <1>7, <1>8, <1>9, <1>11, <2>1 DEF BeginStage, c
<1>12. CASE BeginRound(k)
  BY <1>5, <1>8, <1>12 DEF BeginRound, c
<1> QED
  BY <1>10, <1>11, <1>12

\* A stage that throws, or is given up on, is not a success.
LEMMA StageFollows ==
  ASSUME Basic, Honest, Published, NEW k \in DOMAIN st, StageThrows(k) \/ KidTimeout(k)
  PROVE  Followed
<1> DEFINE c == Current(k)
<1>1. \A j \in DOMAIN st : Follows(j, st[j]) /\ Follows(j, Unheard(st[j]))
  BY FollowsNow, FollowsMarks
<1>2. Follows(k, Keeps(st[k], "threw"))
  BY <1>1, FollowsMarks
<1>3. \A o \in {"failed", "indeterminate"} : /\ Follows(k, Puts(Keeps(st[k], "threw"), o))
                                             /\ Follows(k, Puts(st[k], o))
  BY <1>1, <1>2, FollowsPuts DEF Outcomes
<1>4. \A j \in DOMAIN st : st[j].row = "none" => Follows(j, Writes(st[j], "failed"))
  BY <1>1, FollowsMark DEF Open, Rows, Outcomes
<1>5. CASE StageThrows(k)
  <2>1. PICK o \in {"failed", "indeterminate"}, b \in BOOLEAN : st' = [j \in DOMAIN st |->
              IF j = k THEN Puts(Keeps(st[j], "threw"), o)
              ELSE IF b /\ j = c /\ st[j].row = "none"
              THEN Writes(st[j], "failed") ELSE st[j]]
    <3> DEFINE called == \E p \in 1 .. st[k].at - 1 :
                            /\ Use(Src(k).kids[p]) # "result.emit"
                            /\ st[Src(k).kids[p]].picked = "yes"
               reads == Use(Current(k)) = "mcp.read"
               o == IF called /\ ~reads THEN "indeterminate" ELSE "failed"
    <3>1. o \in {"failed", "indeterminate"} /\ reads \in BOOLEAN
      OBVIOUS
    <3>2. st' = [j \in DOMAIN st |->
              IF j = k THEN Puts(Keeps(st[j], "threw"), o)
              ELSE IF reads /\ j = c /\ st[j].row = "none"
              THEN Writes(st[j], "failed") ELSE st[j]]
      BY <1>5 DEF StageThrows
    <3> HIDE DEF o, reads, c
    <3> QED BY <3>1, <3>2
  <2> HIDE DEF c
  <2> QED
    BY <1>1, <1>3, <1>4, <2>1 DEF Followed
<1>6. CASE KidTimeout(k)
  <2>1. st' = [j \in DOMAIN st |-> IF j = k THEN Puts(st[j], "indeterminate")
                                   ELSE IF j = c THEN Unheard(st[j]) ELSE st[j]]
    BY <1>6 DEF KidTimeout
  <2> HIDE DEF c
  <2> QED
    BY <1>1, <1>3, <2>1 DEF Followed
<1> QED
  BY <1>5, <1>6

\* A dispatch that throws, or is given up on, leaves a doubt and claims nothing.
LEMMA ThrowsFollows ==
  ASSUME Basic, Honest, Published, NEW k \in DOMAIN st, DispatchThrows(k) \/ DispatchTimeout(k)
  PROVE  Followed
<1>1. /\ Follows(k, st[k]) /\ st[k] \in StepState /\ Earned(k, st[k])
      /\ \A j \in DOMAIN st : Follows(j, st[j])
  BY FollowsNow
<1>2. \A j \in DOMAIN st : Follows(j, Puts(st[j], "indeterminate"))
  BY <1>1, FollowsPuts DEF Outcomes
<1>3. PICK r \in StepState :
         /\ Throws(k, r) /\ r.row = st[k].row /\ r.fenced = st[k].fenced
         /\ r.effect = st[k].effect
         /\ r.late = "send" => r.effect = "untouched"
         /\ Gated(k) /\ r.late # "no" => Approved
  <2>1. CASE DispatchThrows(k)
    BY <1>1, <2>1 DEF DispatchThrows, Earned
  <2>2. CASE DispatchTimeout(k)
    <3>1. st[k].pc \in Lates /\ st[k].pc \in {"reserve", "send", "reply"}
      BY <2>2 DEF DispatchTimeout, Lates
    <3> DEFINE q == Lingers(st[k], st[k].pc)
    <3>2. /\ q \in StepState /\ q.late = st[k].pc /\ q.row = st[k].row
          /\ q.fenced = st[k].fenced /\ q.effect = st[k].effect
      BY <1>1, <3>1, LingersFields
    <3>3. Throws(k, q)
      BY <2>2 DEF DispatchTimeout
    <3> HIDE DEF q
    <3> QED BY <1>1, <3>1, <3>2, <3>3 DEF Earned, Granted
  <2> QED BY <2>1, <2>2
<1>4. ASSUME NEW q \in {Puts(Keeps(r, "threw"), "indeterminate"), Goes(Keeps(r, "threw"), "idle")}
      PROVE  Follows(k, q)
  <2>1. /\ q \in StepState
        /\ q.pc \in {"put", "idle"} /\ (q.pc = "put" => q.out = "indeterminate")
        /\ q.saved = "threw" /\ q.row = r.row /\ q.fenced = r.fenced
        /\ q.late = r.late /\ q.effect = r.effect
    BY ThrownFields
  <2>2. Earned(k, q)
    BY <1>1, <1>3, <2>1 DEF Earned, Granted
  <2> QED BY <1>1, <1>3, <2>1, <2>2 DEF Follows
<1>5. st' = [j \in DOMAIN st |->
         IF j = k THEN IF Hearing(k) = {} THEN Puts(Keeps(r, "threw"), "indeterminate")
                       ELSE Goes(Keeps(r, "threw"), "idle")
         ELSE IF j \in Hearing(k) THEN Puts(st[j], "indeterminate") ELSE st[j]]
  BY <1>3 DEF Throws
<1> QED
  BY <1>1, <1>2, <1>4, <1>5 DEF Followed

\* A wave, a crash and a termination claim nothing and rewrite no settled row.
LEMMA EngineFollows ==
  ASSUME Basic, Honest, Published, Wave \/ Crash \/ Terminate
  PROVE  Followed
<1>1. \A j \in DOMAIN st : /\ Follows(j, st[j]) /\ Follows(j, Dies(st[j]))
                           /\ Follows(j, Goes(st[j], "idle")) /\ Follows(j, Goes(st[j], "begin"))
  BY FollowsNow, FollowsMarks, FollowsGoes DEF PCs, Granted
<1>2. ASSUME NEW rows, rows \subseteq Open, SkipPending(rows) PROVE Followed
  <2>1. \A j \in DOMAIN st : st[j].row \in rows => Follows(j, Writes(st[j], "skipped"))
    BY <1>1, <1>2, FollowsMark DEF Rows, Outcomes
  <2> QED BY <1>1, <1>2, <2>1 DEF SkipPending, Followed
<1>3. {"none"} \subseteq Open /\ {"none", "waiting", "running"} \subseteq Open
  BY DEF Open
<1>4. ASSUME NEW W, st' = [k \in DOMAIN st |-> IF k \in W THEN Goes(st[k], "begin") ELSE st[k]]
      PROVE  Followed
  BY <1>1, <1>4 DEF Followed
<1>5. CASE UNCHANGED st
  BY <1>1, <1>5 DEF Followed
<1>6. CASE Wave
  BY <1>2, <1>3, <1>4, <1>5, <1>6 DEF Wave
<1>7. CASE Crash
  BY <1>1, <1>7 DEF Crash, Followed
<1>8. CASE Terminate
  <2>1. \/ st' = [k \in DOMAIN st |-> Goes(st[k], "idle")]
        \/ st' = st
    BY <1>8 DEF Terminate
  <2> QED BY <1>1, <1>5, <2>1 DEF Followed
<1> QED
  BY <1>6, <1>7, <1>8

\* A cancellation writes an open row, and an interruption claims nothing.
LEMMA CancelFollows ==
  ASSUME Basic, Honest, Published,
         CancelMark \/ (\E k \in DOMAIN st : CancelGate(k) \/ Interrupt(k))
  PROVE  Followed
<1>1. \A k \in DOMAIN st : /\ Follows(k, st[k]) /\ Follows(k, Unheard(st[k]))
                           /\ st[k].row \in Open => Follows(k, Writes(st[k], "cancelled"))
                           /\ \A r : Becomes(k, r) => Alone(k) /\ st'[k] = r
  BY FollowsNow, FollowsMarks, FollowsMark DEF Rows
<1>2. CASE CancelMark
  <2>1. cx.of \in DOMAIN st
    BY <1>2 DEF Basic, CancelFits, CancelMark
  <2>2. CASE UNCHANGED st
    BY <1>1, <2>2 DEF Followed
  <2>3. CASE st[cx.of].row = "waiting" /\ Becomes(cx.of, Writes(st[cx.of], "cancelled"))
    BY <1>1, <2>1, <2>3, AloneFollowed DEF Open
  <2> QED BY <1>2, <2>2, <2>3 DEF CancelMark
<1>3. CASE \E k \in DOMAIN st : CancelGate(k) \/ Interrupt(k)
  <2>1. PICK k \in DOMAIN st :
           \/ st[k].row \in Open /\ Becomes(k, Writes(st[k], "cancelled"))
           \/ Becomes(k, Unheard(st[k]))
    BY <1>3 DEF CancelGate, Interrupt, Open
  <2> QED BY <1>1, <2>1, AloneFollowed
<1> QED
  BY <1>2, <1>3

\* The file is reserved, then sent once, and its row says what became of it.
LEMMA UploadFollows ==
  ASSUME Basic, Honest, Published, OfUpload
  PROVE  Followed /\ (up' = "send" => st'[FileStep].effect = "untouched")
<1> DEFINE k == FileStep
<1>0. OfUpload => \E j \in Steps : Use(j) = "litterbox"
  BY DEF OfUpload, UploadReserve, UploadSend, UploadRecord, Basic, UploadFits
<1>1. k \in Steps /\ Use(k) = "litterbox"
  BY <1>0 DEF FileStep
<1>2. k \in DOMAIN st
  BY <1>1, PlanFitsNow DEF Basic, PlanFits, StoredSteps
<1>3. /\ Follows(k, st[k]) /\ st[k] \in StepState /\ Fits(k, st[k]) /\ Earned(k, st[k])
      /\ \A r : Becomes(k, r) => Alone(k) /\ st'[k] = r
  BY <1>2, FollowsNow
<1>4. up \in {"send", "record"} => st[k].fenced
  BY DEF Basic, UploadFits
<1>5. ~Gated(k)
  BY <1>1, <1>2, GatedSteps DEF GitHub
<1>6. st[k].pc # "send" /\ st[k].late # "send"
  BY <1>1, <1>3 DEF Fits, Outside, Mcp, Http, GitHub, Providers
<1> HIDE DEF k
<1>7. UNCHANGED st => Followed
  BY FollowsNow DEF Followed
<1>8. CASE UploadReserve
  <2>1. Reservable(k) => /\ Follows(k, Fences(st[k])) /\ Fences(st[k]).effect = st[k].effect
                         /\ st[k].effect = "untouched"
    BY <1>3, <1>5, FollowsCalls DEF Reservable, Fits
  <2>2. up' = "send" => Reservable(k)
    BY <1>8 DEF UploadReserve, k
  <2>3. Followed
    BY <1>2, <1>3, <1>7, <1>8, <2>1, AloneFollowed DEF UploadReserve, k
  <2>4. Reservable(k) => st'[k].effect = "untouched"
    BY <1>3, <1>8, <2>1 DEF UploadReserve, k
  <2> QED BY <2>2, <2>3, <2>4 DEF k
<1>9. CASE UploadSend
  <2>1. PICK e \in Effects : Becomes(k, Affects(st[k], e))
    BY <1>9 DEF UploadSend, k
  <2>2. st[k].effect = "untouched" /\ Due(k)
    BY <1>4, <1>9 DEF UploadSend, Honest, Due, k
  <2>3. Follows(k, Affects(st[k], e))
    BY <1>3, <1>5, <1>6, <2>2, FollowsCalls DEF Leaving
  <2>4. up' # "send"
    BY <1>9 DEF UploadSend
  <2> QED BY <1>2, <1>3, <2>1, <2>3, <2>4, AloneFollowed
<1>10. CASE UploadRecord
  <2>1. PICK o \in Answers(k) : LET row == st[k].row
                                    new == IF row \in {"none", "waiting", "running"}
                                           THEN o ELSE row
                                IN  Becomes(k, Writes(st[k], new))
    BY <1>10 DEF UploadRecord, k
  <2> DEFINE new == IF st[k].row \in {"none", "waiting", "running"} THEN o ELSE st[k].row
  <2>2. new \in Rows /\ (st[k].row \notin Open => new = st[k].row)
    BY <1>3, AnswersFit DEF Rows, StepState, Open
  <2>3. Effectful(k) /\ new = "succeeded" => st[k].effect = "applied"
    BY <1>3, AnswersEarned DEF Earned
  <2>4. Becomes(k, Writes(st[k], new))
    BY <2>1
  <2> HIDE DEF new
  <2>5. Follows(k, Writes(st[k], new))
    BY <1>3, <2>2, <2>3, FollowsWrites
  <2>6. up' # "send"
    BY <1>10 DEF UploadRecord
  <2> QED BY <1>2, <1>3, <2>4, <2>5, <2>6, AloneFollowed
<1> QED
  BY <1>8, <1>9, <1>10 DEF OfUpload

\* Whatever one step does follows.
LEMMA StepFollows ==
  ASSUME Basic, Honest, Published, NEW k \in DOMAIN st,
         \/ OfStep(k) \/ Land(k) \/ RegistrationFails(k)
         \/ DispatchTimeout(k) \/ LateDispatch(k) \/ SessionEnds(k)
  PROVE  Followed
<1>1. CASE \/ BeginCheckpointed(k) \/ BeginGitHub(k) \/ BeginWait(k)
  BY <1>1, CheckpointedFollows, GitHubFollows, WaitFollows
<1>2. CASE \/ BeginChild(k) \/ BeginForeach(k) \/ BeginLoop(k)
           \/ KidEnds(k) \/ ForeachEnds(k) \/ LoopEnds(k) \/ LoopThrows(k)
  BY <1>2, FlowFollows
<1>3. CASE BeginItem(k) \/ BeginStage(k) \/ BeginRound(k)
  BY <1>3, KidFollows
<1>4. CASE StageThrows(k)
  BY <1>4, StageFollows
<1>5. CASE Put(k) \/ RegistrationFails(k)
  BY <1>5, PutFollows
<1>6. CASE \/ Prior(k) \/ DiscoverTool(k) \/ DiscoverDub(k) \/ DiscoverEnvshare(k)
           \/ DiscoverBark(k)
  BY <1>6, LookFollows
<1>7. CASE Reserve(k) \/ ReserveGitHub(k)
  BY <1>7, ReserveFollows
<1>8. CASE CallTool(k) \/ SendHttp(k) \/ ExecuteAction(k) \/ DispatchGitHub(k) \/ Land(k)
  BY <1>8, CallFollows
<1>9. CASE Reply(k) \/ PollTask(k) \/ PollSession(k)
  BY <1>9, ReplyFollows, PollFollows
<1>10. CASE Resume(k) \/ EventTimeout(k) \/ FileWait(k)
  BY <1>10, ResumeFollows
<1>11. CASE OpenGate(k) \/ Decide(k) \/ Consume(k)
  BY <1>11, GateFollows
<1>12. CASE DispatchThrows(k) \/ DispatchTimeout(k)
  BY <1>12, ThrowsFollows
<1>13. CASE LateDispatch(k) \/ SessionEnds(k)
  BY <1>13, LateFollows
<1> QED
  BY <1>1, <1>2, <1>3, <1>4, <1>5, <1>6, <1>7, <1>8, <1>9, <1>10, <1>11, <1>12, <1>13
     DEF OfStep

\* Every step of a published Run follows in every record.
LEMMA NextFollows ==
  ASSUME Basic, Honest, Published, Next
  PROVE  Followed
<1>1. ~Publish
  BY DEF Publish, Published
<1>2. ASSUME UNCHANGED st PROVE Followed
  BY <1>2, FollowsNow DEF Followed
<1>3. CASE Top \/ WaveEnds \/ Final \/ Rollback \/ CancelLook \/ CancelFence \/ Revoke \/ Deadline
  BY <1>2, <1>3 DEF Top, WaveEnds, Final, Rollback, CancelLook, CancelFence, Revoke, Deadline
<1>4. CASE Wave \/ Crash \/ Terminate
  BY <1>4, EngineFollows
<1>5. CASE OfUpload
  BY <1>5, UploadFollows
<1>6. CASE CancelMark \/ \E k \in DOMAIN st : CancelGate(k) \/ Interrupt(k)
  BY <1>6, CancelFollows
<1>7. ASSUME NEW k \in DOMAIN st,
             \/ OfStep(k) \/ Land(k) \/ RegistrationFails(k)
             \/ DispatchTimeout(k) \/ LateDispatch(k) \/ SessionEnds(k)
      PROVE  Followed
  BY <1>7, StepFollows
<1>8. ASSUME NEW k \in DOMAIN st, KidTimeout(k) PROVE Followed
  BY <1>8, StageFollows
<1>9. ASSUME NEW k \in DOMAIN st,
             Approve(k) \/ RecordApproval(k) \/ CancelAction(k) \/ CancelEvent(k)
      PROVE  Followed
  BY <1>2, <1>9 DEF Approve, RecordApproval, CancelAction, CancelEvent
<1>10. ASSUME NEW k \in DOMAIN comp,
              StatusRepairs(k) \/ \E c \in Callers : OfCompensation(k, c)
       PROVE  Followed
  BY <1>2, <1>10 DEF StatusRepairs, OfCompensation, CompensateReserve,
                     CompensatePost, CompensateRecord
<1>11. ASSUME NEW e \in {"e1", "e2"}, EventReceipt(e) \/ EventCheck(e) \/ EventSend(e)
       PROVE  Followed
  BY <1>2, <1>11 DEF EventReceipt, EventCheck, EventSend
<1> QED
  BY <1>1, <1>3, <1>4, <1>5, <1>6, <1>7, <1>8, <1>9, <1>10, <1>11
     DEF Next, OfEngine, OfCancel

\* Only the gate's own actions change it.
LEMMA GateOnly ==
  ASSUME Next, Published
  PROVE  \/ gate' = gate \/ Deadline
         \/ \E k \in DOMAIN st : OpenGate(k) \/ Approve(k) \/ RecordApproval(k)
<1>1. CASE OfEngine \/ OfCancel
  BY <1>1 DEF OfEngine, Publish, Top, Wave, WaveEnds, Final, Rollback, others, Published,
              OfCancel, CancelLook, CancelFence, CancelMark, Terminate
<1>2. CASE OfUpload \/ Revoke \/ Deadline \/ Crash
  BY <1>2 DEF OfUpload, UploadReserve, UploadSend, UploadRecord, Revoke, Crash
<1>3. ASSUME NEW k \in DOMAIN st, OfStep(k) \/ Land(k) \/ LateDispatch(k)
      PROVE  gate' = gate \/ OpenGate(k)
  <2>1. CASE \/ BeginCheckpointed(k) \/ BeginGitHub(k) \/ BeginWait(k) \/ BeginChild(k)
             \/ BeginForeach(k) \/ BeginLoop(k) \/ BeginItem(k) \/ BeginStage(k)
             \/ BeginRound(k)
    BY <2>1 DEF BeginCheckpointed, BeginGitHub, BeginWait, BeginChild, BeginForeach,
                BeginLoop, BeginItem, BeginStage, BeginRound, others
  <2>2. CASE \/ KidEnds(k) \/ ForeachEnds(k) \/ LoopEnds(k) \/ StageThrows(k)
             \/ LoopThrows(k) \/ Put(k) \/ Prior(k)
    BY <2>2 DEF KidEnds, ForeachEnds, LoopEnds, StageThrows, LoopThrows, Put, Prior, others
  <2>3. CASE \/ DiscoverTool(k) \/ DiscoverDub(k) \/ DiscoverEnvshare(k) \/ DiscoverBark(k)
             \/ Reserve(k) \/ ReserveGitHub(k) \/ DispatchThrows(k)
             \/ CallTool(k) \/ SendHttp(k) \/ ExecuteAction(k)
             \/ DispatchGitHub(k)
    BY <2>3 DEF DiscoverTool, DiscoverDub, DiscoverEnvshare, DiscoverBark, Checked, Reserve,
                ReserveGitHub, DispatchThrows,
                CallTool, SendHttp, ExecuteAction, DispatchGitHub, Leaves, others
  <2>4. CASE \/ Reply(k) \/ PollTask(k) \/ PollSession(k) \/ Resume(k)
             \/ EventTimeout(k) \/ FileWait(k)
             \/ Decide(k) \/ Consume(k) \/ Land(k) \/ LateDispatch(k)
    BY <2>4 DEF Reply, PollTask, PollSession, Resume, EventTimeout, FileWait, Decide, Consume,
                Land, LateDispatch, others
  <2> QED BY <1>3, <2>1, <2>2, <2>3, <2>4 DEF OfStep
<1>4. ASSUME NEW k \in DOMAIN st,
             \/ CancelAction(k) \/ CancelEvent(k) \/ CancelGate(k)
             \/ Interrupt(k) \/ KidTimeout(k) \/ RegistrationFails(k)
             \/ DispatchTimeout(k) \/ SessionEnds(k)
      PROVE  UNCHANGED gate
  BY <1>4 DEF Interrupt, KidTimeout, RegistrationFails, DispatchTimeout, SessionEnds,
              CancelAction, CancelEvent, CancelGate
<1>5. ASSUME NEW k \in DOMAIN comp,
             StatusRepairs(k) \/ \E c \in Callers : OfCompensation(k, c)
      PROVE  UNCHANGED gate
  BY <1>5 DEF StatusRepairs, OfCompensation, CompensateReserve, CompensatePost,
              CompensateRecord
<1>6. ASSUME NEW e \in {"e1", "e2"}, EventReceipt(e) \/ EventCheck(e) \/ EventSend(e)
      PROVE  UNCHANGED gate
  BY <1>6 DEF EventReceipt, EventCheck, EventSend
<1> QED
  BY <1>1, <1>2, <1>3, <1>4, <1>5, <1>6 DEF Next

\* The owner decides once, and an approval is not taken back.
LEMMA DecidedOnceKept ==
  ASSUME Basic, Honest, Published, Next
  PROVE  DecidedOnce' /\ (Approved => Approved')
<1>1. gate \in GateState /\ DecidedOnce
  BY DEF Basic, TypeOK, Honest
<1>2. CASE gate' = gate
  BY <1>1, <1>2 DEF DecidedOnce, Approved
<1>3. CASE Deadline \/ \E k \in DOMAIN st : OpenGate(k)
  BY <1>1, <1>3 DEF Deadline, OpenGate, DecidedOnce, Approved, GateState
<1>4. CASE \E k \in DOMAIN st : Approve(k) \/ RecordApproval(k)
  BY <1>1, <1>4 DEF Approve, RecordApproval, DecidedOnce, Approved, GateState
<1> QED
  BY <1>2, <1>3, <1>4, GateOnly

\* A file about to be sent has not left.
LEMMA FileKept ==
  ASSUME Basic, Honest, Published, Next, Rest, Sound, Followed
  PROVE  (up = "send" => st[FileStep].effect = "untouched")'
<1>1. /\ Steps' = Steps /\ Steps \subseteq DOMAIN st /\ \A k \in DOMAIN st : Use(k)' = Use(k)
  BY SamePlan, PlanFitsNow DEF Basic, PlanFits, StoredSteps
<1>2. FileStep' = FileStep
  BY <1>1 DEF FileStep
<1>3. CASE OfUpload
  BY <1>2, <1>3, UploadFollows
<1>4. CASE up' = up /\ up = "send"
  <2>1. FileStep \in Steps /\ Use(FileStep) = "litterbox" /\ st[FileStep].effect = "untouched"
    BY <1>4 DEF Basic, UploadFits, FileStep, Honest
  <2>2. Follows(FileStep, st'[FileStep])
    BY <1>1, <2>1 DEF Followed
  <2> QED BY <1>2, <1>4, <2>1, <2>2 DEF Follows, Leaving, Due
<1> QED
  BY <1>3, <1>4, UploadOnly DEF OfUpload

\* Only the compensation, the rollback and the termination change the receipts.
LEMMA CompOnly ==
  ASSUME Next, Published
  PROVE  \/ UNCHANGED comp \/ Rollback \/ Terminate \/ \E k \in DOMAIN st : SessionEnds(k)
         \/ \E k \in DOMAIN comp : \/ StatusRepairs(k)
                                   \/ \E c \in Callers : OfCompensation(k, c)
<1>1. CASE OfEngine \/ OfCancel
  BY <1>1 DEF OfEngine, Publish, Top, Wave, WaveEnds, Final, others, Published,
              OfCancel, CancelLook, CancelFence, CancelMark
<1>2. CASE OfUpload \/ Revoke \/ Deadline \/ Crash
  BY <1>2 DEF OfUpload, UploadReserve, UploadSend, UploadRecord, Revoke, Deadline, Crash
<1>3. ASSUME NEW k \in DOMAIN st,
             \/ OfStep(k) \/ Land(k) \/ LateDispatch(k) \/ Approve(k) \/ RecordApproval(k)
             \/ CancelAction(k) \/ CancelEvent(k) \/ CancelGate(k)
             \/ Interrupt(k) \/ KidTimeout(k) \/ RegistrationFails(k) \/ DispatchTimeout(k)
      PROVE  UNCHANGED comp
  BY <1>3, StepOnly DEF Approve, RecordApproval, Interrupt, KidTimeout, RegistrationFails,
                        DispatchTimeout,
                        CancelAction, CancelEvent, CancelGate
<1>4. ASSUME NEW e \in {"e1", "e2"}, EventReceipt(e) \/ EventCheck(e) \/ EventSend(e)
      PROVE  UNCHANGED comp
  BY <1>4 DEF EventReceipt, EventCheck, EventSend
<1> QED
  BY <1>1, <1>2, <1>3, <1>4 DEF Next

\* The two callers of a compensation, written out.
LEMMA RepaidFields ==
  ASSUME NEW r
  PROVE  Repaid(r) <=>
           /\ r.native \in {"post", "record"} \/ r.fallback \in {"post", "record"}
                => r.row = "running"
           /\ r.native = "post" \/ r.fallback = "post" => r.effect = "untouched"
           /\ ~(r.native \in {"post", "record"} /\ r.fallback \in {"post", "record"})
           /\ r.row = "none" => r.effect = "untouched"
           /\ r.row \in {"requested", "succeeded"} => r.effect = "applied"
           /\ r.row = "uncleared" => r.effect = "refused"
           /\ r.row = "succeeded" => ~r.live
<1>1. r["native"] = r.native /\ r["fallback"] = r.fallback
  OBVIOUS
<1>2. Callers = {"native", "fallback"}
  BY DEF Callers
<1>3. (\A c \in Callers : Sending(r, c) => r.row = "running")
        <=> (r.native \in {"post", "record"} \/ r.fallback \in {"post", "record"}
             => r.row = "running")
  BY <1>1, <1>2 DEF Sending
<1>4. (\A c \in Callers : r[c] = "post" => r.effect = "untouched")
        <=> (r.native = "post" \/ r.fallback = "post" => r.effect = "untouched")
  BY <1>1, <1>2
<1>5. (Sending(r, "native") /\ Sending(r, "fallback"))
        <=> (r.native \in {"post", "record"} /\ r.fallback \in {"post", "record"})
  BY <1>1 DEF Sending
<1> QED
  BY <1>3, <1>4, <1>5 DEF Repaid

\* A handler or the fallback that is asked again starts over.
LEMMA AskedRepays ==
  ASSUME NEW k, comp[k] \in CompState, Repaid(comp[k]), NEW r, Repays(k, r), r \in CompState
  PROVE  /\ Repays(k, comp[k])
         /\ Repays(k, [r EXCEPT !.native = "reserve"])
         /\ [r EXCEPT !.native = "reserve"] \in CompState
         /\ Repays(k, [r EXCEPT !.fallback = "reserve"])
<1>1. ASSUME NEW q \in CompState, q.row = r.row, q.effect = r.effect, q.live = r.live,
             q.native \in {r.native, "reserve"}, q.fallback \in {r.fallback, "reserve"}
      PROVE  Repays(k, q)
  BY <1>1, RepaidFields DEF Repays
<1>2. Repays(k, comp[k])
  BY DEF Repays, Leaving
<1>3. /\ [r EXCEPT !.native = "reserve"] \in CompState
      /\ [r EXCEPT !.native = "reserve"].native = "reserve"
      /\ [r EXCEPT !.native = "reserve"].fallback = r.fallback
      /\ [r EXCEPT !.native = "reserve"].row = r.row
      /\ [r EXCEPT !.native = "reserve"].live = r.live
      /\ [r EXCEPT !.native = "reserve"].effect = r.effect
  BY DEF CompState
<1>4. /\ [r EXCEPT !.fallback = "reserve"] \in CompState
      /\ [r EXCEPT !.fallback = "reserve"].fallback = "reserve"
      /\ [r EXCEPT !.fallback = "reserve"].native = r.native
      /\ [r EXCEPT !.fallback = "reserve"].row = r.row
      /\ [r EXCEPT !.fallback = "reserve"].live = r.live
      /\ [r EXCEPT !.fallback = "reserve"].effect = r.effect
  BY DEF CompState
<1> QED
  BY <1>1, <1>2, <1>3, <1>4

\* The receipt is claimed by one caller, its POST leaves once, and its verdict is final.
LEMMA CallerRepays ==
  ASSUME NEW k \in DOMAIN comp, comp[k] \in CompState, Repaid(comp[k]),
         comp = [j \in DOMAIN comp |-> comp[j]], NEW c \in Callers, OfCompensation(k, c)
  PROVE  \E r : comp' = [comp EXCEPT ![k] = r] /\ Repays(k, r)
<1> DEFINE r == comp[k]
<1>1. r \in CompState /\ Repaid(r) /\ c \in {"native", "fallback"}
  BY DEF Callers
<1>2. CASE CompensateReserve(k, c)
  <2>1. CASE Compensable(k)
    <3> DEFINE q == [r EXCEPT ![c] = "post", !.row = "running"]
    <3>1. comp' = [comp EXCEPT ![k] = q]
      BY <1>2, <2>1 DEF CompensateReserve
    <3>2. r.row = "none" /\ r.effect = "untouched"
      BY <1>1, <2>1 DEF Compensable, Repaid
    <3>3. q.row = "running" /\ q.effect = "untouched"
          /\ q.native \in {r.native, "post"} /\ q.fallback \in {r.fallback, "post"}
          /\ (q.native = r.native \/ q.fallback = r.fallback)
      BY <1>1, <3>2 DEF CompState
    <3>4. r.native \notin {"post", "record"} /\ r.fallback \notin {"post", "record"}
      BY <1>1, <3>2, RepaidFields
    <3> HIDE DEF q
    <3>5. Repaid(q)
      BY <3>3, <3>4, RepaidFields
    <3> QED BY <3>1, <3>2, <3>3, <3>5 DEF Repays, Leaving, Settled
  <2>2. CASE ~Compensable(k)
    <3> DEFINE q == [r EXCEPT ![c] = "done", !.row = @]
    <3>1. comp' = [comp EXCEPT ![k] = q]
      BY <1>2, <2>2 DEF CompensateReserve
    <3>2. q.row = r.row /\ q.effect = r.effect /\ q.live = r.live
          /\ q.native \in {r.native, "done"} /\ q.fallback \in {r.fallback, "done"}
      BY <1>1 DEF CompState
    <3> HIDE DEF q
    <3>3. Repaid(q)
      BY <1>1, <3>2, RepaidFields
    <3> QED BY <3>1, <3>2, <3>3 DEF Repays, Leaving
  <2> QED BY <2>1, <2>2
<1>3. CASE CompensatePost(k, c)
  <2>1. PICK e \in Effects : comp' = [comp EXCEPT ![k][c] = "record", ![k].effect = e]
    BY <1>3 DEF CompensatePost
  <2> DEFINE q == [r EXCEPT ![c] = "record", !.effect = e]
  <2>2. comp' = [comp EXCEPT ![k] = q]
    BY <2>1
  <2>3. r[c] = "post" /\ r.row = "running" /\ r.effect = "untouched"
    BY <1>1, <1>3 DEF CompensatePost, Repaid, Sending, Callers
  <2>4. q.row = "running" /\ q.effect = e
        /\ \/ q.native = "record" /\ q.fallback = r.fallback /\ r.native = "post"
           \/ q.fallback = "record" /\ q.native = r.native /\ r.fallback = "post"
    BY <1>1, <2>3 DEF CompState
  <2> HIDE DEF q
  <2>5. Repaid(q)
    BY <1>1, <2>3, <2>4, RepaidFields
  <2> QED BY <2>1, <2>2, <2>3, <2>4, <2>5 DEF Repays, Leaving, Settled
<1>4. CASE CompensateRecord(k, c)
  <2>1. PICK o \in {"requested", "succeeded", "indeterminate", "uncleared"} :
           /\ comp' = [comp EXCEPT ![k][c] = "done", ![k].row = o]
           /\ o \in {"requested", "succeeded"} => r.effect = "applied"
           /\ o = "uncleared" => r.effect = "refused"
           /\ o = "succeeded" => ~r.live
    BY <1>4 DEF CompensateRecord
  <2> DEFINE q == [r EXCEPT ![c] = "done", !.row = o]
  <2>2. comp' = [comp EXCEPT ![k] = q]
    BY <2>1
  <2>3. r[c] = "record" /\ r.row = "running"
    BY <1>1, <1>4 DEF CompensateRecord, Repaid, Sending, Callers
  <2>4. q.row = o /\ q.effect = r.effect /\ q.live = r.live
        /\ \/ q.native = "done" /\ q.fallback = r.fallback /\ r.native = "record"
           \/ q.fallback = "done" /\ q.native = r.native /\ r.fallback = "record"
    BY <1>1, <2>3 DEF CompState
  <2> HIDE DEF q
  <2>5. Repaid(q)
    BY <1>1, <2>1, <2>3, <2>4, RepaidFields
  <2> QED BY <2>2, <2>3, <2>4, <2>5 DEF Repays, Leaving, Settled
<1> QED
  BY <1>2, <1>3, <1>4 DEF OfCompensation

\* What becomes of every compensation in a step.
LEMMA NextRepays ==
  ASSUME Basic, Honest, Published, Next
  PROVE  \A k \in DOMAIN comp : Repays(k, comp'[k])
<1>1. /\ comp = [k \in DOMAIN comp |-> comp[k]]
      /\ \A k \in DOMAIN comp : comp[k] \in CompState /\ Repaid(comp[k])
  BY DEF Basic, TypeOK, Honest
<1>2. \A k \in DOMAIN comp : Repays(k, comp[k]) /\ Repays(k, [comp[k] EXCEPT !.native = "reserve"])
  BY <1>1, AskedRepays DEF Repays, Leaving
<1>3. ASSUME UNCHANGED comp PROVE \A k \in DOMAIN comp : Repays(k, comp'[k])
  BY <1>2, <1>3
<1>4. ASSUME NEW k \in DOMAIN comp, NEW r, comp' = [comp EXCEPT ![k] = r], Repays(k, r)
      PROVE  \A j \in DOMAIN comp : Repays(j, comp'[j])
  BY <1>1, <1>2, <1>4
<1>5. CASE Rollback
  BY <1>2, <1>5 DEF Rollback
<1>6. CASE Terminate
  <2>1. PICK f : /\ f = [k \in DOMAIN comp |-> f[k]] /\ comp' = Fallback(f)
                 /\ \A k \in DOMAIN comp : f[k] \in {comp[k], [comp[k] EXCEPT !.native = "reserve"]}
    <3>1. PICK ends \in BOOLEAN, rollsBack \in BOOLEAN : comp' = Fallback([k \in DOMAIN comp |->
             IF "cancel" \in plan.saga /\ ends /\ rollsBack /\ st[k].row = "succeeded"
             THEN [comp[k] EXCEPT !.native = "reserve"] ELSE comp[k]])
      BY <1>6 DEF Terminate
    <3> DEFINE f == [k \in DOMAIN comp |->
             IF "cancel" \in plan.saga /\ ends /\ rollsBack /\ st[k].row = "succeeded"
             THEN [comp[k] EXCEPT !.native = "reserve"] ELSE comp[k]]
    <3>2. f = [k \in DOMAIN comp |-> f[k]] /\ comp' = Fallback(f)
      BY <3>1
    <3>3. \A k \in DOMAIN comp : f[k] \in {comp[k], [comp[k] EXCEPT !.native = "reserve"]}
      OBVIOUS
    <3> HIDE DEF f
    <3> QED BY <3>2, <3>3
  <2>2. \A k \in DOMAIN comp : Repays(k, f[k]) /\ Repays(k, [f[k] EXCEPT !.fallback = "reserve"])
    <3> SUFFICES ASSUME NEW k \in DOMAIN comp
                 PROVE  Repays(k, f[k]) /\ Repays(k, [f[k] EXCEPT !.fallback = "reserve"])
      OBVIOUS
    <3>1. f[k] \in CompState /\ Repays(k, f[k])
      <4>1. [comp[k] EXCEPT !.native = "reserve"] \in CompState
        BY <1>1, <1>2, AskedRepays
      <4> QED BY <1>1, <1>2, <2>1, <4>1
    <3> QED BY <1>1, <3>1, AskedRepays
  <2>3. \A k \in DOMAIN comp : comp'[k] \in {f[k], [f[k] EXCEPT !.fallback = "reserve"]}
    BY <2>1 DEF Fallback
  <2> QED BY <2>2, <2>3
<1>7. ASSUME NEW k \in DOMAIN comp, StatusRepairs(k)
      PROVE  \A j \in DOMAIN comp : Repays(j, comp'[j])
  <2> DEFINE q == [comp[k] EXCEPT !.row = "succeeded"]
  <2>1. comp' = [comp EXCEPT ![k] = q] /\ comp[k].row = "requested" /\ ~comp[k].live
    BY <1>7 DEF StatusRepairs
  <2>2. q.row = "succeeded" /\ q.effect = comp[k].effect /\ q.live = comp[k].live
        /\ q.native = comp[k].native /\ q.fallback = comp[k].fallback
    BY <1>1 DEF CompState
  <2> HIDE DEF q
  <2>3. Repays(k, q)
    BY <1>1, <2>1, <2>2, RepaidFields DEF Repays, Leaving
  <2> QED BY <1>4, <2>1, <2>3
<1>8. ASSUME NEW k \in DOMAIN comp, NEW c \in Callers, OfCompensation(k, c)
      PROVE  \A j \in DOMAIN comp : Repays(j, comp'[j])
  BY <1>1, <1>4, <1>8, CallerRepays
<1>10. ASSUME NEW k \in DOMAIN st, SessionEnds(k)
       PROVE  \A j \in DOMAIN comp : Repays(j, comp'[j])
  <2> DEFINE q(j) == [comp[j] EXCEPT !.live = FALSE]
  <2>1. \A j \in DOMAIN comp : comp'[j] \in {comp[j], q(j)}
    BY <1>10 DEF SessionEnds
  <2>2. ASSUME NEW j \in DOMAIN comp PROVE Repays(j, q(j))
    <3>1. q(j).row = comp[j].row /\ q(j).effect = comp[j].effect /\ ~q(j).live
          /\ q(j).native = comp[j].native /\ q(j).fallback = comp[j].fallback
      BY <1>1 DEF CompState
    <3> HIDE DEF q
    <3> QED BY <1>2, <3>1, RepaidFields DEF Repays
  <2> HIDE DEF q
  <2> QED BY <1>2, <2>1, <2>2
<1>9. \/ UNCHANGED comp \/ Rollback \/ Terminate \/ \E k \in DOMAIN st : SessionEnds(k)
      \/ \E k \in DOMAIN comp : \/ StatusRepairs(k)
                                \/ \E c \in Callers : OfCompensation(k, c)
  BY CompOnly
<1> QED
  BY <1>3, <1>5, <1>6, <1>7, <1>8, <1>9, <1>10

\* What is said of the records stays true in every step of a published Run.
LEMMA HonestKept ==
  ASSUME Basic, Honest, Published, Next
  PROVE  Honest' /\ Followed /\ \A k \in DOMAIN comp : Repays(k, comp'[k])
<1>1. /\ Rest /\ Sound /\ Followed
      /\ DecidedOnce' /\ (Approved => Approved')
      /\ (up = "send" => st[FileStep].effect = "untouched")'
      /\ \A k \in DOMAIN comp : Repays(k, comp'[k])
  BY NextRest, NextFollows, DecidedOnceKept, FileKept, NextRepays
<1>2. DOMAIN st' = DOMAIN st /\ DOMAIN comp' = DOMAIN comp
  BY <1>1 DEF Rest, Sound
<1>3. ASSUME NEW k \in DOMAIN st PROVE Earned(k, st[k])'
  <2>1. Earned(k, st'[k])
    BY <1>1 DEF Followed, Follows
  <2>2. Effectful(k)' = Effectful(k) /\ Gated(k)' = Gated(k)
    BY <1>1, SamePlan DEF Effectful
  <2> QED BY <1>1, <2>1, <2>2 DEF Earned
<1>4. ASSUME NEW k \in DOMAIN comp PROVE Repaid(comp[k])'
  <2>1. Repaid(comp'[k])
    BY <1>1 DEF Repays
  <2> QED BY <2>1 DEF Repaid, Sending
<1> QED
  BY <1>1, <1>2, <1>3, <1>4 DEF Honest

\* A draft has done nothing, and neither has a Run that was just published.
LEMMA HonestBegins ==
  ASSUME Basic
  PROVE  /\ ~Published => Honest
         /\ ~Published /\ Publish => Honest'
<1>1. ~Published => /\ DOMAIN st = {} /\ DOMAIN comp = {} /\ up = "idle"
                    /\ gate.decision = "none"
  BY DEF Basic, Origin, Untouched
<1>2. ~Published => Honest
  BY <1>1 DEF Honest, DecidedOnce
<1>3. ASSUME ~Published, Publish PROVE Honest'
  <2>1. up' = "idle" /\ gate'.decision = "none"
    BY <1>1, <1>3 DEF Publish
  <2>2. \/ DOMAIN st' = {} /\ DOMAIN comp' = {}
        \/ /\ \A k \in DOMAIN st' : st'[k] = Fresh
           /\ \A k \in DOMAIN comp' : comp'[k] = [row |-> "none", effect |-> "untouched",
                                          live |-> TRUE, native |-> "no", fallback |-> "no"]
    BY <1>1, <1>3 DEF Publish
  <2>3. /\ Fresh.pc = "idle" /\ Fresh.row = "none" /\ Fresh.saved = "?" /\ ~Fresh.fenced
        /\ Fresh.late = "no"
    BY DEF Fresh
  <2>4. \A k \in DOMAIN st' : Earned(k, st[k])'
    BY <2>2, <2>3 DEF Earned, Granted
  <2>5. \A k \in DOMAIN comp' : Repaid(comp[k])'
    BY <2>2 DEF Repaid, Sending, Callers
  <2> QED BY <2>1, <2>4, <2>5 DEF Honest, DecidedOnce
<1> QED
  BY <1>2, <1>3

\* Stuttering keeps what is said of the records.
LEMMA HonestStutters ==
  ASSUME Honest, UNCHANGED vars
  PROVE  Honest'
<1>1. /\ plan' = plan /\ eng' = eng /\ st' = st /\ gate' = gate /\ up' = up /\ comp' = comp
  BY DEF vars, fixed
<1>2. Steps' = Steps /\ \A k : Use(k)' = Use(k) /\ Gated(k)' = Gated(k)
  BY <1>1 DEF Steps, Use, Gated, Src
<1>3. FileStep' = FileStep
  BY <1>2 DEF FileStep
<1>4. \A k : Effectful(k)' = Effectful(k)
  BY <1>2 DEF Effectful
<1>5. Approved' = Approved /\ DecidedOnce' = DecidedOnce
  BY <1>1 DEF Approved, DecidedOnce
<1>6. \A k \in DOMAIN st' : Earned(k, st[k])'
  BY <1>1, <1>2, <1>4, <1>5 DEF Earned, Honest
<1>7. \A k \in DOMAIN comp' : Repaid(comp[k])'
  BY <1>1 DEF Repaid, Sending, Honest
<1> QED
  BY <1>1, <1>3, <1>5, <1>6, <1>7 DEF Honest

\* What left, and what is said of it, always.
LEMMA HonestHolds == Spec => [](Basic /\ Honest)
<1>1. Init => Basic /\ Honest
  BY BasicInit, HonestBegins
<1>2. Basic /\ Honest /\ [Next]_vars => (Basic /\ Honest)'
  <2>1. ASSUME Basic, Honest, Next PROVE (Basic /\ Honest)'
    <3>1. CASE Published
      BY <2>1, <3>1, PublishedKept, HonestKept
    <3>2. CASE ~Published
      BY <2>1, <3>2, DraftKept, HonestBegins
    <3> QED BY <3>1, <3>2
  <2>2. ASSUME Basic, Honest, UNCHANGED vars PROVE (Basic /\ Honest)'
    BY <2>2, StutterKept, HonestStutters
  <2> QED BY <2>1, <2>2
<1> QED
  BY <1>1, <1>2, PTL DEF Spec

\* The effect of a step, and the cancellation that compensates one, leave once: only behind
\* a fence that was placed before (for a compensation, its claimed receipt), and never again
\* in a replay; what was sent is carried out or refused, and that is final.  This holds
\* whatever crashes, faults, cancellations and revocations come in between.
THEOREM EffectsLeaveOnce ==
  Spec => [][/\ \A k \in DOMAIN st : Leaving(st[k].effect, st'[k].effect, st[k].fenced)
             /\ \A k \in DOMAIN comp :
                   Leaving(comp[k].effect, comp'[k].effect, comp[k].row = "running")]_vars
<1> DEFINE Once1 == /\ \A k \in DOMAIN st : Leaving(st[k].effect, st'[k].effect, st[k].fenced)
                    /\ \A k \in DOMAIN comp :
                          Leaving(comp[k].effect, comp'[k].effect, comp[k].row = "running")
<1>1. Basic /\ Honest /\ [Next]_vars => [Once1]_vars
  <2> SUFFICES ASSUME Basic, Honest, Next PROVE Once1
    OBVIOUS
  <2>1. CASE Published
    BY <2>1, HonestKept DEF Followed, Follows, Repays, Leaving, Due
  <2>2. CASE ~Published
    <3>1. DOMAIN st = {} /\ DOMAIN comp = {}
      BY <2>2 DEF Basic, Origin, Untouched
    <3> QED BY <3>1
  <2> QED BY <2>1, <2>2
<1> QED
  BY <1>1, HonestHolds, PTL DEF Spec

\* The row of a settled step is never rewritten, not by a late answer, a replay, a skipped
\* wave or a cancellation; the verdict of a compensation changes once at most, when status
\* finds that what was requested has ended.
THEOREM RecordsStay ==
  Spec => [][/\ \A k \in DOMAIN st : st[k].row \notin Open => st'[k].row = st[k].row
             /\ \A k \in DOMAIN comp : Settled(comp[k].row) =>
                   \/ comp'[k].row = comp[k].row
                   \/ comp[k].row = "requested" /\ comp'[k].row = "succeeded"]_vars
<1> DEFINE Stay == /\ \A k \in DOMAIN st : st[k].row \notin Open => st'[k].row = st[k].row
                   /\ \A k \in DOMAIN comp : Settled(comp[k].row) =>
                         \/ comp'[k].row = comp[k].row
                         \/ comp[k].row = "requested" /\ comp'[k].row = "succeeded"
<1>1. Basic /\ Honest /\ [Next]_vars => [Stay]_vars
  <2> SUFFICES ASSUME Basic, Honest, Next PROVE Stay
    OBVIOUS
  <2>1. CASE Published
    BY <2>1, HonestKept DEF Followed, Follows, Repays
  <2>2. CASE ~Published
    <3>1. DOMAIN st = {} /\ DOMAIN comp = {}
      BY <2>2 DEF Basic, Origin, Untouched
    <3> QED BY <3>1
  <2> QED BY <2>1, <2>2
<1> QED
  BY <1>1, HonestHolds, PTL DEF Spec

\* A step with an effect is recorded as succeeded, and a compensation as requested or
\* succeeded, only when the other side has carried it out.
THEOREM SuccessesAreReal ==
  Spec => [](/\ \A k \in DOMAIN st : Effectful(k) /\ st[k].row = "succeeded"
                                       => st[k].effect = "applied"
             /\ \A k \in DOMAIN comp : comp[k].row \in {"requested", "succeeded"}
                                         => comp[k].effect = "applied")
<1>1. Basic /\ Honest => /\ \A k \in DOMAIN st : Effectful(k) /\ st[k].row = "succeeded"
                                                   => st[k].effect = "applied"
                         /\ \A k \in DOMAIN comp : comp[k].row \in {"requested", "succeeded"}
                                                     => comp[k].effect = "applied"
  BY DEF Honest, Earned, Repaid
<1> QED
  BY <1>1, HonestHolds, PTL

\* A step that needs the owner's approval has an effect only after the owner approved it:
\* not after silence, a denial, a cancellation at its gate or a replay.
THEOREM ApprovalsHold ==
  Spec => [](\A k \in DOMAIN st : Gated(k) /\ st[k].effect # "untouched"
                                    => gate.decision = "approved")
<1>1. Basic /\ Honest => \A k \in DOMAIN st : Gated(k) /\ st[k].effect # "untouched"
                                                => gate.decision = "approved"
  <2> SUFFICES ASSUME Basic, Honest, NEW k \in DOMAIN st, Gated(k), st[k].effect # "untouched"
               PROVE  gate.decision = "approved"
    OBVIOUS
  <2>1. st[k].fenced
    BY SafeNow DEF Fits
  <2> QED BY <2>1 DEF Honest, Earned, Approved
<1> QED
  BY <1>1, HonestHolds, PTL

\* A Saga that status shows as settled has left no Session alive that the Run had finished:
\* a compensation counts only when its Session was seen to have ended.
THEOREM SettledSagasEnd ==
  Spec => [](Saga /\ SagaView = "settled" =>
               \A k \in DOMAIN comp : st[k].row = "succeeded" => ~comp[k].live)
<1>1. Basic /\ Honest => (Saga /\ SagaView = "settled" =>
         \A k \in DOMAIN comp : st[k].row = "succeeded" => ~comp[k].live)
  <2> SUFFICES ASSUME Basic, Honest, SagaView = "settled", NEW k \in DOMAIN comp,
                      st[k].row = "succeeded"
               PROVE  ~comp[k].live
    OBVIOUS
  <2>1. comp[k] \in CompState /\ Repaid(comp[k])
    BY DEF Basic, TypeOK, Honest
  <2>2. /\ SagaTriggered
        /\ CompensationView(k) \notin
              {"requested", "indeterminate", "unconfirmed", "running", "uncleared"}
    BY DEF SagaView
  <2>3. comp[k].row # "none" => comp[k].row = "succeeded" \/ ~comp[k].live
    BY <2>1, <2>2 DEF CompensationView, CompState
  <2>4. comp[k].row # "none"
    BY <2>2 DEF CompensationView
  <2> QED BY <2>1, <2>3, <2>4 DEF Repaid
<1> QED
  BY <1>1, HonestHolds, PTL

\* The compensations of a Saga alone, as operations of OnceEffect.
UndoOps == {o \in Ops : o[1] = "undo"}

Undo == INSTANCE OnceEffect WITH
    Ops <- UndoOps, Revisable <- FALSE,
    ledger <- [o \in UndoOps |-> Ledger[o]], effect <- [o \in UndoOps |-> Effect[o]]

CompensatesOnce == Undo!Spec

\* The native rollback handler and the fallback of a cancellation share one receipt, and what
\* they do through it implements OnceEffect: the Session's cancellation is claimed by one of
\* them, posted once, and its verdict is true and final, whatever crashes and faults.
THEOREM CompensationsOnce == Spec => CompensatesOnce
<1> DEFINE ledgers == [o \in UndoOps |-> Ledger[o]]
           effects == [o \in UndoOps |-> Effect[o]]
<1>1. \A o \in UndoOps : /\ Ledger[o] = IF o[2] \in DOMAIN comp THEN UndoLedger(o[2]) ELSE "new"
                         /\ Effect[o] = IF o[2] \in DOMAIN comp THEN comp[o[2]].effect
                                        ELSE "untouched"
  BY DEF Ledger, Effect, UndoOps
<1>2. \A o \in UndoOps : /\ Ledger[o]' = IF o[2] \in DOMAIN comp' THEN UndoLedger(o[2])' ELSE "new"
                         /\ Effect[o]' = IF o[2] \in DOMAIN comp' THEN comp'[o[2]].effect
                                         ELSE "untouched"
  BY DEF Ledger, Effect, UndoOps
<1>3. Init => Undo!Init
  <2> SUFFICES ASSUME Init PROVE Undo!Init
    OBVIOUS
  <2>1. DOMAIN comp = {}
    BY DEF Init
  <2> QED BY <1>1, <2>1 DEF Undo!Init
<1>4. ASSUME Basic, Honest, Next, NEW o \in UndoOps
      PROVE  \/ Undo!Stays(o) \/ Undo!Claim(o) \/ Undo!Send(o) \/ Undo!Land(o) \/ Undo!Settle(o)
  <2>1. /\ ledgers[o] = Ledger[o] /\ effects[o] = Effect[o]
        /\ ledgers'[o] = Ledger[o]' /\ effects'[o] = Effect[o]'
    BY <1>4
  <2>2. CASE ~Published
    <3>1. DOMAIN comp = {}
      BY <1>4, <2>2 DEF Basic, Origin, Untouched
    <3>2. \A k \in DOMAIN comp' : comp'[k].row = "none" /\ comp'[k].effect = "untouched"
      BY <1>4, <2>2, <3>1, DraftKept DEF Publish
    <3>3. Ledger[o] = "new" /\ Effect[o] = "untouched"
      BY <1>1, <3>1
    <3>4. Ledger[o]' = "new" /\ Effect[o]' = "untouched"
      BY <1>2, <3>2 DEF UndoLedger
    <3> QED BY <2>1, <3>3, <3>4 DEF Undo!Stays
  <2>3. CASE Published
    <3>1. DOMAIN comp' = DOMAIN comp /\ \A k \in DOMAIN comp : Repays(k, comp'[k])
      BY <1>4, <2>3, HonestKept, NextRest DEF Rest
    <3>2. CASE o[2] \notin DOMAIN comp
      BY <1>1, <1>2, <2>1, <3>1, <3>2 DEF Undo!Stays
    <3>3. CASE o[2] \in DOMAIN comp
      <4> DEFINE r == comp[o[2]]
                 q == comp'[o[2]]
      <4>1. /\ Repays(o[2], q) /\ Repaid(r) /\ Repaid(q)
            /\ r \in CompState /\ q \in CompState
        BY <1>4, <2>3, <3>1, <3>3, NextRest DEF Honest, Repays, Basic, TypeOK, Rest
      <4>2. /\ Ledger[o] = UndoLedger(o[2]) /\ Effect[o] = r.effect
            /\ Ledger[o]' = UndoLedger(o[2])' /\ Effect[o]' = q.effect
        BY <1>1, <1>2, <3>1, <3>3
      <4>3. CASE q.row = r.row
        <5>1. UndoLedger(o[2])' = UndoLedger(o[2])
          BY <4>3 DEF UndoLedger
        <5>2. CASE q.effect = r.effect
          BY <2>1, <4>2, <5>1, <5>2 DEF Undo!Stays
        <5>3. CASE r.effect = "untouched" /\ r.row = "running" /\ q.effect \in Effects
          BY <2>1, <4>2, <5>1, <5>3 DEF Undo!Send, UndoLedger, Effects
        <5>4. CASE r.effect = "sent" /\ q.effect \in {"applied", "refused"}
          <6>1. r.row \in {"running", "indeterminate"}
            BY <4>1, <5>4 DEF Repaid, CompState
          <6> QED BY <2>1, <4>2, <5>1, <5>4, <6>1 DEF Undo!Land, UndoLedger
        <5> QED BY <4>1, <5>2, <5>3, <5>4 DEF Repays, Leaving
      <4>4. CASE q.row # r.row
        <5>1. q.effect = r.effect /\ q.row # "none"
          BY <4>1, <4>4 DEF Repays
        <5>2. CASE r.row = "none" /\ q.row = "running"
          BY <2>1, <4>2, <5>1, <5>2 DEF Undo!Claim, UndoLedger
        <5>3. CASE r.row = "requested" /\ q.row = "succeeded"
          BY <2>1, <4>2, <5>1, <5>3 DEF Undo!Stays, UndoLedger
        <5>4. CASE r.row \in {"none", "running"} /\ q.row # "running"
          <6>1. Ledger[o] \in {"new", "claimed"}
            BY <4>2, <5>4 DEF UndoLedger
          <6>2. Ledger[o]' = CASE q.row \in {"requested", "succeeded"} -> "done"
                               [] q.row = "uncleared" -> "none"
                               [] q.row = "indeterminate" -> "unknown"
                               [] q.row = "running" -> "claimed"
                               [] OTHER -> "new"
            BY <4>2 DEF UndoLedger
          <6>3. \/ q.row \in {"requested", "succeeded"} /\ Ledger[o]' = "done"
                                                         /\ r.effect = "applied"
                \/ q.row = "uncleared" /\ Ledger[o]' = "none" /\ r.effect = "refused"
                \/ q.row = "indeterminate" /\ Ledger[o]' = "unknown"
            BY <4>1, <5>1, <5>4, <6>2 DEF Repaid, CompState
          <6> QED BY <2>1, <4>2, <5>1, <6>1, <6>3 DEF Undo!Settle, Undo!Settled, Undo!True
        <5> QED BY <4>1, <4>4, <5>1, <5>2, <5>3, <5>4 DEF Repays, Settled, CompState
      <4> QED BY <4>3, <4>4
    <3> QED BY <3>2, <3>3
  <2> QED BY <2>2, <2>3
<1>5. Basic /\ Honest /\ [Next]_vars => [Undo!Next]_<<ledgers, effects>>
  <2>1. ASSUME Basic, Honest, Next PROVE Undo!Next
    BY <1>4, <2>1 DEF Undo!Next
  <2>2. ASSUME UNCHANGED vars PROVE UNCHANGED <<ledgers, effects>>
    <3>1. comp' = comp
      BY <2>2 DEF vars
    <3>2. \A k : UndoLedger(k)' = UndoLedger(k)
      BY <3>1 DEF UndoLedger
    <3> QED BY <1>1, <1>2, <3>1, <3>2
  <2> QED BY <2>1, <2>2
<1> QED
  BY <1>3, <1>5, HonestHolds, PTL DEF Spec, CompensatesOnce, Undo!Spec
=============================================================================
