------------------------------ MODULE MCChildRun ------------------------------
(* Small instances of ChildRun for TLC. *)
EXTENDS ChildRun, TLC

CONSTANTS a1, a2, x1, x2, none

BothModes == {"awaited", "detached"}
Awaited == {"awaited"}
OneAttempt == {a1}
TwoAttempts == {a1, a2}
OneCanceller == {x1}
Nobody == {}

AnyFault == {"step", "isolate", "lookup", "lost", "replay"}
StepTimeout == {"step"}

\* Bound of the safety run: two of the three processes in flight at a time, none while
\* another Run holds a unit.
InFlight == Cardinality({p \in Procs : ~At(p, "idle")})
TwoInFlight == InFlight <= 2 /\ (other > 0 => InFlight = 0)

ProcSymmetry == Permutations({a1, a2}) \cup Permutations({x1, x2})
===============================================================================
