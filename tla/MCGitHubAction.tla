---------------------------- MODULE MCGitHubAction ----------------------------
(* Small instances of GitHubAction for TLC. *)
EXTENDS GitHubAction, TLC

CONSTANTS s1, s2, d1, d2, r1, r2, self

OneStep == {s1}
TwoSteps == {s1, s2}
OneSlot == {1}
OneDispatcher == {d1}
TwoDispatchers == {d1, d2}
OneRequest == {r1}
TwoRequests == {r1, r2}

SessionOrTask == {"session", "task"}
OnlySessions == {"session"}
Everything == {"status", "watch", "cancel", "force", "saga", "ready", "admit", "gated"}
Polling == {"status", "gated"}

WithAmbiguous == {"success", "cancelled", "ambiguous"}
Definite == {"success", "failure"}

AnyFault == {"step", "replay", "isolate", "api", "plan"}
NoFault == {}

\* Bound of the safety run: two executions, requests or claims in flight at a time.
TwoInFlight == \A s \in Steps :
    Cardinality({p \in Procs : ~At(s, p, "idle")}) + (IF job[s].claim = "none" THEN 0 ELSE 1) <= 2

Symmetry == Permutations({r1, r2}) \cup Permutations({d1, d2})
===============================================================================
