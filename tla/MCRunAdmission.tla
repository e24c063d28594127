--------------------------- MODULE MCRunAdmission ---------------------------
(* Small instances of RunAdmission for TLC. *)
EXTENDS RunAdmission, TLC

CONSTANTS r1, r2, r3, c1, c2, w1, k1, none

OneWorkflow == {w1}
OneKey == {k1}
KeyedOrNot == {none, k1}
OwnerOnly == {"owner"}
EveryOrigin == {"owner", "cron", "webhook", "github_event"}
OneRun == {r1}
ThreeRuns == {r1, r2, r3}
OneCaller == {c1}
TwoCallers == {c1, c2}
First == {1}
Second == {2}
Nothing == {}
LegacyRun == {r3}

\* Bound of the safety run: the admissions of a behaviour all carry the key, or none does.
\* Those without pin no version, compete with each other alone (the legacy Run is over and
\* nobody pauses the workflow), and no request is served beside one that asks for a status.
\* Of two requests at most one is a status (a start that settles the same rows races it), and
\* the instance of the legacy Run has ended when another Run is admitted; its row may still
\* be active.
Admitting(k) == \E c \in Callers : caller[c].back = "capacity" /\ caller[c].key = k
Admits(k) == Admitting(k) \/ \E r \in Runs \ Legacy : Exists(r) /\ runs[r].key = k
OneKind ==
    /\ ~(Admits(none) /\ Admits(k1))
    /\ \E c \in Callers : caller[c].back # "status"
    /\ (\E r \in Runs \ Legacy : Exists(r)) => \A r \in Legacy : native[r] # "live"
    /\ Admits(none) =>
          /\ \A w \in Workflows : wf[w].state = "active"
          /\ \A r \in Legacy : ~Active(r) /\ runs[r].start = "started"
          /\ \A c, d \in Callers : /\ caller[c].exp = NoVersion
                                   /\ caller[c].back = "status" /\ d # c => caller[d].pc = "idle"

CallerSymmetry == Permutations({c1, c2})
=============================================================================
