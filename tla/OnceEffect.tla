------------------------------ MODULE OnceEffect ------------------------------
(***************************************************************************)
(* What the effectful paths of this repository promise their callers: an   *)
(* operation is claimed in a durable ledger before anything leaves the     *)
(* worker, leaves it at most once, and is settled with a verdict that is   *)
(* true of the outside world and stays so, or with "unknown", after which  *)
(* it is never sent.  The SSH receipts, the browser intents and the        *)
(* effect steps of a workflow Run are each shown to implement this         *)
(* specification.                                                          *)
(***************************************************************************)
EXTENDS Naturals

CONSTANTS
    Ops,
    Revisable   \* may a late answer turn "unknown" into a verdict?

VARIABLES
    ledger,  \* the operation's durable record
    effect   \* what the outside world saw of it

Settled == {"done", "none", "unknown"}

Init == /\ ledger = [o \in Ops |-> "new"]
        /\ effect = [o \in Ops |-> "untouched"]

\* The moves of one operation; a step of a system may move several operations.
Stays(o) == ledger'[o] = ledger[o] /\ effect'[o] = effect[o]

Claim(o) == ledger[o] = "new" /\ ledger'[o] = "claimed" /\ effect'[o] = effect[o]

\* The call that leaves the worker; the other side may act on it at once or later.
Send(o) == /\ ledger[o] = "claimed" /\ ledger'[o] = "claimed"
           /\ effect[o] = "untouched" /\ effect'[o] \in {"sent", "applied", "refused"}

\* What was sent lands while nobody has given a verdict on it.
Land(o) == /\ effect[o] = "sent" /\ effect'[o] \in {"applied", "refused"}
           /\ ledger[o] \in {"claimed", "unknown"} /\ ledger'[o] = ledger[o]

\* "done" is said only of what was carried out, "none" only of what never will be.
True(o, verdict) == /\ verdict = "done" => effect[o] = "applied"
                    /\ verdict = "none" => effect[o] \in {"untouched", "refused"}

\* A claim that is settled in the commit that makes it is never sent.
Settle(o) == /\ ledger[o] \in {"new", "claimed"} /\ ledger'[o] \in Settled
             /\ effect'[o] = effect[o] /\ True(o, ledger'[o])

Revise(o) == /\ Revisable /\ ledger[o] = "unknown" /\ ledger'[o] \in {"done", "none"}
             /\ effect'[o] = effect[o] /\ True(o, ledger'[o])

\* Known outcomes may be pruned; an unknown one is kept.
Forget(o) == /\ ledger[o] \in {"done", "none"} /\ ledger'[o] = "forgotten"
             /\ effect'[o] = effect[o]

Next == \A o \in Ops : \/ Stays(o) \/ Claim(o) \/ Send(o) \/ Land(o)
                       \/ Settle(o) \/ Revise(o) \/ Forget(o)

Spec == Init /\ [][Next]_<<ledger, effect>>
===============================================================================
