--------------------------- MODULE MCBrowserIntents ---------------------------
(* Small instances of BrowserIntents for TLC. *)
EXTENDS BrowserIntents, TLC

CONSTANTS a1, a2, i1, i2, r1, r2, o1, c1

TwoIntents == {i1, i2}
TwoReads == {r1, r2}
TwoAttempts == {a1, a2}
OneOwnerStop == {o1}
OneLocalStop == {c1}

\* Two intents over two connections.
Intending == [takes |-> {a1, i1, i2, "drop"}, faults |-> 0, restarts |-> 1, temporary |-> FALSE]
\* Intents and the age of keys and receipts.
Ageing == [takes |-> {a1, i1, i2, "age"}, faults |-> 0, restarts |-> 1, temporary |-> FALSE]
\* An intent that the extension's own Stop overtakes.
Halting == [takes |-> {a1, i1, c1, "local stop", "drop"}, faults |-> 0, restarts |-> 0, temporary |-> FALSE]
\* An intent that the owner's Stop overtakes, before another activation.
Resuming == [takes |-> {a1, a2, i1, o1}, faults |-> 0, restarts |-> 0, temporary |-> FALSE]
\* An intent that a Revoke of either side overtakes, beside a Stop.
Retiring == [takes |-> {a1, i1, o1, "revoke"}, faults |-> 0, restarts |-> 0, temporary |-> FALSE]
\* Activations that a Revoke of either side overtakes.
Renewing == [takes |-> {a1, a2, "revoke"}, faults |-> 0, restarts |-> 0, temporary |-> FALSE]
\* Activation, the extension's Stop, a second activation and a restart.
Activating == [takes |-> {a1, a2, c1, "local stop"}, faults |-> 0, restarts |-> 1, temporary |-> FALSE]
\* The owner stops it too, and an answer is lost or an alarm fails.
Losing == [takes |-> {a1, o1, c1, "local stop"}, faults |-> 1, restarts |-> 0, temporary |-> FALSE]
\* Alarms that cannot be set, and deadlines that pass.
Failing == [takes |-> {a1, i1, o1, "expire"}, faults |-> 1, restarts |-> 0, temporary |-> FALSE]
\* A pairing that ends with its lease.
Leased == [takes |-> {a1, a2, i1, o1, "expire"}, faults |-> 0, restarts |-> 0, temporary |-> TRUE]
\* The owner stops and revokes at the same time.
Revoking == [takes |-> {a1, o1, "revoke"}, faults |-> 0, restarts |-> 0, temporary |-> FALSE]
\* Observations, of which the first may be late, beside an intent.
Observing == [takes |-> {a1, i1, r1, r2}, faults |-> 0, restarts |-> 0, temporary |-> FALSE]
\* An observation that the user's Stop or a restart overtakes, or another page or tab.
Browsing == [takes |-> {a1, r1, "local stop", "page"}, faults |-> 0, restarts |-> 1, temporary |-> FALSE]
TwelveWorkloads == {Intending, Ageing, Halting, Resuming, Retiring, Renewing, Activating, Losing,
                    Failing, Leased, Observing, Browsing}
OnlyRevoking == {Revoking}
===============================================================================
