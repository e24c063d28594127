---------------------------- MODULE MCSshOperations ---------------------------
(* Small workloads of SshOperations for TLC. *)
EXTENDS SshOperations, TLC

CONSTANTS c1, c2, c3, a, b, d, h1, h2, h3, none

ThreeCalls == {c1, c2, c3}
ThreeOps == {a, b, d}
ThreeHosts == {h1, h2, h3}

Ask(o, k, h) == [op |-> o, kind |-> k, host |-> h, on |-> a, arg |-> 0, valid |-> TRUE]

\* A command, its retry, and a file change on the same host.
Commands == c1 :> Ask(a, "exec", h1) @@ c2 :> Ask(a, "exec", h1) @@ c3 :> Ask(b, "sftp", h1)
\* A file change, the same id with other arguments, and a call that is refused outright.
Conflict == c1 :> Ask(a, "sftp", h1) @@ c2 :> [Ask(a, "sftp", h1) EXCEPT !.arg = 1]
            @@ c3 :> [Ask(d, "read", h2) EXCEPT !.valid = FALSE]
\* Three connections where two are allowed.
Crowd == c1 :> Ask(a, "exec", h1) @@ c2 :> Ask(b, "read", h2) @@ c3 :> Ask(d, "read", h3)
\* A command that needs the lease a shell holds until it is stopped.
ShellHolds == c1 :> Ask(a, "start", h1) @@ c2 :> Ask(b, "exec", h1) @@ c3 :> Ask(d, "stop", h1)
\* A shell, an input and its retry.
Inputs == c1 :> Ask(a, "start", h1) @@ c2 :> Ask(b, "input", h1) @@ c3 :> Ask(b, "input", h1)
\* A shell, an input and a stop.
Stopping == c1 :> Ask(a, "start", h1) @@ c2 :> Ask(b, "input", h1) @@ c3 :> Ask(d, "stop", h1)
\* A stop and its retry.
StopTwice == c1 :> Ask(a, "start", h1) @@ c2 :> Ask(d, "stop", h1) @@ c3 :> Ask(d, "stop", h1)
\* A command, its retry, and a query of its receipt.
Asking == c1 :> Ask(a, "exec", h1) @@ c2 :> Ask(a, "exec", h1) @@ c3 :> Ask(a, "status", h1)
\* A file change and a query of its receipt.
Following == c1 :> Ask(a, "sftp", h1) @@ c2 :> Ask(a, "status", h1) @@ c3 :> Ask(a, "status", h1)
\* A shell, its stop, and a query of its state.
Viewing == c1 :> Ask(a, "start", h1) @@ c2 :> Ask(d, "stop", h1) @@ c3 :> Ask(b, "view", h1)
TenWorkloads == {Commands, Conflict, Crowd, ShellHolds, Inputs, Stopping, StopTwice,
                 Asking, Following, Viewing}
===============================================================================
