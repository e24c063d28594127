---------------------------- MODULE MCRemoteControl ---------------------------
(* Small workloads of RemoteControl for TLC. *)
EXTENDS RemoteControl, TLC

CONSTANTS d1, d2, l1, l2, r1, r2, i1, i2, k1, k2, a1, none

TwoDevices == {d1, d2}
TwoLogins == {l1, l2}
TwoRequests == {r1, r2}
TwoIntents == {i1, i2}

Nobody == [kind |-> "unused", key |-> none, attempt |-> none]
Personal(k) == [kind |-> "permanent", key |-> k, attempt |-> none]
Guest(k) == [kind |-> "temporary", key |-> k, attempt |-> none]
Job(k) == [kind |-> "session", key |-> k, attempt |-> a1]
NoIntents == [i \in TwoIntents |-> [dev |-> none, resume |-> FALSE]]
NoLogins == [l \in TwoLogins |-> none]
Call(d, t) == [dev |-> d, tool |-> t, fits |-> TRUE]
Nothing == [dev |-> none, tool |-> none, fits |-> FALSE]
Silence == [r \in TwoRequests |-> Nothing]

\* Two logins and two commands of one personal device that is revoked.
Reconnect == [enrol |-> d1 :> Personal(k1) @@ d2 :> Nobody,
              login |-> [l \in TwoLogins |-> d1], recover |-> {}, inform |-> {}, legacy |-> {}, rename |-> {},
              ask |-> r1 :> Call(d1, "run_command") @@ r2 :> Call(d1, "get_operation_status"),
              revoke |-> {d1}, intent |-> NoIntents]
\* The device is stopped and resumed from its own console.
StopResume == [enrol |-> d1 :> Personal(k1) @@ d2 :> Nobody,
               login |-> [l \in TwoLogins |-> d1], recover |-> {}, inform |-> {}, legacy |-> {}, rename |-> {},
               ask |-> r1 :> Call(d1, "write_file") @@ r2 :> Nothing,
               revoke |-> {}, intent |-> i1 :> [dev |-> d1, resume |-> FALSE]
                                      @@ i2 :> [dev |-> d1, resume |-> TRUE]]
\* A Session device that is revoked, and its job that enrols again with another key.
Session == [enrol |-> d1 :> Job(k1) @@ d2 :> Job(k2),
            login |-> l1 :> d1 @@ l2 :> d1, recover |-> {}, inform |-> {}, legacy |-> {}, rename |-> {},
            ask |-> r1 :> Call(d1, "run_command") @@ r2 :> Nothing,
            revoke |-> {d1}, intent |-> NoIntents]
\* One key on two ways in, and a temporary grant in the only place.
SameKey == [enrol |-> d1 :> Personal(k1) @@ d2 :> Job(k1), login |-> NoLogins,
            recover |-> {}, inform |-> {}, legacy |-> {}, rename |-> {d1},
            ask |-> Silence, revoke |-> {d1}, intent |-> NoIntents]
Crowded == [enrol |-> d1 :> Guest(k1) @@ d2 :> Guest(k1), login |-> l1 :> d1 @@ l2 :> none,
            recover |-> {}, inform |-> {l1}, legacy |-> {}, rename |-> {},
            ask |-> r1 :> Call(d1, "read_file") @@ r2 :> Call(none, "read_file"),
            revoke |-> {}, intent |-> NoIntents]
\* A grant from before the deadlines, one login that only recovers its id, and a stop.
Old == [enrol |-> d1 :> Personal(k1) @@ d2 :> Nobody, login |-> [l \in TwoLogins |-> d1],
        recover |-> {l2}, inform |-> {l1}, legacy |-> {d1}, rename |-> {},
        ask |-> r1 :> [Call(d1, "write_file") EXCEPT !.fits = FALSE] @@ r2 :> Nothing,
        revoke |-> {}, intent |-> i1 :> [dev |-> d1, resume |-> FALSE]
                               @@ i2 :> [dev |-> none, resume |-> FALSE]]
SixWorkloads == {Reconnect, StopResume, Session, SameKey, Crowded, Old}
===============================================================================
