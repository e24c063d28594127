----------------------------- MODULE MCRunSteps -----------------------------
(* Drafts for TLC: a family that is only published, and one Run of each kind. *)
EXTENDS RunSteps

a == <<"a">>
b == <<"b">>
c == <<"c">>
d == <<"d">>

Plain(id, uses) ==
    [id |-> id, flow |-> "step", uses |-> uses, count |-> 1, needs |-> {}, joins |-> FALSE,
     approval |-> FALSE, undo |-> FALSE, guarded |-> FALSE, reads |-> {}, cites |-> {},
     kids |-> <<>>, data |-> <<>> :> "object" @@ <<"n">> :> "number" @@ <<"x">> :> "expr"]
After(needs, s) == [s EXCEPT !.needs = needs]
If(s) == [s EXCEPT !.guarded = TRUE]
Session(id) == [Plain(id, "github.session") EXCEPT !.undo = TRUE]
Flow(id, flow, n) == [Plain(id, "result.emit") EXCEPT !.flow = flow, !.count = n]
Stage(id, uses) == [id |-> id, uses |-> uses, guarded |-> FALSE, reads |-> {}]
Each_(id, flow, n, kids) == [Flow(id, flow, n) EXCEPT !.kids = kids]
Emit(id) == Plain(id, "result.emit")

SagaOf(on, steps) == [saga |-> on, triggers |-> <<>>, inputs |-> {}, steps |-> steps]
Draft(steps) == SagaOf({}, steps)
Ref(root, id, part, path, compared) ==
    [root |-> root, id |-> id, part |-> part, path |-> path, compared |-> compared]

Only(def) == [def |-> def, grants |-> Required(def), hub |-> "as reviewed", starts |-> FALSE,
              crashes |-> 0, faults |-> 0, does |-> {}]
Go(def, crashes, faults, does) ==
    [def |-> def, grants |-> Required(def), hub |-> "as reviewed", starts |-> TRUE,
     crashes |-> crashes, faults |-> faults, does |-> does]

-----------------------------------------------------------------------------
\* Every graph of needs over three steps: cycles, loose ends, layers of every width.
Graphs3 == {Draft(<<After(x, Emit(a)), After(y, Emit(b)), After(z, Emit(c))>>) :
               x, y, z \in SUBSET {a, b, c}}

\* Ids an author may write next to the ids the compiler generates.
Written == {a, b, <<"a", "0">>, <<"a", "0", "b">>, <<"a", "1", "b">>, <<"a", "2", "b">>}
Shadows ==
    {Draft(<<Each_(a, "foreach", n, <<Stage(b, "mcp.read")>>), After({a}, Emit(w))>>) :
        n \in 0 .. 3, w \in Written}
    \cup {Draft(<<Flow(a, "repeat", n), After(x, Emit(w))>>) :
              n \in 0 .. 3, w \in Written, x \in {{}, {a}, {<<"a", "1">>}}}
    \cup {Draft(<<Each_(a, "foreach", 1, <<Stage(<<"b", "0", "c">>, "result.emit")>>),
                  After({a}, Each_(<<"a", "0", "b">>, "foreach", n, <<Stage(c, use)>>))>>) :
              n \in 1 .. 2, use \in {"result.emit", "github.task", "github.session"}}

\* One step of every kind, with every extra, alone or after an emit, in and out of a Saga.
Kinds ==
    {[Plain(b, use) EXCEPT !.flow = flow, !.approval = app, !.undo = undo, !.guarded = g,
                           !.joins = j] :
        use \in StepUses \cup {"github.run"}, flow \in {"step", "repeat"}, app, undo, g, j \in BOOLEAN}
    \cup {Each_(b, flow, n, <<Stage(c, use)>>) :
             flow \in {"while", "until", "foreach"}, n \in {2, 3},
             use \in {"mcp.read", "mcp.write", "github.run"}}
    \cup {Flow(b, flow, n) : flow \in {"wait", "wait_event", "child"}, n \in {1, 3}}
Headers == {[saga |-> on, triggers |-> ts, inputs |-> in] :
               on \in {{}, {"failure"}}, ts \in {<<>>, <<"cron">>, <<"github_event">>},
               in \in {{}, {"github"}}}
Under(h, steps) == [Draft(steps) EXCEPT !.saga = h.saga, !.triggers = h.triggers,
                                       !.inputs = h.inputs]
Mixed == UNION {{Under(h, <<Emit(a), After({a}, k)>>), Under(h, <<k>>)} :
                   k \in Kinds, h \in {h \in Headers : h.saga = {} \/ h.inputs = {}}}

\* Every reference, by a step or by a stage, to what an emit, a Provider or a foreach gives.
Refs == {Ref(root, id, part, path, cmp) :
            root \in {"inputs", "item", "steps"}, id \in {a, d}, part \in {"status", "output", "x"},
            path \in {<<>>, <<"n">>, <<"n", "x">>, <<"x", "n">>, <<"status">>, <<"z">>},
            cmp \in BOOLEAN}
Referring ==
    UNION {{Draft(<<s, After({a}, [Emit(b) EXCEPT !.reads = {r}])>>),
            Draft(<<s, After({a}, Each_(b, "foreach", 1,
                                    <<[Stage(c, "mcp.read") EXCEPT !.reads = {r}]>>))>>)} :
              s \in {Emit(a), Plain(a, "dub"), Each_(a, "foreach", 1, <<Stage(c, "mcp.read")>>)},
              r \in Refs}

Published == {Only(x) : x \in Graphs3 \cup Shadows \cup Mixed \cup Referring}
    \cup {[Only(Draft(<<Plain(a, "mcp.write")>>)) EXCEPT !.grants = g] :
              g \in {{}, {"mcp.read"}, {"mcp.read", "mcp.write"}}}
    \cup {[Only(Draft(<<Plain(a, use)>>)) EXCEPT !.hub = h] :
              use \in {"github.task", "dub"}, h \in {"changed", "unavailable"}}

-----------------------------------------------------------------------------
Branches == Draft(<<Emit(a), After({a}, If(Emit(b))), After({a}, If(Emit(c))),
                    [After({b, c}, Plain(d, "mcp.write")) EXCEPT !.joins = TRUE]>>)
Requests == Draft(<<Plain(a, "http.post"), After({a}, Plain(b, "http.get"))>>)
Shorten == Draft(<<Emit(a), After({a}, If(Plain(b, "dub")))>>)
Seals == Draft(<<Plain(a, "envshare")>>)
Notify == Draft(<<Plain(a, "github.session"),
                  [After({a}, Plain(b, "bark")) EXCEPT !.cites = {a}]>>)
Downloads == Draft(<<Each_(a, "foreach", 1, <<Stage(c, "github.task")>>),
                     [After({a}, Plain(b, "bark")) EXCEPT !.cites = {a}]>>)
Asks == Draft(<<[Plain(a, "github.task") EXCEPT !.approval = TRUE], After({a}, Emit(b))>>)
PerItem == Draft(<<Each_(a, "foreach", 1,
                 <<[Stage(b, "result.emit") EXCEPT !.guarded = TRUE],
                   Stage(c, "github.task"), Stage(d, "mcp.read")>>)>>)
Reads == Draft(<<Each_(a, "foreach", 2, <<Stage(b, "mcp.read")>>)>>)
Polls == Draft(<<Each_(a, "while", 2, <<Stage(b, "mcp.read")>>),
                 After({a}, Each_(c, "until", 1, <<Stage(b, "result.emit")>>))>>)
Listens == SagaOf({"failure", "cancel"}, <<Session(a), After({a}, Flow(b, "wait_event", 1))>>)
Hears == Draft(<<Flow(a, "wait_event", 1), After({a}, Plain(b, "mcp.read"))>>)
Undoes == SagaOf({"failure"}, <<Session(a), After({a}, Session(b)), After({b}, Emit(c))>>)
Opens == SagaOf({"failure"}, <<Session(a), After({a}, Emit(b))>>)
File == Draft(<<Plain(a, "litterbox")>>)
Wide == Draft(<<Emit(a), Emit(b), Emit(c)>>)
Calls == Draft(<<Flow(a, "child", 1), After({a}, Emit(b))>>)
Sleeps == Draft(<<Flow(b, "wait", 1), After({b}, Flow(c, "repeat", 2))>>)

StartedWorkloads ==
    {Go(Branches, 1, 0, {"revoke"}), Go(Requests, 1, 1, {"revoke"}),
     Go(Shorten, 1, 1, {"cancel", "revoke"}), Go(Notify, 0, 1, {"cancel"}), Go(Notify, 1, 1, {}),
     Go(Seals, 1, 1, {"cancel"}), Go(Downloads, 1, 1, {"cancel"}),
     Go(Asks, 1, 1, {"approve", "cancel"}), Go(Asks, 0, 0, {"approve", "cancel", "lag"}),
     Go(PerItem, 1, 1, {"revoke"}),
     Go(PerItem, 0, 1, {"drift", "revoke"}),
     Go(Reads, 1, 0, {"revoke"}), Go(Reads, 0, 1, {"drift"}), Go(Polls, 1, 1, {}),
     Go(Listens, 0, 1, {"cancel"}), Go(Listens, 1, 1, {"cancel"}),
     Go(Hears, 0, 1, {"events", "cancel"}), Go(Hears, 1, 0, {"events", "cancel"}),
     Go(Undoes, 0, 1, {}), Go(Opens, 1, 1, {}), Go(File, 1, 0, {"upload", "cancel", "revoke"}),
     Go(File, 0, 0, {}), Go(Wide, 0, 0, {}), Go(Calls, 0, 0, {}), Go(Sleeps, 1, 0, {})}

AllWorkloads == Published \cup StartedWorkloads
Drifting == {Go(Draft(<<Plain(a, "mcp.write")>>), 1, 0, {"drift"})}
=============================================================================
