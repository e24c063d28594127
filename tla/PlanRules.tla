------------------------------ MODULE PlanRules ------------------------------
(***************************************************************************)
(* The rules by which a draft becomes an executable Plan (plan.ts,         *)
(* compilePlan) and the grants its publication needs (store.ts, publish).  *)
(*                                                                         *)
(* A step id is a sequence of tokens: the code joins the parts of a        *)
(* generated id with "_", so "a_0_b" written by an author and the child b  *)
(* of item 0 of the step a are the same sequence here.  Digests and the    *)
(* fields of a call are data: of an expression only its references are     *)
(* kept (reads), of what a result.emit emits the type at every path (data, *)
(* "expr" where an expression stands).                                     *)
(***************************************************************************)
EXTENDS Naturals, Sequences, FiniteSets, FiniteSetsExt, TLC

CONSTANTS
    MaxSteps,     \* PLAN_LIMITS.maxSteps
    MaxParallel,  \* PLAN_LIMITS.maxParallel
    MaxRepeat,    \* PLAN_LIMITS.maxRepeat and maxForeachItems
    MaxStages,    \* PLAN_LIMITS.maxForeachTemplateSteps
    MaxWait       \* PLAN_LIMITS.maxWaitSeconds

Digit == <<"0", "1", "2", "3", "4", "5", "6", "7">>

\* What an author may write in an id, digits included; a generated id has one digit.
Token == STRING \ {":loop:read:"}

ASSUME LimitsAssumption ==
    /\ {MaxSteps, MaxParallel, MaxRepeat, MaxStages, MaxWait} \subseteq Nat \ {0}
    /\ MaxRepeat <= 8 /\ \A n \in 1 .. 8 : Digit[n] \in Token

Mcp == {"mcp.read", "mcp.write"}
Http == {"http.get", "http.post"}
GitHub == {"github.task", "github.session"}
Providers == {"dub", "envshare", "litterbox", "bark"}
StepUses == {"result.emit"} \cup Mcp \cup Http \cup GitHub \cup Providers

-----------------------------------------------------------------------------
(* Expansion: a repeat becomes ordinary steps, each needing the one before. *)

Loops(s) == s.flow \in {"while", "until"}

Times(s) == IF s.flow = "repeat" THEN s.count ELSE 1

Units(d) == UNION {{<<i, n>> : n \in 1 .. Times(d.steps[i])} : i \in DOMAIN d.steps}

Source(d, u) == d.steps[u[1]]

UnitId(d, u) == IF Source(d, u).flow = "repeat" THEN Append(Source(d, u).id, Digit[u[2]])
                ELSE Source(d, u).id

UnitNeeds(d, u) ==
    Source(d, u).needs \cup
        IF u[2] > 1 THEN {Append(Source(d, u).id, Digit[u[2] - 1])} ELSE {}

\* The children a foreach may create, one per item and stage, and the read of each
\* round of a loop; the loop's own ids contain ":" and cannot be written by an author.
Kids(s) == IF s.flow = "foreach" \/ (Loops(s) /\ s.kids[1].uses = "mcp.read")
           THEN (1 .. s.count) \X DOMAIN s.kids ELSE {}

KidId(s, kid) == IF s.flow = "foreach"
                 THEN Append(s.id, Digit[kid[1]]) \o s.kids[kid[2]].id
                 ELSE s.id \o <<":loop:read:", Digit[kid[1]]>>

Ids(d) == {UnitId(d, u) : u \in Units(d)}
Unit(d, k) == CHOOSE u \in Units(d) : UnitId(d, u) = k
Step(d, k) == Source(d, Unit(d, k))
Needs(d, k) == UnitNeeds(d, Unit(d, k))
KidIds(d) == UNION {{KidId(d.steps[i], kid) : kid \in Kids(d.steps[i])} : i \in DOMAIN d.steps}

\* The rows of a Run are keyed by step id, its children's included.
Keys(d) == Ids(d) \cup KidIds(d)

\* What the parser has settled before any rule is looked at.
Parsed(d) ==
    /\ DOMAIN d.steps = 1 .. Len(d.steps) /\ Len(d.steps) \in Nat
    /\ \A i \in DOMAIN d.steps : LET s == d.steps[i] IN
          /\ s.id \in Seq(Token) /\ s.count \in Nat
          /\ {s.joins, s.approval, s.undo, s.guarded} \subseteq BOOLEAN
          /\ DOMAIN s.kids = 1 .. Len(s.kids) /\ Len(s.kids) \in Nat
          /\ \A j \in DOMAIN s.kids : s.kids[j].id \in Seq(Token) /\ s.kids[j].guarded \in BOOLEAN

-----------------------------------------------------------------------------
(* What each step may be.                                                   *)

NoExtras(s) == ~s.joins /\ ~s.approval /\ ~s.undo /\ s.cites = {}

StepShape(s) == s.flow = "step" /\ s.uses \in StepUses /\ (s.joins => s.needs # {})

WaitShape(s) == s.flow = "wait" /\ NoExtras(s) /\ ~s.guarded /\ s.count \in 1 .. MaxWait

EventShape(s) == s.flow = "wait_event" /\ NoExtras(s) /\ ~s.guarded

ChildShape(s) == s.flow = "child" /\ NoExtras(s) /\ ~s.guarded

LoopShape(s) == /\ Loops(s) /\ NoExtras(s) /\ ~s.guarded
                /\ s.count \in 1 .. MaxRepeat
                /\ Len(s.kids) = 1
                /\ s.kids[1].uses \in {"result.emit", "mcp.read"} /\ ~s.kids[1].guarded

StageUses == {"result.emit", "mcp.read", "github.task"}

OneStage(s) == Len(s.kids) = 1 /\ s.kids[1].uses \in StageUses

\* Several stages per item: at most one Task among them, ids of their own.
ManyStages(s) ==
    /\ Len(s.kids) \in 2 .. MaxStages
    /\ \A j \in DOMAIN s.kids : s.kids[j].uses \in StageUses /\ s.kids[j].id \notin s.needs
    /\ Cardinality({j \in DOMAIN s.kids : s.kids[j].uses = "github.task"}) <= 1
    /\ Cardinality({s.kids[j].id : j \in DOMAIN s.kids}) = Len(s.kids)

ForeachShape(s) ==
    /\ s.flow = "foreach" /\ NoExtras(s) /\ ~s.guarded
    /\ s.count \in 1 .. MaxRepeat
    /\ OneStage(s) \/ ManyStages(s)

RepeatShape(s) == /\ s.flow = "repeat" /\ NoExtras(s)
                  /\ s.count \in 1 .. MaxRepeat
                  /\ s.uses \in StepUses \ (Http \cup Providers)

Shape(s) == \/ StepShape(s) \/ WaitShape(s) \/ EventShape(s) \/ ChildShape(s)
            \/ LoopShape(s) \/ ForeachShape(s) \/ RepeatShape(s)

-----------------------------------------------------------------------------
(* What the steps of one plan may be together.                              *)

With(d, Test(_)) == {u \in Units(d) : Test(Source(d, u))}
AtMostOne(S) == Cardinality(S) <= 1

\* The budget counts every child a foreach or loop could ever create.
Reserved(d) == UNION {{i} \X (1 .. d.steps[i].count) \X DOMAIN d.steps[i].kids :
    i \in {j \in DOMAIN d.steps : d.steps[j].flow = "foreach" \/ Loops(d.steps[j])}}

WithinBudget(d) == Cardinality(Units(d)) + Cardinality(Reserved(d)) <= MaxSteps

\* One id, one row: no two steps, no two children, and no child that shadows a step.
Foreaches(d) == {i \in DOMAIN d.steps : d.steps[i].flow = "foreach"}
DistinctIds(d) ==
    /\ Cardinality(Ids(d)) = Cardinality(Units(d))
    /\ \A i, j \in Foreaches(d) : \A p \in Kids(d.steps[i]), q \in Kids(d.steps[j]) :
          KidId(d.steps[i], p) = KidId(d.steps[j], q) => <<i, p>> = <<j, q>>
    /\ KidIds(d) \cap Ids(d) = {}

OneOfEach(d) ==
    /\ AtMostOne(With(d, LAMBDA s : s.approval))
    /\ AtMostOne(With(d, LAMBDA s : s.flow = "wait_event"))
    /\ AtMostOne(With(d, LAMBDA s : s.flow = "child"))
    /\ AtMostOne(With(d, LAMBDA s : s.flow \in {"step", "repeat"} /\ s.uses \in Providers))
    /\ AtMostOne(With(d, LAMBDA s : s.flow \in {"step", "repeat"} /\ s.uses = "mcp.write"))

WaitBudget(d) == MapThenSumSet(
    LAMBDA i : IF d.steps[i].flow = "wait" THEN d.steps[i].count ELSE 0,
    DOMAIN d.steps) <= MaxWait

\* Only a GitHub step may ask the owner before it is dispatched.
ApprovalFits(d) == \A i \in DOMAIN d.steps :
    d.steps[i].approval => d.steps[i].uses \in GitHub

ClosedNeeds(d) == \A u \in Units(d) : UnitNeeds(d, u) \subseteq Ids(d) \ {UnitId(d, u)}

\* A reference [root, id, part, path, compared]: to an input, to the item of a foreach or
\* loop, or to the status or output of a step that is needed; compared under gt or lt.
RefFits(r, needs, perItem) ==
    \/ r.root = "inputs"
    \/ r.root = "item" /\ perItem
    \/ r.root = "steps" /\ r.id \in needs /\ r.part \in {"status", "output"}

\* An expression refers only to steps that are needed, in a stage to earlier stages too.
DeclaredReads(d) == \A u \in Units(d) : LET s == Source(d, u) IN
    /\ \A r \in s.reads : RefFits(r, UnitNeeds(d, u), FALSE)
    /\ \A j \in DOMAIN s.kids : \A r \in s.kids[j].reads :
          RefFits(r, s.needs \cup {s.kids[i].id : i \in 1 .. j - 1}, TRUE)

\* The closed output schema of each Provider's manifest: the type at every path.
ProviderOutput(use) ==
    LET extra == [dub |-> "short_link", envshare |-> "share_id", litterbox |-> "download_url"]
        status == <<>> :> "object" @@ <<"status">> :> "string"
    IN  IF use = "bark" THEN status ELSE status @@ <<extra[use]>> :> "string"

Prefixes(path) == {SubSeq(path, 1, n) : n \in 0 .. Len(path)}

\* What is known of a literal: nothing below an expression, and a path it lacks is missing.
LiteralAt(data, path) ==
    IF \E q \in Prefixes(path) \cap DOMAIN data : data[q] = "expr" THEN "unknown"
    ELSE IF path \in DOMAIN data THEN data[path] ELSE "missing"

\* What is known of a declared output: only a closed object says that a field is missing.
DeclaredAt(schema, path) ==
    LET deepest == CHOOSE q \in Prefixes(path) \cap DOMAIN schema :
                       \A p \in Prefixes(path) \cap DOMAIN schema : Len(p) <= Len(q)
    IN  IF path \in DOMAIN schema THEN schema[path]
        ELSE IF schema[deepest] = "object" THEN "missing" ELSE "unknown"

KnownOutput(d, r) ==
    LET s == Step(d, r.id)
    IN  IF s.flow \notin {"step", "repeat"} THEN "unknown"
        ELSE IF s.uses = "result.emit" THEN LiteralAt(s.data, r.path)
        ELSE IF s.uses \in Providers THEN DeclaredAt(ProviderOutput(s.uses), r.path)
        ELSE "unknown"

\* No reference to an output that is known not to be there, or not to be a number where
\* numbers are compared.  A foreach, a loop and a wait are not looked into.
StaticReads(d) == \A u \in Units(d) : \A r \in Source(d, u).reads :
    (Source(d, u).flow \in {"step", "repeat", "child"} /\ r.root = "steps" /\ r.part = "output") =>
        LET known == KnownOutput(d, r)
        IN  known # "missing" /\ (r.compared => known \in {"unknown", "number"})

\* A Bark notification may cite a Session, or a Task run once for one item, that it needs.
TrustedCitations(d) == \A i \in DOMAIN d.steps : \A k \in d.steps[i].cites :
    /\ d.steps[i].uses = "bark" /\ k \in d.steps[i].needs
    /\ LET s == Step(d, k)
       IN  \/ s.flow \in {"step", "repeat"} /\ s.uses = "github.session"
           \/ /\ s.flow = "foreach" /\ s.count = 1
              /\ Len(s.kids) = 1 /\ s.kids[1].uses = "github.task"

\* Everything a Saga does outside can be undone, and something in it can.
SagaFits(d) ==
    /\ \A u \in Units(d) : LET s == Source(d, u) IN
          /\ s.undo => d.saga # {} /\ s.uses = "github.session"
          /\ d.saga # {} => /\ s.flow \in {"step", "repeat", "wait", "wait_event"}
                            /\ s.flow \in {"step", "repeat"} =>
                                  s.uses = "result.emit" \/ (s.uses \in GitHub /\ s.undo)
    /\ d.saga # {} => With(d, LAMBDA s : s.undo) # {}

\* What carries a secret or a file is one manual step and nothing else.
ManualOnly(d) == \A i \in DOMAIN d.steps : LET s == d.steps[i] IN
    s.flow = "step" =>
        /\ s.uses \in {"envshare", "litterbox"} =>
              /\ Cardinality(Units(d)) = 1 /\ d.triggers = <<>> /\ d.saga = {} /\ d.inputs = {}
              /\ ~s.guarded /\ s.needs = {} /\ ~s.joins /\ ~s.approval
        /\ s.uses = "dub" => d.triggers = <<>>

-----------------------------------------------------------------------------
(* Layers: every round takes all the steps whose needs are placed.          *)

Placed(d) ==
    LET placed[n \in 0 .. Cardinality(Units(d))] ==
            IF n = 0 THEN {}
            ELSE {k \in Ids(d) : Needs(d, k) \subseteq placed[n - 1]}
    IN  placed

\* Slip: a layer wider than the runner's slice is accepted.
Ordered_AnyWidth(d) == Placed(d)[Cardinality(Units(d))] = Ids(d)

Ordered(d) ==
    LET placed == Placed(d)
    IN  /\ placed[Cardinality(Units(d))] = Ids(d)
        /\ \A n \in 1 .. Cardinality(Units(d)) :
              Cardinality(placed[n] \ placed[n - 1]) <= MaxParallel

\* The order of the stored steps: by layer, in a layer by id; here ids of one layer count as
\* sorted the way they were written.
WrittenBefore(u, v) == u[1] < v[1] \/ (u[1] = v[1] /\ u[2] < v[2])

Before(d, placed, j, k) ==
    \/ \E n \in DOMAIN placed : j \in placed[n] /\ k \notin placed[n]
    \/ /\ \A n \in DOMAIN placed : j \in placed[n] <=> k \in placed[n]
       /\ WrittenBefore(Unit(d, j), Unit(d, k))

\* A plan has one trigger at most, and a push needs an input to put its signed facts in.
TriggerFits(d) == /\ Len(d.triggers) <= 1
                  /\ \A i \in DOMAIN d.triggers :
                        /\ d.triggers[i] \in {"cron", "webhook", "github_event"}
                        /\ d.triggers[i] = "github_event" => "github" \in d.inputs

\* New drafts spell a GitHub step action.run; github.run is only in plans published before.
PublicSyntax(d) == \A i \in DOMAIN d.steps :
    "github.run" \notin {d.steps[i].uses} \cup {d.steps[i].kids[j].uses : j \in DOMAIN d.steps[i].kids}

HeaderFits(d) == d.saga \subseteq {"failure", "cancel"} /\ Len(d.steps) \in 1 .. MaxSteps

Accepts(d) ==
    /\ HeaderFits(d) /\ PublicSyntax(d) /\ TriggerFits(d)
    /\ \A i \in DOMAIN d.steps : Shape(d.steps[i])
    /\ WithinBudget(d) /\ DistinctIds(d) /\ OneOfEach(d) /\ WaitBudget(d)
    /\ ApprovalFits(d) /\ ClosedNeeds(d) /\ DeclaredReads(d) /\ StaticReads(d)
    /\ TrustedCitations(d) /\ SagaFits(d) /\ ManualOnly(d) /\ Ordered(d)

-----------------------------------------------------------------------------
(* Publication: the owner's grants are exactly the effects of the plan.     *)

UsesOf(d) == UNION {LET s == d.steps[i]
                    IN  IF s.flow \in {"step", "repeat"} THEN {s.uses}
                        ELSE {s.kids[j].uses : j \in DOMAIN s.kids} : i \in DOMAIN d.steps}

ToolGrants(d) == UsesOf(d) \cap Mcp
GitHubGrants(d) == UsesOf(d) \cap GitHub
HttpGrants(d) == UsesOf(d) \cap Http
ActionGrants(d) == UsesOf(d) \cap Providers
ChildGrants(d) == IF \E i \in DOMAIN d.steps : d.steps[i].flow = "child" THEN {"child"} ELSE {}
SagaGrants(d) == IF d.saga # {} THEN {"saga"} ELSE {}

Required(d) == ToolGrants(d) \cup GitHubGrants(d) \cup HttpGrants(d) \cup ActionGrants(d)
               \cup ChildGrants(d) \cup SagaGrants(d)

\* Every GitHub step is read again at its reviewed commit: repository granted, contract,
\* inputs and dispatch ref unchanged.  An answer that does not come is a refusal.
GitHubReviewed(d, hub) == GitHubGrants(d) = {} \/ hub = "as reviewed"

Publishable(d, grants, hub) == Accepts(d) /\ GitHubReviewed(d, hub) /\ grants = Required(d)

\* The plan that is stored: for every step and possible child what it uses and needs, and
\* for a controller its children in the order they would run.
KidUse(d, i, kid) ==
    LET t == d.steps[i].kids[kid[2]]
    IN  [use |-> t.uses, needs |-> {}, joins |-> FALSE, guarded |-> t.guarded, gated |-> FALSE,
         undo |-> FALSE, cites |-> {}, before |-> {}, count |-> 0, stages |-> 0, kids |-> <<>>]

Compiled(d) == [k \in Keys(d) |->
    IF k \in Ids(d)
    THEN LET s == Step(d, k)
             n == Len(s.kids)
         IN  [use |-> IF s.flow \in {"step", "repeat"} THEN s.uses ELSE s.flow,
              needs |-> Needs(d, k), joins |-> s.joins, guarded |-> s.guarded,
              gated |-> s.approval, undo |-> s.undo, cites |-> s.cites,
              before |-> {j \in Ids(d) : Before(d, Placed(d), j, k)},
              count |-> s.count, stages |-> n,
              kids |-> IF Kids(s) = {} THEN <<>>
                       ELSE [p \in 1 .. s.count * n |->
                               KidId(s, <<((p - 1) \div n) + 1, ((p - 1) % n) + 1>>)]]
    ELSE LET owner == CHOOSE i \in DOMAIN d.steps :
                          \E kid \in Kids(d.steps[i]) : KidId(d.steps[i], kid) = k
         IN  KidUse(d, owner, CHOOSE kid \in Kids(d.steps[owner]) :
                                  KidId(d.steps[owner], kid) = k)]

-----------------------------------------------------------------------------
(* References: what the rules are for.                                      *)

Acyclic(d) == \A S \in (SUBSET Ids(d)) \ {{}} : \E k \in S : Needs(d, k) \cap S = {}

\* Every step and child has a row of its own.
AllKeys(d) == {<<"unit", u>> : u \in Units(d)}
    \cup UNION {{<<"kid", i, kid>> : kid \in Kids(d.steps[i])} : i \in DOMAIN d.steps}
=============================================================================
