----------------------------- MODULE PlanRules -----------------------------
(***************************************************************************)
(* From proposed tasks to an execution plan. A planner's candidates are    *)
(* checked against the canonical assertions and turned into tasks; the     *)
(* tasks are validated, bound to the frozen impact set, sized, rated and,  *)
(* under protocol 1.3, laid out in parallel waves; the plan is committed   *)
(* with its graph projection, and every later reading recompiles the waves *)
(* and compares the projection with the plan.                              *)
(*                                                                         *)
(* Tasks are named by numbers, which also are their order. A refusal is a  *)
(* set of reasons; the code throws the first of them.                      *)
(***************************************************************************)
EXTENDS Integers, Sequences, FiniteSets, FiniteSetsExt, SequencesExt

CONSTANTS Proposals   \* what may be planned: tasks or candidates, the frozen impact set, the bindings and ceilings

VARIABLES input,   \* the proposal being planned
          plan,    \* the compiled plan, or NoPlan
          graph,   \* the projection of the plan in the graph
          read     \* what the last reading of the plan said

vars == <<input, plan, graph, read>>
NoPlan == [tasks |-> {}, waves |-> <<>>, mode |-> "none"]

Levels == <<"low", "medium", "high", "critical">>
Rank(level) == SelectInSeq(Levels, LAMBDA l : l = level)
Highest(levels) == CHOOSE l \in levels : \A k \in levels : Rank(k) <= Rank(l)
MaxAgentTasks == 24

-----------------------------------------------------------------------------
(* Validation of the tasks                                                 *)

ForbiddenWrite(path) == ".git" \in ToSet(path) \/ path[1] = ".harness" \/ ".." \in ToSet(path)
Distinct(seq) == Cardinality(ToSet(seq)) = Len(seq)

\* A claim is a list without repetition, which protocol 1.3 requires even when empty.
ClaimErrors(claim, mode) ==
    {r \in {"invalid_specification"} :
        \/ ~claim.declared /\ mode = "protocol13"
        \/ claim.declared /\ ~Distinct(claim.items)}

AssertionErrors(t) ==
    LET as == t.assertions IN
    {r \in {"invalid_specification"} :
        \/ t.hasAssertions /\ as = <<>>
        \/ Cardinality({as[i].id : i \in DOMAIN as}) # Len(as)
        \/ \E i \in DOMAIN as : as[i].tests = {} \/ as[i].gates = {}}
    \cup {r \in {"missing_gate"} : \E i \in DOMAIN as : ~(as[i].gates \subseteq t.gates)}

TaskErrors(t, mode) ==
    {r \in {"embedded_command"} : t.command}
    \cup {r \in {"invalid_specification"} :
             \/ t.objective = "" \/ t.impact = {} \/ t.outputs = {} \/ t.acceptance = 0 \/ t.budget < 1
             \/ t.duration < 0 \/ (mode = "protocol13" /\ t.duration = 0)
             \/ \E i \in DOMAIN t.writes.items : ForbiddenWrite(t.writes.items[i])}
    \cup ClaimErrors(t.writes, mode) \cup ClaimErrors(t.resources, mode)
    \cup {r \in {"missing_gate"} : t.gates = {}}
    \cup AssertionErrors(t)

\* The tasks that remain when those whose dependencies are all gone are taken away, again and again.
Peel(deps) ==
    LET left[n \in 0..Cardinality(DOMAIN deps)] ==
            IF n = 0 THEN DOMAIN deps
            ELSE LET before == left[n - 1] IN {t \in before : deps[t] \cap before # {}}
    IN  left[Cardinality(DOMAIN deps)]

GraphErrors(ts) ==
    LET ids == {t.id : t \in ts} IN
    {r \in {"dependency_cycle"} :
        \/ \E t \in ts : t.id \in t.deps
        \/ Peel([i \in ids |-> UNION {t.deps \cap ids : t \in {t \in ts : t.id = i}}]) # {}}
    \cup {r \in {"invalid_specification"} : \E t \in ts : ~(t.deps \subseteq ids)}

Signature(t) == <<t.objective, t.outputs>>
ValueErrors(ts) ==
    {r \in {"no_independent_value"} : \E t, u \in ts : t # u /\ Signature(t) = Signature(u)}

ValidatePlanProposal(seq, known, mode) ==
    LET ts == ToSet(seq) IN
    {r \in {"invalid_specification"} : ts = {} \/ Cardinality({t.id : t \in ts}) # Len(seq)}
    \cup UNION {TaskErrors(t, mode) : t \in ts}
    \cup {r \in {"unknown_tool"} : \E t \in ts : ~(t.tools \subseteq known.tools)}
    \cup {r \in {"capability_expansion"} : \E t \in ts : ~(t.capabilities \subseteq known.capabilities)}
    \cup {r \in {"unknown_gate"} : \E t \in ts : ~(t.gates \subseteq known.gates)}
    \cup GraphErrors(ts) \cup ValueErrors(ts)

-----------------------------------------------------------------------------
(* Coverage, size and risk                                                 *)

TestsOf(impact) == {e.node : e \in {e \in impact : e.type = "Test"}}
Asserted(t) == UNION {t.assertions[i].tests : i \in DOMAIN t.assertions}

\* What an agent runs has an assertion for every accepted test, and for no other.
AcceptanceErrors(ts, impact) ==
    {r \in {"atomic_acceptance_required"} : \E t \in ts : t.assertions = <<>>}
    \cup {r \in {"uncovered_test"} : UNION {Asserted(t) : t \in ts} # TestsOf(impact)}

Size(t) == LET score == Cardinality(t.outputs) + 2 * Len(t.assertions) + Cardinality(Asserted(t))
           IN  IF score > 16 THEN "large" ELSE IF score > 8 THEN "medium" ELSE "small"
SizeErrors(ts) ==
    {r \in {"dag_limit_exceeded"} : Cardinality(ts) > MaxAgentTasks}
    \cup {r \in {"task_too_large"} : \E t \in ts : Size(t) = "large"}

BindingErrors(ts, impact) ==
    LET owned == UNION {t.impact : t \in ts} IN
    {r \in {"invalid_specification"} :
        \/ ~(owned \subseteq {e.path : e \in impact})
        \/ ~({e.path : e \in {e \in impact : e.mustChange}} \subseteq owned)}

\* The scopes of the approved forecasts of what will be written.
Scopes(forecasts) == {f.scope : f \in {f \in forecasts : f.approved}}
PathScope(forecasts) ==
    CASE "broad" \in Scopes(forecasts) -> "broad" [] "bounded" \in Scopes(forecasts) -> "bounded" [] OTHER -> "exact"

Layer(type) ==
    CASE type = "Intent" -> "intent" [] type = "Requirement" -> "requirement" [] type = "Test" -> "test"
      [] type \in {"Decision", "Component"} -> "architecture" [] type = "CodeArtifact" -> "implementation" [] OTHER -> "none"

AssessImpactCoverage(kind, impact, forecasts) ==
    LET layers == {Layer(e.type) : e \in impact} \ {"none"}
        bounded == Scopes(forecasts) \cap {"exact", "bounded"} # {}
        broad == "broad" \in Scopes(forecasts)
        untraced == kind = "agent" /\ "implementation" \notin layers /\ ~bounded
    IN  [covered |-> layers \cup {l \in {"path"} : bounded \/ broad},
         status |-> CASE ~({"requirement", "test"} \subseteq layers) -> "partial"
                      [] untraced /\ broad -> "unknown"
                      [] untraced -> "partial"
                      [] OTHER -> "complete",
         risk |-> Highest({"low"} \cup {e.risk : e \in impact} \cup {l \in {"high"} : broad})]

\* An adapter whose work the Harness cannot see, meter or intercept.
Opaque(profile) ==
    \/ profile.control = "manual"
    \/ profile.control = "delegated" /\ ~(profile.metered /\ profile.intercepts /\ profile.shows # "external-only")

DeriveEffectiveRisk(declared, impact, coverage, scope, size, profile) ==
    Highest({declared, impact, coverage}
            \cup {l \in {"medium"} : scope = "bounded" \/ size = "medium"}
            \cup {l \in {"high"} : scope = "broad" \/ size = "large" \/ Opaque(profile)})

SelectExecutionMode(i, count) ==
    CASE i.shape = "free-text" /\ ~i.existing -> "restricted single-loop"
      [] i.kind = "agent" /\ count = 1 -> "single-loop"
      [] i.kind = "agent" -> "dag"
      [] i.shape # "free-text" /\ i.deterministic -> "direct"
      [] count = 1 -> "single-loop"
      [] OTHER -> "dag"

-----------------------------------------------------------------------------
(* Parallel waves                                                          *)

\* Mutant: two paths overlap only when they are the same.
WritePathsSame(p, q) == p = q
WritePathsOverlap(p, q) == IsPrefix(p, q) \/ IsPrefix(q, p)

Clash(t, u) ==
    \/ \E p \in ToSet(t.writes.items) : \E q \in ToSet(u.writes.items) : WritePathsOverlap(p, q)
    \/ ToSet(t.resources.items) \cap ToSet(u.resources.items) # {}

\* The tasks in order: of those whose dependencies are placed, the first in the plan.
\* Each goes to the first wave after its dependencies in which it clashes with none.
EarliestFree(at, t, ts) ==
    LET free(w) == \A u \in {u \in ts : u.id \in DOMAIN at} : at[u.id] = w => ~Clash(t, u)
        first == Max({0} \cup {at[d] + 1 : d \in t.deps})
    IN  CHOOSE w \in first..(Cardinality(DOMAIN at) + 1) : free(w) /\ \A v \in first..(w - 1) : ~free(v)
Placements(ts) ==
    LET task(i) == CHOOSE t \in ts : t.id = i
        ids == {t.id : t \in ts}
        placed[n \in 0..Cardinality(ids)] ==
            IF n = 0 THEN <<>>
            ELSE LET at == placed[n - 1]
                     next == Min({i \in ids \ DOMAIN at : task(i).deps \subseteq DOMAIN at})
                 IN  at @@ (next :> EarliestFree(at, task(next), ts))
    IN  placed[Cardinality(ids)]

\* Waves as the plan stores them: a sequence of sets of tasks.
CompileParallelWaves(ts) ==
    LET at == Placements(ts)
        count == IF ts = {} THEN 0 ELSE Max({at[i] : i \in DOMAIN at}) + 1
    IN  [w \in 1..count |-> {i \in DOMAIN at : at[i] = w - 1}]

\* What protocol 1.3 asks before a plan may run in parallel: its bindings, and budgets inside the approved ceilings.
AuthorityErrors(i, ts) ==
    {r \in {"invalid_specification"} :
        \/ ~i.bound
        \/ \E t \in ts : t.duration < 1 \/ ~t.writes.declared \/ ~t.resources.declared
        \/ \E t \in ts : t.budget > i.ceiling
        \/ i.total < 1 \/ i.total > i.totalCeiling}

-----------------------------------------------------------------------------
(* Candidates of a planner                                                 *)

Owners(candidates, a) == {c \in ToSet(candidates) : a \in c.assertions}
OwnedOnce(candidates, a) == Cardinality(Owners(candidates, a)) = 1

\* A path is the sequence of its names, slashes and stars: a suggestion lies under a base whose characters it starts with.
StripDeep(base) == IF Len(base) > 2 /\ Last(base) = "**" /\ base[Len(base) - 1] = "/" THEN SubSeq(base, 1, Len(base) - 2) ELSE base
PathAllowed(suggested, allowed) == \E base \in allowed : suggested = base \/ IsPrefix(StripDeep(base), suggested)

\* canonical: the assertion of each accepted criterion, as [id, criterion, test].
AllocationIssues(candidates, canonical, known) ==
    LET cs == ToSet(candidates)
        keys == {c.key : c \in cs}
    IN  {r \in {"dag_limit_exceeded"} : Len(candidates) > MaxAgentTasks}
        \cup {r \in {"duplicate_task_key"} : Cardinality(keys) # Len(candidates)}
        \cup {r \in {"unknown_assertion"} : \E c \in cs : ~(c.assertions \subseteq {a.id : a \in canonical})}
        \cup {r \in {"unknown_dependency"} : \E c \in cs : ~(c.deps \subseteq keys)}
        \cup {r \in {"unknown_gate"} : \E c \in cs : ~(c.gates \subseteq known.gates)}
        \cup {r \in {"path_widening"} : \E c \in cs : \E p \in c.writes : ~PathAllowed(p, known.writes)}
        \cup {r \in {"unknown_design_binding"} : \E c \in cs : ~(c.bindings \subseteq known.bindings)}
        \cup {r \in {"dependency_cycle"} : Peel([k \in keys |-> UNION {c.deps \cap keys : c \in {c \in cs : c.key = k}}]) # {}}
        \cup {r \in {"duplicate_assertion"} : \E a, b \in canonical : a # b /\ a.criterion = b.criterion}
        \cup {r \in {"ownership"} : \E a \in canonical : ~OwnedOnce(candidates, a.id)}

\* The tasks of candidates without issues. One that owns no canonical assertion gets those of the tests seeded
\* for the acceptance of its requirements, and cannot be made when such a test is missing.
AcceptanceOf(c, accepted) == UNION {accepted[r] : r \in c.bindings \cap DOMAIN accepted}
Seeded(c, accepted, seeds) == AcceptanceOf(c, accepted) \subseteq seeds
GatesFor(c, known) == IF c.gates \cap known.gates # {} THEN c.gates \cap known.gates ELSE known.gates
AssertionsFor(c, canonical, accepted, known) ==
    LET own == {a \in canonical : a.id \in c.assertions}
        made == IF own # {} THEN {[id |-> a.id, tests |-> {a.test}, gates |-> GatesFor(c, known)] : a \in own}
                ELSE {[id |-> <<s, "seed">>, tests |-> {s}, gates |-> GatesFor(c, known)] : s \in AcceptanceOf(c, accepted)}
    IN  SetToSeq(made)
MaterializePlanTask(c, i) ==
    LET as == AssertionsFor(c, i.canonical, i.accepted, i.known) IN
    [id |-> c.key, objective |-> c.goal, impact |-> {e.path : e \in i.impact}, outputs |-> c.bindings \cap i.known.requirements,
     capabilities |-> {}, tools |-> {}, deps |-> c.deps, risk |-> "medium", budget |-> 30, duration |-> 0,
     writes |-> [declared |-> FALSE, items |-> <<>>], resources |-> [declared |-> FALSE, items |-> <<>>],
     acceptance |-> Cardinality(AcceptanceOf(c, i.accepted)), hasAssertions |-> as # <<>>, assertions |-> as,
     gates |-> GatesFor(c, i.known), command |-> FALSE]

ProposalIssues(i) ==
    AllocationIssues(i.candidates, i.canonical, i.known)
    \cup {r \in {"seed_missing"} : \E c \in ToSet(i.candidates) :
             c.assertions \cap {a.id : a \in i.canonical} = {} /\ ~Seeded(c, i.accepted, i.seeds)}
\* The tasks to plan: those given, or those made from the planner's candidates.
TasksOf(i) ==
    IF i.candidates = <<>> THEN i.tasks
    ELSE [n \in DOMAIN i.candidates |-> MaterializePlanTask(i.candidates[n], i)]

-----------------------------------------------------------------------------
(* The plan, its projection and its reading                                *)

CompileErrors(i) ==
    LET ts == ToSet(TasksOf(i)) IN
    ValidatePlanProposal(TasksOf(i), i.known, i.mode)
    \cup (IF i.kind = "agent" THEN AcceptanceErrors(ts, i.impact) \cup SizeErrors(ts) ELSE {})
    \cup BindingErrors(ts, i.impact)
    \cup (IF i.mode = "protocol13" THEN AuthorityErrors(i, ts) ELSE {})

Rated(i, t) ==
    [t EXCEPT !.risk = DeriveEffectiveRisk(t.risk, Highest({"low"} \cup {e.risk : e \in i.impact}),
                                           AssessImpactCoverage(i.kind, i.impact, i.forecasts).risk, PathScope(i.forecasts), Size(t),
                                           i.profile)]

CompileExecutionPlan(i) ==
    LET ts == {Rated(i, t) : t \in ToSet(TasksOf(i))} IN
    [tasks |-> ts, mode |-> SelectExecutionMode(i, Cardinality(ts)),
     waves |-> IF i.mode = "protocol13" THEN CompileParallelWaves(ts) ELSE <<>>]

Edges(ts) ==
    {[type |-> "CONTAINS", from |-> 0, to |-> t.id] : t \in ts}
    \cup UNION {{[type |-> "DEPENDS_ON", from |-> t.id, to |-> d] : d \in t.deps} : t \in ts}
Projection(p) == [nodes |-> p.tasks, edges |-> Edges(p.tasks)]

\* What a reader finds wrong with a plan and its projection; a plan without waves is a 1.0 plan, taken as it is.
ReadErrors(p, g) ==
    IF p.waves = <<>> THEN {}
    ELSE {r \in {"wave_drift"} : CompileParallelWaves(p.tasks) # p.waves}
         \cup {r \in {"plan_projection_drift"} : g.nodes # p.tasks \/ g.edges # Edges(p.tasks)}

-----------------------------------------------------------------------------
Init ==
    /\ input \in Proposals
    /\ plan = NoPlan /\ graph = Projection(NoPlan) /\ read = "none"

\* generateExecutionPlan and the commit of its records.
Generate ==
    /\ plan = NoPlan
    /\ (IF input.candidates = <<>> THEN {} ELSE ProposalIssues(input)) \cup CompileErrors(input) = {}
    /\ plan' = CompileExecutionPlan(input)
    /\ graph' = Projection(plan')
    /\ UNCHANGED <<input, read>>

\* The projection is edited behind the plan: a node or an edge goes, a dependency is turned, a task is changed.
EditGraph ==
    /\ plan # NoPlan /\ graph = Projection(plan) /\ read = "none"
    /\ \/ \E n \in graph.nodes : graph' = [graph EXCEPT !.nodes = @ \ {n}]
       \/ \E n \in graph.nodes : graph' = [graph EXCEPT !.nodes = (@ \ {n}) \cup {[n EXCEPT !.risk = "critical", !.budget = @ + 1]}]
       \/ \E e \in graph.edges : graph' = [graph EXCEPT !.edges = @ \ {e}]
       \/ \E e \in graph.edges : e.type = "DEPENDS_ON" /\ graph' = [graph EXCEPT !.edges = (@ \ {e}) \cup {[e EXCEPT !.from = e.to, !.to = e.from]}]
    /\ UNCHANGED <<input, plan, read>>

Read ==
    /\ plan # NoPlan /\ read = "none"
    /\ read' = IF ReadErrors(plan, graph) = {} THEN "ok" ELSE "refused"
    /\ UNCHANGED <<input, plan, graph>>

Next == Generate \/ EditGraph \/ Read
Spec == Init /\ [][Next]_vars

-----------------------------------------------------------------------------
(* A plan has waves exactly when it is a protocol 1.3 plan.                *)
TypeOK ==
    /\ read \in {"none", "ok", "refused"}
    /\ plan # NoPlan => (plan.waves # <<>>) = (input.mode = "protocol13")

WaveOf(id) == CHOOSE w \in DOMAIN plan.waves : id \in plan.waves[w]

(* compileParallelWaves: every task runs in exactly one wave, after the    *)
(* waves of its dependencies, beside no task that writes under the same    *)
(* path or claims the same resource.                                       *)
WavesAreSafe ==
    plan.waves # <<>> =>
        /\ \A t \in plan.tasks : Cardinality({w \in DOMAIN plan.waves : t.id \in plan.waves[w]}) = 1
        /\ \A t \in plan.tasks : \A d \in t.deps : WaveOf(d) < WaveOf(t.id)
        /\ \A t, u \in plan.tasks :
               t # u /\ WaveOf(t.id) = WaveOf(u.id) =>
                   /\ ToSet(t.resources.items) \cap ToSet(u.resources.items) = {}
                   /\ \A p \in ToSet(t.writes.items), q \in ToSet(u.writes.items) : ~(IsPrefix(p, q) \/ IsPrefix(q, p))

(* compileParallelWaves: nothing waits without a cause. A task that is not *)
(* in the first wave has a dependency in the wave before its own, or       *)
(* something to keep clear of there.                                       *)
NoIdleWaiting ==
    plan.waves # <<>> =>
        \A t \in plan.tasks :
            WaveOf(t.id) > 1 => \E u \in plan.tasks : WaveOf(u.id) = WaveOf(t.id) - 1 /\ (u.id \in t.deps \/ Clash(t, u))

(* readExecutionPlanContent: the plan that was committed reads back, and   *)
(* no reader accepts it beside a projection that says something else.      *)
ReadsBackExactly ==
    /\ read = "ok" /\ plan.waves # <<>> => graph = Projection(plan)
    /\ read = "refused" => graph # Projection(plan)

(* validatePlanProposalAllocation and materializePlanTasks: in a plan made *)
(* from a planner's candidates, each accepted criterion is asserted by     *)
(* exactly one task, with its own test.                                    *)
CriteriaHaveOneOwner ==
    plan # NoPlan /\ input.candidates # <<>> =>
        \A a \in input.canonical :
            Cardinality({t \in plan.tasks : \E n \in DOMAIN t.assertions : t.assertions[n].id = a.id /\ t.assertions[n].tests = {a.test}}) = 1

(* planProposalSpecificationsFor: the kernel leaves the paths a planner    *)
(* suggests unconstrained, so none of them fails a proposal.               *)
SuggestionsUnconstrained ==
    input.known.writes = {<<"**">>} => "path_widening" \notin AllocationIssues(input.candidates, input.canonical, input.known)
=============================================================================
