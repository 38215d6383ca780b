------------------------------ MODULE MCParts ------------------------------
(***************************************************************************)
(* The runtime's parts without fairness, one at a time, as in MCServices:  *)
(* a behaviour picks one part, whose variables live in the slots s1, s2,   *)
(* ...                                                                     *)
(***************************************************************************)
EXTENDS Integers, Sequences, TLC

VARIABLES active, s1, s2, s3, s4, s5, s6, s7, s8, s9, s10, s11, s12, s13, s14,
          s15, s16, s17, s18, s19, s20, s21
vars == <<active, s1, s2, s3, s4, s5, s6, s7, s8, s9, s10, s11, s12, s13, s14,
          s15, s16, s17, s18, s19, s20, s21>>

-----------------------------------------------------------------------------
(* Approvals: one object, proposed by the pipeline's own agent.            *)
AAsked == [o |-> [proposer |-> "bot", requester |-> "ann", allowed |-> {"approve", "reject", "defer"}]]
A == INSTANCE Approvals WITH
         Procs <- {"p"}, Asked <- AAsked, LocalActors <- {"bot", "cli"}, RemoteActors <- {"ann", "bob"},
         ReadsBinding <- TRUE, MaxDrift <- 1, MaxRecords <- 3, MaxCrashes <- 1,
         requests <- s1, decisions <- s2, state <- s3, blockers <- s4, current <- s5, inbox <- s6, proc <- s7,
         answer <- s8, issued <- s9, crashes <- s10

\* Capture, a long session: long enough for a proposal to be revised, or its
\* profile decision reopened, and approved again.
CapLong == INSTANCE Capture WITH
         Procs <- {"p"}, Bindings <- {"b"}, MaxRounds <- 1, HasReview <- TRUE, HasBrief <- FALSE,
         MaxRevisions <- 17, MaxCrashes <- 0,
         session <- s1, prev <- s2, blockers <- s3, answered <- s4, invocations <- s5, bindings <- s6, decisions <- s7,
         consumed <- s8, briefs <- s9, prds <- s10, proc <- s11, crashes <- s12
\* Capture, a short session with approval briefs, bindings that change and a
\* crash that leaves work half done.
Cap == INSTANCE Capture WITH
         Procs <- {"p"}, Bindings <- {"b1", "b2"}, MaxRounds <- 1, HasReview <- TRUE, HasBrief <- TRUE,
         MaxRevisions <- 10, MaxCrashes <- 1,
         session <- s1, prev <- s2, blockers <- s3, answered <- s4, invocations <- s5, bindings <- s6, decisions <- s7,
         consumed <- s8, briefs <- s9, prds <- s10, proc <- s11, crashes <- s12

\* Model invocations: two of them share a conversation; one process, so only
\* crashes leave work half done.  The third prompt is too large to compile.
Prompt(key, bytes) == [key |-> key, overlay |-> TRUE, policy |-> TRUE, items |-> <<[bytes |-> bytes, clean |-> TRUE]>>]
I == INSTANCE ModelInvocation WITH
         Procs <- {"p"}, Prompts <- {Prompt("k1", 1), Prompt("k2", 2), Prompt("k3", 3)}, MaxItem <- 2, MaxTotal <- 2,
         Invocations <- [i1 |-> [conversation |-> "c", port |-> "prd_proposal"],
                         i2 |-> [conversation |-> "c", port |-> "grounded_synthesis"]],
         MaxHttp <- 2, MaxAttempts <- 2, MaxCalls <- 3, MaxCrashes <- 2,
         store <- s1, proc <- s2, made <- s3, answers <- s4, called <- s5, calls <- s6, crashes <- s7

\* Plan execution: two tasks, an adapter or a scope edited while the process is down.
Setup(agent, prompter, strict, enriching, covered) ==
    [agent |-> agent, prompter |-> prompter, strict |-> strict, enriching |-> enriching, covered |-> covered]
X == INSTANCE PlanExecution WITH
         Tasks <- {1, 2}, Opaque <- {"a2"}, Adapters <- {"a1", "a2"}, Scopes <- {"none", "src"}, MaxChanges <- 2, MaxCrashes <- 2,
         Setups <- {Setup(TRUE, FALSE, TRUE, TRUE, TRUE), Setup(TRUE, TRUE, FALSE, TRUE, FALSE), Setup(FALSE, FALSE, FALSE, FALSE, TRUE)},
         setup <- s1, config <- s2, plan <- s3, contracts <- s4, bundles <- s5, enriched <- s6, state <- s7, requests <- s8,
         auth <- s9, grants <- s10, runs <- s11, proc <- s12, edits <- s13, faults <- s14

\* The workflow engine called by two processes: five calls let an operation
\* run, block and be resumed by both at once.
EngineCalls == 5
Engine == INSTANCE Workflow WITH
         Procs <- {"p", "q"}, MaxCalls <- EngineCalls, MaxRuns <- 4,
         hist <- s1, runs <- s2, resumes <- s3, call <- s4, told <- s5, calls <- s6

-----------------------------------------------------------------------------
(* PrdStages: drafts of a goal, a requirement and its criterion.           *)
Key(name) == [rev |-> 0, name |-> <<name>>]
Id(rev, name) == [rev |-> rev, name |-> <<name>>]
New(name, kind, text, traits, refs) ==
    [key |-> Key(name), from |-> Key("none"), kind |-> kind, text |-> text, traits |-> traits, refs |-> refs,
     bound |-> {[source |-> "intent", of |-> 0]}]
Continued(name, id, kind, text, traits, refs) == [New(name, kind, text, traits, refs) EXCEPT !.from = id]
Ref(kind, key) == [kind |-> kind, to |-> key]
ToReq == {Ref("requirement", Key("r"))}
ToCrit == {Ref("acceptance_criterion", Key("c"))}
Goal == New("g", "goal", 1, {}, {})
Requirement == New("r", "requirement", 1, {"must", "must_change", "risky"}, ToCrit)
Criterion == New("c", "acceptance_criterion", 1, {"example", "failure_case"}, ToReq)
Base == {Goal, Requirement, Criterion}
Draft(entities) == [problem |-> TRUE, entities |-> entities]
PDrafts ==
    {Draft(Base),
     Draft(Base \cup {New("k", "risk", 1, {"security", "high"}, {}), New("l", "risk", 1, {"technical", "low"}, {})}),
     \* bound to the first answer of the session
     Draft({Goal, Requirement, [Criterion EXCEPT !.bound = {[source |-> "clarification_answer", of |-> 1]}]}),
     Draft({Goal, [Requirement EXCEPT !.traits = {}],
            [Criterion EXCEPT !.traits = {"vague", "tests_pass", "compound"}, !.bound = {[source |-> "accepted_prd", of |-> 1]}],
            New("d", "acceptance_criterion", 1, {"vague", "tests_pass", "compound"}, ToReq),
            New("n", "non_goal", 1, {}, {}), New("t1", "glossary_term", 1, {"a"}, {}), New("t2", "glossary_term", 1, {"b"}, {})}),
     \* continued entities, with a new criterion in place of the old one
     Draft({Goal, Continued("r", Id(1, "r"), "requirement", 1, {"must_change"}, {Ref("acceptance_criterion", Id(1, "c"))}),
            New("c2", "acceptance_criterion", 2, {"example"}, ToReq)}),
     \* one id claimed twice, and one claimed by another kind
     Draft({Goal, Criterion, Continued("r", Id(1, "r"), "requirement", 1, {}, ToCrit),
            Continued("r2", Id(1, "r"), "requirement", 2, {}, ToCrit)}),
     Draft({Goal, Continued("a", Id(1, "r"), "actor", 1, {}, {})}),
     \* references to nothing, and to another kind
     Draft({Goal, New("s", "scenario", 1, {}, {Ref("actor", Key("g"))})}),
     [problem |-> FALSE, entities |-> {New("r", "requirement", 0, {"vague"}, {})}]}
PAdditions ==
    {Base, {New("low", "risk", 1, {"low", "technical"}, {}), New("k", "constraint", 1, {"compliance"}, {})},
     {New("q", "open_question", 1, {"blocking"}, {}), New("u", "constraint", 1, {"unverified"}, {}),
      [New("x", "requirement", 1, {"must_change"}, {}) EXCEPT !.bound = {[source |-> "project_context", of |-> 1]}]}}
Asked(text, acceptance) == [text |-> text, acceptance |-> acceptance]
Intent(requirements, constraints) == [requirements |-> requirements, constraints |-> constraints]
PIntents == {Intent(<<Asked(1, <<1, 1>>)>>, <<>>), Intent(<<Asked(1, <<2>>), Asked(2, <<1>>)>>, <<1>>),
             Intent(<<Asked(2, <<1, 2>>), Asked(1, <<1>>)>>, <<>>)}
PPolicies == {[profile |-> "lite", auto |-> TRUE, deny |-> {}],
              [profile |-> "standard", auto |-> TRUE, deny |-> {"high", "critical"}],
              [profile |-> "governed", auto |-> TRUE, deny |-> {}]}
P == INSTANCE PrdStages WITH
         Drafts <- PDrafts, Additions <- PAdditions, Intents <- PIntents, Policies <- PPolicies, MaxRevisions <- 2,
         MaxManual <- 2, MaxReviews <- 2, MaxAnswers <- 1, MaxCrashes <- 1, Contexts <- {1, 2},
         session <- s1, proposals <- s2, lineage <- s3, manuals <- s4, reviews <- s5

-----------------------------------------------------------------------------
(* CapabilityPlans                                                         *)
Config(slot) == [slot |-> slot, handFilled |-> FALSE, contract |-> TRUE, mode |-> "default"]
Always == {Config(s) : s \in {"plan_proposal", "feedback_analysis", "grounded_synthesis:context_enrichment",
                              "grounded_synthesis:iteration_narrative"}}
WithDesign == Always \cup {Config("impact_advisory"), Config("design_review")}
Policy(minimum, required, denied) == [minimum |-> minimum, required |-> required, denied |-> denied]
CPolicies == {Policy("lite", {}, {}), Policy("standard", {"strict_tdd"}, {}), Policy("lite", {}, {"impact_analysis"}),
              Policy("lite", {"advanced_audit"}, {"strict_tdd"})}
Compiled(policy, activations, configs, providers, protocol) ==
    [policy |-> policy, activations |-> activations, configs |-> configs, providers |-> providers, protocol |-> protocol]
Both == {"isolated_workspace_provider", "structured_gate_provider"}
CInputs ==
    {Compiled(p, {}, WithDesign, Both, "1.1.0") : p \in CPolicies}
    \cup {Compiled(Policy("lite", {}, {}), a, Always, Both, "1.1.0") : a \in {{}, {"design_governance"}}}
    \cup {Compiled(Policy("lite", {}, {}), {}, WithDesign, Both, "1.3.0"),
          Compiled(Policy("lite", {}, {"impact_analysis"}), {"design_governance"}, WithDesign, Both, "1.1.0"),
          Compiled(Policy("lite", {}, {"strict_tdd"}), {"strict_tdd"}, {}, {}, "1.3.0"),
          Compiled(Policy("lite", {}, {}), {"independent_evaluation", "strict_tdd"}, WithDesign, Both, "1.1.0"),
          Compiled(Policy("lite", {}, {}), {"strict_tdd"}, WithDesign, {}, "1.1.0"),
          Compiled(Policy("lite", {}, {}), {}, {Config("grounded_synthesis:approval_brief"),
                                               [Config("plan_proposal") EXCEPT !.mode = "record"]}, Both, "1.1.0")}
CDecisions == {[kind |-> k, current |-> "standard", decided |-> p, bound |-> b] :
                  k \in {"keep", "temporary_upgrade", "override_recommendation", "select"}, p \in {"lite", "standard", "governed"},
                  b \in {{"reason", "recommendation", "iteration", "requirement", "risk", "scope"}}}
C == INSTANCE CapabilityPlans WITH
         Inputs <- CInputs, Decisions <- CDecisions, MaxRevisions <- 3, MaxStarts <- 2,
         profiles <- s1, decisions <- s2, plans <- s3, design <- s4, proc <- s5

-----------------------------------------------------------------------------
(* PolicyRules                                                             *)
L0 == INSTANCE PolicyRules WITH Layers <- {}, Requests <- {}, Narrowings <- {}, Actions <- {},
                                layers <- s1, issued <- s2, held <- s3, pinned <- s4
Fld(path, op, value) == [path |-> path, op |-> op, value |-> value]
Layer(name, fields) == [name |-> name, fields |-> fields]
S(strings) == L0!Strings(strings)
LLayers ==
    {Layer("installation", {Fld("paths.write.allow", "allow_intersection", S({<<"src">>, <<"docs">>})),
                            Fld("paths.deny", "deny_union", S({<<"src", "secret">>})),
                            Fld("budgets.iteration.max_steps", "hard_ceiling", L0!Number(3)),
                            Fld("scheduler.max_concurrency", "hard_ceiling", L0!Number(4))}),
     Layer("installation", {Fld("controls.trajectory", "strongest_control", L0!Word("summarized")),
                            Fld("approvals.required", "approval_union", S({<<"risk", "high">>})),
                            Fld("budgets.iteration.max_steps", "hard_ceiling", L0!Number(0)),
                            Fld("loop.max_steps", "hard_ceiling", L0!Number(5))}),
     Layer("pack", {Fld("resources.allow", "allow_intersection", S({<<"lint">>, <<"test">>})),
                    Fld("phases.allow", "allow_intersection", S({<<"execute">>})),
                    Fld("controls.trajectory", "strongest_control", L0!Word("full")),
                    Fld("controls.side_effect_interception", "strongest_control", L0!Word("required"))}),
     Layer("pack", {Fld("paths.write.allow", "deny_union", S({<<"src">>})), Fld("loop.max_steps", "hard_ceiling", L0!Word("many"))}),
     Layer("project", {Fld("paths.write.allow", "allow_intersection", S({<<"src">>, <<"lib">>})),
                       Fld("resources.deny", "deny_union", S({<<"test">>})),
                       Fld("capabilities.deny", "deny_union", S({<<"net">>})),
                       Fld("approvals.required", "approval_union", S({<<"dispatch_task">>, <<"invoke_tool">>})),
                       Fld("scheduler.max_concurrency", "hard_ceiling", L0!Number(1))}),
     Layer("project", {Fld("scheduler.max_concurrency", "project_default", L0!Number(0)),
                       Fld("budgets.max_steps", "hard_ceiling", L0!Number(2)),
                       Fld("paths.read.allow", "allow_intersection", S({<<"src">>}))})}
Tool(name, values) == [name |-> <<name>>, bounded |-> values # {}, values |-> values]
Grant(read, write, tools, steps) ==
    [capabilities |-> {<<"edit">>}, read |-> read, write |-> write, fields |-> {<<"notes">>}, tools |-> tools, phase |-> "execute",
     steps |-> steps, approvals |-> {"a1"}]
LRequests == {Grant({<<"src">>}, {<<"src">>}, {Tool("lint", {}), Tool("test", {"fast", "slow"})}, 3),
              Grant({}, {<<"docs">>, <<"src", "a">>}, {}, 1), Grant({}, {<<"..">>}, {Tool("net", {})}, 1)}
Narrowed(read, write, fields, tools, steps) ==
    [capabilities |-> {}, read |-> read, write |-> write, fields |-> fields, tools |-> tools, steps |-> steps]
LNarrowings == {Narrowed({}, {<<"src">>}, {}, {Tool("test", {"fast"})}, 2), Narrowed({<<"src">>}, {}, {<<"notes">>}, {Tool("lint", {"x"})}, 3),
                Narrowed({}, {<<"docs">>}, {}, {}, 1), Narrowed({}, {}, {<<"status">>}, {Tool("test", {"all"})}, 4)}
Act(kind, resource) ==
    [kind |-> kind, resource |-> resource, actor |-> "agent", origin |-> "prompt", phase |-> "execute", risk |-> "low",
     approval |-> "none", shows |-> "summarized", intercepts |-> FALSE, value |-> "fast"]
Own(action) == [action EXCEPT !.actor = "harness", !.origin = "control_plane"]
LActions ==
    {Act("write_path", <<"src", "a">>), Act("write_path", <<"src", "secret", "k">>), Act("write_path", <<"docs">>), Act("read_path", <<"src">>),
     Own(Act("write_path", <<"lib", "..">>)), Act("write_path", <<"lib">>), Act("invoke_tool", <<"lint">>), [Act("invoke_tool", <<"test">>) EXCEPT !.value = "slow"],
     [Act("invoke_tool", <<"test">>) EXCEPT !.approval = "a1", !.shows = "full", !.intercepts = TRUE],
     Own(Act("invoke_tool", <<"net">>)), Act("propose_state", <<"notes">>), Act("approve", <<>>), Own(Act("change_policy", <<>>)),
     [Act("dispatch_task", <<>>) EXCEPT !.approval = "a1"], Own(Act("dispatch_task", <<>>)),
     [Own(Act("dispatch_task", <<>>)) EXCEPT !.approval = "a1"], [Own(Act("integrate_wave", <<>>)) EXCEPT !.risk = "critical", !.approval = "a2"],
     [Own(Act("submit_evidence", <<>>)) EXCEPT !.phase = "plan", !.risk = "high"]}
L == INSTANCE PolicyRules WITH Layers <- LLayers, Requests <- LRequests, Narrowings <- LNarrowings, Actions <- LActions,
                               layers <- s1, issued <- s2, held <- s3, pinned <- s4

-----------------------------------------------------------------------------
(* PlanRules: three tasks in every shape of dependencies and claims, single *)
(* faults of a task, and candidates of a planner.                          *)
Claim(items) == [declared |-> TRUE, items |-> items]
NoClaim == [declared |-> FALSE, items |-> <<>>]
Entry(node, type, must, risk) == [node |-> node, type |-> type, path |-> <<node>>, mustChange |-> must, risk |-> risk]
Impact == {Entry("r", "Requirement", TRUE, "low"), Entry("t1", "Test", FALSE, "low"), Entry("t2", "Test", FALSE, "medium"), Entry("x", "Gate", FALSE, "low")}
Asserts(id, test) == [id |-> <<id>>, tests |-> {test}, gates |-> {"lint"}]
PlanTask(id, deps, writes, resources) ==
    [id |-> id, objective |-> "goal", impact |-> {<<"r">>}, outputs |-> {id}, capabilities |-> {}, tools |-> {}, deps |-> deps, risk |-> "low",
     budget |-> 2, duration |-> 1, writes |-> Claim(writes), resources |-> Claim(resources), acceptance |-> 1, hasAssertions |-> FALSE,
     assertions |-> <<>>, gates |-> {"lint"}, command |-> FALSE]
Known == [tools |-> {"edit"}, capabilities |-> {"read"}, gates |-> {"lint", "unit"}, bindings |-> {"r1", "r2"}, requirements |-> {"r1", "r2"},
          writes |-> {<<"**">>}]
Seen == [control |-> "managed", metered |-> TRUE, intercepts |-> TRUE, shows |-> "full"]
Planning(tasks, kind, mode) ==
    [tasks |-> tasks, impact |-> Impact, kind |-> kind, mode |-> mode, forecasts |-> {}, profile |-> Seen, known |-> Known, shape |-> "structured",
     existing |-> TRUE, deterministic |-> FALSE, bound |-> TRUE, ceiling |-> 3, total |-> 5, totalCeiling |-> 9, candidates |-> <<>>,
     canonical |-> {}, accepted |-> [r \in {} |-> {}], seeds |-> {}]
Waving == {Planning(<<PlanTask(1, d1, w1, r1), PlanTask(2, d2, w2, r2), PlanTask(3, d3, <<<<"src", "a">>>>, <<"db">>)>>, "workflow", "protocol13") :
              d1 \in SUBSET {2, 3}, d2 \in SUBSET {1, 3}, d3 \in SUBSET {1, 2},
              w1 \in {<<>>, <<<<"src">>>>}, w2 \in {<<<<"src", "a", "b">>>>, <<<<"docs">>>>}, r1 \in {<<>>, <<"db">>}, r2 \in {<<>>, <<"db">>}}
AgentTask == [PlanTask(1, {}, <<>>, <<>>) EXCEPT !.hasAssertions = TRUE, !.assertions = <<Asserts("a1", "t1"), Asserts("a2", "t2")>>]
Faults ==
    {[AgentTask EXCEPT !.command = TRUE], [AgentTask EXCEPT !.objective = ""], [AgentTask EXCEPT !.budget = 4], [AgentTask EXCEPT !.duration = 0],
     [AgentTask EXCEPT !.tools = {"shell"}], [AgentTask EXCEPT !.capabilities = {"net"}], [AgentTask EXCEPT !.gates = {"unit"}],
     [AgentTask EXCEPT !.gates = {}], [AgentTask EXCEPT !.writes = Claim(<<<<".git">>>>)], [AgentTask EXCEPT !.writes = Claim(<<<<"a">>, <<"a">>>>)],
     [AgentTask EXCEPT !.assertions = <<Asserts("a1", "t1")>>], [AgentTask EXCEPT !.assertions = <<Asserts("a1", "t1"), Asserts("a1", "t2")>>],
     [AgentTask EXCEPT !.outputs = 1..20], [AgentTask EXCEPT !.impact = {<<"z">>}], [AgentTask EXCEPT !.impact = {<<"x">>}],
     [AgentTask EXCEPT !.resources = NoClaim], [AgentTask EXCEPT !.deps = {1}], [AgentTask EXCEPT !.deps = {9}], AgentTask}
Faulty == {Planning(<<t>>, "agent", mode) : t \in Faults, mode \in {"legacy", "protocol13"}}
          \cup {[Planning(<<AgentTask>>, "agent", "protocol13") EXCEPT !.bound = FALSE], Planning(<<>>, "agent", "legacy"),
                [Planning(<<AgentTask>>, "agent", "protocol13") EXCEPT !.total = 10],
                [Planning(<<AgentTask>>, "workflow", "legacy") EXCEPT !.deterministic = TRUE],
                [Planning(<<AgentTask>>, "workflow", "legacy") EXCEPT !.shape = "free-text", !.existing = FALSE],
                [Planning(<<AgentTask>>, "agent", "legacy") EXCEPT !.profile = [Seen EXCEPT !.control = "manual"]],
                [Planning(<<AgentTask>>, "agent", "legacy") EXCEPT !.forecasts = {[scope |-> "broad", approved |-> TRUE]}],
                Planning(<<AgentTask, [AgentTask EXCEPT !.id = 2]>>, "agent", "legacy")}
Candidate(key, assertions, deps, bindings) ==
    [key |-> key, goal |-> "goal", assertions |-> assertions, deps |-> deps, gates |-> {"lint"}, writes |-> {}, bindings |-> bindings]
Canon == {[id |-> <<"a1">>, criterion |-> "c1", test |-> "t1"], [id |-> <<"a2">>, criterion |-> "c2", test |-> "t2"]}
Offered(candidates) ==
    [Planning(<<>>, "agent", "legacy") EXCEPT !.candidates = candidates, !.canonical = Canon,
        !.accepted = [r \in {"r1", "r2"} |-> IF r = "r1" THEN {"t1"} ELSE {"t2"}], !.seeds = {"t1"}]
Owned == SUBSET {<<"a1">>, <<"a2">>}
Offering ==
    {Offered(<<Candidate(1, a, d, {"r1"}), Candidate(2, b, e, r)>>) :
        a \in Owned, b \in Owned, d \in {{}, {2}, {3}}, e \in {{}, {1}}, r \in {{"r1"}, {"r2"}, {"r2", "r3"}}}
    \cup {Offered(<<[Candidate(1, {<<"a1">>, <<"a2">>}, {}, {"r1"}) EXCEPT !.writes = w, !.gates = g]>>) :
             w \in {{<<"src", "/", "a">>}, {<<"**">>}}, g \in {{"lint"}, {"bench"}, {}}}
    \cup {Offered(<<Candidate(1, {<<"a1">>}, {}, {"r1"}), Candidate(1, {<<"a2">>}, {}, {"r2"})>>)}
N == INSTANCE PlanRules WITH Proposals <- Waving \cup Faulty \cup Offering,
                             input <- s1, plan <- s2, graph <- s3, read <- s4

-----------------------------------------------------------------------------
(* GraphUpkeep: edits of relations, findings of the audit, evaluations.    *)
Vertex(type, status) ==
    [type |-> type, status |-> status, source |-> "human", stamp |-> 0, action |-> "none", kind |-> "none", subjects |-> {},
     passed |-> FALSE, code |-> 0, gate |-> "none", iteration |-> 0]
Arc(type, src, dst) == [type |-> type, src |-> src, dst |-> dst, by |-> "edge"]
NodeA == <<"task", "a">>
NodeB == <<"task", "b">>
NodeR == <<"requirement", "r">>
NodeT == <<"test", "t">>
Iter == <<"iteration", "1">>
Typed == (NodeA :> "Task") @@ (NodeB :> "Task") @@ (NodeR :> "Requirement") @@ (NodeT :> "Test") @@ (Iter :> "Iteration")
Vertices(ids) == [n \in ids \cup {Iter} |-> Vertex(Typed[n], "accepted")]
Traced == {Arc("IMPLEMENTS", NodeA, NodeR), Arc("VERIFIES", NodeT, NodeR)}
NoRuns == [r \in {} |-> NodeA]
Scene(nodes, edges, ops, editable, revisable, ran, max) ==
    [nodes |-> nodes, edges |-> edges, ops |-> ops, editable |-> editable, revisable |-> revisable, runs |-> ran, max |-> max]
GScenes ==
    {Scene(Vertices({NodeA, NodeB, NodeR}), {}, {"propose", "suggest", "approve", "revise", "code", "crash"},
           {Arc("MAY_IMPACT", NodeA, NodeR), Arc("DEPENDS_ON", NodeA, NodeB), Arc("DEPENDS_ON", NodeB, NodeA),
            Arc("IMPLEMENTS", NodeR, NodeA)}, {NodeA}, NoRuns, 5),
     Scene(Vertices({NodeA, NodeR, NodeT}), Traced, {"audit", "reconcile", "gate", "prove", "iterate", "revise"}, {}, {NodeA}, NoRuns, 5),
     Scene(Vertices({NodeT}), {}, {"audit", "accept", "close", "supersede", "look", "gate", "code"}, {}, {}, NoRuns, 4),
     Scene(Vertices({NodeA}) @@ [r \in {<<"run", "1">>, <<"run", "2">>} |-> Vertex("Run", "accepted")], {},
           {"evaluate", "backfill", "reconcile", "run"}, {}, {},
           [r \in {<<"run", "1">>, <<"run", "2">>} |-> NodeA], 5)}
GFacts == NodeT :> [statement |-> "none", layer |-> "none", domains |-> {}, frontend |-> FALSE, entries |-> {}, mentions |-> {}, gates |-> {"unit"}]
G == INSTANCE GraphUpkeep WITH Clients <- {"c1", "c2"}, Scenes <- GScenes, Facts <- GFacts,
         scene <- s1, graph <- s2, files <- s3, runs <- s4, world <- s5, seen <- s6, client <- s7, settled <- s8

-----------------------------------------------------------------------------
(* RunEvaluation: runs of a few steps with a budget of four.               *)
Case(expected, mandatory, thresholds) == [expected |-> expected, mandatory |-> mandatory, thresholds |-> thresholds]
NoOverride == [d \in {} |-> 0]
ESpecs ==
    {Case({"handoff"}, {}, NoOverride), Case({}, {}, NoOverride), Case({"handoff"}, {"tone"}, NoOverride),
     Case({"handoff", "success"}, {"safety"}, [safety |-> 101]),
     Case({"failed", "correct_block"}, {"correct_failure", "outcome"}, NoOverride),
     Case({"handoff", "failed"}, {"outcome", "trajectory", "efficiency"}, [trajectory |-> 50, efficiency |-> 50]),
     Case({"success"}, {"trajectory", "correct_failure", "safety"}, NoOverride)}
Good == [invalid |-> FALSE, repeated |-> FALSE]
Bad == [invalid |-> TRUE, repeated |-> FALSE]
Worst == [invalid |-> TRUE, repeated |-> TRUE]
Used(dimension, used) == [dimension |-> dimension, used |-> used, limit |-> 4]
ERuns ==
    {[outcome |-> end[1], termination |-> end[2], undeclared |-> wrote, claimed |-> claimed,
      visibility |-> IF shown THEN "full" ELSE "summarized", exposed |-> shown, steps |-> steps, calls |-> Len(steps),
      tokens |-> usage[1], duration |-> usage[2], observations |-> usage[3],
      budget |-> [tokens |-> 4, duration |-> 4, steps |-> 4]] :
       end \in {<<"handoff", "completion">>, <<"failed", "timeout">>, <<"failed", "completion">>, <<"success", "completion">>,
                <<"correct_block", "policy_denial">>},
       wrote \in BOOLEAN, claimed \in BOOLEAN, shown \in BOOLEAN,
       steps \in {<<>>, <<Good>>, <<Bad, Good>>, <<Worst, Good, Good, Good>>},
       usage \in {<<-1, 1, {}>>, <<3, 1, {}>>, <<1, 6, {}>>, <<1, 1, {Used("tokens", -1)}>>,
                  <<1, 1, {Used("tokens", -1), Used("steps", 3)}>>}}
Judged(dimension, passed) ==
    [dimension |-> dimension, scorer |-> FALSE, marked |-> FALSE, passed |-> passed, confidence |-> 80]
EJudges == {{}, {Judged("outcome", TRUE), Judged("trajectory", FALSE)}, {[Judged("safety", TRUE) EXCEPT !.confidence = -1]},
            {[Judged("safety", TRUE) EXCEPT !.marked = TRUE]}}
E == INSTANCE RunEvaluation WITH Specs <- ESpecs, Runs <- ERuns, JudgeSets <- EJudges,
                                 kase <- s1, run <- s2, report <- s3

-----------------------------------------------------------------------------
(* TaskVerdict: one or two assertions, two gates.                          *)
Asserted(tested, gates, needs) == [tested |-> tested, gates |-> gates, needs |-> needs]
Judging(assertions, evaluated, tdd, mode) ==
    [assertions |-> assertions, evaluated |-> evaluated, tdd |-> tdd, mode |-> mode, refactor |-> FALSE, binding |-> FALSE]
One == [a |-> Asserted(TRUE, {"lint"}, {"gate_evidence"})]
Two == [a |-> Asserted(TRUE, {"lint"}, {"gate_evidence"}), b |-> Asserted(TRUE, {}, {"evaluation_evidence", "review"})]
VTasks ==
    {Judging(One, FALSE, FALSE, "required"), Judging(Two, TRUE, FALSE, "required"), Judging(Two, FALSE, FALSE, "required"),
     Judging([x \in {} |-> 0], FALSE, FALSE, "required"),
     Judging([a |-> Asserted(FALSE, {"lint", "unit"}, {})], FALSE, FALSE, "required"),
     Judging(One, FALSE, TRUE, "framework_bootstrap"), Judging(One, FALSE, TRUE, "not_applicable"),
     [Judging(One, FALSE, TRUE, "not_applicable") EXCEPT !.binding = TRUE],
     [Judging(One, FALSE, TRUE, "required") EXCEPT !.refactor = TRUE], Judging(One, TRUE, TRUE, "required")}
V == INSTANCE TaskVerdict WITH Tasks <- VTasks, Gates <- {"lint", "unit"}, MaxEvidence <- 2, MaxCycles <- 2, MaxRevisions <- 2,
         task <- s1, gates <- s2, evaluation <- s3, tdd <- s4, used <- s5, files <- s6, node <- s7, last <- s8

-----------------------------------------------------------------------------
(* FeedbackLoop: every rule of the root cause, without and with candidates.*)
Signal(origin, kind, layer, risk, hint) ==
    [origin |-> origin, errorKind |-> kind, gateLayer |-> layer, highRisk |-> risk, hint |-> hint]
Offer(finding, cited, confidence, risk) ==
    [finding |-> finding, cited |-> cited, candidates |-> {[confidence |-> confidence, risk |-> risk]}]
FSignals == {Signal("evaluation", "none", "none", FALSE, "none"), Signal("test", "policy", "project", TRUE, "none"),
             Signal("test", "tool", "stack", FALSE, "none"), Signal("test", "none", "project", FALSE, "none"),
             Signal("test", "none", "stack", FALSE, "none"), Signal("test", "none", "universal", FALSE, "none"),
             Signal("runtime", "none", "none", FALSE, "none"), Signal("runtime", "none", "none", TRUE, "spec")}
FOutputs == {Offer("proposed", TRUE, 80, "low"), Offer("proposed", TRUE, 80, "high"), Offer("proposed", FALSE, 90, "low"),
             Offer("accepted", TRUE, 60, "low")}
FContents == {[layer |-> "spec", text |-> 1], [layer |-> "spec", text |-> 2]}
Feed == INSTANCE FeedbackLoop WITH Signals <- FSignals, Bindings <- {"b1", "b2"}, Outputs <- FOutputs, Contents <- {},
         Actors <- {"ann"}, Targets <- {"Test"}, MaxCode <- 2, MaxRequests <- 0,
         signal <- s1, finding <- s2, code <- s3, rca <- s4, pending <- s5, analyses <- s6, told <- s7, promotion <- s8
Promo == INSTANCE FeedbackLoop WITH Signals <- {Signal("test", "none", "universal", FALSE, "none")}, Bindings <- {}, Outputs <- {},
         Contents <- FContents, Actors <- {"ann", "bob"}, Targets <- {"Test", "Task"}, MaxCode <- 1, MaxRequests <- 2,
         signal <- s1, finding <- s2, code <- s3, rca <- s4, pending <- s5, analyses <- s6, told <- s7, promotion <- s8

-----------------------------------------------------------------------------
(* WaveIntegration: a wave of two tasks, then a wave of one.               *)
W == INSTANCE WaveIntegration WITH Waves <- <<<<"t1", "t2">>, <<"t3">>>>, NeedsApproval <- TRUE, FindingsReadBack <- TRUE,
         LostAcks <- FALSE, MaxCommits <- 4, MaxBoots <- 3, MaxRuns <- 2, MaxFaults <- 2, MaxClock <- 1, MaxDrift <- 1,
         ref <- s1, parent <- s2, accepted <- s3, lease <- s4, evidence <- s5, published <- s6, findings <- s7, requests <- s8,
         approved <- s9, pc <- s10, recovered <- s11, cand <- s12, todo <- s13, fresh <- s14, decided <- s15, seen <- s16,
         clock <- s17, boots <- s18, runs <- s19, faults <- s20, drifts <- s21

-----------------------------------------------------------------------------
\* Slots a part does not use stay 0.
F15 == s15 = 0 /\ s16 = 0 /\ s17 = 0 /\ s18 = 0 /\ s19 = 0 /\ s20 = 0 /\ s21 = 0
F14 == s14 = 0 /\ F15
F13 == s13 = 0 /\ F14
F12 == s12 = 0 /\ F13
F11 == s11 = 0 /\ F12
F10 == s10 = 0 /\ F11
F9 == s9 = 0 /\ F10
F8 == s8 = 0 /\ F9
F7 == s7 = 0 /\ F8
F6 == s6 = 0 /\ F7
F5 == s5 = 0 /\ F6
F4 == s4 = 0 /\ F5
R15 == <<s15, s16, s17, s18, s19, s20, s21>>
R14 == <<s14, R15>>
R13 == <<s13, R14>>
R12 == <<s12, R13>>
R11 == <<s11, R12>>
R10 == <<s10, R11>>
R9 == <<s9, R10>>
R8 == <<s8, R9>>
R7 == <<s7, R8>>
R6 == <<s6, R7>>
R5 == <<s5, R6>>
R4 == <<s4, R5>>

MCInit ==
    \/ active = "approvals" /\ A!Init /\ F11
    \/ active = "capture" /\ Cap!Init /\ F13
    \/ active = "capture_long" /\ CapLong!Init /\ F13
    \/ active = "invocations" /\ I!Init /\ F8
    \/ active = "execution" /\ X!Init /\ F15
    \/ active = "workflow" /\ Engine!Init /\ F7
    \/ active = "prd" /\ P!Init /\ F6
    \/ active = "plans" /\ C!Init /\ F6
    \/ active = "policy" /\ L!Init /\ F5
    \/ active = "planning" /\ N!Init /\ F5
    \/ active = "graph" /\ G!Init /\ F9
    \/ active = "evaluation" /\ E!Init /\ F4
    \/ active = "verdict" /\ V!Init /\ F9
    \/ active = "feedback" /\ Feed!Init /\ F9
    \/ active = "promotion" /\ Promo!Init /\ F9
    \/ active = "waves" /\ W!Init

\* Parts that may stop for good; the others are checked for deadlock.
MayStop == {"prd", "plans", "policy", "planning", "graph", "evaluation", "verdict", "feedback", "promotion", "waves"}

MCNext ==
    \/ active = "approvals" /\ A!Next /\ UNCHANGED <<active, R11>>
    \/ active = "capture" /\ Cap!Next /\ UNCHANGED <<active, R13>>
    \/ active = "capture_long" /\ CapLong!Next /\ UNCHANGED <<active, R13>>
    \/ active = "invocations" /\ I!Next /\ UNCHANGED <<active, R8>>
    \/ active = "execution" /\ X!Next /\ UNCHANGED <<active, R15>>
    \/ active = "workflow" /\ Engine!Next /\ UNCHANGED <<active, R7>>
    \/ active = "workflow" /\ s6 = EngineCalls /\ UNCHANGED vars
    \/ active = "prd" /\ P!Next /\ UNCHANGED <<active, R6>>
    \/ active = "plans" /\ C!Next /\ UNCHANGED <<active, R6>>
    \/ active = "policy" /\ L!Next /\ UNCHANGED <<active, R5>>
    \/ active = "planning" /\ N!Next /\ UNCHANGED <<active, R5>>
    \/ active = "graph" /\ G!Next /\ UNCHANGED <<active, R9>>
    \/ active = "evaluation" /\ E!Next /\ UNCHANGED <<active, R4>>
    \/ active = "verdict" /\ V!Next /\ UNCHANGED <<active, R9>>
    \/ active = "feedback" /\ Feed!Next /\ UNCHANGED <<active, R9>>
    \/ active = "promotion" /\ Promo!Next /\ UNCHANGED <<active, R9>>
    \/ active = "waves" /\ W!Next /\ UNCHANGED active
    \/ active \in MayStop /\ UNCHANGED vars
MCSpec == MCInit /\ [][MCNext]_vars

-----------------------------------------------------------------------------
(* The parts' properties; each is stated and explained in its module.     *)

\* Approvals: one pending request or one terminal decision per object, by
\* somebody else than its proposer; a retried materialisation is replayed; a
\* blocked operation names the request it waits for.
ApprovalsStand ==
    active = "approvals" =>
      A!OneHeadPerObject /\ A!NotSelfApproved /\ A!RetryReplays /\ A!BlockedNamesPending

\* Capture: a session asks for approval only of a proposal its facts are
\* about, runs no stage after a binding it used is gone, is accepted only with
\* its PRD, and once denied is only ever cancelled.
CaptureIsBound ==
    /\ [](active = "capture" => Cap!ApprovalIsBound /\ Cap!BindingsOnlyGrow /\ Cap!AcceptedHasItsPrd)
    /\ [](active = "capture_long" => CapLong!ApprovalIsBound /\ CapLong!AcceptedHasItsPrd)
    /\ [][(active = "capture" \/ active = "capture_long") /\ s1.rev > 0
             /\ s1.state = "blocked" /\ s1.reason = "risk_policy_denied"
             => s1' = s1 \/ s1'.state = "cancelled"]_vars

\* ModelInvocation: a value is consumed once and under the key it was produced
\* for, and a consumed or failed invocation calls no provider again.
InvocationsAreSealed ==
    /\ [](active = "invocations" => I!ValueKeepsKey /\ I!ConsumedIsSealed)
    /\ [][active = "invocations" /\ s5' # s5
             => ~\E r \in I!Records : r.id = s5'[1] /\ r.state \in {"consumed", "failed"}]_vars

\* PlanExecution, Workflow: a run starts under an authorization of exactly what
\* it does, asked for once per configuration, and with the context that was
\* due; a run that was interrupted has one successor.
RunsAreAuthorized ==
    /\ active = "execution" =>
         X!EnvelopeIsAuthorized /\ X!EnrichedBeforeRunning /\ X!AskedOncePerConfiguration
    /\ active = "workflow" => Engine!OneSuccessor

\* PrdStages: entity ids mean one thing for a whole session, the current
\* proposal has its lineage through crashes, the manual form asks what the
\* gates would flag, and more risk never makes for an easier approval.
ProposalsKeepIdentity ==
    active = "prd" =>
      /\ P!IdsKeepTheirKind /\ P!CriterionKeepsItsId /\ P!CurrentProposalHasLineage
      /\ P!FormAsksWhatGatesFlag /\ P!RiskIsMonotone

\* CapabilityPlans: a node's inputs are made before it, a final plan has all
\* its profile and policy require, the plans of an operation rest on one
\* decision, and a decision the policy allows compiles under it.  The last is
\* about the constants alone: the initial state, without a profile, decides it.
PlansMeetTheirDecision ==
    active = "plans" =>
      /\ C!InputsComeFromUpstream /\ C!FinalMeetsRequirements /\ C!PlansShareTheirDecision
      /\ s1 = <<>> => C!AllowedIsCompilable


\* PlanRules: the tasks of a wave may run side by side, none waits for a wave
\* it could have joined, a plan is read only beside its own projection, and
\* one task asserts a criterion.
PlanningIsSafe ==
    active = "planning" =>
      N!WavesAreSafe /\ N!NoIdleWaiting /\ N!ReadsBackExactly /\ N!CriteriaHaveOneOwner



\* WaveIntegration: an accepted wave has passed Evidence for every task on the
\* commit it names and the approval of the very action; the operation ref holds
\* the last accepted commit or a validated candidate on top of it, a run that
\* returns leaves nothing unsealed, and nobody else's ref is overwritten.
WavesAreEarned ==
    /\ [](active = "waves" =>
            /\ W!AcceptedWasValidated /\ W!ApprovalBindsAcceptance
            /\ W!RefAtFrontier /\ W!ReturnLeavesRefSealed)
    /\ [][active = "waves" => W!ForeignRefStays]_vars
=============================================================================
