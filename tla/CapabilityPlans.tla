--------------------------- MODULE CapabilityPlans ---------------------------
(***************************************************************************)
(* Project profiles, the decisions behind them and the capability plans    *)
(* compiled from them.  A process reads the latest profile and a decision  *)
(* for it when it starts, compiles the operation's first plan, and on the  *)
(* standard tier replaces it by a final one once a design set is accepted. *)
(* Profiles may be changed meanwhile by another process.                   *)
(* (core/src/capability, core/src/profile, cli/src/capability-plan-compiler,*)
(* cli/src/runtime/configuration-service, kernel-coordinator.ts)           *)
(*                                                                         *)
(* The compiler's errors are the set of the reasons to refuse an input:    *)
(* it throws the first, and no plan is made either way.                    *)
(***************************************************************************)
EXTENDS Naturals, Sequences, SequencesExt, ProfileRules

CONSTANTS
    Inputs,        \* [policy, activations, configs, providers, protocol] given to the compiler
    Decisions,     \* decision inputs a library caller may record, with their policy
    MaxRevisions,  \* bound on profile revisions
    MaxStarts      \* bound on the processes that drive the operation

VARIABLES
    profiles,      \* profile revisions, oldest first
    decisions,     \* decision records in the order of decided_at
    plans,         \* plan revisions of the operation, oldest first
    design,        \* 0, or the accepted design set
    proc           \* the process driving the operation, and how many there were

vars == <<profiles, decisions, plans, design, proc>>

-----------------------------------------------------------------------------
\* CAPABILITY_MODULE_DEFINITIONS, and the module protocol 1.3 adds.
Module(depends, providers, in, out, boundary, approvals) ==
    [depends |-> depends, providers |-> providers, in |-> in, out |-> out, boundary |-> boundary, approvals |-> approvals]
Isolated == {"isolated_workspace_provider", "structured_gate_provider"}
Modules ==
    [impact_analysis |-> Module({}, {}, {"requirement_baseline"}, {"impact_set"}, "impact", {"impact_set"}),
     design_governance |-> Module({"impact_analysis"}, {}, {"impact_set"}, {"design_set"}, "design", {"design_set"}),
     independent_evaluation |-> Module({}, {}, {"gate_evidence"}, {"evaluation_report"}, "evaluate", {}),
     strict_tdd |-> Module({"design_governance"}, Isolated, {"design_set"}, {"tdd_contract"}, "execute", {}),
     advanced_audit |-> Module({}, {}, {"snapshot"}, {"audit_report"}, "audit", {}),
     parallel_task_execution |-> Module({}, Isolated, {"execution_plan", "context_bundle"}, {"wave_integration"}, "execute", {})]

\* registeredCapabilityIds
Registered(protocol) == IF protocol = "1.3.0" THEN DOMAIN Modules ELSE DOMAIN Modules \ {Parallel}

\* dependencyClosure: what was asked for and all it depends on.
Closure(S) ==
    LET after[n \in 0..Cardinality(DOMAIN Modules)] ==
            IF n = 0 THEN S ELSE LET known == after[n - 1] IN known \cup UNION {Modules[c].depends : c \in known}
    IN  after[Cardinality(DOMAIN Modules)]

-----------------------------------------------------------------------------
\* resolveCapabilities, for one capability.  Activations map a capability to
\* its source.
Mode(profile, protocol, c) == IF protocol = "1.3.0" THEN Definition13(profile)[c] ELSE Definition(profile)[c]
Entry(resolution, source) == [resolution |-> resolution, source |-> source]
ResolveCapability(c, profile, input) ==
    CASE c \in input.policy.denied -> Entry("inactive_by_profile", "policy_denied")
      [] Mode(profile, input.protocol, c) = "required" -> Entry("active", "profile_required")
      [] profile = "standard" /\ c = "strict_tdd" -> Entry("deferred", "awaiting_design_set")
      [] c \in input.policy.required -> Entry("active", "policy_required")
      [] c \in input.activations /\ Mode(profile, input.protocol, c) # "disabled" -> Entry("active", "activation")
      [] OTHER -> Entry("inactive_by_profile", "conditional_inactive")
PolicyConflict(profile, input) ==
    \E c \in input.policy.denied \cap Registered(input.protocol) : Mode(profile, input.protocol, c) = "required"

\* compileCapabilityPlan: after finalisation, and after the closure.
Finalised(profile, stage, input) ==
    [c \in Registered(input.protocol) |->
        LET e == ResolveCapability(c, profile, input) IN
        IF stage = "final" /\ profile = "standard" /\ c = "strict_tdd" /\ e.resolution # "inactive_by_profile"
        THEN Entry("active", "design_set_finalization") ELSE e]
ActiveIn(entries) == {c \in DOMAIN entries : entries[c].resolution = "active"}
Resolved(profile, stage, input) ==
    LET entries == Finalised(profile, stage, input)
        closure == Closure(ActiveIn(entries))
    IN  [c \in DOMAIN entries |-> IF c \in closure /\ entries[c].resolution # "active"
                                  THEN Entry("active", "dependency_closure") ELSE entries[c]]

-----------------------------------------------------------------------------
\* compileModelProviderBindings.  A slot is named by its scope key.
CaptureSlots == {"grounded_synthesis:approval_brief", "grounded_synthesis:project_discovery"}
OperationSlots == {"impact_advisory", "design_review", "plan_proposal", "feedback_analysis",
                   "grounded_synthesis:context_enrichment", "grounded_synthesis:iteration_narrative"}
Requires(slot) == CASE slot = "impact_advisory" -> {"impact_analysis"}
                    [] slot = "design_review" -> {"design_governance"}
                    [] OTHER -> {}
Applicable(active) == {s \in OperationSlots : Requires(s) \subseteq active}
\* PROFILE_SLOT_MATRIX: every slot is required above lite, and what a lite
\* project activates needs its model too.
FailureMode(slot) == IF slot = "grounded_synthesis:iteration_narrative" THEN "projection_finding" ELSE "block"
RequiredSlot(slot, profile) == profile # "lite" \/ Requires(slot) # {}
BindingErrors(profile, active, configs) ==
    LET slots == {c.slot : c \in configs}
        check(reason, failed) == IF failed THEN {reason} ELSE {}
    IN  check("prompt_contract_digest_mismatch", \E c \in configs : c.handFilled)
        \cup check("unknown_slot", ~(slots \subseteq OperationSlots \cup CaptureSlots))
        \cup check("capture_scope_slot", slots \cap CaptureSlots # {})
        \cup check("provider_config_conflict", \E c, d \in configs : c # d /\ c.slot = d.slot)
        \cup check("missing_model_provider", \E s \in Applicable(active) \ slots : RequiredSlot(s, profile))
        \cup check("invalid_failure_mode", \E c \in configs : c.mode \notin {"default", FailureMode(c.slot)})
        \cup check("prompt_contract_required", \E c \in configs : ~c.contract)
        \cup check("slot_not_applicable", ~(slots \subseteq Applicable(active)))

-----------------------------------------------------------------------------
\* buildOperationDag
Node(id, depends, in, out) == [id |-> id, depends |-> depends, in |-> in, out |-> out]
ModuleNode(c, depends) == Node(Modules[c].boundary, depends, Modules[c].in, Modules[c].out)
If(active, c, S) == IF c \in active THEN S ELSE {}
PlanDepends(active) ==
    {"capability_decision"} \cup If(active, "impact_analysis", {"impact"}) \cup If(active, "design_governance", {"design"})
BuildOperationDag(active) ==
    {Node("capture", {}, {}, {"requirement_baseline"}),
     Node("capability_decision", {"capture"}, {"requirement_baseline"}, {}),
     Node("plan", PlanDepends(active),
          {"requirement_baseline"} \cup If(active, "impact_analysis", {"impact_set"})
                      \cup If(active, "design_governance", {"design_set"}), {"execution_plan"}),
     Node("context", {"plan"}, {"execution_plan"} \cup If(active, "design_governance", {"design_set"}), {"context_bundle"}),
     Node("execute", {"context"},
          {"context_bundle"} \cup If(active, "strict_tdd", {"design_set"}) \cup If(active, Parallel, {"execution_plan"}),
          If(active, "strict_tdd", {"tdd_contract"}) \cup If(active, Parallel, {"wave_integration"})),
     Node("verify", {"execute"}, {"context_bundle"}, {"gate_evidence"}),
     Node("snapshot", {"verify"} \cup If(active, "independent_evaluation", {"evaluate"}),
          {"gate_evidence"} \cup If(active, "independent_evaluation", {"evaluation_report"}), {"snapshot"})}
    \cup If(active, "impact_analysis", {ModuleNode("impact_analysis", {"capability_decision"})})
    \cup If(active, "design_governance", {ModuleNode("design_governance", {"impact"})})
    \cup If(active, "independent_evaluation", {ModuleNode("independent_evaluation", {"verify"})})
    \cup If(active, "advanced_audit", {ModuleNode("advanced_audit", {"snapshot"})})

DependsOn(nodes, ids) == UNION {n.depends : n \in {m \in nodes : m.id \in ids}}
Upstream(nodes, id) ==
    LET after[n \in 0..Cardinality(nodes)] ==
            IF n = 0 THEN DependsOn(nodes, {id}) ELSE LET known == after[n - 1] IN known \cup DependsOn(nodes, known)
    IN  after[Cardinality(nodes)]

\* validateOperationDag
ValidDag(nodes) ==
    /\ \A m, n \in nodes : m.id = n.id => m = n
    /\ \A n \in nodes : n.depends \subseteq {m.id : m \in nodes}
    /\ \A n \in nodes : n.id \notin Upstream(nodes, n.id)
    /\ \A m, n \in nodes : m.out \cap n.out # {} => m = n
    /\ \A n \in nodes : n.in \subseteq UNION {m.out : m \in nodes}

-----------------------------------------------------------------------------
\* compileCapabilityPlan.  previous is <<>> or the plan it supersedes; the
\* profile and the decision are revisions and numbers of their records.
CompileErrors(stage, revision, decision, input, previous) ==
    LET profile == profiles[revision]
        active == ActiveIn(Resolved(profile, stage, input))
        check(reason, failed) == IF failed THEN {reason} ELSE {}
    IN  check("illegal_provisional_stage", stage = "provisional" /\ profile # "standard")
        \cup check("provisional_required", stage = "final" /\ profile = "standard" /\ previous = <<>>)
        \cup check("supersede_mismatch",
                   \E p \in ToSet(previous) : \/ p.stage # "provisional" \/ p.profile # revision
                                              \/ p.decision # decision \/ p.input.policy # input.policy)
        \cup check("unknown_capability", ~(input.activations \subseteq Registered(input.protocol)))
        \cup check("policy_conflict", PolicyConflict(profile, input))
        \cup check("policy_deny_not_overridable", input.policy.denied \cap input.activations # {})
        \cup check("design_set_required",
                   /\ stage = "final" /\ profile = "standard" /\ design = 0
                   /\ ResolveCapability("strict_tdd", profile, input).resolution # "inactive_by_profile")
        \cup check("missing_provider", ~(UNION {Modules[c].providers : c \in active} \subseteq input.providers))
        \cup BindingErrors(profile, active, input.configs)
        \cup check("dag", ~ValidDag(BuildOperationDag(active)))

\* A 1.3 plan is only emitted when the parallel executor takes part.
CompilePlan(stage, revision, decision, input) ==
    LET resolved == Resolved(profiles[revision], stage, input)
        active == ActiveIn(resolved)
    IN  [stage |-> stage, profile |-> revision, decision |-> decision, input |-> input,
         protocol |-> IF Parallel \in active THEN "1.3.0" ELSE "1.1.0",
         capabilities |-> [c \in DOMAIN resolved \ (IF Parallel \in active THEN {} ELSE {Parallel}) |-> resolved[c]],
         slots |-> {c.slot : c \in input.configs},
         approvals |-> {"project_profile", "requirement_baseline"} \cup UNION {Modules[c].approvals : c \in active},
         nodes |-> BuildOperationDag(active),
         design |-> IF stage = "final" THEN design ELSE 0]

Active(plan) == {c \in DOMAIN plan.capabilities : plan.capabilities[c].resolution = "active"}

\* assertCapabilityPlanFinal
IsFinal(plan) ==
    plan.stage = "final" /\ \A c \in DOMAIN plan.capabilities : plan.capabilities[c].resolution # "deferred"

-----------------------------------------------------------------------------
NoProcess == [running |-> FALSE, profile |-> 0, decision |-> 0]
Init ==
    /\ profiles = <<>> /\ decisions = <<>> /\ plans = <<>> /\ design = 0
    /\ proc = [starts |-> 0, now |-> NoProcess]

\* persistInitialProfile and changeProjectProfile append the profile, then
\* its decision; a crash keeps the profile alone.
PutProfile(profile) ==
    /\ Len(profiles) < MaxRevisions
    /\ profiles # <<>> => profile # Last(profiles)
    /\ profiles' = Append(profiles, profile)
    /\ \/ decisions' = Append(decisions, [revision |-> Len(profiles) + 1, decided |-> profile])
       \/ UNCHANGED decisions
    /\ UNCHANGED <<plans, design, proc>>

\* profileAndDecision: the latest profile and the last decision for its tier.
DecisionsFor(profile) == {k \in DOMAIN decisions : decisions[k].decided = profile}
LastDecisionOfAny(profile) == Len(decisions)
LastDecision(profile) == CHOOSE k \in DecisionsFor(profile) : \A j \in DecisionsFor(profile) : j <= k

\* A process starts driving the operation.  It reads the profile once.
Start ==
    /\ ~proc.now.running /\ proc.starts < MaxStarts /\ profiles # <<>>
    /\ DecisionsFor(Last(profiles)) # {}
    /\ proc' = [starts |-> proc.starts + 1,
                now |-> [running |-> TRUE, profile |-> Len(profiles), decision |-> LastDecision(Last(profiles))]]
    /\ UNCHANGED <<profiles, decisions, plans, design>>

\* The process ends: it is done, it crashes, or a refused plan is thrown.
Stop ==
    /\ proc.now.running
    /\ proc' = [proc EXCEPT !.now = NoProcess]
    /\ UNCHANGED <<profiles, decisions, plans, design>>

\* ensureInitialCapabilityPlan, when the operation has no plan yet.
EnsureInitial ==
    LET stage == IF profiles[proc.now.profile] = "standard" THEN "provisional" ELSE "final"
    IN  /\ proc.now.running /\ plans = <<>>
        /\ \E input \in Inputs :
              IF CompileErrors(stage, proc.now.profile, proc.now.decision, input, <<>>) = {}
              THEN plans' = <<CompilePlan(stage, proc.now.profile, proc.now.decision, input)>> /\ UNCHANGED proc
              ELSE proc' = [proc EXCEPT !.now = NoProcess] /\ UNCHANGED plans
        /\ UNCHANGED <<profiles, decisions, design>>

\* The design node accepts a design set.
AcceptDesign ==
    /\ proc.now.running /\ plans # <<>> /\ design = 0
    /\ \E n \in Last(plans).nodes : n.id = "design"
    /\ design' = 1
    /\ UNCHANGED <<profiles, decisions, plans, proc>>

\* finalizeCapabilityPlan
Finalize ==
    /\ proc.now.running /\ plans # <<>> /\ Last(plans).stage # "final" /\ design # 0
    /\ \E input \in Inputs :
          IF CompileErrors("final", proc.now.profile, proc.now.decision, input, <<Last(plans)>>) = {}
          THEN plans' = Append(plans, CompilePlan("final", proc.now.profile, proc.now.decision, input)) /\ UNCHANGED proc
          ELSE proc' = [proc EXCEPT !.now = NoProcess] /\ UNCHANGED plans
    /\ UNCHANGED <<profiles, decisions, design>>

Next == (\E p \in ProfileIds : PutProfile(p)) \/ Start \/ Stop \/ EnsureInitial \/ AcceptDesign \/ Finalize
Spec == Init /\ [][Next]_vars

-----------------------------------------------------------------------------
\* Type invariant.
TypeOK ==
    /\ profiles \in Seq(ProfileIds) /\ Len(profiles) <= MaxRevisions /\ design \in {0, 1}
    /\ Len(plans) <= 2 /\ proc.starts \in 0..MaxStarts
    /\ \A k \in DOMAIN plans : plans[k].profile \in DOMAIN profiles /\ plans[k].decision \in DOMAIN decisions

\* Every node of a compiled DAG gets its inputs from nodes that run before
\* it: validateOperationDag only asks that some node produces them, and the
\* engine runs nodes in dependency order.
InputsComeFromUpstream ==
    \A k \in DOMAIN plans : \A n \in plans[k].nodes :
        LET upstream == Upstream(plans[k].nodes, n.id)
        IN  n.in \subseteq UNION {m.out : m \in {x \in plans[k].nodes : x.id \in upstream}}

\* A final plan meets what its profile and its policy require, with all that
\* these depend on and a model for every slot of an active capability above
\* lite; nothing is left deferred.
FinalMeetsRequirements ==
    \A k \in DOMAIN plans : plans[k].stage = "final" =>
        LET profile == profiles[plans[k].profile]
            input == plans[k].input
            wanted == {c \in Registered(input.protocol) : Mode(profile, input.protocol, c) = "required"} \cup input.policy.required
        IN  /\ Closure(wanted) \subseteq Active(plans[k]) /\ IsFinal(plans[k])
            /\ profile # "lite" => Applicable(Active(plans[k])) \subseteq plans[k].slots

\* The final plan of an operation rests on the profile and the decision of
\* the provisional one, however the profile was changed in between
\* (slim-profiles design 9.3: "provisional 与 final revision 使用同一
\* ProfileDecision"), and the decision was made for the profile's tier.
PlansShareTheirDecision ==
    \A k \in DOMAIN plans :
        /\ decisions[plans[k].decision].decided = profiles[plans[k].profile]
        /\ plans[k].profile = plans[1].profile /\ plans[k].decision = plans[1].decision

\* A capability the policy denies is never active: no profile, activation or
\* decision overrides a policy deny (slim-profiles design: "Policy deny
\* 永远不能被 Override").  The dependency closure activates it again.
DenialHolds == \A k \in DOMAIN plans : Active(plans[k]) \cap plans[k].input.policy.denied = {}

\* A decision the policy lets through can be compiled under that policy: the
\* two places that read the policy agree on what it rules out.
AllowedIsCompilable ==
    \A d \in Decisions, i \in Inputs :
        i.protocol = "1.1.0" /\ DecisionAccepted(d, i.policy) => ~PolicyConflict(d.decided, i)
=============================================================================
