---------------------------- MODULE ProfileRules ----------------------------
(***************************************************************************)
(* The profile registry: the three governance tiers, what each requires,   *)
(* which risk signals call for which tier, and what the project policy     *)
(* lets anyone decide.  (packages/core/src/profile)                        *)
(***************************************************************************)
EXTENDS Naturals, FiniteSets

ProfileIds == {"lite", "standard", "governed"}

\* profileRank
Rank(profile) == CASE profile = "lite" -> 0 [] profile = "standard" -> 1 [] profile = "governed" -> 2

Capabilities == {"impact_analysis", "design_governance", "independent_evaluation", "strict_tdd", "advanced_audit"}

\* PROFILE_DEFINITIONS: the mode of every capability in a tier.
Definition(profile) ==
    [c \in Capabilities |->
        CASE profile = "lite" -> "conditional"
          [] profile = "standard" -> IF c \in {"strict_tdd", "advanced_audit"} THEN "conditional" ELSE "required"
          [] profile = "governed" -> "required"]

\* PROFILE_DEFINITIONS_1_3: protocol 1.3 adds the parallel executor.
Parallel == "parallel_task_execution"
Definition13(profile) ==
    [c \in Capabilities \cup {Parallel} |->
        IF c # Parallel THEN Definition(profile)[c] ELSE IF profile = "lite" THEN "disabled" ELSE "required"]

\* PROFILE_RECOMMENDATION_TRIGGERS: the tier a risk signal calls for.
StandardTriggers ==
    {"cross_component_change", "public_api_change", "data_schema_or_migration_change",
     "security_or_supply_chain_surface", "medium_high_impact_uncertainty",
     "independent_evaluation_or_design_contract_required", "insufficient_gate_foundation"}
GovernedTriggers ==
    {"critical_risk", "regulatory_or_audit_constraint", "irreversible_external_effect",
     "production_or_sensitive_data_access", "policy_mandated_governance"}

\* recommendProfileUpgrade: the lowest tier that covers every signal.
RecommendedProfile(triggers) ==
    CASE triggers \cap GovernedTriggers # {} -> "governed"
      [] triggers \cap StandardTriggers # {} -> "standard"
      [] OTHER -> "lite"
UpgradeRequired(current, triggers) == Rank(RecommendedProfile(triggers)) > Rank(current)

\* assertPolicyAllows: what the project policy lets anyone decide.
PolicyAllows(policy, profile) ==
    /\ Rank(profile) >= Rank(policy.minimum)
    /\ \A c \in policy.required : Definition(profile)[c] # "disabled"
    /\ \A c \in policy.denied : Definition(profile)[c] # "required"

\* createProfileDecisionRecord: which decisions are recorded.  A decision's
\* bound is the set of digests it binds.
DecisionAccepted(d, policy) ==
    /\ d.kind = "keep" => d.decided = d.current
    /\ d.kind = "temporary_upgrade" => /\ Rank(d.decided) > Rank(d.current)
                                       /\ {"iteration", "requirement", "risk", "scope"} \subseteq d.bound
    /\ d.kind = "override_recommendation" =>
            {"reason", "recommendation", "iteration", "requirement", "risk", "scope"} \subseteq d.bound
    /\ PolicyAllows(policy, d.decided)
=============================================================================
