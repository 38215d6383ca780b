------------------------------ MODULE PrdStages ------------------------------
(***************************************************************************)
(* The proposing, validating, reviewing and risk_assessing stages of one   *)
(* capture session: how an adapter's draft becomes a proposal with         *)
(* Harness-owned entity ids, how the hard gates judge it, how a review is  *)
(* turned into a report and how the risk engine routes the approval.       *)
(* Which stage runs when is the coordinator's business (module Capture);   *)
(* here the session only keeps the bindings these stages read and write.   *)
(* (packages/core/src/proposal, review and risk)                           *)
(*                                                                         *)
(* A digest is the value it digests.  An entity's wording is a number (0   *)
(* is blank) and a set of traits the gates can tell apart.  A name is a    *)
(* tuple, an id the name with the revision that minted it; a draft key of  *)
(* a new entity carries revision 0.                                        *)
(***************************************************************************)
EXTENDS Sequences, SequencesExt, ProfileRules

CONSTANTS
    Drafts,        \* what a model-backed proposal adapter may return
    Additions,     \* sets of entities a person may add to the manual form
    Intents,       \* what the protocol 1.0 interpreter may return
    Policies,      \* the capture risk policies of the project
    MaxRevisions,  \* bound on the proposals of the session
    MaxManual,     \* bound on manual review inputs
    MaxReviews,    \* bound on review reports: a blocked review may be repeated
    MaxAnswers,    \* bound on clarification rounds
    MaxCrashes,    \* bound on proposals left half written
    Contexts       \* versions of the compiled project context

VARIABLES
    session,       \* the bindings of the session: state, proposal, context, policy, route
    proposals,     \* proposal revisions, oldest first
    lineage,       \* entity lineage records
    manuals,       \* manual review inputs, oldest first
    reviews        \* review reports, oldest first

vars == <<session, proposals, lineage, manuals, reviews>>

NoEntity == [rev |-> 0, name |-> <<"none">>]
None == [problem |-> FALSE, entities |-> {}]
Current == IF proposals = <<>> THEN None ELSE Last(proposals).content
When(condition, S) == IF condition THEN S ELSE {}
OfKind(content, kind) == {e \in content.entities : e.kind = kind}
RefsTo(e, kind) == {r.to : r \in {x \in e.refs : x.kind = kind}}
CriteriaOf(content, id) == {c \in OfKind(content, "acceptance_criterion") : id \in RefsTo(c, "requirement")}

-----------------------------------------------------------------------------
\* From draft to proposal: createPrdProposalRecord.

\* Identity: a new entity is minted from the revision and its draft key, a
\* continued one keeps its id.
IdOf(e, n) == IF e.from = NoEntity THEN [rev |-> n, name |-> e.key.name] ELSE e.from

KindsOf(content, id) == {e.kind : e \in {x \in content.entities : x.id = id}}

DraftKeysUnique(d) == \A e, f \in d.entities : e.key = f.key => e = f

\* A continued id is one of the same kind in the previous proposal, and is
\* claimed once.
LineageUnclaimed(d, previous) ==
    \A e \in d.entities : e.from # NoEntity => e.kind \in KindsOf(previous, e.from)
LineageVerified(d, previous) ==
    /\ \A e \in d.entities : e.from # NoEntity => e.kind \in KindsOf(previous, e.from)
    /\ \A e, f \in d.entities : e.from = f.from /\ e.from # NoEntity => e = f

\* verifySourceBinding
Verifiable(b, previous) ==
    CASE b.source = "intent" -> TRUE
      [] b.source = "project_context" -> b.of = session.context
      [] b.source = "accepted_prd" ->
            proposals # <<>> /\ b.of \in 1..Len(proposals) /\ proposals[b.of].content = previous
      [] b.source = "clarification_answer" -> b.of \in 1..session.answers
      [] b.source \in {"validation_finding", "review_finding"} -> TRUE

\* resolveReference: a draft key of the expected kind, else an id of that
\* kind in the previous proposal.
InDraft(r, d) == {e \in d.entities : e.key = r.to}
Resolvable(r, d, previous) ==
    IF InDraft(r, d) # {} THEN \A e \in InDraft(r, d) : e.kind = r.kind ELSE r.kind \in KindsOf(previous, r.to)
Resolve(r, d, n) ==
    [r EXCEPT !.to = IF InDraft(r, d) # {} THEN IdOf(CHOOSE e \in InDraft(r, d) : TRUE, n) ELSE r.to]

Canonical(d, n) ==
    [problem |-> d.problem,
     entities |-> {[id |-> IdOf(e, n), kind |-> e.kind, text |-> e.text, traits |-> e.traits, bound |-> e.bound,
                    refs |-> {Resolve(r, d, n) : r \in e.refs}] : e \in d.entities}]

DraftAccepted(d, previous) ==
    /\ DraftKeysUnique(d)
    /\ LineageVerified(d, previous)
    /\ \A e \in d.entities : /\ \A b \in e.bound : Verifiable(b, previous)
                             /\ \A r \in e.refs : Resolvable(r, d, previous)

\* One lineage record per entity, at a path made of the content and the id.
LineageOf(d, n, content, previous) ==
    {[content |-> content, id |-> IdOf(e, n), kind |-> IF e.from = NoEntity THEN "new" ELSE "continues",
      previous |-> previous] : e \in d.entities}

-----------------------------------------------------------------------------
\* The adapters behind the proposal port.

\* prefillFromPrevious: every entity of the previous proposal, continued.
\* Without one the intent's own words are the problem statement.
Prefill ==
    IF proposals = <<>> THEN [problem |-> TRUE, entities |-> {}]
    ELSE [problem |-> Current.problem,
          entities |-> {[key |-> e.id, from |-> e.id, kind |-> e.kind, text |-> e.text, traits |-> e.traits,
                         bound |-> e.bound, refs |-> e.refs] : e \in Current.entities}]

\* missingItems: what the form shows as still to be filled in.
MissingItems(p) ==
    LET criteria(e) == {c \in OfKind(p, "acceptance_criterion") : e.key \in RefsTo(c, "requirement")}
    IN  When(~p.problem, {<<NoEntity, "problem_statement">>})
        \cup {<<NoEntity, k>> : k \in {x \in {"goals", "requirements"} :
                OfKind(p, IF x = "goals" THEN "goal" ELSE "requirement") = {}}}
        \cup {<<e.key, "acceptance_criteria">> : e \in {x \in OfKind(p, "requirement") : criteria(x) = {}}}
        \cup {<<e.key, "test_first_example">> : e \in {x \in OfKind(p, "requirement") :
                /\ criteria(x) # {} /\ "must_change" \in x.traits
                /\ \A c \in criteria(x) : "example" \notin c.traits}}
        \cup {<<e.key, "verification_intent">> : e \in {x \in OfKind(p, "constraint") : "unverified" \in x.traits}}

\* The draft a person hands in: the form with at most one entity dropped,
\* some added, and the problem statement given.
ManualDrafts ==
    {[problem |-> TRUE, entities |-> (Prefill.entities \ drop) \cup add] :
        drop \in {{}} \cup {{e} : e \in Prefill.entities}, add \in {{}} \cup Additions}

\* mapInterpretedIntent.  A criterion is known by its own wording and its
\* requirement's; twins are told apart by the order they occur in.
Positions(intent) == {<<i, j>> \in (1..Len(intent.requirements)) \X (1..4) : j <= Len(intent.requirements[i].acceptance)}
Signature(intent, p) == <<intent.requirements[p[1]].text, intent.requirements[p[1]].acceptance[p[2]]>>
Occurrence(intent, p) ==
    Cardinality({q \in Positions(intent) : /\ Signature(intent, q) = Signature(intent, p)
                                           /\ q[1] < p[1] \/ (q[1] = p[1] /\ q[2] <= p[2])})
\* previousCriterionClaims: criteria the 1.0 interface could have expressed.
SignedBy(content, signature) ==
    {c \in OfKind(content, "acceptance_criterion") :
        /\ c.traits = {} /\ c.text = signature[2]
        /\ \E r \in OfKind(content, "requirement") : r.id \in RefsTo(c, "requirement") /\ r.text = signature[1]}
Claims(content, signature) == SetToSeq({c.id : c \in SignedBy(content, signature)})
CriterionKey(intent, p) ==
    [rev |-> 0, name |-> <<"criterion", Signature(intent, p)[1], Signature(intent, p)[2], Occurrence(intent, p)>>]
RequirementKey(i) == [rev |-> 0, name |-> <<"requirement", i>>]
IntentBinding == {[source |-> "intent", of |-> 0]}
LegacyDraft(intent) ==
    [problem |-> FALSE,
     entities |->
        {[key |-> RequirementKey(i), from |-> NoEntity, kind |-> "requirement", text |-> intent.requirements[i].text,
          traits |-> {"must", "must_change"}, bound |-> IntentBinding,
          refs |-> {[kind |-> "acceptance_criterion", to |-> CriterionKey(intent, p)] :
                        p \in {q \in Positions(intent) : q[1] = i}}] : i \in 1..Len(intent.requirements)}
        \cup
        {LET claims == Claims(Current, Signature(intent, p))
             k == Occurrence(intent, p)
         IN  [key |-> CriterionKey(intent, p), from |-> IF k <= Len(claims) THEN claims[k] ELSE NoEntity,
              kind |-> "acceptance_criterion", text |-> intent.requirements[p[1]].acceptance[p[2]], traits |-> {},
              bound |-> IntentBinding, refs |-> {[kind |-> "requirement", to |-> RequirementKey(p[1])]}]
            : p \in Positions(intent)}
        \cup
        {[key |-> [rev |-> 0, name |-> <<"constraint", i>>], from |-> NoEntity, kind |-> "constraint",
          text |-> intent.constraints[i], traits |-> {"technical"}, bound |-> IntentBinding, refs |-> {}]
            : i \in DOMAIN intent.constraints}]

-----------------------------------------------------------------------------
\* The hard gates: runPrdHardGates.  A finding names the rule, the entity and
\* the missing dimension; the questions are the findings without the rule.

Finding(rule, e, dimension) == [rule |-> rule, target |-> e.id, dimension |-> dimension]
Section(dimension) == [rule |-> "required_sections", target |-> NoEntity, dimension |-> dimension]
Among(S, rule, dimension) == {Finding(rule, e, dimension) : e \in S}

RequiredSections(c) ==
    When(~c.problem, {Section("problem_statement")})
    \cup When(OfKind(c, "goal") = {}, {Section("goals")})
    \cup When(OfKind(c, "requirement") = {}, {Section("requirements")})
    \cup Among({e \in OfKind(c, "goal") \cup OfKind(c, "requirement") : e.text = 0}, "required_sections", "statement")

RequirementCriteria(c) ==
    Among({r \in OfKind(c, "requirement") : RefsTo(r, "acceptance_criterion") = {} \/ CriteriaOf(c, r.id) = {}},
          "requirement_criteria", "acceptance_criteria")

CriterionTestFirst(c) ==
    Among({r \in OfKind(c, "requirement") : /\ "must_change" \in r.traits /\ CriteriaOf(c, r.id) # {}
                                            /\ \A x \in CriteriaOf(c, r.id) : "example" \notin x.traits},
          "criterion_test_first", "test_first_example")

ConstraintVerification(c) ==
    Among({x \in OfKind(c, "constraint") : "unverified" \in x.traits}, "constraint_verification", "verification_intent")

\* The references the rule follows; the criteria a requirement lists are not
\* among them.
Followed(e) ==
    CASE e.kind = "requirement" -> {"scenario"}
      [] e.kind = "acceptance_criterion" -> {"requirement"}
      [] e.kind = "scenario" -> {"actor"}
      [] e.kind = "dependency" -> {"requirement"}
      [] OTHER -> {}
ReferenceIntegrity(c) ==
    {Finding("reference_integrity", x[1], x[2]) :
        x \in {y \in c.entities \X {"scenario", "requirement", "actor"} :
                 y[2] \in Followed(y[1]) /\ ~(RefsTo(y[1], y[2]) \subseteq {e.id : e \in OfKind(c, y[2])})}}

\* Of two criteria that say the same the later one is named, and of two
\* entries of a term the one that departs from the first.  A glossary
\* entry's text is its term, its traits are its definition.
StructuralConflict(c) ==
    LET criteria == SetToSeq(OfKind(c, "acceptance_criterion"))
        terms == SetToSeq(OfKind(c, "glossary_term"))
        alike(x, y) == x.text = y.text /\ x.traits = y.traits /\ RefsTo(x, "requirement") = RefsTo(y, "requirement")
        first(t) == SelectInSeq(terms, LAMBDA u : u.text = t.text)
    IN  Among({r \in OfKind(c, "requirement") : \E n \in OfKind(c, "non_goal") : n.text = r.text},
              "structural_conflict", "requirement_conflict")
        \cup Among({t \in OfKind(c, "glossary_term") : terms[first(t)].traits # t.traits},
                   "structural_conflict", "term_conflict")
        \cup Among({criteria[i] : i \in {k \in DOMAIN criteria : \E j \in 1..(k - 1) : alike(criteria[j], criteria[k])}},
                   "structural_conflict", "duplicate_criteria")

OpenQuestionBlocking(c) ==
    Among({q \in OfKind(c, "open_question") : "blocking" \in q.traits}, "open_question_blocking", "blocking_open_question")

TestFirstReadiness(c) ==
    Among({e \in OfKind(c, "requirement") \cup OfKind(c, "acceptance_criterion") :
               "vague" \in e.traits \/ (e.kind = "acceptance_criterion" /\ e.text = 0)},
          "test_first_readiness", "observable_outcome")
    \cup Among({e \in OfKind(c, "acceptance_criterion") : "tests_pass" \in e.traits},
               "test_first_readiness", "verification_intent")

AtomicCriterion(c) ==
    Among({e \in OfKind(c, "acceptance_criterion") : "compound" \in e.traits}, "atomic_criterion", "atomicity")

RiskScenarioCoverage(c) ==
    Among({r \in OfKind(c, "requirement") : /\ r.traits \cap {"must_change", "must"} # {} /\ "risky" \in r.traits
                                            /\ CriteriaOf(c, r.id) # {}
                                            /\ \A x \in CriteriaOf(c, r.id) : "failure_case" \notin x.traits},
          "risk_scenario_coverage", "failure_scenario")

Gates(c) ==
    UNION {RequiredSections(c), RequirementCriteria(c), CriterionTestFirst(c), ConstraintVerification(c),
           ReferenceIntegrity(c), StructuralConflict(c), OpenQuestionBlocking(c), TestFirstReadiness(c),
           AtomicCriterion(c), RiskScenarioCoverage(c)}

-----------------------------------------------------------------------------
\* The risk engine: assessCaptureRisk and routeCaptureApproval.

Levels == <<"low", "medium", "high", "critical">>
LevelRank(level) == CHOOSE i \in DOMAIN Levels : Levels[i] = level
\* An unknown impact is not assumed to be low; a risk's traits hold its
\* category and its impact, and "unsure" when its likelihood is unknown.
RiskSeverity(r) ==
    IF r.traits \cap {"low", "medium", "high", "critical"} = {} THEN "medium"
    ELSE CHOOSE l \in r.traits \cap {"low", "medium", "high", "critical"} : TRUE
FindingSeverity(f) == CASE f = "info" -> "low" [] f = "warning" -> "medium" [] f = "critical" -> "high"
Triggers(c, passed, findings) ==
    When(~passed, {"critical"}) \cup {RiskSeverity(r) : r \in OfKind(c, "risk")} \cup {FindingSeverity(f) : f \in findings}
MaxLevel(S) == IF S = {} THEN "low" ELSE CHOOSE l \in S : \A m \in S : LevelRank(m) <= LevelRank(l)

SensitiveRisks == {"security", "privacy", "compliance", "financial", "data_integrity", "migration"}
SensitiveConstraints == {"security", "compliance", "compatibility"}
Assess(c, passed, findings) ==
    LET risks == OfKind(c, "risk") IN
    [level |-> MaxLevel(Triggers(c, passed, findings)),
     confidence |-> CASE \E r \in risks : r.traits \cap {"unsure", "unknown"} # {} -> "low"
                      [] findings \ {"info"} # {} -> "medium"
                      [] OTHER -> "high",
     material |-> \/ \E r \in risks : r.traits \cap SensitiveRisks # {}
                  \/ \E x \in OfKind(c, "constraint") : x.traits \cap SensitiveConstraints # {}]

\* profileTriggerIds
ProfileTriggers(c, level) ==
    LET risks == UNION {r.traits : r \in OfKind(c, "risk")}
        constraints == UNION {x.traits : x \in OfKind(c, "constraint")}
    IN  When(level = "critical", {"critical_risk"})
        \cup When(level \in {"high", "medium"}, {"medium_high_impact_uncertainty"})
        \cup When((risks \cap {"security", "privacy"}) \cup (constraints \cap {"security"}) # {},
                  {"security_or_supply_chain_surface"})
        \cup When("compliance" \in risks \cup constraints, {"regulatory_or_audit_constraint"})
        \cup When(risks \cap {"data_integrity", "migration"} # {}, {"data_schema_or_migration_change"})
        \cup When("compatibility" \in risks \cup constraints, {"public_api_change"})

Route(c, passed, findings, policy) ==
    LET a == Assess(c, passed, findings) IN
    CASE a.level \in policy.deny -> "denied"
      [] UpgradeRequired(policy.profile, ProfileTriggers(c, a.level)) -> "upgrade_required"
      [] /\ a.level = "low" /\ ~a.material /\ a.confidence = "high"
         /\ policy.auto /\ policy.profile # "governed" -> "policy_auto"
      [] OTHER -> "human"

-----------------------------------------------------------------------------
\* The stages.

Init ==
    /\ session = [state |-> "proposing", proposal |-> None, context |-> 1, policy |-> CHOOSE p \in Policies : TRUE,
                  adapter |-> "none", route |-> "none", report |-> 0, crashes |-> 0, answers |-> 0]
    /\ proposals = <<>> /\ lineage = {} /\ manuals = <<>> /\ reviews = <<>>

\* appendPrdEntityLineageRecord: the same path with other bytes is refused,
\* and the store's error is not one the stage turns into a failure.
LineageConflict(records) ==
    {r \in records : \E l \in lineage : r.content = l.content /\ r.id = l.id /\ r # l}

\* The adapter behind the port is configured once for a session.
Proposing(adapter) ==
    session.state = "proposing" /\ Len(proposals) < MaxRevisions /\ session.adapter \in {"none", adapter}

\* propose: the draft is made canonical, the revision is appended, then its
\* lineage; the coordinator binds the proposal to the session.  A draft that
\* is refused leaves no record.  A crash, or a refused lineage record, leaves
\* the revision with none or some of its lineage.
Propose(d, adapter) ==
    LET n == Len(proposals) + 1
        content == Canonical(d, n)
        records == LineageOf(d, n, content, Current)
    IN  /\ Proposing(adapter)
        /\ UNCHANGED <<manuals, reviews>>
        /\ \/ /\ DraftAccepted(d, Current)
              /\ proposals' = Append(proposals, [content |-> content, by |-> adapter])
              /\ \/ /\ LineageConflict(records) = {}
                    /\ lineage' = lineage \cup records
                    /\ session' = [session EXCEPT !.state = "validating", !.proposal = content, !.adapter = adapter]
                 \/ /\ \E part \in {{}} \cup {{r} : r \in records \ LineageConflict(records)} : lineage' = lineage \cup part
                    /\ IF LineageConflict(records) # {} THEN session' = [session EXCEPT !.adapter = adapter]
                       ELSE /\ session.crashes < MaxCrashes
                            /\ session' = [session EXCEPT !.adapter = adapter, !.crashes = @ + 1]
           \/ /\ ~DraftAccepted(d, Current)
              /\ session' = [session EXCEPT !.state = "blocked", !.adapter = adapter]
              /\ UNCHANGED <<proposals, lineage>>

ProposeModel == Proposing("model") /\ \E d \in Drafts : Propose(d, "model")
ProposeManual == Proposing("manual") /\ \E d \in ManualDrafts : Propose(d, "manual")
ProposeLegacy == Proposing("legacy") /\ \E intent \in Intents : Propose(LegacyDraft(intent), "legacy")

\* The adapter fails, or asks instead of proposing: no record is written.
ProposeNothing ==
    /\ session.state = "proposing"
    /\ \E state \in {"blocked", "clarification_required"} : session' = [session EXCEPT !.state = state]
    /\ UNCHANGED <<proposals, lineage, manuals, reviews>>

\* A blocked session is resumed at the stage that failed.
Resume ==
    /\ session.state \in {"blocked", "review_blocked"}
    /\ session' = [session EXCEPT !.state = IF session.state = "blocked" THEN "proposing" ELSE "reviewing"]
    /\ UNCHANGED <<proposals, lineage, manuals, reviews>>

\* validate
Validate ==
    /\ session.state = "validating"
    /\ session' = [session EXCEPT !.state = IF Gates(session.proposal) = {} THEN "reviewing" ELSE "clarification_required"]
    /\ UNCHANGED <<proposals, lineage, manuals, reviews>>

\* A clarified, revised or rejected session compiles its context again and
\* proposes again.
NextRound ==
    /\ session.state \in {"clarification_required", "revision_required", "approval_required"}
    /\ Len(proposals) < MaxRevisions
    /\ session.state = "clarification_required" => session.answers < MaxAnswers
    /\ \E v \in Contexts : v >= session.context
           /\ session' = [session EXCEPT !.state = "proposing", !.context = v, !.route = "none", !.report = 0,
                               !.answers = @ + (IF session.state = "clarification_required" THEN 1 ELSE 0)]
    /\ UNCHANGED <<proposals, lineage, manuals, reviews>>

\* createPrdReviewReportRecord: which drafts a review stage accepts.  One is
\* well formed when it is independent of the proposal's invocation, covers
\* the mandatory dimensions once each and only targets entities it was shown.
ReviewDrafts == [verdict : {"accept", "revise", "clarify", "block"}, findings : {{"info"}, {"warning"}, {"critical"}},
                 wellformed : BOOLEAN, satisfied : BOOLEAN, questions : BOOLEAN]
ReviewAccepted(d) ==
    /\ d.wellformed
    /\ d.verdict = "clarify" => d.questions
    /\ d.verdict = "accept" => "critical" \notin d.findings /\ d.satisfied

After(verdict) ==
    CASE verdict = "accept" -> "risk_assessing"
      [] verdict = "revise" -> "revision_required"
      [] verdict = "clarify" -> "clarification_required"
      [] verdict = "block" -> "review_blocked"
\* Only the findings of an accepting review are read again.
Report(d, manual) ==
    /\ Len(reviews) < MaxReviews
    /\ reviews' = Append(reviews, [proposal |-> session.proposal, verdict |-> d.verdict, findings |-> When(d.verdict = "accept", d.findings),
                                   manual |-> manual])
    /\ session' = [session EXCEPT !.state = After(d.verdict), !.report = Len(reviews) + 1]

\* review, with a model behind the port.  A refused draft blocks.
ReviewByModel ==
    /\ session.state = "reviewing" /\ manuals = <<>>
    /\ \E d \in ReviewDrafts :
          \/ ReviewAccepted(d) /\ Report(d, 0)
          \/ ~ReviewAccepted(d) /\ session' = [session EXCEPT !.state = "review_blocked"] /\ UNCHANGED reviews
    /\ UNCHANGED <<proposals, lineage, manuals>>

\* readManualReviewInputs sorts by file name, that is by the digest in the
\* record's id, and the stage takes the last one.
ManualInput == CHOOSE m \in DOMAIN manuals : \A k \in DOMAIN manuals : manuals[k].file <= manuals[m].file

\* review, with the manual adapter: it asks for an input when there is none,
\* else it folds the input into a report.
ReviewByHand ==
    /\ session.state = "reviewing"
    /\ \A k \in DOMAIN reviews : reviews[k].manual # 0
    /\ IF manuals = <<>>
       THEN session' = [session EXCEPT !.state = "review_input_required"] /\ UNCHANGED reviews
       ELSE LET deficient == manuals[ManualInput].deficient
            IN  Report([verdict |-> IF deficient THEN "revise" ELSE "accept",
                        findings |-> IF deficient THEN {"warning"} ELSE {}], ManualInput)
    /\ UNCHANGED <<proposals, lineage, manuals>>

\* submitManualReviewInput: the reviewer judges the proposal in the session.
SubmitManualReviewInput ==
    /\ session.state = "review_input_required" /\ Len(manuals) < MaxManual
    /\ \E deficient \in BOOLEAN, file \in (1..MaxManual) \ {manuals[k].file : k \in DOMAIN manuals} :
          manuals' = Append(manuals, [deficient |-> deficient, file |-> file, proposal |-> session.proposal])
    /\ session' = [session EXCEPT !.state = "reviewing"]
    /\ UNCHANGED <<proposals, lineage, reviews>>

\* assessRisk, under the policy the process was started with.
AssessRisk ==
    /\ session.state = "risk_assessing"
    /\ \E policy \in Policies :
       LET route == Route(session.proposal, TRUE, reviews[session.report].findings, policy)
       IN  session' = [session EXCEPT !.route = route, !.policy = policy,
                            !.state = CASE route = "denied" -> "denied"
                                        [] route = "upgrade_required" -> "profile_decision_required"
                                        [] OTHER -> "approval_required"]
    /\ UNCHANGED <<proposals, lineage, manuals, reviews>>

Next ==
    \/ ProposeModel \/ ProposeManual \/ ProposeLegacy \/ ProposeNothing \/ Resume \/ Validate \/ NextRound
    \/ ReviewByModel \/ ReviewByHand \/ SubmitManualReviewInput \/ AssessRisk

Spec == Init /\ [][Next]_vars

-----------------------------------------------------------------------------
\* Type invariant.
TypeOK ==
    /\ session.state \in {"proposing", "validating", "reviewing", "review_input_required", "risk_assessing", "denied",
                          "clarification_required", "revision_required", "approval_required", "blocked",
                          "review_blocked", "profile_decision_required"}
    /\ session.route \in {"none", "denied", "upgrade_required", "policy_auto", "human"}
    /\ Len(proposals) <= MaxRevisions /\ Len(manuals) <= MaxManual
    /\ session.state = "risk_assessing" => session.report \in DOMAIN reviews
    /\ session.proposal = None \/ \E n \in DOMAIN proposals : proposals[n].content = session.proposal

\* An entity id means one thing for the whole session: no proposal holds two
\* entities under it, and it never changes its kind from one revision to
\* another, whatever an adapter claims.  createPrdProposalRecord mints and
\* reuses ids, and refuses a continued id of another kind or claimed twice.
IdsKeepTheirKind ==
    \A m, n \in DOMAIN proposals : \A e \in proposals[m].content.entities, f \in proposals[n].content.entities :
        e.id = f.id => e.kind = f.kind /\ (m = n => e = f)

\* Through the 1.0 interpreter, a criterion whose wording and requirement did
\* not change keeps its id: of the criteria with one signature as many ids
\* carry over as both revisions have.  legacy.ts: inserting, removing or
\* reordering others "never rotates an unchanged criterion's identity".
CriterionKeepsItsId ==
    \A n \in 2..Len(proposals) : proposals[n].by = "legacy" =>
        LET before == proposals[n - 1].content
            now == proposals[n].content
            ids(c, s) == {x.id : x \in SignedBy(c, s)}
        IN  \A r \in OfKind(now, "requirement"), c \in OfKind(now, "acceptance_criterion") :
               LET s == <<r.text, c.text>> IN
               Cardinality(ids(before, s) \cap ids(now, s))
                   = (IF Cardinality(ids(before, s)) < Cardinality(ids(now, s))
                      THEN Cardinality(ids(before, s)) ELSE Cardinality(ids(now, s)))

\* The proposal a session is bound to has its full lineage: one record per
\* entity, saying whether the entity was in the proposal before it.  A crash
\* between the proposal and its lineage never leaves the session on a
\* proposal whose history is missing or ambiguous.
CurrentProposalHasLineage ==
    \A e \in session.proposal.entities :
        LET records == {l \in lineage : l.content = session.proposal /\ l.id = e.id} IN
        /\ Cardinality(records) = 1
        /\ \A l \in records : l.kind = "continues" <=> \E f \in l.previous.entities : f.id = e.id

\* The manual form asks for nothing the gates would not: what missingItems
\* lists for the previous proposal are questions its gates raise too.
FormAsksWhatGatesFlag ==
    proposals # <<>> => MissingItems(Prefill) \subseteq {<<f.target, f.dimension>> : f \in Gates(Current)}

\* More risk never makes for an easier approval: taking a risk or a constraint
\* out of an assessed proposal never moves its route towards denial, for a
\* policy that denies every level above one it denies.
Strictness(route) == CASE route = "policy_auto" -> 0 [] route = "human" -> 1
                       [] route = "upgrade_required" -> 2 [] route = "denied" -> 3
RiskIsMonotone ==
    session.route # "none" =>
        \A e \in OfKind(session.proposal, "risk") \cup OfKind(session.proposal, "constraint") :
            Strictness(Route([session.proposal EXCEPT !.entities = @ \ {e}], TRUE, reviews[session.report].findings,
                             session.policy)) <= Strictness(session.route)

\* A review made from a person's input is about the proposal that person was
\* shown (review/records.ts: the input "binds the review invocation that
\* requested input, the rubric and the session revision the reviewer saw").
\* The review stage takes any input of the rubric, and of several the one
\* whose file name sorts last.
HumanJudgedThisProposal ==
    \A k \in DOMAIN reviews : reviews[k].manual # 0 => manuals[reviews[k].manual].proposal = reviews[k].proposal

\* In a proposal that passed the gates every reference finds its target in
\* the proposal (intent-to-prd design, 12.1: lineage, bindings and all
\* references complete).  The criteria a requirement lists may be those of
\* the proposal before.
GatedReferencesResolve ==
    \A k \in DOMAIN reviews : \A e \in reviews[k].proposal.entities : \A r \in e.refs :
        r.kind \in KindsOf(reviews[k].proposal, r.to)
=============================================================================
