---------------------------- MODULE FeedbackLoop ----------------------------
(***************************************************************************)
(* From a finding to a promoted improvement (packages/eval/src/feedback    *)
(* and the feedback analysis coordinator of packages/runtime): a finding   *)
(* is accepted, closed on repair evidence or superseded; its root cause is *)
(* classified, explained by a model where the rules cannot, and routed to  *)
(* the layer that owns it; an improvement candidate is proposed, revised,  *)
(* and promoted by an approval.                                            *)
(*                                                                         *)
(* Records are values: a digest is the record's content, its status        *)
(* included, so accepting a finding gives it another digest.               *)
(***************************************************************************)
EXTENDS Naturals, FiniteSets

CONSTANTS
    Signals,        \* failure signals: [origin, errorKind, gateLayer, highRisk, hint]
    Bindings,       \* digests of the provider bindings an analysis may run under
    Outputs,        \* model outputs: [finding, cited, candidates]
    Contents,       \* contents of the improvement candidate: [layer, text]
    Actors,         \* who may ask for and decide on a promotion
    Targets,        \* node types a promotion may be aimed at
    MaxCode,        \* bound on edits of the code
    MaxRequests     \* bound on approval requests

VARIABLES
    signal,         \* the failure behind the finding
    finding,        \* its status
    code,           \* digest of the current code
    rca,            \* the root cause analysis, or NoRca
    pending,        \* the binding of an analysis waiting for the model, or "none"
    analyses,       \* the analysis store: [records, evidence]
    told,           \* what the last analysis returned
    promotion       \* [candidate, requests, revision, promoted]
vars == <<signal, finding, code, rca, pending, analyses, told, promotion>>

NoRca == [rule |-> "none"]
LAYERS == {"prd", "architecture", "spec", "plan", "policy", "tool", "test", "eval"}
PHASES == <<"prd", "architecture", "spec", "plan", "implementation", "verification">>

-----------------------------------------------------------------------------
(* The finding.                                                            *)
Transition(from, to) == finding \in from /\ finding' = to
acceptFinding == Transition({"proposed"}, "accepted")
supersedeFinding == Transition({"proposed", "accepted"}, "superseded")

\* Repair evidence: a gate verdict that may be provisional and that binds the
\* code it ran on.
findingClosableBy(evidence) == ~evidence.provisional /\ evidence.passed /\ evidence.code = code
closeFinding(evidence) == findingClosableBy(evidence) /\ Transition({"proposed", "accepted"}, "closed")

-----------------------------------------------------------------------------
(* The root cause: the first rule that matches; confidence in percent.     *)
Rule(name, layer, confidence) == [rule |-> name, layer |-> layer, confidence |-> confidence]
classify(s) ==
    CASE s.origin = "evaluation" -> Rule("evaluation-dimension", "eval", 90)
      [] s.errorKind = "policy" -> Rule("policy-decision", "policy", 95)
      [] s.errorKind = "tool" -> Rule("tool-error", "tool", 90)
      [] s.origin = "test" /\ s.gateLayer = "project" -> Rule("gate-project", "test", 80)
      [] s.origin = "test" /\ s.gateLayer = "stack" -> Rule("gate-stack", "architecture", 70)
      [] s.origin = "test" /\ s.gateLayer = "universal" -> Rule("gate-universal", "spec", 50)
      [] OTHER -> Rule("unclassified", IF s.hint = "none" THEN "plan" ELSE s.hint, 30)
HUMAN_REVIEW == 70
analyzeRootCause(s) ==
    LET c == classify(s)
    IN  [rule |-> c.rule, layer |-> c.layer, review |-> c.confidence < HUMAN_REVIEW \/ s.highRisk]

OWNER_PHASE ==
    [prd |-> "prd", architecture |-> "architecture", spec |-> "spec", plan |-> "plan",
     policy |-> "architecture", tool |-> "plan", test |-> "verification", eval |-> "verification"]
Rank(phase) == CHOOSE i \in 1..6 : PHASES[i] = phase
assertWriteAllowed(writer, layer) == Rank(writer) <= Rank(OWNER_PHASE[layer])
routeRevisionTask(cause) ==
    [phase |-> OWNER_PHASE[cause.layer], layer |-> cause.layer, risk |-> IF cause.review THEN "high" ELSE "medium"]
OWNING_NODE_TYPES ==
    [prd |-> {"Intent", "Requirement"}, architecture |-> {"Decision", "Component"},
     spec |-> {"Requirement", "Constraint", "Test"}, plan |-> {"ExecutionPlan", "Task"},
     policy |-> {"Policy", "Constraint"}, tool |-> {"ToolDefinition"}, test |-> {"Test"}, eval |-> {"EvaluationCase"}]

-----------------------------------------------------------------------------
(* The analysis of a finding: find, ask the model, append.                 *)
shouldInvokeFeedbackAnalysis(explain) == rca.rule = "unclassified" \/ explain
StoreFind(digest, binding) == {r \in analyses.records : r.finding = digest /\ r.binding = binding}
candidateDisposition(c) == IF c.confidence >= HUMAN_REVIEW /\ c.risk # "high" THEN "router_consumable"
                           ELSE "requires_human_review"
dispositionOf(r) == IF \E c \in r.output.candidates : candidateDisposition(c) = "requires_human_review"
                    THEN "requires_human_review" ELSE "router_consumable"
validateFeedbackAnalysisOutput(output) == output.finding = pending.finding /\ output.cited
Deterministic == [status |-> "deterministic_only"]
Analyzed(r, asked) == [status |-> "analyzed", record |-> r, asked |-> asked, disposition |-> dispositionOf(r)]
WithoutModel(required) == IF required THEN [status |-> "blocked"] ELSE Deterministic

\* bound: a provider is bound; required: the profile demands one.
AnalyzeStart(binding, bound, required, explain) ==
    /\ rca # NoRca /\ pending.binding = "none"
    /\ LET ask == shouldInvokeFeedbackAnalysis(explain) /\ StoreFind(finding, binding) = {} /\ bound IN
       /\ pending' = IF ask THEN [binding |-> binding, finding |-> finding, required |-> required] ELSE pending
       /\ told' = IF ask THEN told
                  ELSE IF ~shouldInvokeFeedbackAnalysis(explain) THEN Deterministic
                  ELSE IF StoreFind(finding, binding) # {}
                  THEN Analyzed(CHOOSE r \in StoreFind(finding, binding) : TRUE, [finding |-> finding, binding |-> binding])
                  ELSE WithoutModel(required)
    /\ UNCHANGED <<signal, finding, code, rca, analyses, promotion>>

\* The model failed, answered wrongly, or gave a usable output for the finding
\* the question was about.
AnalyzeEnd(failed, output) ==
    /\ pending.binding # "none"
    /\ LET record == [finding |-> pending.finding, binding |-> pending.binding, output |-> output]
           valid == ~failed /\ validateFeedbackAnalysisOutput(output)
           new == StoreFind(record.finding, record.binding) = {}
       IN  /\ told' = IF valid THEN Analyzed(record, [finding |-> pending.finding, binding |-> pending.binding])
                      ELSE WithoutModel(pending.required)
           /\ analyses' = IF valid THEN [records |-> analyses.records \cup (IF new THEN {record} ELSE {}),
                                         evidence |-> analyses.evidence \cup {[record |-> record, disposition |-> dispositionOf(record)]}]
                          ELSE analyses
    /\ pending' = [pending EXCEPT !.binding = "none"]
    /\ UNCHANGED <<signal, finding, code, rca, promotion>>

-----------------------------------------------------------------------------
(* The improvement candidate.                                              *)
candidate == promotion.candidate
Propose(content) ==
    /\ rca # NoRca /\ candidate.status \in {"none", "proposed"} /\ candidate.content # content
    /\ promotion' = [promotion EXCEPT !.candidate = [status |-> "proposed", content |-> content]]
    /\ UNCHANGED <<signal, finding, code, rca, pending, analyses, told>>

RequestApproval(by) ==
    /\ candidate.status = "proposed" /\ Cardinality(promotion.requests) < MaxRequests
    /\ promotion' = [promotion EXCEPT !.requests = @ \cup {[n |-> Cardinality(@), by |-> by, digest |-> candidate]}]
    /\ UNCHANGED <<signal, finding, code, rca, pending, analyses, told>>

BoundTo(request, decision) ==
    /\ request.digest = candidate
    /\ decision.request = request.n /\ decision.digest = candidate
promoteImprovementCandidate(request, decision, target) ==
    /\ candidate.status = "proposed"
    /\ BoundTo(request, decision)
    /\ decision.actor # request.by
    /\ decision.decision = "approve"
    /\ target \in OWNING_NODE_TYPES[candidate.content.layer]
    /\ promotion' = [promotion EXCEPT !.candidate.status = "accepted", !.revision = @ + 1,
                                      !.promoted = @ \cup {[content |-> candidate.content, seen |-> request.digest.content,
                                                            by |-> request.by, decided |-> decision.actor, target |-> target]}]
    /\ UNCHANGED <<signal, finding, code, rca, pending, analyses, told>>

-----------------------------------------------------------------------------
Manage ==
    /\ \/ acceptFinding
       \/ supersedeFinding
       \/ \E provisional, passed \in BOOLEAN, at \in 1..MaxCode :
            at <= code /\ closeFinding([provisional |-> provisional, passed |-> passed, code |-> at])
    /\ UNCHANGED <<signal, code, rca, pending, analyses, told, promotion>>
EditCode == code < MaxCode /\ code' = code + 1 /\ UNCHANGED <<signal, finding, rca, pending, analyses, told, promotion>>
Diagnose == rca = NoRca /\ rca' = analyzeRootCause(signal) /\ UNCHANGED <<signal, finding, code, pending, analyses, told, promotion>>

Init ==
    /\ signal \in Signals /\ finding = "proposed" /\ code = 1 /\ rca = NoRca
    /\ pending = [binding |-> "none", finding |-> "none", required |-> FALSE]
    /\ analyses = [records |-> {}, evidence |-> {}] /\ told = [status |-> "none"]
    /\ promotion = [candidate |-> [status |-> "none", content |-> [layer |-> "none", text |-> 0]],
                    requests |-> {}, revision |-> 1, promoted |-> {}]
Next ==
    \/ Manage \/ EditCode \/ Diagnose
    \/ \E b \in Bindings, bound, required, explain \in BOOLEAN : AnalyzeStart(b, bound, required, explain)
    \/ \E failed \in BOOLEAN, output \in Outputs : AnalyzeEnd(failed, output)
    \/ \E c \in Contents : Propose(c)
    \/ \E by \in Actors : RequestApproval(by)
    \/ \E request \in promotion.requests, actor \in Actors, verdict \in {"approve", "reject"}, target \in Targets :
         promoteImprovementCandidate(request, [request |-> request.n, actor |-> actor, decision |-> verdict,
                                               digest |-> request.digest], target)
Spec == Init /\ [][Next]_vars

-----------------------------------------------------------------------------
TypeOK ==
    /\ signal \in Signals /\ finding \in {"proposed", "accepted", "closed", "superseded"} /\ code \in 1..MaxCode
    /\ rca # NoRca => rca.layer \in LAYERS /\ rca.review \in BOOLEAN
    /\ pending.binding \in Bindings \cup {"none"}
    /\ told.status \in {"none", "deterministic_only", "analyzed", "blocked"}
    /\ promotion.candidate.status \in {"none", "proposed", "accepted"} /\ promotion.revision \in Nat

\* What was promoted is what somebody other than its proposer approved, to the
\* last byte, though the candidate may be revised while its approval is open
\* (promotion.ts: the request and the decision bind the current digest).
PromotedWasApproved ==
    \A p \in promotion.promoted : p.content = p.seen /\ p.by # p.decided

\* An analysis answers the question it was asked, replays included: it is
\* about this digest of the finding, under this provider binding, and it goes
\* to the router without a human only when no candidate in it needs one
\* (analyzeFinding: find by finding and binding, dispositionOf).
AnalysisAnswersItsRequest ==
    told.status = "analyzed"
      => /\ told.record.finding = told.asked.finding /\ told.record.binding = told.asked.binding
         /\ told.disposition = "router_consumable"
              => \A c \in told.record.output.candidates : c.risk # "high" /\ c.confidence >= HUMAN_REVIEW
=============================================================================
