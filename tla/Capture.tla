------------------------------ MODULE Capture ------------------------------
(***************************************************************************)
(* The PRD capture coordinator (packages/core/src/capture): one session    *)
(* whose append-only revisions walk from the intent to an accepted PRD.    *)
(*                                                                         *)
(* A command reads the latest revision and drives the session from stage   *)
(* to stage.  A stage that calls a handler awaits it, and everything the   *)
(* command does with the answer uses the revision it read before: the      *)
(* store refuses a revision that does not build on the latest one.         *)
(* Handlers are external: their answer is any the stage may return.        *)
(* A crash may come while a handler runs, between a blocker and its        *)
(* revision, or between the ledger commit of the accepted PRD and the      *)
(* session's last revision.                                                *)
(***************************************************************************)
EXTENDS Naturals, FiniteSets

CONSTANTS
    Procs,          \* processes issuing commands on the session
    Bindings,       \* Capture-scope model provider bindings that may be committed
    MaxRounds,      \* clarification rounds of the capture budget
    HasReview,      \* a review handler is configured
    HasBrief,       \* an approval-brief handler is configured
    MaxRevisions,   \* bound: session revisions
    MaxCrashes      \* bound: crashes

VARIABLES
    session,        \* the latest revision
    prev,           \* the state of the revision before it
    blockers,       \* blocker records
    answered,       \* questions with a committed answer: <<round, question>>
    invocations,    \* invocation records
    bindings,       \* the bindings committed for the session's profile decision
    decisions,      \* decisions committed on the approval surface
    consumed,       \* decisions applied by some revision
    briefs,         \* requests for which an approval brief was stored
    prds,           \* accepted PRDs in the ledger
    proc,           \* what each process is doing
    crashes
vars == <<session, prev, blockers, answered, invocations, bindings, decisions, consumed, briefs, prds, proc, crashes>>
stored == <<session, prev, blockers, answered, invocations, consumed, briefs, prds>>

States == {"intent_received", "context_compiling", "proposing", "validating", "clarification_required", "reviewing",
           "review_input_required", "risk_assessing", "revision_required", "profile_decision_required",
           "approval_required", "approval_deferred", "accepted", "blocked", "cancelled"}
Terminal == {"accepted", "cancelled"}
BlockedResumeTargets == {"context_compiling", "proposing", "clarification_required", "reviewing", "review_input_required",
                         "risk_assessing", "revision_required", "profile_decision_required", "approval_required"}
LegalTransitions ==
    [intent_received |-> {"context_compiling", "cancelled"},
     context_compiling |-> {"proposing", "reviewing", "blocked", "cancelled"},
     proposing |-> {"validating", "clarification_required", "blocked", "cancelled"},
     validating |-> {"clarification_required", "revision_required", "context_compiling", "cancelled"},
     clarification_required |-> {"context_compiling", "blocked", "cancelled"},
     reviewing |-> {"review_input_required", "clarification_required", "revision_required", "blocked",
                    "risk_assessing", "cancelled"},
     review_input_required |-> {"reviewing", "cancelled"},
     risk_assessing |-> {"blocked", "profile_decision_required", "approval_required", "cancelled"},
     revision_required |-> {"context_compiling", "cancelled"},
     profile_decision_required |-> {"context_compiling", "cancelled"},
     approval_required |-> {"accepted", "revision_required", "approval_deferred", "blocked", "cancelled"},
     approval_deferred |-> {"approval_required", "cancelled"},
     accepted |-> {},
     blocked |-> BlockedResumeTargets \cup {"cancelled"},
     cancelled |-> {}]

\* The questions of a round: the first one is required, the second is not.
Questions == {1, 2}
Required == {1}

\* The decision the coordinator makes itself; a decision on the approval
\* surface is named after its request, which is a later revision than 1.
Policy == 1

Idle == [at |-> "idle"]
Driving == [at |-> "drive"]
Awaiting(stage, snapshot, extra) == [at |-> stage, snap |-> snapshot, with |-> extra]

Init ==
    /\ session = [rev |-> 0, state |-> "none"]
    /\ prev = "none"
    /\ blockers = {} /\ answered = {} /\ invocations = {} /\ decisions = {} /\ consumed = {} /\ briefs = {} /\ prds = {}
    /\ bindings \in SUBSET Bindings
    /\ proc = [p \in Procs |-> Idle]
    /\ crashes = 0

Goto(p, next) == proc' = [proc EXCEPT ![p] = next]

\* createCaptureSessionRecord
CreateSession ==
    [rev |-> 1, state |-> "intent_received", round |-> 0, pending |-> {}, reason |-> "none", proposal |-> 0,
     validated |-> 0, reviewed |-> <<0, "none">>, risk |-> 0, request |-> 0, applied |-> 0]

\* reviseCaptureSessionRecord: absent fields of the patch keep their value.
Revise(s, patch) ==
    [f \in DOMAIN s |-> CASE f = "rev" -> s.rev + 1
                          [] f = "reason" -> IF "reason" \in DOMAIN patch THEN patch.reason ELSE "none"
                          [] OTHER -> IF f \in DOMAIN patch THEN patch[f] ELSE s[f]]

\* assertCaptureTransition and the store's revision check: nothing is written
\* when either throws.
CanAppend(s, patch) == patch.state \in LegalTransitions[s.state] /\ s = session

\* transition: the next revision is appended, or the command throws.
Transition(p, s, patch, next) ==
    IF CanAppend(s, patch)
    THEN session' = Revise(s, patch) /\ prev' = s.state /\ Goto(p, next)
    ELSE Goto(p, Idle) /\ UNCHANGED <<session, prev>>

\* block: the blocker is appended, then the blocked revision.  A blocker of
\* the same revision and reason is the same record.
Blocker(s, reason, resume) == [rev |-> s.rev + 1, reason |-> reason, resume |-> resume]
Block(p, s, reason, resume) ==
    /\ blockers' = IF "blocked" \in LegalTransitions[s.state]
                   THEN blockers \cup {Blocker(s, reason, resume)} ELSE blockers
    /\ \/ Transition(p, s, [state |-> "blocked", reason |-> reason], Idle) /\ UNCHANGED crashes
       \/ crashes < MaxCrashes /\ crashes' = crashes + 1 /\ Goto(p, Idle) /\ UNCHANGED <<session, prev>>

\* ensureInvocation: reuse the record of this revision and purpose, refuse
\* bindings that no longer cover the earlier invocations'.
BindingsCover == UNION {i.bindings : i \in invocations} \subseteq bindings
EnsureInvocation(p, purpose, next) ==
    LET existing == {i \in invocations : i.rev = session.rev /\ i.purpose = purpose}
        usable == bindings # {} /\ (IF existing # {} THEN \A i \in existing : i.bindings \subseteq bindings
                                                      ELSE BindingsCover)
    IN  /\ Goto(p, IF usable THEN next ELSE Idle)
        /\ invocations' = IF usable /\ existing = {}
                          THEN invocations \cup {[rev |-> session.rev, purpose |-> purpose, bindings |-> bindings]}
                          ELSE invocations

\* issueQuestions: a round beyond the budget blocks; else the questions are
\* appended and the session waits for answers.
IssueQuestions(p, s, interrupted) ==
    IF s.round + 1 > MaxRounds
    THEN Block(p, s, "capture_budget_exhausted", interrupted)
    ELSE /\ Transition(p, s, [state |-> "clarification_required", round |-> s.round + 1,
                              pending |-> {<<s.round + 1, q>> : q \in Questions}], Idle)
         /\ UNCHANGED <<blockers, crashes>>

\* contextPurpose: derived from the state of the previous revision.
ContextPurposes ==
    CASE prev = "validating" -> {"review"}
      [] prev \in {"intent_received", "clarification_required", "revision_required"} -> {"proposal"}
      [] prev = "profile_decision_required" -> {"proposal", "review"}
      [] OTHER -> {}

ContextInvocation == [proposal |-> "context_proposal", review |-> "context_review"]

-----------------------------------------------------------------------------
(* drive: one synchronous stretch of the loop, up to the next await or     *)
(* the next revision.                                                      *)

DriveContext(p) ==
    /\ session.state = "context_compiling"
    /\ IF ContextPurposes = {} THEN Goto(p, Idle) /\ UNCHANGED invocations
       ELSE \E purpose \in ContextPurposes :
                EnsureInvocation(p, ContextInvocation[purpose], Awaiting("context", session, purpose))
    /\ UNCHANGED <<session, prev, blockers, crashes>>
DriveProposing(p) ==
    /\ session.state = "proposing"
    /\ EnsureInvocation(p, "proposal", Awaiting("propose", session, "none"))
    /\ UNCHANGED <<session, prev, blockers, crashes>>
DriveReviewing(p) ==
    /\ session.state = "reviewing"
    /\ IF HasReview
       THEN /\ EnsureInvocation(p, "review", Awaiting("review", session, "none"))
            /\ UNCHANGED <<session, prev, blockers, crashes>>
       ELSE Block(p, session, "review_provider_required", "reviewing") /\ UNCHANGED invocations
DriveUnattended(p) ==
    /\ \/ session.state = "validating" /\ Goto(p, Awaiting("validate", session, "none")) /\ UNCHANGED <<session, prev>>
       \/ session.state = "risk_assessing" /\ Goto(p, Awaiting("risk", session, "none")) /\ UNCHANGED <<session, prev>>
       \/ session.state = "intent_received" /\ Transition(p, session, [state |-> "context_compiling"], Driving)
       \/ /\ session.state = "revision_required" /\ prev \in {"validating", "reviewing"}
          /\ Transition(p, session, [state |-> "context_compiling"], Driving)
       \/ \* the profile decision is resolved, or still awaited
          /\ session.state = "profile_decision_required"
          /\ \/ Transition(p, session, [state |-> "context_compiling"], Driving)
             \/ Goto(p, Idle) /\ UNCHANGED <<session, prev>>
       \/ \* the session rests: awaiting a person, blocked, or terminal
          /\ \/ session.state \in {"clarification_required", "review_input_required", "approval_required",
                                   "approval_deferred", "blocked"} \cup Terminal
             \/ session.state = "revision_required" /\ prev \notin {"validating", "reviewing"}
          /\ Goto(p, Idle) /\ UNCHANGED <<session, prev>>
    /\ UNCHANGED <<blockers, crashes, invocations>>
Drive(p) ==
    /\ proc[p].at = "drive" /\ session.rev < MaxRevisions
    /\ DriveContext(p) \/ DriveProposing(p) \/ DriveReviewing(p) \/ DriveUnattended(p)
    /\ UNCHANGED <<answered, bindings, decisions, consumed, briefs, prds>>

-----------------------------------------------------------------------------
(* The handlers' answers.  A failure with a managed model code blocks the  *)
(* stages that call models; any other failure, or an answer the stage may  *)
(* not return, ends the command and leaves the session where it is.        *)

Fail(p) == Goto(p, Idle) /\ UNCHANGED <<session, prev, blockers, crashes>>
Step(p, s, patch) == Transition(p, s, patch, Driving) /\ UNCHANGED <<blockers, crashes>>

ContextResult(p, s, purpose) ==
    \/ Fail(p)
    \/ IF purpose = "proposal" THEN Step(p, s, [state |-> "proposing"]) ELSE Step(p, s, [state |-> "reviewing"])
\* A proposal is named after the revision it was made for.
ProposeResult(p, s) ==
    \/ Fail(p)
    \/ Block(p, s, "managed_model_failure", "proposing")
    \/ IssueQuestions(p, s, "proposing")
    \/ Step(p, s, [state |-> "validating", proposal |-> s.rev])
ValidateResult(p, s) ==
    \/ Fail(p)
    \/ IssueQuestions(p, s, "validating")
    \/ Step(p, s, [state |-> "revision_required"])
    \/ Step(p, s, [state |-> "context_compiling", validated |-> s.proposal])
ReviewResult(p, s) ==
    \/ Fail(p)
    \/ Block(p, s, "managed_model_failure", "reviewing")
    \/ Block(p, s, "review_blocked", "reviewing")
    \/ IssueQuestions(p, s, "reviewing")
    \/ Step(p, s, [state |-> "review_input_required"])
    \/ Step(p, s, [state |-> "revision_required", reviewed |-> <<s.proposal, "revise">>])
    \/ Step(p, s, [state |-> "risk_assessing", reviewed |-> <<s.proposal, "accept">>])
\* deriveCaptureApprovalRequestId: a request is named after its revision.
ApprovalUnassessed(s) == [state |-> "approval_required", request |-> s.rev + 1]
ApprovalPatch(s) == [state |-> "approval_required", risk |-> s.proposal, request |-> s.rev + 1]
RiskResult(p, s) ==
    \/ Fail(p)
    \/ Step(p, s, [state |-> "profile_decision_required"])
    \/ Block(p, s, "risk_policy_denied", "risk_assessing")
    \/ \* the policy approves: the coordinator decides itself
       LET requested == Revise(s, ApprovalPatch(s))
       IN  /\ Transition(p, s, ApprovalPatch(s), Awaiting("accept", requested, Policy))
           /\ UNCHANGED <<blockers, crashes>>
    \/ \* a person approves, after an approval brief where one is configured
       LET requested == Revise(s, ApprovalPatch(s))
       IN  /\ Transition(p, s, ApprovalPatch(s), IF HasBrief THEN [at |-> "brief_invocation", snap |-> requested, with |-> "none"]
                                                              ELSE Driving)
           /\ UNCHANGED <<blockers, crashes>>

\* The brief's invocation is recorded after the request's revision.
BriefInvocation(p) ==
    /\ proc[p].at = "brief_invocation"
    /\ IF session = proc[p].snap THEN EnsureInvocation(p, "approval_brief", [proc[p] EXCEPT !.at = "brief"])
       ELSE Goto(p, Idle) /\ UNCHANGED invocations
    /\ UNCHANGED <<session, prev, blockers, crashes, answered, bindings, decisions, consumed, briefs, prds>>
BriefResult(p, s) ==
    \/ Fail(p) /\ UNCHANGED briefs
    \/ Block(p, s, "approval_brief_provider_required", "risk_assessing") /\ UNCHANGED briefs
    \/ briefs' = briefs \cup {s.request} /\ Goto(p, Driving) /\ UNCHANGED <<session, prev, blockers, crashes>>

\* runHandler returned for a stage before approval.
Result(p) ==
    LET s == proc[p].snap IN
    /\ \/ proc[p].at = "context" /\ ContextResult(p, s, proc[p].with) /\ UNCHANGED briefs
       \/ proc[p].at = "propose" /\ ProposeResult(p, s) /\ UNCHANGED briefs
       \/ proc[p].at = "validate" /\ ValidateResult(p, s) /\ UNCHANGED briefs
       \/ proc[p].at = "review" /\ ReviewResult(p, s) /\ UNCHANGED briefs
       \/ proc[p].at = "risk" /\ RiskResult(p, s) /\ UNCHANGED briefs
       \/ proc[p].at = "brief" /\ BriefResult(p, s)
    /\ session.rev < MaxRevisions
    /\ UNCHANGED <<answered, invocations, bindings, decisions, consumed, prds>>

\* The accept stage: the facts the session binds must be about its proposal.
\* One ledger commit stores the PRD; a commit already there is not repeated.
FactsBind(s) == s.validated = s.proposal /\ s.reviewed = <<s.proposal, "accept">> /\ s.risk = s.proposal
AcceptCommit(p) ==
    /\ proc[p].at = "accept"
    /\ LET s == proc[p].snap IN
       \/ /\ FactsBind(s)
          /\ prds' = prds \cup {[proposal |-> s.proposal, by |-> proc[p].with]}
          /\ Goto(p, [proc[p] EXCEPT !.at = "accepted"])
       \/ Goto(p, Idle) /\ UNCHANGED prds      \* the stage fails
    /\ UNCHANGED <<session, prev, blockers, answered, invocations, bindings, decisions, consumed, briefs, crashes>>
Accepted(p) ==
    /\ proc[p].at = "accepted" /\ session.rev < MaxRevisions
    /\ LET s == proc[p].snap
           patch == [state |-> "accepted", applied |-> proc[p].with]
       IN  /\ Transition(p, s, patch, Driving)
           /\ consumed' = IF CanAppend(s, patch) THEN consumed \cup {proc[p].with} ELSE consumed
    /\ UNCHANGED <<blockers, answered, invocations, bindings, decisions, briefs, prds, crashes>>

-----------------------------------------------------------------------------
(* Commands (CaptureCoordinator.advance).                                  *)

Command(p) == proc[p].at = "idle" /\ session.rev < MaxRevisions
Live(p) == Command(p) /\ session.rev > 0

Start(p) ==
    /\ Command(p)
    /\ session.rev = 0 /\ bindings # {}
    /\ session' = CreateSession /\ Goto(p, Driving)
    /\ UNCHANGED <<prev, blockers, answered, invocations, bindings, decisions, consumed, briefs, prds, crashes>>

\* submitAnswers: a question is answered once; the session goes on when the
\* required ones have their answer.
SubmitAnswers(p) ==
    /\ Live(p) /\ session.state = "clarification_required"
    /\ \E given \in SUBSET session.pending :
        /\ given \cap answered = {}
        /\ answered' = answered \cup given
        /\ IF \A q \in session.pending : q[2] \in Required => q \in answered'
           THEN Transition(p, session, [state |-> "context_compiling", pending |-> {}], Driving)
           ELSE given # {} /\ UNCHANGED <<session, prev, proc>>
    /\ UNCHANGED <<blockers, invocations, bindings, decisions, consumed, briefs, prds, crashes>>

RequestRevision(p) ==
    /\ Live(p) /\ session.state = "revision_required"
    /\ Transition(p, session, [state |-> "context_compiling"], Driving)
    /\ UNCHANGED <<blockers, answered, invocations, bindings, decisions, consumed, briefs, prds, crashes>>

SubmitManualReviewInput(p) ==
    /\ Live(p) /\ session.state = "review_input_required"
    /\ Transition(p, session, [state |-> "reviewing"], Driving)
    /\ UNCHANGED <<blockers, answered, invocations, bindings, decisions, consumed, briefs, prds, crashes>>

\* applyApprovalDecision: for the current request, bound to the current
\* proposal, with the bindings of the proposal round still in place.
ApplyApprovalDecision(p) ==
    /\ Live(p) /\ session.state = "approval_required"
    /\ \E d \in decisions :
        /\ d.id \notin consumed /\ d.request = session.request /\ d.object = session.proposal
        /\ BindingsCover
        /\ IF d.verdict = "approve"
           THEN /\ Goto(p, Awaiting("accept", session, d.id))
                /\ UNCHANGED <<session, prev, consumed>>
           ELSE /\ Transition(p, session, [state |-> IF d.verdict = "reject" THEN "revision_required" ELSE "approval_deferred",
                                           applied |-> d.id], Driving)
                /\ consumed' = consumed \cup {d.id}
    /\ UNCHANGED <<blockers, answered, invocations, bindings, decisions, briefs, prds, crashes>>

\* resume: out of a cleared blocker, out of a deferred approval with a new
\* request, or simply driving on.
Cleared(b) ==
    CASE b.reason \in {"review_provider_required", "review_blocked"} -> HasReview
      [] b.reason = "approval_brief_provider_required" -> HasBrief
      [] b.reason = "capture_budget_exhausted" -> session.round + 1 <= MaxRounds
      [] b.reason = "managed_model_failure" -> TRUE
      [] OTHER -> FALSE
LatestBlockers == {b \in blockers : b.rev <= session.rev /\ \A c \in blockers : c.rev <= session.rev => c.rev <= b.rev}
Resume(p) ==
    /\ Live(p)
    /\ \/ /\ session.state = "blocked"
          /\ \E b \in LatestBlockers : Cleared(b) /\ Transition(p, session, [state |-> b.resume], Driving)
       \/ /\ session.state = "approval_deferred" /\ BindingsCover
          /\ Transition(p, session, [state |-> "approval_required", request |-> session.rev + 1], Driving)
       \/ /\ session.state \notin {"blocked", "approval_deferred"} \cup Terminal
          /\ Goto(p, Driving) /\ UNCHANGED <<session, prev>>
    /\ UNCHANGED <<blockers, answered, invocations, bindings, decisions, consumed, briefs, prds, crashes>>

\* cancel takes no expected digest.
Cancel(p) ==
    /\ Live(p) /\ session.state \notin Terminal
    /\ Transition(p, session, [state |-> "cancelled"], Idle)
    /\ UNCHANGED <<blockers, answered, invocations, bindings, decisions, consumed, briefs, prds, crashes>>

-----------------------------------------------------------------------------
(* Around the coordinator.                                                 *)

\* The pipeline's approval surface: one terminal decision per request, bound
\* to the request's object; findBridgedCaptureApprovalDecision hands only
\* those to the session.
Decide ==
    /\ session.rev > 0 /\ session.state = "approval_required"
    /\ ~\E d \in decisions : d.request = session.request
    /\ \E verdict \in {"approve", "reject", "defer"} :
        decisions' = decisions \cup {[id |-> session.request, request |-> session.request,
                                      object |-> session.proposal, verdict |-> verdict]}
    /\ UNCHANGED <<stored, bindings, proc, crashes>>

\* Bindings are committed or removed under the session.
Rebind ==
    /\ \E b \in Bindings : bindings' = (IF b \in bindings THEN bindings \ {b} ELSE bindings \cup {b})
    /\ UNCHANGED <<stored, decisions, proc, crashes>>

Crash(p) ==
    /\ proc[p].at # "idle" /\ crashes < MaxCrashes
    /\ crashes' = crashes + 1
    /\ Goto(p, Idle)
    /\ UNCHANGED <<stored, bindings, decisions>>

Next ==
    \/ \E p \in Procs : \/ Start(p) \/ SubmitAnswers(p) \/ RequestRevision(p) \/ SubmitManualReviewInput(p)
                        \/ ApplyApprovalDecision(p) \/ Resume(p) \/ Cancel(p)
                        \/ Drive(p) \/ Result(p) \/ BriefInvocation(p) \/ AcceptCommit(p) \/ Accepted(p) \/ Crash(p)
    \/ Decide \/ Rebind
Spec == Init /\ [][Next]_vars

-----------------------------------------------------------------------------
\* Type invariant, with the clarification budget: a session never runs more
\* rounds than maxRounds, and waits only for questions of its current round.
TypeOK ==
    /\ session.rev \in 0..MaxRevisions
    /\ session.rev > 0 =>
        /\ session.state \in States /\ prev \in States \cup {"none"}
        /\ session.round \in 0..MaxRounds
        /\ session.state = "blocked" <=> session.reason # "none"
        /\ session.pending \subseteq {<<session.round, q>> : q \in Questions}
        /\ session.state = "clarification_required" => session.pending # {}
    /\ bindings \subseteq Bindings
    /\ DOMAIN proc = Procs

\* A session asks for approval, rests deferred or is accepted only with a
\* validation, an accepting review and a risk assessment of exactly the
\* proposal it carries, however many clarifications, revisions, blocked
\* stages, profile decisions and crashes came before: so the accept stage's
\* binding checks never refuse an approved session.
ApprovalIsBound ==
    session.rev > 0 /\ session.state \in {"approval_required", "approval_deferred", "accepted"}
        => session.proposal > 0 /\ FactsBind(session)

\* The bindings recorded by the invocations of a session only grow: no stage
\* runs once a binding that an earlier stage used is gone.
BindingsOnlyGrow ==
    \A i, j \in invocations : i.rev <= j.rev /\ ~(j.bindings \subseteq i.bindings /\ i.rev = j.rev) => i.bindings \subseteq j.bindings

\* An accepted session has its PRD in the ledger, for the proposal it carries
\* and approved by the decision it records; and no decision other than an
\* approval, or the policy's own, puts a PRD into the ledger.
AcceptedHasItsPrd ==
    /\ session.rev > 0 /\ session.state = "accepted"
           => [proposal |-> session.proposal, by |-> session.applied] \in prds
    /\ \A r \in prds : \/ r.by = Policy
                       \/ \E d \in decisions : d.id = r.by /\ d.object = r.proposal /\ d.verdict = "approve"

\* A session the risk policy denied stays denied: it is only ever cancelled.
DeniedStaysDenied ==
    [][session.rev > 0 /\ session.state = "blocked" /\ session.reason = "risk_policy_denied"
           => session' = session \/ session'.state = "cancelled"]_vars

\* Where approval briefs are configured, a PRD that a person approved had an
\* approval brief for its request.
BriefBeforeApproval ==
    HasBrief => \A r \in prds : \A d \in decisions : d.id = r.by => d.request \in briefs
=============================================================================
