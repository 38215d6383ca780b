------------------------------- MODULE Kernel -------------------------------
(***************************************************************************)
(* The orchestration kernel (runtime/src/orchestration): one workflow      *)
(* operation driven through capture, impact, design, plan, context,        *)
(* execute, verify, evaluate and snapshot by one process at a time, either *)
(* along the fixed phase order or along the nodes of a capability DAG      *)
(* whose completed nodes are journalled.                                   *)
(*                                                                         *)
(* Every durable effect is a ledger commit.  A phase reads the durable     *)
(* state, decides, and then commits a sequence of effects one by one;      *)
(* `todo' is that sequence.  The process may die between any two commits,  *)
(* which loses `todo' and nothing else; a later command starts again from  *)
(* what is durable.  An effect can also fail: the state machine refuses it *)
(* ("illegal"), or the ledger refuses to write other bytes to a path that  *)
(* already has some ("conflict").                                          *)
(***************************************************************************)
EXTENDS WorkflowStates, FiniteSets, FiniteSetsExt, Functions

CONSTANTS NTasks,       \* tasks of the plan, executed in order
          Details,      \* what a failing gate, run or evaluation can report
          MaxRuns,      \* no command resumes an operation that has more runs than this
          Scenarios     \* what may happen in a behaviour

ASSUME KernelAssumption == NTasks \in Nat \ {0}

Tasks == 1..NTasks
Objects == {"RequirementBaseline", "ImpactSet", "DesignSet", "Authorization"}
(* A scenario: [profile, crashes, edits, fails, rejects, until], where      *)
(* profile = [dag, impact, design, evaluate, audit, prompter, gap].        *)

VARIABLES scn,      \* the scenario, its budgets counting down
          op,       \* the current operation record
          phase,    \* the phase of the latest checkpoint
          arts,     \* committed artifacts, by name
          reqs,     \* approval requests: object -> none/pending/approved/rejected
          runs,     \* run streams: [task, status, result, eval]
          resumes,  \* RESUMES edges <<successor, interrupted run>>
          nodes,    \* runs that have a graph node
          verdict,  \* stored gate verdicts, by code version
          findings, \* finding files: proposed
          closed,   \* finding files: closed
          snaps,    \* snapshot files
          iter,     \* state of the iteration node
          journal,  \* DAG checkpoint journal: completed nodes
          code,     \* the version of the source tree
          head,     \* the code version the kernel committed to HEAD, or -1
          pc,       \* volatile: the phase being driven, and whether it was entered
          todo,     \* volatile: the effects it has still to commit
          outcome   \* volatile: what the last command answered

durable == <<op, phase, arts, reqs, runs, resumes, nodes, verdict, findings, closed, snaps,
             iter, journal, head>>
vars == <<scn, durable, code, pc, todo, outcome>>

Profile == scn.profile
Versions == 0..(Max({s.edits + s.fails + s.crashes : s \in Scenarios}) + NTasks)
Stopped == [phase |-> "idle", in |-> FALSE]
Idle == pc = Stopped
At(p) == pc = [phase |-> p, in |-> TRUE] /\ todo = << >>

(* startOperation has committed the first record. *)
Init ==
    /\ scn \in Scenarios
    /\ op = Record("created", NoResume) /\ phase = "capture" /\ arts = {}
    /\ reqs = [o \in Objects |-> "none"]
    /\ runs = << >> /\ resumes = {} /\ nodes = {}
    /\ verdict = [v \in Versions |-> "none"] /\ findings = {} /\ closed = {}
    /\ snaps = {} /\ iter = "none" /\ journal = << >>
    /\ code = 0 /\ head = -1
    /\ pc = [phase |-> "capture", in |-> FALSE] /\ todo = << >> /\ outcome = "none"

-----------------------------------------------------------------------------
(* The effects a phase can schedule. *)
State(to) == [do |-> "state", to |-> to]           \* engine.advance
Artifact(a) == [do |-> "artifact", name |-> a]     \* commitArtifacts
Checkpoint(p) == [do |-> "checkpoint", phase |-> p]
Block(p) == [do |-> "block", phase |-> p]          \* engine.block
Abort == [do |-> "abort"]                          \* engine.abort
Resume == [do |-> "resume"]                        \* resumeWorkflowOperation
Iteration(s) == [do |-> "iteration", state |-> s]
Snapshot(kind, t, d) == [do |-> "snapshot", key |-> <<kind, t, d>>]
Request(o) == [do |-> "request", object |-> o]
Decide(o, d) == [do |-> "decide", object |-> o, decision |-> d]
RejectPending == [do |-> "rejectPending"]
StartRun(t) == [do |-> "startRun", task |-> t]
RunNodes(S) == [do |-> "runNodes", runs |-> S]
Work(t) == [do |-> "work", task |-> t]             \* the executor edits the sources
EndRun(t) == [do |-> "endRun", task |-> t]
Result(t, ok) == [do |-> "result", task |-> t, ok |-> ok]
Evaluation(t, e) == [do |-> "evaluation", task |-> t, eval |-> e]   \* e: "pass" or what failed
Verdict(v, e) == [do |-> "verdict", version |-> v, verdict |-> e]
CloseFinding == [do |-> "closeFinding"]
SourceTree == [do |-> "sourceTree"]
Journal(n) == [do |-> "journal", node |-> n]
Goto(p) == [do |-> "goto", phase |-> p]
Answer(o) == [do |-> "answer", outcome |-> o]

Drive(list) == todo' = list /\ UNCHANGED <<scn, durable, code, pc, outcome>>
(* A choice that costs a unit of a bound and schedules the effects.        *)
Unlucky(field, list) ==
    /\ scn[field] > 0 /\ scn' = [scn EXCEPT ![field] = @ - 1]
    /\ todo' = list /\ UNCHANGED <<durable, code, pc, outcome>>

BlockWithSnapshot(kind, t, d, p) ==
    <<Snapshot(kind, t, d), Iteration("blocked"), Block(p), Answer("blocked")>>
BlockPhase(p) == <<Block(p), Answer("blocked")>>
RejectOperation == <<Abort, Answer("aborted")>>
Unless(name, list) == IF name \in arts THEN << >> ELSE list

-----------------------------------------------------------------------------
(* Reads. *)
GateFinding == <<"gate", 0>>
(* The stored verdict, if it is bound to the sources as they are now. *)
CurrentVerdict == verdict[code]
RunsOf(t) == {r \in DOMAIN runs : runs[r].task = t}
OpenRuns == {r \in DOMAIN runs : runs[r].status = "open"}
(* loadCompletedRun: the newest ended run of the task that has a result. *)
EndedWithResult(t) == {r \in RunsOf(t) \ OpenRuns : runs[r].result # "none"}
Completed(t) == EndedWithResult(t) # {}
CompletedRun(t) == Max(EndedWithResult(t))
(* loadOpenRunId: the open run that a new drive of the task takes over. *)
TakenOver(t) == RunsOf(t) \cap OpenRuns
LatestRun(t) == Max(RunsOf(t))
(* A completed run is reused unless its evaluation failed. *)
Reusable(t) == /\ Completed(t) /\ runs[CompletedRun(t)].result = "claimed"
               /\ runs[CompletedRun(t)].eval \notin Details
Remaining == {t \in Tasks : ~Reusable(t)}

(* Every phase materializes the project graph, which a RESUMES edge to a   *)
(* run without a node makes impossible.                                    *)
GraphWhole == \A e \in resumes : e[1] \in nodes /\ e[2] \in nodes

(* The phases of the fixed order, and the nodes of the capability DAG.     *)
Wanted(p) == p \in {"impact", "design", "evaluate"} => Profile[p]
DagNodes == <<"capture", "capability_decision">>
            \o SelectSeq(<<"impact", "design", "plan", "context", "execute", "verify",
                           "evaluate", "snapshot">>, Wanted)
            \o (IF Profile.audit THEN <<"audit">> ELSE << >>)
NextWanted(rank) == Phases[Min({i \in DOMAIN Phases : i >= rank /\ Wanted(Phases[i])})]

(* finalizeCapabilityPlan runs when the design node committed. *)
FinalPlan(p) == IF p = "design" THEN Unless("finalPlan", <<Artifact("finalPlan")>>) ELSE << >>

DoneJournalFirst(p) ==
    IF Profile.dag
    THEN <<Journal(p)>> \o FinalPlan(p)
         \o (IF scn.until = p THEN <<Answer("advanced")>> ELSE <<Goto("dag")>>)
    ELSE LET next == NextWanted(PhaseRank(p) + 1)
         IN IF scn.until # "none" /\ PhaseRank(next) > PhaseRank(scn.until)
            THEN <<Answer("advanced")>> ELSE <<Goto(next)>>
(* What follows a phase that committed: the next phase, or the journal     *)
(* entry of its DAG node; `until' stops the drive there.                   *)
Done(p) ==
    IF Profile.dag
    THEN FinalPlan(p) \o <<Journal(p)>>
         \o (IF scn.until = p THEN <<Answer("advanced")>> ELSE <<Goto("dag")>>)
    ELSE LET next == NextWanted(PhaseRank(p) + 1)
         IN IF scn.until # "none" /\ PhaseRank(next) > PhaseRank(scn.until)
            THEN <<Answer("advanced")>> ELSE <<Goto(next)>>

-----------------------------------------------------------------------------
AdvanceIntoPhaseStraight(p) ==
    IF op.state = PhaseOperationState(p) THEN << >> ELSE <<State(PhaseOperationState(p))>>
(* advanceIntoPhase, before a phase's own step. *)
AdvanceIntoPhase(p) ==
    LET target == PhaseOperationState(p)
    IN CASE op.state = target -> << >>
         [] op.state = "verifying" /\ target = "running" -> <<State("repairing"), State("running")>>
         [] OTHER -> <<State(target)>>

Enter ==
    /\ pc.phase \in Range(Phases) /\ ~pc.in /\ todo = << >>
    /\ IF GraphWhole THEN todo' = AdvanceIntoPhase(pc.phase) ELSE todo' = <<Answer("dangling")>>
    /\ pc' = [pc EXCEPT !.in = TRUE]
    /\ UNCHANGED <<scn, durable, code, outcome>>

(* ApprovalRuntime.ensure, after `before'; yes and no are what the caller  *)
(* goes on to commit.                                                      *)
Ensure(before, o, p, yes, no) ==
    LET ask == before \o (IF reqs[o] = "none" THEN <<Request(o)>> ELSE << >>)
    IN CASE reqs[o] = "approved" -> Drive(before \o yes)
         [] reqs[o] = "rejected" -> Drive(before \o no)
         [] OTHER ->
              \/ Drive(ask \o <<Block(p), Answer("approval_required")>>)
              \/ Profile.prompter /\ Drive(ask \o <<Decide(o, "approved")>> \o yes)
              \/ Profile.prompter /\ Unlucky("rejects", ask \o <<Decide(o, "rejected")>> \o no)

PhaseCapture ==
    /\ At("capture")
    /\ LET end == <<Checkpoint("impact")>>
                  \o (IF Profile.dag THEN <<Artifact("capabilityPlan"), Goto("dag")>> ELSE Done("capture"))
       IN IF "baseline" \in arts THEN Drive(end)
          ELSE Ensure(<< >>, "RequirementBaseline", "capture",
                      <<Artifact("baseline")>> \o end, RejectOperation)

PhaseImpact ==
    /\ At("impact")
    /\ LET end == <<Checkpoint("design")>> \o Done("impact")
       IN IF "impact" \in arts THEN Drive(end)
          ELSE \/ Unlucky("fails", BlockPhase("impact"))          \* the advisory port fails
               \/ Ensure(Unless("impactProposed", <<Artifact("impactProposed")>>), "ImpactSet", "impact",
                         <<Artifact("impact")>> \o end, RejectOperation)

(* A design proposal, its review, the approval and the accepted set.  Once *)
(* an approval was requested, that proposal is the one asked about.        *)
PhaseDesign ==
    /\ At("design")
    /\ LET end == <<Checkpoint("plan")>> \o Done("design")
           ask(before) == Ensure(before, "DesignSet", "design", <<Artifact("design")>> \o end,
                                 BlockPhase("design"))
           reviewed == <<Artifact("designProposal"), Artifact("designReview")>>
       IN CASE "design" \in arts -> Drive(end)
            [] reqs["DesignSet"] # "none" -> ask(<< >>)
            [] OTHER -> \/ Unlucky("fails", BlockPhase("design"))              \* no proposal
                        \/ Unlucky("fails", reviewed \o BlockPhase("design"))  \* not accepted in review
                        \/ ask(reviewed)

PhasePlan ==
    /\ At("plan")
    /\ IF Profile.design /\ "design" \notin arts THEN Drive(<<Answer("binding_drift")>>)
       ELSE Drive(Unless("plan", <<Artifact("plan")>>)
                  \o <<Artifact("tddContracts"), Checkpoint("context")>> \o Done("plan"))

PhaseContext ==
    /\ At("context")
    /\ IF "plan" \notin arts THEN Drive(<<Answer("binding_drift")>>)
       ELSE \/ Drive(Unless("bundles", <<Artifact("bundles")>>)
                     \o <<Checkpoint("execute")>> \o Done("context"))
            \/ /\ "bundles" \notin arts                           \* enrichment fails
               /\ Unlucky("fails", <<Artifact("bundles")>> \o BlockPhase("context"))

(* One task: a run is started or taken over, worked, ended, its result     *)
(* committed; a run that did not hand over is evaluated and classified.    *)
ExecuteTask(t) ==
    LET open == TakenOver(t)
        run0 == IF open = {} THEN Len(runs) + 1 ELSE Min(open)
        run == (IF open = {} THEN <<StartRun(t)>> ELSE << >>)
               \o <<RunNodes({run0}), Work(t), EndRun(t)>>
        failed(d) == run \o <<Result(t, FALSE)>>
                     \o (IF Profile.evaluate THEN <<Evaluation(t, d)>> ELSE << >>)
    IN \/ Drive(run \o <<Result(t, TRUE)>>)
       \/ \E d \in Details :
            \/ \E p \in {"execute", "capture"} :
                  Unlucky("fails", failed(d) \o BlockWithSnapshot(p, t, d, p))
            \/ Unlucky("fails", failed(d) \o RejectOperation)

(* An incomplete impact coverage sends the operation back to impact; the   *)
(* authorization is asked for once; then the tasks in order.               *)
PhaseExecute ==
    /\ At("execute")
    /\ CASE {"plan", "bundles"} \ arts # {} -> Drive(<<Answer("binding_drift")>>)
         [] Profile.gap -> Drive(BlockPhase("impact"))
         [] "authorization" \notin arts ->
              Ensure(<< >>, "Authorization", "execute", <<Artifact("authorization")>>, RejectOperation)
         [] Remaining = {} -> Drive(<<Checkpoint("verify")>> \o Done("execute"))
         [] OTHER -> ExecuteTask(Min(Remaining))

(* The gates run on the current sources unless their verdict is stored.    *)
PhaseVerify ==
    /\ At("verify")
    /\ LET pass == <<Checkpoint("evaluate")>> \o Done("verify")
           fail(d) == BlockWithSnapshot("verify", 0, d, "verify")
           close == IF GateFinding \in findings \ closed THEN <<CloseFinding>> ELSE << >>
       IN CASE CurrentVerdict = "pass" -> Drive(pass)
            [] CurrentVerdict \in Details -> Drive(fail(CurrentVerdict))
            [] OTHER -> \/ Drive(<<Verdict(code, "pass")>> \o close \o pass)
                        \/ \E d \in Details : Unlucky("fails", <<Verdict(code, d)>> \o fail(d))

(* Each task's newest run is evaluated unless its evaluation is stored.    *)
PhaseEvaluate ==
    /\ At("evaluate")
    /\ LET pending == {t \in Tasks : ~Completed(t) \/ runs[CompletedRun(t)].eval # "pass"}
           t == Min(pending)
           fail(d) == BlockWithSnapshot("evaluate", t, d, "execute")
       IN CASE pending = {} -> Drive(<<Checkpoint("snapshot")>> \o Done("evaluate"))
            [] ~Completed(t) -> Drive(<<Answer("binding_drift")>>)
            [] runs[CompletedRun(t)].eval \in Details -> Drive(fail(runs[CompletedRun(t)].eval))
            [] OTHER -> \/ Drive(<<Evaluation(t, "pass")>>)
                        \/ \E d \in Details : Unlucky("fails", <<Evaluation(t, d)>> \o fail(d))

Finish == <<Checkpoint("snapshot"), SourceTree, Snapshot("completed", 0, ""),
            Iteration("completed"), State("completed")>>

(* The verdict of the current sources decides; then the sources are        *)
(* committed, the snapshot written and the operation completed.            *)
PhaseSnapshot ==
    /\ At("snapshot")
    /\ LET drifted == BlockWithSnapshot("drift", 0, "", "verify")
           audited == IF Profile.audit /\ ~Profile.dag THEN <<Artifact("audit")>> ELSE << >>
           after == IF Profile.dag THEN <<Journal("snapshot"), Goto("dag")>> ELSE <<Answer("completed")>>
           allowed == \A t \in Tasks : Profile.evaluate => runs[CompletedRun(t)].eval = "pass"
       IN CASE \E t \in Tasks : ~Completed(t) -> Drive(<<Answer("binding_drift")>>)
            [] CurrentVerdict = "none" -> Drive(<<Iteration("running")>> \o audited \o drifted)
            [] CurrentVerdict \in Details \/ ~allowed ->
                 Drive(<<Iteration("running")>> \o BlockWithSnapshot("verdicts", 0, "", "verify"))
            [] OTHER -> \/ Drive(<<Iteration("running")>> \o audited \o Finish \o after)
                        \/ /\ Profile.audit /\ ~Profile.dag       \* the audit finds a blocking fact
                           /\ Unlucky("fails", <<Iteration("running")>> \o audited
                                               \o BlockWithSnapshot("audit", 0, "", "verify"))

(* The DAG loop: the journalled nodes are replayed, the next one is run.   *)
DagNext ==
    /\ pc.phase = "dag" /\ todo = << >>
    /\ LET n == Len(journal) + 1
           ended == Len(journal) >= Len(DagNodes)
           audit == <<Artifact("audit"), Journal("audit"), Answer("completed")>>
       IN CASE ended -> Drive(<<Answer(IF op.state = "completed" THEN "completed" ELSE "binding_drift")>>)
            [] DagNodes[n] = "capture" -> Drive(<<Journal("capture")>>
                  \o (IF scn.until = "capture" THEN <<Answer("advanced")>> ELSE << >>))
            [] DagNodes[n] = "capability_decision" -> Drive(<<Journal("capability_decision")>>)
            [] DagNodes[n] = "audit" -> Drive(audit)
            [] OTHER -> Drive(<<Goto(DagNodes[n])>>)

Phase == \/ Enter \/ PhaseCapture \/ PhaseImpact \/ PhaseDesign \/ PhasePlan \/ PhaseContext
         \/ PhaseExecute \/ PhaseVerify \/ PhaseEvaluate \/ PhaseSnapshot \/ DagNext

-----------------------------------------------------------------------------
(* The effects, one ledger commit each. *)
Effect(kind) == todo # << >> /\ Head(todo).do = kind
Item == Head(todo)
Stop(o) == pc' = Stopped /\ todo' = << >> /\ outcome' = o
Continue == todo' = Tail(todo) /\ UNCHANGED <<pc, outcome>>

DoState ==
    /\ Effect("state") /\ UNCHANGED <<scn, code>>
    /\ IF CanTransitionOperation(op.state, Item.to)
       THEN op' = Record(Item.to, NoResume) /\ Continue
       ELSE op' = op /\ Stop("illegal")
    /\ UNCHANGED <<phase, arts, reqs, runs, resumes, nodes, verdict, findings, closed, snaps, iter,
                   journal, head>>

DoArtifact ==
    /\ Effect("artifact") /\ arts' = arts \cup {Item.name} /\ Continue
    /\ UNCHANGED <<scn, code, op, phase, reqs, runs, resumes, nodes, verdict, findings, closed, snaps,
                   iter, journal, head>>

DoCheckpoint ==
    /\ Effect("checkpoint") /\ UNCHANGED <<scn, code>>
    /\ IF op.state \in Resumable THEN phase' = Item.phase /\ Continue
       ELSE phase' = phase /\ Stop("illegal")
    /\ UNCHANGED <<op, arts, reqs, runs, resumes, nodes, verdict, findings, closed, snaps, iter,
                   journal, head>>

(* engine.block: the record and the checkpoint in one commit. *)
DoBlock ==
    /\ Effect("block") /\ UNCHANGED <<scn, code>>
    /\ IF CanBlock(op.state)
       THEN op' = BlockTarget(op.state) /\ phase' = Item.phase /\ Continue
       ELSE UNCHANGED <<op, phase>> /\ Stop("illegal")
    /\ UNCHANGED <<arts, reqs, runs, resumes, nodes, verdict, findings, closed, snaps, iter, journal, head>>

DoAbort ==
    /\ Effect("abort") /\ UNCHANGED <<scn, code>>
    /\ IF CanAbort(op.state) THEN op' = Record("aborted", NoResume) /\ Continue
       ELSE op' = op /\ Stop("illegal")
    /\ UNCHANGED <<phase, arts, reqs, runs, resumes, nodes, verdict, findings, closed, snaps, iter,
                   journal, head>>

(* resumeWorkflowOperation: refused when HEAD is not the baseline; else    *)
(* the resumed record, and for each open run an interruption, a result     *)
(* that claims nothing, a successor and the edge, in one commit.           *)
Successor(r) == Len(runs) + Cardinality({s \in OpenRuns : s <= r})
DoResume ==
    /\ Effect("resume") /\ UNCHANGED <<scn, code>>
    /\ IF head # -1 THEN UNCHANGED <<op, runs, resumes>> /\ Stop("baseline_mismatch")
       ELSE /\ op' = ResumeTarget(op)
            /\ runs' = [r \in 1..(Len(runs) + Cardinality(OpenRuns)) |->
                          IF r > Len(runs)
                          THEN [task |-> runs[CHOOSE o \in OpenRuns : Successor(o) = r].task,
                                status |-> "open", result |-> "none", eval |-> "none"]
                          ELSE IF r \in OpenRuns
                          THEN [runs[r] EXCEPT !.status = "interrupted", !.result = "unclaimed"]
                          ELSE runs[r]]
            /\ resumes' = resumes \cup {<<Successor(r), r>> : r \in OpenRuns}
            /\ Continue
    /\ UNCHANGED <<phase, arts, reqs, nodes, verdict, findings, closed, snaps, iter, journal, head>>

DoIteration ==
    /\ Effect("iteration") /\ UNCHANGED <<scn, code>>
    /\ IF GraphWhole THEN iter' = Item.state /\ Continue ELSE iter' = iter /\ Stop("dangling")
    /\ UNCHANGED <<op, phase, arts, reqs, runs, resumes, nodes, verdict, findings, closed, snaps,
                   journal, head>>

DoSnapshot ==
    /\ Effect("snapshot") /\ UNCHANGED <<scn, code>>
    /\ IF Item.key \in snaps THEN snaps' = snaps /\ Stop("conflict")
       ELSE snaps' = snaps \cup {Item.key} /\ Continue
    /\ UNCHANGED <<op, phase, arts, reqs, runs, resumes, nodes, verdict, findings, closed, iter,
                   journal, head>>

DoApproval ==
    /\ \/ Effect("request") /\ reqs' = [reqs EXCEPT ![Item.object] = "pending"]
       \/ Effect("decide") /\ reqs' = [reqs EXCEPT ![Item.object] = Item.decision]
       \/ /\ Effect("rejectPending")
          /\ reqs' = [o \in Objects |-> IF reqs[o] = "pending" THEN "rejected" ELSE reqs[o]]
    /\ Continue
    /\ UNCHANGED <<scn, code, op, phase, arts, runs, resumes, nodes, verdict, findings, closed, snaps,
                   iter, journal, head>>

DoStartRun ==
    /\ Effect("startRun") /\ UNCHANGED <<scn, code>>
    /\ IF op.state \in {"running", "repairing"}
       THEN runs' = Append(runs, [task |-> Item.task, status |-> "open", result |-> "none",
                                  eval |-> "none"]) /\ Continue
       ELSE runs' = runs /\ Stop("illegal")
    /\ UNCHANGED <<op, phase, arts, reqs, resumes, nodes, verdict, findings, closed, snaps, iter,
                   journal, head>>

(* The nodes of the runs in `Item.runs', then their EXECUTES edges. *)
DoRunNodes ==
    /\ Effect("runNodes") /\ nodes' = nodes \cup Item.runs /\ Continue
    /\ UNCHANGED <<scn, code, op, phase, arts, reqs, runs, resumes, verdict, findings, closed, snaps,
                   iter, journal, head>>

DoWork ==
    /\ Effect("work") /\ code' = code + 1 /\ Continue
    /\ UNCHANGED <<scn, durable>>

DoRunRecord ==
    /\ \/ Effect("endRun") /\ runs' = [runs EXCEPT ![LatestRun(Item.task)].status = "terminated"]
       \/ /\ Effect("result")
          /\ runs' = [runs EXCEPT ![LatestRun(Item.task)].result =
                                      IF Item.ok THEN "claimed" ELSE "unclaimed"]
    /\ Continue
    /\ UNCHANGED <<scn, code, op, phase, arts, reqs, resumes, nodes, verdict, findings, closed, snaps,
                   iter, journal, head>>

(* An evaluation and a gate verdict are committed together with the        *)
(* findings of what failed, whose files have one name per task and gate.   *)
DoEvaluation ==
    /\ Effect("evaluation") /\ UNCHANGED <<scn, code>>
    /\ LET f == <<"evaluation", Item.task>>
       IN IF Item.eval \in Details /\ f \in findings
          THEN UNCHANGED <<runs, findings>> /\ Stop("conflict")
          ELSE /\ runs' = [runs EXCEPT ![CompletedRun(Item.task)].eval = Item.eval]
               /\ findings' = IF Item.eval \in Details THEN findings \cup {f} ELSE findings
               /\ Continue
    /\ UNCHANGED <<op, phase, arts, reqs, resumes, nodes, verdict, closed, snaps, iter, journal, head>>

DoVerdict ==
    /\ Effect("verdict") /\ UNCHANGED <<scn, code>>
    /\ IF Item.verdict \in Details /\ GateFinding \in findings
       THEN UNCHANGED <<verdict, findings>> /\ Stop("conflict")
       ELSE /\ verdict' = [verdict EXCEPT ![Item.version] = Item.verdict]
            /\ findings' = IF Item.verdict \in Details THEN findings \cup {GateFinding} ELSE findings
            /\ Continue
    /\ UNCHANGED <<op, phase, arts, reqs, runs, resumes, nodes, closed, snaps, iter, journal, head>>

DoCloseFinding ==
    /\ Effect("closeFinding") /\ closed' = closed \cup {GateFinding} /\ Continue
    /\ UNCHANGED <<scn, code, op, phase, arts, reqs, runs, resumes, nodes, verdict, findings, snaps,
                   iter, journal, head>>

(* commitVerifiedSourceTree: whatever is in the worktree now. *)
DoSourceTree ==
    /\ Effect("sourceTree") /\ head' = code /\ Continue
    /\ UNCHANGED <<scn, code, op, phase, arts, reqs, runs, resumes, nodes, verdict, findings, closed,
                   snaps, iter, journal>>

DoJournal ==
    /\ Effect("journal") /\ journal' = Append(journal, Item.node) /\ Continue
    /\ UNCHANGED <<scn, code, op, phase, arts, reqs, runs, resumes, nodes, verdict, findings, closed,
                   snaps, iter, head>>

DoControl ==
    /\ \/ Effect("goto") /\ pc' = [phase |-> Item.phase, in |-> FALSE] /\ todo' = Tail(todo)
          /\ UNCHANGED outcome
       \/ Effect("answer") /\ Stop(Item.outcome)
    /\ UNCHANGED <<scn, code, durable>>

Commit == \/ DoState \/ DoArtifact \/ DoCheckpoint \/ DoBlock \/ DoAbort \/ DoResume \/ DoIteration
          \/ DoSnapshot \/ DoApproval \/ DoStartRun \/ DoRunNodes \/ DoWork \/ DoRunRecord
          \/ DoEvaluation \/ DoVerdict \/ DoCloseFinding \/ DoSourceTree \/ DoJournal \/ DoControl

-----------------------------------------------------------------------------
(* Commands of the user, one at a time, on an operation nobody drives.     *)
Command(list) == /\ Idle /\ op.state \notin Terminal
                 /\ pc' = [phase |-> "command", in |-> TRUE] /\ todo' = list
                 /\ UNCHANGED <<scn, durable, code, outcome>>

DriveFrom == IF ~Profile.dag THEN NextWanted(PhaseRank(phase))
             ELSE IF "capabilityPlan" \in arts THEN "dag" ELSE "capture"

(* resumeIteration: open runs of an operation that is not blocked are      *)
(* recovered by blocking it first.  The runs of this resume get their      *)
(* nodes after the resume is committed.                                    *)
ResumeIteration ==
    LET resumed == OpenRuns \cup {Successor(r) : r \in OpenRuns}
        from == DriveFrom
    IN /\ Len(runs) <= MaxRuns
       /\ Command(CASE op.state = "blocked" -> <<Resume, RunNodes(resumed), Goto(from)>>
                    [] OpenRuns # {} -> <<Block(phase), Resume, RunNodes(resumed), Goto(from)>>
                    [] OTHER -> <<Goto(from)>>)

ResolveApproval(o, d) ==
    /\ reqs[o] = "pending"
    /\ CASE d = "approve" -> Command((IF op.state = "blocked" THEN <<Resume>> ELSE << >>)
                                     \o <<Decide(o, "approved"), Answer("approved")>>)
         [] d = "reject" ->
              /\ scn.rejects > 0 /\ scn' = [scn EXCEPT !.rejects = @ - 1]
              /\ Idle /\ op.state \notin Terminal
              /\ pc' = [phase |-> "command", in |-> TRUE]
              /\ todo' = <<Decide(o, "rejected"), Answer("rejected")>>
              /\ UNCHANGED <<durable, code, outcome>>
         [] d = "defer" -> Command((IF op.state = "blocked" THEN <<Resume>> ELSE << >>)
                                   \o <<Block(phase), Answer("deferred")>>)

AbortIteration ==
    /\ scn.rejects > 0 /\ scn' = [scn EXCEPT !.rejects = @ - 1]
    /\ Idle /\ op.state \notin Terminal
    /\ pc' = [phase |-> "command", in |-> TRUE]
    /\ todo' = <<RejectPending, Abort, Iteration("aborted"), Answer("aborted")>>
    /\ UNCHANGED <<durable, code, outcome>>

(* The process dies; someone edits the sources between two commands.       *)
Crash == /\ ~Idle /\ scn.crashes > 0 /\ scn' = [scn EXCEPT !.crashes = @ - 1]
         /\ Stop("crashed") /\ UNCHANGED <<durable, code>>
EditCode == /\ Idle /\ scn.edits > 0 /\ op.state \notin Terminal
            /\ scn' = [scn EXCEPT !.edits = @ - 1]
            /\ code' = code + 1 /\ UNCHANGED <<durable, pc, todo, outcome>>

Approve == \E o \in Objects : ResolveApproval(o, "approve")
User == \/ ResumeIteration \/ Approve \/ AbortIteration
        \/ \E o \in Objects : ResolveApproval(o, "reject") \/ ResolveApproval(o, "defer")

Repair == verdict[code] \in Details /\ EditCode

Terminated == Idle /\ (op.state \in Terminal \/ Len(runs) > MaxRuns) /\ UNCHANGED vars
Next == Phase \/ Commit \/ User \/ Crash \/ EditCode \/ Terminated
Fairness == /\ WF_vars(Phase) /\ WF_vars(Commit)
            /\ SF_vars(ResumeIteration) /\ SF_vars(Approve) /\ SF_vars(Repair)
Spec == Init /\ [][Next]_vars /\ Fairness

-----------------------------------------------------------------------------
(* The kernel's values stay in their types: the operation record, the      *)
(* checkpointed phase and the run streams that every command reads back.   *)
TypeOK ==
    /\ op.state \in OperationStates /\ op.resume \in Resumable \cup {NoResume}
    /\ (op.state = "blocked") = (op.resume # NoResume)
    /\ phase \in Range(Phases) /\ code \in Versions /\ head \in Versions \cup {-1}
    /\ \A r \in DOMAIN runs : /\ runs[r].task \in Tasks
                              /\ runs[r].status \in {"open", "terminated", "interrupted"}
                              /\ runs[r].result \in {"none", "claimed", "unclaimed"}
    /\ nodes \subseteq DOMAIN runs /\ closed \subseteq findings

(* A task never has two open runs, however often the process dies while    *)
(* starting, working or recovering one: phaseExecute takes over the open   *)
(* run and resumeWorkflowOperation replaces it in the commit that ends it. *)
OneOpenRun == \A t \in Tasks : Cardinality(RunsOf(t) \cap OpenRuns) <= 1

(* The completed snapshot names a source commit whose gate verdict passed, *)
(* and every task's newest result claims completion with no failed         *)
(* evaluation (phaseSnapshot), provided nobody edits during the drive.     *)
CompletedWasVerified ==
    <<"completed", 0, "">> \in snaps =>
       /\ head # -1 /\ verdict[head] = "pass"
       /\ \A t \in Tasks : Reusable(t)

(* A completed operation left a completed iteration and its snapshot: the  *)
(* commits of phaseSnapshot come in an order no crash can turn around.     *)
CompletedIsRecorded ==
    op.state = "completed" => iter = "completed" /\ <<"completed", 0, "">> \in snaps

(* What a checkpoint claims is durable, so a resume can start from it: a   *)
(* checkpointed phase has the artifacts of the phases before it, and past  *)
(* execute every task has a result.  Blocking goes back, never forward.    *)
CheckpointIsBacked ==
    LET reached(p) == PhaseRank(phase) > PhaseRank(p)
    IN /\ reached("capture") => "baseline" \in arts
       /\ reached("impact") /\ Profile.impact /\ phase # "design" => "impact" \in arts
       /\ reached("design") /\ Profile.design => "design" \in arts
       /\ reached("plan") => "plan" \in arts
       /\ reached("context") => "bundles" \in arts
       /\ reached("execute") => \A t \in Tasks : Completed(t)

(* The journal is a prefix of the DAG and a journalled node is never run   *)
(* again, so what it stands for must be durable: the replay of DagEngine   *)
(* skips work only if that work is there.                                  *)
JournalIsBacked ==
    Profile.dag =>
       /\ IsPrefix(journal, DagNodes)
       /\ "capture" \in Range(journal) => {"baseline", "capabilityPlan"} \subseteq arts
       /\ \A p \in {"impact", "design", "plan"} \cap Range(journal) : p \in arts
       /\ "design" \in Range(journal) => "finalPlan" \in arts
       /\ "execute" \in Range(journal) =>
             "authorization" \in arts /\ \A t \in Tasks : \E r \in RunsOf(t) : runs[r].result = "claimed"
       /\ "verify" \in Range(journal) => \E v \in Versions : verdict[v] = "pass"
       /\ "snapshot" \in Range(journal) => op.state = "completed"

(* Nothing runs without an approved authorization, and no authorization    *)
(* without an approved requirement baseline: a rejected or pending request *)
(* never lets its object through, whichever crash or resume intervenes.    *)
NothingWithoutApproval ==
    /\ "baseline" \in arts => reqs["RequirementBaseline"] = "approved"
    /\ "impact" \in arts => reqs["ImpactSet"] = "approved"
    /\ "design" \in arts => reqs["DesignSet"] = "approved"
    /\ runs # << >> => reqs["Authorization"] = "approved" /\ "authorization" \in arts

(* A task whose newest result claims completion is not started again       *)
(* unless its evaluation failed (phaseExecute reuses the run).             *)
NoRework ==
    [][\A t \in Tasks : Cardinality(RunsOf(t)') > Cardinality(RunsOf(t)) => ~Reusable(t)]_vars


(* Where an operation can no longer end by resuming and approving.  A      *)
(* file that is there with other bytes, a snapshot above all, is not       *)
(* written again; a rejected design stays the one asked about; a journalled        *)
(* execute or verify node is not run again after its result was found      *)
(* wanting; a phase that lies behind the operation's state cannot be       *)
(* entered; a dangling RESUMES edge stops every phase; a moved HEAD stops  *)
(* the resume of a blocked operation.                                      *)
ConflictStuck == outcome = "conflict"
DesignStuck == reqs["DesignSet"] = "rejected"
ReplayStuck == /\ Profile.dag
               /\ \/ "execute" \in Range(journal) /\ \E t \in Tasks : ~Reusable(t)
                  \/ "verify" \in Range(journal) /\ verdict[code] # "pass"
BackwardStuck == ~Profile.dag /\ op.state \in {"running", "verifying", "blocked"}
                 /\ op.resume \in {NoResume, "running", "verifying"}
                 /\ PhaseRank(phase) < PhaseRank("context")
GapStuck == Profile.gap
DanglingStuck == Idle /\ \E e \in resumes : e[2] \notin nodes
AwaitsRepair == verdict[code] \in Details /\ scn.edits = 0
HeadStuck == head # -1 /\ op.state = "blocked"
Stuck == \/ ConflictStuck \/ DesignStuck \/ ReplayStuck \/ BackwardStuck \/ GapStuck \/ HeadStuck
         \/ DanglingStuck \/ AwaitsRepair

(* If the user keeps resuming and approving, the operation ends, or it is  *)
(* in one of the named states that no resume leaves.                       *)
EndsOrStuck == <>[](op.state \in Terminal \/ Stuck)

(* A RESUMES edge has both its runs in the graph whenever a phase is about *)
(* to materialize it.                                                      *)
ResumedRunsAreNodes == pc.phase \in Range(Phases) /\ todo = << >> => GraphWhole

(* A gate finding is closed once the operation completed: the gates passed *)
(* on the completed sources.                                               *)
CompletedClosesFindings == op.state = "completed" => GateFinding \notin findings \ closed

(* A phase that a resume goes back to can be entered: the operation's      *)
(* state machine accepts every transition the drive asks for.              *)
ResumeReenters == outcome # "illegal"
=============================================================================
