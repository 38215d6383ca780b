----------------------------- MODULE GraphUpkeep ----------------------------
(***************************************************************************)
(* The writers that keep the project graph: human edits of relations       *)
(* (packages/runtime/src/graph/edits.ts), the completion audit             *)
(* (orchestration/contributors/audit-contributor.ts), decisions on groups  *)
(* of findings (finding/group-service.ts), the evaluation of a run         *)
(* (contributors/evaluation-contributor.ts), the repair of historical gaps *)
(* (graph/reconcile.ts) and the backfill of evaluation reports             *)
(* (evaluation/backfill.ts).                                               *)
(*                                                                         *)
(* First comes what the graph must look like and what the audit says of    *)
(* it: the relation rules and integrity checks every materialisation runs  *)
(* (packages/graph/src/integrity.ts), the eleven audit rules               *)
(* (audit/auditor.ts), how a gap is governed (finding/governance.ts) and   *)
(* which findings decay (finding/decay.ts).                                *)
(*                                                                         *)
(* A node id is a tuple of strings; a node is [type, status, source, ...]. *)
(* An edge is its own id [type, src, dst, by]: the id of an edge is a      *)
(* digest of the relation and of who names it so ("edge" for the common    *)
(* scheme, "block" for the one of the completion audit).  `nodes` maps an  *)
(* id to its latest revision, `live` is the set of active edges.  What the *)
(* rules read inside a record (a statement, a target layer, a document's   *)
(* domains, a contract's entries, the entries a task mentions) is given by *)
(* Facts.                                                                  *)
(*                                                                         *)
(* Every writer reads the graph, computes a batch of immutable files and   *)
(* edge records, and commits the batch.  Between its read and its commit   *)
(* another writer may commit: the ledger serialises the commits and        *)
(* refuses a batch with a file that exists with other bytes.  The bytes of *)
(* most files contain the time they were computed at, `stamp` here.        *)
(***************************************************************************)
EXTENDS FiniteSets, Naturals, Sequences, TLC

CONSTANT Facts   \* a function on node ids

NoFacts == [statement |-> "none", layer |-> "none", domains |-> {}, frontend |-> FALSE, entries |-> {}, mentions |-> {}, gates |-> {}]
FactsOf(id) == IF id \in DOMAIN Facts THEN Facts[id] ELSE NoFacts

-----------------------------------------------------------------------------
(* Relations and integrity *)

VERSIONABLE == {"Requirement", "Constraint", "Decision", "Component", "ExecutionPlan", "Task", "CodeArtifact", "Policy",
                "ToolDefinition", "Test", "EvaluationCase", "Gate", "DesignSet", "DesignArtifact"}

\* The rules the modelled writers can meet.
isRelationCompatible(type, source, target) ==
    CASE type \in {"DERIVES_FROM", "SUPERSEDES", "MAY_IMPACT"} -> source \in VERSIONABLE /\ target \in VERSIONABLE
      [] type = "IMPLEMENTS" -> source = "Task" /\ target \in {"Requirement", "Decision", "DesignArtifact"}
      [] type = "VERIFIES" -> source = "Test" /\ target \in {"Requirement", "Constraint"}
      [] type = "EVALUATES" -> source = "EvaluationCase" /\ target \in {"Task", "Run"}
      [] type = "EXECUTES" -> source = "Run" /\ target \in {"Task", "Gate", "EvaluationCase"}
      [] type = "PRODUCES" -> <<source, target>> \in {<<"Run", "Evidence">>, <<"RootCauseAnalysis", "ImprovementCandidate">>}
      [] type \in {"SUPPORTS", "REFUTES"} -> source = "Evidence" /\ target \in {"Test", "Requirement", "EvaluationCase"}
      [] type = "DEPENDS_ON" -> source = "Task" /\ target = "Task"
      [] type = "USES_CONTEXT" -> source = "Run" /\ target = "ContextBundle"
      [] type = "BLOCKS" -> source = "Finding" /\ target \in {"Task", "Iteration"}
      [] OTHER -> FALSE

Dangling(nodes, edges) == {e \in edges : {e.src, e.dst} \ DOMAIN nodes # {}}
Incompatible(nodes, edges) ==
    {e \in edges : /\ {e.src, e.dst} \subseteq DOMAIN nodes
                   /\ ~isRelationCompatible(e.type, nodes[e.src].type, nodes[e.dst].type)}

\* The tasks that some path of active DEPENDS_ON edges leads back to.
DependencyCycles(live) ==
    LET depends == {<<e.src, e.dst>> : e \in {x \in live : x.type = "DEPENDS_ON"}}
        tasks == {p[1] : p \in depends}
        reach[n \in 0..Cardinality(tasks)] ==
            IF n = 0 THEN depends
            ELSE LET known == reach[n - 1]
                 IN known \cup {<<p[1], q[2]>> : <<p, q>> \in {pq \in known \X depends : pq[1][2] = pq[2][1]}}
    IN {t \in tasks : <<t, t>> \in reach[Cardinality(tasks)]}

\* Revisions are contiguous by construction: a revision file is committed only on top of the one before it.
checkGraphIntegrity(nodes, edges, live) ==
    Dangling(nodes, edges) = {} /\ Incompatible(nodes, edges) = {} /\ DependencyCycles(live) = {}

-----------------------------------------------------------------------------
(* The rules.  A gap's id, and its finding's, is a digest of its kind and  *)
(* of its summary, which says what the gap is about.                       *)

auditFindingId(kind, about) == <<"finding", kind, about>>
Gap(kind, about, subjects) == [id |-> auditFindingId(kind, about), kind |-> kind, subjects |-> subjects]
Open == {"proposed", "accepted"}
Nodes(nodes, type, statuses) == {n \in DOMAIN nodes : nodes[n].type = type /\ nodes[n].status \in statuses}
TypeOf(nodes, n) == IF n \in DOMAIN nodes THEN nodes[n].type ELSE "none"

auditTraceability(nodes, live) ==
    LET Implemented(r) == \E e \in live : e.type = "IMPLEMENTS" /\ e.dst = r
        Verified(r) == \E e \in live : e.type = "VERIFIES" /\ e.dst = r
        Missing(r) == CASE ~Implemented(r) /\ ~Verified(r) -> "both" [] ~Implemented(r) -> "task" [] OTHER -> "test"
    IN {Gap("traceability_gap", <<r, Missing(r)>>, {r}) :
            r \in {x \in Nodes(nodes, "Requirement", {"accepted"}) : ~(Implemented(x) /\ Verified(x))}}

auditStaleKnowledge(nodes, live) ==
    LET Stale(n) == n \in DOMAIN nodes /\ nodes[n].status \in {"superseded", "tombstoned"}
        First(e) == IF Stale(e.src) THEN e.src ELSE e.dst
    IN {Gap("stale_knowledge", <<e, First(e)>>, {First(e)}) : e \in {x \in live : Stale(x.src) \/ Stale(x.dst)}}

auditContradictions(nodes) ==
    LET stated == {n \in Nodes(nodes, "Constraint", {"accepted"}) : FactsOf(n).statement # "none"}
        Same(n) == {m \in stated : FactsOf(m).statement = FactsOf(n).statement}
    IN {Gap("contradictory_constraint", <<Same(n)>>, Same(n)) : n \in {x \in stated : Cardinality(Same(x)) > 1}}

CONNECTED == {"Intent", "Requirement", "Constraint", "Decision", "Component", "CodeArtifact", "Policy", "ToolDefinition",
              "Test", "EvaluationCase", "Gate"}
auditOrphans(nodes, live) ==
    LET connected == {e.src : e \in live} \cup {e.dst : e \in live}
    IN {Gap("orphan_node", <<n>>, {n}) :
            n \in {x \in DOMAIN nodes : nodes[x].type \in CONNECTED /\ nodes[x].status \in Open /\ x \notin connected}}

auditMissingVerification(nodes, live) ==
    {Gap("missing_verification", <<t>>, {t}) :
        t \in {x \in Nodes(nodes, "Test", {"accepted"}) :
                  ~\E e \in live : e.type \in {"SUPPORTS", "REFUTES"} /\ e.dst = x /\ TypeOf(nodes, e.src) = "Evidence"}}

auditUnpromotedImprovements(nodes) ==
    {Gap("unpromoted_high_risk_improvement", <<n>>, {n}) :
        n \in {x \in Nodes(nodes, "ImprovementCandidate", {"proposed"}) : FactsOf(x).layer \in {"policy", "tool"}}}

auditContextHealth(nodes, live) ==
    {Gap("unhealthy_context_source", <<e.src, e.dst>>, {e.src, e.dst}) :
        e \in {x \in live : /\ x.type = "USES_CONTEXT" /\ TypeOf(nodes, x.dst) = "ContextBundle"
                            /\ nodes[x.dst].status = "superseded"}}

Planned(nodes) == Nodes(nodes, "ExecutionPlan", Open) # {}
Documents(nodes) == {n \in Nodes(nodes, "CodeArtifact", {"accepted"}) : FactsOf(n).domains # {}}

DOMAINS == {"design", "api-contract", "data-design", "frontend-design", "decision"}
auditDesignArtifactCoverage(nodes) ==
    LET front == \E n \in DOMAIN nodes : nodes[n].type = "CodeArtifact" /\ FactsOf(n).frontend
        Covered(d) == \/ d = "decision" /\ Nodes(nodes, "Decision", {"accepted"}) # {}
                      \/ \E n \in Documents(nodes) : d \in FactsOf(n).domains
    IN IF ~Planned(nodes) THEN {}
       ELSE {Gap("missing_design_artifact", <<d>>, {}) :
                d \in {x \in DOMAINS : (x = "frontend-design" => front) /\ ~Covered(x)}}

auditTaskOrphans(nodes, live) ==
    {Gap("task_orphan", <<t>>, {t}) :
        t \in {x \in Nodes(nodes, "Task", Open) :
                  ~\E e \in live : e.type = "IMPLEMENTS" /\ e.src = x /\ TypeOf(nodes, e.dst) = "Requirement"}}

auditApiContractCoverage(nodes) ==
    LET contracts == {n \in Documents(nodes) : "api-contract" \in FactsOf(n).domains}
        Mentioned(entry) == \E t \in Nodes(nodes, "Task", Open) : entry \in FactsOf(t).mentions
    IN IF ~Planned(nodes) THEN {}
       ELSE UNION {{Gap("api_contract_coverage", <<c, entry>>, {c}) : entry \in {x \in FactsOf(c).entries : ~Mentioned(x)}} :
                      c \in contracts}

auditTaskStaleness(nodes, live, proven) ==
    {Gap("task_stale", <<t>>, {t}) :
        t \in {x \in Nodes(nodes, "Task", {"accepted"}) \ proven :
                  ~\E e \in live : /\ e.type = "EVALUATES" /\ e.dst = x /\ TypeOf(nodes, e.src) = "EvaluationCase"
                                   /\ nodes[e.src].status = "accepted"}}

\* The rules see every node that is not tombstoned; only auditStaleKnowledge can tell a tombstone from a stranger.
auditGraph(all, live, proven) ==
    LET nodes == [n \in {x \in DOMAIN all : all[x].status # "tombstoned"} |-> all[n]]
    IN auditTraceability(nodes, live) \cup auditStaleKnowledge(all, live) \cup auditContradictions(nodes)
       \cup auditOrphans(nodes, live) \cup auditMissingVerification(nodes, live) \cup auditUnpromotedImprovements(nodes)
       \cup auditContextHealth(nodes, live) \cup auditDesignArtifactCoverage(nodes) \cup auditTaskOrphans(nodes, live)
       \cup auditApiContractCoverage(nodes) \cup auditTaskStaleness(nodes, live, proven)

-----------------------------------------------------------------------------
(* Governance *)

Blocking(kind) == kind \in {"traceability_gap", "contradictory_constraint", "missing_verification", "unhealthy_context_source",
                            "task_orphan", "task_stale"}

Actionability(kind) ==
    CASE kind \in {"contradictory_constraint", "orphan_node", "unpromoted_high_risk_improvement"} -> "human_review"
      [] kind = "unhealthy_context_source" -> "upstream_change"
      [] OTHER -> "auto_close"

\* Only findings that may close themselves do, once their gap is not reproduced.
planFindingDecay(nodes, gaps) ==
    {f \in Nodes(nodes, "Finding", Open) : /\ f \notin {g.id : g \in gaps}
                                           /\ nodes[f].action = "auto_close"}

EdgesAt(live, n) == {e \in live : e.src = n \/ e.dst = n}

-----------------------------------------------------------------------------
(* The writers *)

CONSTANTS Clients,     \* processes that write
          Scenes       \* [nodes, edges: the graph a behaviour starts from, ops: the writers and events that take part,
                       \*  editable: the edges that may be proposed, revisable: the nodes that may be revised,
                       \*  runs: a function from run ids to their tasks, max: bound on the number of batches and events]

VARIABLES scene,       \* the scene of this behaviour
          graph,       \* [nodes: id -> sequence of revisions, edges: edge -> status]
          files,       \* [feedback, proposals, reports]: the other artifacts
          runs,        \* run -> [state, result]
          world,       \* [code, iteration, stamp, commits, quality]
          seen,        \* the group a human looked at
          client,      \* the batch each client is about to commit
          settled      \* the writer that committed last, on the graph it had read, with nothing since
vars == <<scene, graph, files, runs, world, seen, client, settled>>

Ops == scene.ops
Runs == scene.runs

-----------------------------------------------------------------------------
(* The graph as the writers read it *)

Node(type, status, source, stamp) ==
    [type |-> type, status |-> status, source |-> source, stamp |-> stamp, action |-> "none", kind |-> "none", subjects |-> {},
     passed |-> FALSE, code |-> 0, gate |-> "none", iteration |-> 0]

\* materializeLedger keeps the greatest revision of every node and the last record of every edge.
Now(n) == graph.nodes[n][Len(graph.nodes[n])]
Current == [n \in DOMAIN graph.nodes |-> Now(n)]
Live == {e \in DOMAIN graph.edges : graph.edges[e] \in Open}
Rev(n) == IF n \in DOMAIN graph.nodes THEN Len(graph.nodes[n]) ELSE 0
\* Integrity is checked over every edge record ever committed, retired since or not.
Readable == checkGraphIntegrity(Current, DOMAIN graph.edges, DOMAIN graph.edges)

Edge(type, src, dst) == [type |-> type, src |-> src, dst |-> dst, by |-> "edge"]
BlockEdge(f, iteration) == [type |-> "BLOCKS", src |-> f, dst |-> iteration, by |-> "block"]
Iteration(k) == <<"iteration", ToString(k)>>

\* What a writer is about to commit; cur and live are the graph as it will be.
Draft == [cur |-> Current, live |-> Live, rev |-> [n \in DOMAIN graph.nodes |-> Rev(n)],
          nodes |-> {}, feedback |-> {}, proposals |-> {}, reports |-> {}, edges |-> <<>>]
RevIn(d, n) == IF n \in DOMAIN d.rev THEN d.rev[n] ELSE 0
AddNode(d, n, rev, node) ==
    [d EXCEPT !.cur = (n :> node) @@ @, !.rev = (n :> rev) @@ @, !.nodes = @ \cup {[id |-> n, rev |-> rev, node |-> node]}]
Activate(d, new) ==
    LET added == new \ d.live IN [d EXCEPT !.live = @ \cup new, !.edges = [e \in added |-> "accepted"] @@ @]
Retire(d, old) ==
    LET gone == d.live \cap old IN [d EXCEPT !.live = @ \ old, !.edges = [e \in gone |-> "superseded"] @@ @]
Empty(d) == d.nodes = {} /\ d.feedback = {} /\ d.proposals = {} /\ d.reports = {} /\ DOMAIN d.edges = {}

Feedback(f, status, stamp) == [id |-> f, status |-> status, stamp |-> stamp]
Note(f, status) == {x \in files.feedback : x.id = f /\ x.status = status}

-----------------------------------------------------------------------------
(* Edits of relations *)

validateProposal(e) ==
    {e.src, e.dst} \subseteq DOMAIN graph.nodes /\ isRelationCompatible(e.type, Now(e.src).type, Now(e.dst).type)
Staged(e) == {p \in files.proposals : p.edge = e}
Proposal(e, semantic) ==
    [edge |-> e, semantic |-> semantic, src |-> IF semantic THEN Rev(e.src) ELSE 0, dst |-> IF semantic THEN Rev(e.dst) ELSE 0,
     index |-> IF semantic THEN world.code ELSE 0, stamp |-> world.stamp]
SameSuggestion(p, q) == p.semantic /\ [p EXCEPT !.stamp = 0] = [q EXCEPT !.stamp = 0]

\* A staged proposal of the same edge is reused; any other one at its path is written over.
Related(e) == \E x \in Live : x.type = e.type /\ x.src = e.src /\ x.dst = e.dst
proposeGraphEdge(e) ==
    IF Related(e) \/ \E p \in Staged(e) : ~p.semantic THEN Draft
    ELSE [Draft EXCEPT !.proposals = {Proposal(e, FALSE)}]

proposeSemanticImpactEdges(e) ==
    IF Related(e) \/ \E p \in Staged(e) : SameSuggestion(p, Proposal(e, TRUE)) THEN Draft
    ELSE [Draft EXCEPT !.proposals = {Proposal(e, TRUE)}]

\* A suggestion holds while its endpoints and the index it was drawn from are the same.
SuggestionHolds(p) == p.semantic => p.src = Rev(p.edge.src) /\ p.dst = Rev(p.edge.dst) /\ p.index = world.code
approveGraphEdge(p) == IF p.edge \in Live THEN Draft ELSE Activate(Draft, {p.edge})

-----------------------------------------------------------------------------
(* Findings of the audit *)

AuditFinding(gap, iteration, stamp) ==
    [Node("Finding", "proposed", "audit", stamp) EXCEPT
        !.action = Actionability(gap.kind), !.kind = gap.kind, !.subjects = gap.subjects, !.iteration = iteration]
Superseded(d, f, stamp) == [d.cur[f] EXCEPT !.status = "superseded", !.stamp = stamp]

\* Tasks with a passing quality record bound to the code of now.
provenQualityTaskIds == {q[1] : q \in {x \in world.quality : x[2] = world.code}}

auditReport == auditGraph(Current, Live, provenQualityTaskIds)
FindingEdges(findings) == UNION {EdgesAt(Live, f) : f \in findings}

\* A gap's record and first revision are written once; a gap that is no longer reproduced retires its finding.
commitAuditFindings(stamp) ==
    LET gaps == auditReport
        fresh == {g \in gaps : Rev(g.id) = 0}
        blocks == {BlockEdge(g.id, Iteration(world.iteration)) : g \in {x \in gaps : Blocking(x.kind)}}
        decayed == planFindingDecay(Current, gaps)
        new == [nodes |-> {[id |-> g.id, rev |-> 1, node |-> AuditFinding(g, world.iteration, stamp)] : g \in fresh}
                          \cup {[id |-> f, rev |-> Rev(f) + 1, node |-> Superseded(Draft, f, stamp)] : f \in decayed},
                feedback |-> {Feedback(g.id, "proposed", stamp) : g \in {x \in gaps : Note(x.id, "proposed") = {}}}
                             \cup UNION {{Feedback(f, "superseded", n.stamp) : n \in Note(f, "proposed")} : f \in decayed}]
        kept == [Draft EXCEPT !.nodes = new.nodes, !.feedback = new.feedback]
    IN Retire(Activate(kept, blocks \ DOMAIN graph.edges), FindingEdges(decayed))

-----------------------------------------------------------------------------
(* Decisions on a group of findings *)

\* A group is keyed by rule, scope, severity and actionability: by the kind of gap.
Members(kind) == {n \in DOMAIN Current : Current[n].type = "Finding" /\ Current[n].kind = kind /\ Current[n].status # "tombstoned"}
membershipDigest(kind) == {<<n, Rev(n), Current[n]>> : n \in Members(kind)}

validGroupEvidence(members) ==
    \E n \in DOMAIN Current : /\ Current[n].type = "Evidence" /\ Current[n].source = "gate" /\ Current[n].passed
                              /\ Current[n].code = world.code
                              /\ \A f \in members : Current[n].subjects \cap Current[f].subjects # {}

Transitioning(kind, action) ==
    {f \in Members(kind) : Current[f].status \in IF action = "accept" THEN {"proposed"} ELSE Open}
Unchanged(view) == view.members = membershipDigest(view.kind)
MayResolve(view, action) ==
    /\ Unchanged(view)
    /\ action = "close" => validGroupEvidence(Transitioning(view.kind, action))
    /\ \A f \in Transitioning(view.kind, action) : Note(f, "proposed") # {}

resolveFindingGroup(kind, action, stamp) ==
    LET moved == Transitioning(kind, action)
        status == CASE action = "accept" -> "accepted" [] action = "close" -> "closed" [] OTHER -> "superseded"
        Sealed(f) == IF action = "close" THEN stamp ELSE (CHOOSE n \in Note(f, "proposed") : TRUE).stamp
        Revised(f) == [Current[f] EXCEPT !.status = IF action = "accept" THEN "accepted" ELSE "superseded", !.stamp = stamp]
        kept == [Draft EXCEPT !.nodes = {[id |-> f, rev |-> Rev(f) + 1, node |-> Revised(f)] : f \in moved},
                              !.feedback = {Feedback(f, status, Sealed(f)) : f \in moved}]
    IN IF action = "accept" THEN kept ELSE Retire(kept, FindingEdges(moved))

-----------------------------------------------------------------------------
(* Evaluations *)

Evaluation(type, passed, run, stamp) == [Node(type, "accepted", "evaluation", stamp) EXCEPT !.passed = passed, !.gate = run]
VerdictEdges(r, evidence, case) ==
    {Edge("EXECUTES", r, Runs[r]), Edge("PRODUCES", r, evidence), Edge("SUPPORTS", evidence, case),
     Edge("EVALUATES", case, Runs[r]), Edge("EVALUATES", case, r)}

\* A node already bound to the same report is left alone; another report revises it.
appendNode(d, n, type, passed, r, stamp) ==
    IF n \in DOMAIN d.cur /\ d.cur[n].passed = passed THEN d
    ELSE AddNode(d, n, RevIn(d, n) + 1, Evaluation(type, passed, r[2], stamp))
appendVerdict(d, report) ==
    LET evidence == appendNode(d, report.evidence, "Evidence", report.passed, report.run, report.stamp)
        case == appendNode(evidence, report.case, "EvaluationCase", report.passed, report.run, report.stamp)
    IN Activate(case, VerdictEdges(report.run, report.evidence, report.case))

\* The report's file is named by the task and the verdict, and contains the time.
Report(evidence, case, r, passed, stamp) == [evidence |-> evidence, case |-> case, run |-> r, passed |-> passed, stamp |-> stamp]
ReportOf(r) == {x \in files.reports : x.run = r /\ x.evidence = <<"evaluation", Runs[r][2]>>}
Passes(r) == runs[r].result = "good"
evaluateTaskRun(r, stamp) ==
    LET task == Runs[r]
        finding == <<"finding", "evaluation", <<task>>>>
    IN IF ReportOf(r) # {} THEN appendVerdict(Draft, CHOOSE x \in ReportOf(r) : TRUE)
       ELSE [Draft EXCEPT !.reports = {Report(<<"evaluation", task[2]>>, <<"case", task[2]>>, r, Passes(r), stamp)},
                          !.feedback = IF Passes(r) THEN {} ELSE {Feedback(finding, "proposed", stamp)}]

\* The reports of a task are read in the order of their digests; the last summary of a digest names the run.
Known(passed, evidence) == {x \in files.reports : x.passed = passed /\ x.evidence = evidence /\ runs[x.run].result # "none"}
Backfilled(d, evidence, passed) ==
    IF Known(passed, evidence) = {} THEN d ELSE appendVerdict(d, CHOOSE x \in Known(passed, evidence) : TRUE)
backfillEvaluationGraph ==
    LET all == {x.evidence : x \in files.reports}
        Both(d, evidence) == Backfilled(Backfilled(d, evidence, FALSE), evidence, TRUE)
        done[S \in SUBSET all] == IF S = {} THEN Draft
                                  ELSE LET x == CHOOSE x \in S : TRUE IN Both(done[S \ {x}], x)
    IN done[all]

-----------------------------------------------------------------------------
(* The repair of historical gaps, in the order of reconcileProjectGraph *)

RetiredFindings(d) == {n \in DOMAIN d.cur : d.cur[n].type = "Finding" /\ d.cur[n].status \in {"superseded", "tombstoned"}}
SweepRetired(d) == Retire(d, UNION {EdgesAt(d.live, f) : f \in RetiredFindings(d)})

Terminal == {r \in DOMAIN Runs : runs[r].state \in {"terminated", "interrupted"} /\ Runs[r] \in DOMAIN Current}
EvaluatedRuns(d) == {e.dst : e \in {x \in d.live : /\ x.type = "EVALUATES" /\ TypeOf(d.cur, x.src) = "EvaluationCase"
                                                   /\ d.cur[x.src].status = "accepted"}}
\* An interrupted run without a result counts as failed; a terminated one without a result is skipped.
EvaluateRuns(d) ==
    LET linked == Activate(d, {Edge("EXECUTES", r, Runs[r]) : r \in Terminal})
        due == {r \in Terminal \ EvaluatedRuns(d) : runs[r].result # "none" \/ runs[r].state = "interrupted"}
        Due(r) == Report(<<"evaluation_run", r[2]>>, <<"case_run", r[2]>>, r, Passes(r), 0)
        Evaluated(d0, r) == Activate(AddNode(AddNode([d0 EXCEPT !.reports = @ \cup {Due(r)}],
                                                     Due(r).evidence, 1, Evaluation("Evidence", Passes(r), r[2], 0)),
                                             Due(r).case, 1, Evaluation("EvaluationCase", Passes(r), r[2], 0)),
                                     VerdictEdges(r, Due(r).evidence, Due(r).case))
        done[S \in SUBSET due] == IF S = {} THEN linked
                                  ELSE LET r == CHOOSE r \in S : TRUE IN Evaluated(done[S \ {r}], r)
    IN done[due]

\* Evidence of the code of now, or of a completed iteration whose commit is the worktree.
FreshGateEvidence(d) ==
    {n \in DOMAIN d.cur : /\ d.cur[n].type = "Evidence" /\ d.cur[n].status = "accepted" /\ d.cur[n].source = "gate"
                          /\ d.cur[n].passed
                          /\ \/ d.cur[n].code = world.code
                             \/ <<d.cur[n].iteration, world.code>> \in world.commits}
\* A test that names gates is linked to the evidence of those; one that names none of the fresh ones, to all.
LinkEvidence(d) ==
    LET fresh == FreshGateEvidence(d)
        NamesAny(t) == \E n \in fresh : d.cur[n].gate \in FactsOf(t).gates
    IN Activate(d, {Edge("SUPPORTS", p[1], p[2]) :
                       p \in {x \in fresh \X Nodes(d.cur, "Test", {"accepted"}) :
                                 NamesAny(x[2]) => d.cur[x[1]].gate \in FactsOf(x[2]).gates}})

VirtualGaps(d) == auditGraph([n \in {x \in DOMAIN d.cur : d.cur[x].status # "tombstoned"} |-> d.cur[n]], d.live, {})
\* A gap without an open finding gets one, at revision 1.
CreateFindings(d, stamp) ==
    LET missing == {g \in VirtualGaps(d) : ~(g.id \in DOMAIN d.cur /\ d.cur[g.id].status \in Open)}
        files0 == [d EXCEPT !.nodes = @ \cup {[id |-> g.id, rev |-> 1, node |-> AuditFinding(g, world.iteration, stamp)] : g \in missing},
                            !.feedback = @ \cup {Feedback(g.id, "proposed", stamp) : g \in missing}]
    IN Activate(files0, {Edge("BLOCKS", g.id, Iteration(world.iteration)) : g \in {x \in missing : Blocking(x.kind)}})

DecayNodes(d, gaps, stamp) ==
    [d EXCEPT !.nodes = @ \cup {[id |-> f, rev |-> d.rev[f] + 1, node |-> [Superseded(d, f, stamp) EXCEPT !.source = "migration"]] :
                                    f \in planFindingDecay(d.cur, gaps)}]
DecayFindings(d, gaps, stamp) ==
    Retire(DecayNodes(d, gaps, stamp), UNION {EdgesAt(d.live, f) : f \in planFindingDecay(d.cur, gaps)})

reconcileProjectGraph(stamp) ==
    LET repaired == LinkEvidence(EvaluateRuns(SweepRetired(Draft)))
    IN DecayFindings(CreateFindings(repaired, stamp), VirtualGaps(repaired), stamp)

-----------------------------------------------------------------------------
(* The processes *)

NoView == [kind |-> "none", members |-> {}]
Idle == [op |-> "none", batch |-> <<>>, view |-> NoView, fresh |-> TRUE]
Nothing == [by |-> "none", ok |-> TRUE]

Init ==
    /\ scene \in Scenes
    /\ graph = [nodes |-> [n \in DOMAIN scene.nodes |-> <<scene.nodes[n]>>], edges |-> [e \in scene.edges |-> "accepted"]]
    /\ files = [feedback |-> {}, proposals |-> {}, reports |-> {}]
    /\ runs = [r \in DOMAIN Runs |-> [state |-> "running", result |-> "none"]]
    /\ world = [code |-> 1, iteration |-> 1, stamp |-> 1, commits |-> {}, quality |-> {}]
    /\ seen = NoView
    /\ client = [c \in Clients |-> Idle]
    /\ settled = Nothing

\* A writer reads the graph, which fails when the graph is not sound, and computes its batch.
Written(d) == [nodes |-> d.nodes, feedback |-> d.feedback, proposals |-> d.proposals, reports |-> d.reports, edges |-> d.edges]
Begin(c, op, d) ==
    /\ op \in Ops /\ client[c].op = "none" /\ world.stamp < scene.max /\ Readable
    /\ client' = [client EXCEPT ![c] = [op |-> op, batch |-> Written(d), view |-> seen, fresh |-> TRUE]]
    /\ world' = [world EXCEPT !.stamp = @ + 1]
    /\ UNCHANGED <<scene, graph, files, runs, seen, settled>>

Propose(c, e) == validateProposal(e) /\ Begin(c, "propose", proposeGraphEdge(e))
Suggest(c, e) == e.type = "MAY_IMPACT" /\ validateProposal(e) /\ Begin(c, "suggest", proposeSemanticImpactEdges(e))
Approve(c, e) == \E p \in Staged(e) :
    validateProposal(e) /\ (e \in Live \/ SuggestionHolds(p)) /\ Begin(c, "approve", approveGraphEdge(p))
Audit(c) == Begin(c, "audit", commitAuditFindings(world.stamp))
Resolve(c, action) ==
    /\ seen.kind # "none" /\ Members(seen.kind) # {} /\ MayResolve(seen, action)
    /\ Begin(c, action, resolveFindingGroup(seen.kind, action, world.stamp))
Evaluate(c, r) == runs[r].state = "terminated" /\ runs[r].result # "none" /\ Begin(c, "evaluate", evaluateTaskRun(r, world.stamp))
Backfill(c) == Begin(c, "backfill", backfillEvaluationGraph)
Reconcile(c) == Begin(c, "reconcile", reconcileProjectGraph(world.stamp))

\* A file that exists with other bytes refuses the whole batch.
Conflict(d) ==
    \/ \E x \in d.nodes : x.rev <= Rev(x.id) /\ graph.nodes[x.id][x.rev] # x.node
    \/ \E x \in d.feedback, y \in files.feedback : x.id = y.id /\ x.status = y.status /\ x.stamp # y.stamp
    \/ \E x \in d.proposals, y \in files.proposals : x.edge = y.edge /\ x # y
    \/ \E x \in d.reports, y \in files.reports : x.evidence = y.evidence /\ x.passed = y.passed /\ x.stamp # y.stamp

Revisions(d, n) == {x \in d.nodes : x.id = n}
Merge(d) ==
    LET touched == {x.id : x \in d.nodes}
        At(n, k) == IF k <= Rev(n) THEN graph.nodes[n][k] ELSE (CHOOSE x \in Revisions(d, n) : x.rev = k).node
        Last(n) == Rev(n) + Cardinality({x \in Revisions(d, n) : x.rev > Rev(n)})
    IN [nodes |-> [n \in touched |-> [k \in 1..Last(n) |-> At(n, k)]] @@ graph.nodes, edges |-> d.edges @@ graph.edges]

Outdated(c) == [x \in Clients |-> IF x = c \/ client[x].op = "none" THEN Idle
                                  ELSE [client[x] EXCEPT !.fresh = Empty(client[c].batch) /\ @]]
Commit(c) ==
    /\ client[c].op # "none"
    /\ LET d == client[c].batch IN
       IF Conflict(d)
       THEN /\ client' = [client EXCEPT ![c] = Idle]
            /\ settled' = [by |-> IF client[c].fresh THEN client[c].op ELSE "none", ok |-> FALSE]
            /\ UNCHANGED <<graph, files>>
       ELSE /\ graph' = Merge(d)
            /\ files' = [feedback |-> files.feedback \cup d.feedback, proposals |-> files.proposals \cup d.proposals,
                         reports |-> files.reports \cup d.reports]
            /\ client' = Outdated(c)
            /\ settled' = [by |-> IF client[c].fresh THEN client[c].op ELSE "none", ok |-> TRUE]
    /\ UNCHANGED <<scene, runs, world, seen>>

\* A process that dies between its read and its commit leaves nothing behind.
Crash(c) == /\ "crash" \in Ops /\ client[c].op # "none"
            /\ client' = [client EXCEPT ![c] = Idle]
            /\ UNCHANGED <<scene, graph, files, runs, world, seen, settled>>

Look(kind) == /\ "look" \in Ops /\ Members(kind) # {} /\ seen # [kind |-> kind, members |-> membershipDigest(kind)]
              /\ seen' = [kind |-> kind, members |-> membershipDigest(kind)]
              /\ UNCHANGED <<scene, graph, files, runs, world, client, settled>>

-----------------------------------------------------------------------------
(* What the rest of the program does to the graph and the worktree *)

\* One revision, `new`, of node n (none when n is not a node of the instance).
Event(op, w, n, new, ran) ==
    /\ op \in Ops /\ world.stamp < scene.max
    /\ world' = [w EXCEPT !.stamp = @ + 1]
    /\ graph' = IF n = <<>> THEN graph
                ELSE [graph EXCEPT !.nodes = (n :> Append(IF n \in DOMAIN @ THEN @[n] ELSE <<>>, new)) @@ @]
    /\ runs' = ran
    /\ client' = [c \in Clients |-> [client[c] EXCEPT !.fresh = client[c].op = "none"]]
    /\ settled' = Nothing
    /\ UNCHANGED <<scene, files, seen>>

Revise(n, status) == Now(n).status # status /\ Event("revise", world, n, [Now(n) EXCEPT !.status = status], runs)
EditCode == Event("code", [world EXCEPT !.code = @ + 1], <<>>, <<>>, runs)
RunGate(gate, subject, passed) ==
    Event("gate", world, <<"evidence", ToString(world.stamp)>>,
          [Node("Evidence", "accepted", "gate", world.stamp) EXCEPT
              !.passed = passed, !.code = world.code, !.gate = gate, !.subjects = {subject}, !.iteration = world.iteration], runs)
CompleteIteration ==
    Event("iterate", [world EXCEPT !.iteration = @ + 1, !.commits = @ \cup {<<world.iteration, world.code>>}],
          Iteration(world.iteration + 1), Node("Iteration", "accepted", "human", 0), runs)
ProveTask(t) == <<t, world.code>> \notin world.quality
                /\ Event("prove", [world EXCEPT !.quality = @ \cup {<<t, world.code>>}], <<>>, <<>>, runs)
EndRun(r, state, result) ==
    runs[r].state = "running" /\ Event("run", world, <<>>, <<>>, [runs EXCEPT ![r] = [state |-> state, result |-> result]])

Tests == {n \in DOMAIN scene.nodes : scene.nodes[n].type = "Test"}
Gates == UNION {FactsOf(t).gates : t \in Tests} \cup {"lint"}
Next ==
    \/ \E c \in Clients :
          \/ \E e \in scene.editable : Propose(c, e) \/ Suggest(c, e) \/ Approve(c, e)
          \/ Audit(c) \/ Backfill(c) \/ Reconcile(c) \/ Commit(c) \/ Crash(c)
          \/ \E action \in {"accept", "close", "supersede"} : Resolve(c, action)
          \/ \E r \in DOMAIN Runs : Evaluate(c, r)
    \/ \E n \in DOMAIN graph.nodes : Now(n).kind # "none" /\ Look(Now(n).kind)
    \/ \E n \in scene.revisable, status \in {"accepted", "superseded"} : Revise(n, status)
    \/ EditCode \/ CompleteIteration
    \/ \E g \in Gates, t \in Tests, passed \in BOOLEAN : RunGate(g, t, passed)
    \/ \E t \in scene.revisable : TypeOf(Current, t) = "Task" /\ ProveTask(t)
    \/ \E r \in DOMAIN Runs :
          \/ \E result \in {"none", "good", "bad"} : EndRun(r, "terminated", result)
          \/ EndRun(r, "interrupted", "none")
Spec == Init /\ [][Next]_vars

-----------------------------------------------------------------------------
(* Properties *)

\* Revisions are sequences of records, edges have a status, and every file belongs to something that was written.
TypeOK ==
    /\ \A n \in DOMAIN graph.nodes : Len(graph.nodes[n]) > 0 /\ Current[n].status \in {"proposed", "accepted", "superseded"}
    /\ \A e \in DOMAIN graph.edges : graph.edges[e] \in {"accepted", "superseded"}
    /\ \A x \in files.feedback : x.status \in {"proposed", "accepted", "closed", "superseded"}
    /\ world.stamp \in 1..scene.max /\ \A c \in Clients : client[c].op \in Ops \cup {"none"}

\* validateProposal runs before a proposal is staged and again before it is approved (edits.ts): no relation between
\* unknown nodes, or of the wrong types, is ever committed.
EdgesFitTheGraph == Dangling(Current, DOMAIN graph.edges) = {} /\ Incompatible(Current, DOMAIN graph.edges) = {}

\* A reconcile that committed to the graph it read left nothing to repair: running it again changes nothing
\* (reconcileProjectGraph is an "append-only repair" of gaps, and a repair that never ends repairs nothing).
ReconcileSettles == settled = [by |-> "reconcile", ok |-> TRUE] => Empty(reconcileProjectGraph(world.stamp))

\* After the completion audit no finding that closes itself is open for a gap that the graph no longer has.
NoPhantomBlocker ==
    settled = [by |-> "audit", ok |-> TRUE] => planFindingDecay(Current, auditGraph(Current, Live, provenQualityTaskIds)) = {}

\* A decision on a group moves only findings that are, when the decision is committed, as the human saw them:
\* the digest of the members is compared before, and the ledger refuses a revision that exists.
MovesWhatWasSeen ==
    \A c \in Clients : client[c].op \in {"accept", "close", "supersede"} /\ client'[c].op = "none" =>
        \A n \in DOMAIN Current : graph'.nodes[n] # graph.nodes[n] => <<n, Rev(n), Current[n]>> \in client[c].view.members

\* The audit, the reconcile and the group decisions retire relations of findings only: no relation between other nodes
\* that was accepted is lost.
RelationsKept ==
    \A e \in Live : TypeOf(Current, e.src) # "Finding" /\ TypeOf(Current, e.dst) # "Finding" => graph'.edges[e] = graph.edges[e]

\* The backfill adds what is missing once: run again it changes nothing, for tasks with one verdict.
BackfillSettles ==
    settled = [by |-> "backfill", ok |-> TRUE] /\ (\A x, y \in files.reports : x.evidence = y.evidence => x.passed = y.passed)
    => Empty(backfillEvaluationGraph)

\* No approved edit leaves a graph that cannot be read any more.
GraphStaysReadable == Readable
\* After the completion audit every gap that blocks has an open finding.
EveryGapIsOpen ==
    settled = [by |-> "audit", ok |-> TRUE] =>
        \A g \in auditGraph(Current, Live, provenQualityTaskIds) : g.id \in DOMAIN Current => Current[g.id].status \in Open
=============================================================================
