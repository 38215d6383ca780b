---------------------------- MODULE TaskVerdict ----------------------------
(***************************************************************************)
(* Whether a task is done: the verdict over its acceptance assertions, the *)
(* gates, the evaluation of its run and the proof of its TDD cycles        *)
(* (packages/runtime/src/evaluation/task-verdict.ts, tdd/verdict.ts), and  *)
(* how the kernel commits it (commitTaskVerdict).  Gates are run again,    *)
(* runs evaluated again and cycles completed between two verdicts.         *)
(*                                                                         *)
(* Evidence ids are numbers that grow with every gate run and evaluation.  *)
(***************************************************************************)
EXTENDS Naturals, FiniteSets

CONSTANTS
    Tasks,          \* the tasks a behaviour may be about: [assertions, mode, evaluated, tdd, refactor, binding]
    Gates,          \* gate ids
    MaxEvidence,    \* bound on gate runs and evaluations
    MaxCycles,      \* bound on cycle records
    MaxRevisions    \* bound on the revisions of the Task node

VARIABLES
    task,           \* the task
    gates,          \* the stored gate results: gate -> [passed, evidence], a subset of Gates
    evaluation,     \* [passed, evidence], or None
    tdd,            \* [contract: digest of the accepted TDD contract, cycles: cycle records]
    used,           \* evidence ids handed out
    files,          \* verdict artifacts: id -> verdict record
    node,           \* the Task node's current revision: [revision, status, verdict]
    last            \* the inputs and the verdict of the last commit, or None
vars == <<task, gates, evaluation, tdd, used, files, node, last>>

None == [evidence |-> 0, passed |-> FALSE]
Unjudged == [id |-> <<{}, 0>>]
Evaluated == evaluation # None

-----------------------------------------------------------------------------
(* computeTaskTddVerdict: "tdd_incomplete_or_invalid" is the only state    *)
(* that fails a task.                                                      *)
Covering(a) == {c \in tdd.cycles : c.status = "completed" /\ a \in c.assertions}
CycleProves(a) ==
    /\ Cardinality(Covering(a)) = 1
    /\ \A c \in Covering(a) : c.contract = tdd.contract /\ (task.refactor => c.refactored)

gatesPassed == \A g \in DOMAIN gates : gates[g].passed

\* No framework evidence reaches the kernel's input, so that mode is never
\* proven there (taskTddVerdictInput).
computeTaskTddVerdict ==
    CASE task.mode = "not_applicable" ->
           IF task.binding THEN "controlled_not_applicable" ELSE "tdd_incomplete_or_invalid"
      [] task.mode = "framework_bootstrap" -> "tdd_incomplete_or_invalid"
      [] OTHER ->
           IF /\ \A a \in DOMAIN task.assertions : CycleProves(a)
              /\ gatesPassed
              /\ Evaluated => evaluation.passed
           THEN "tdd_proven" ELSE "tdd_incomplete_or_invalid"

tddPasses == task.tdd => computeTaskTddVerdict # "tdd_incomplete_or_invalid"

-----------------------------------------------------------------------------
(* buildVerdict.                                                           *)
EvidenceOf(a) ==
    {gates[g].evidence : g \in task.assertions[a].gates \cap DOMAIN gates}
      \cup (IF Evaluated THEN {evaluation.evidence} ELSE {})
RequirementMet(a, need) ==
    CASE need = "gate_evidence" -> task.assertions[a].gates # {}
      [] need = "evaluation_evidence" -> Evaluated
      [] OTHER -> EvidenceOf(a) # {}
AssertionPasses(a) ==
    LET assertion == task.assertions[a] IN
    /\ assertion.tested
    /\ assertion.gates \subseteq {g \in DOMAIN gates : gates[g].passed}
    /\ task.evaluated => evaluation.passed
    /\ \A need \in assertion.needs : RequirementMet(a, need)
    /\ EvidenceOf(a) # {}

Id == <<{gates[g].evidence : g \in DOMAIN gates}, evaluation.evidence>>
buildVerdict(created) ==
    [id |-> Id, created |-> created,
     passed |-> /\ DOMAIN task.assertions # {}
                /\ \A a \in DOMAIN task.assertions : AssertionPasses(a)
                /\ tddPasses,
     evidence |-> UNION {EvidenceOf(a) : a \in DOMAIN task.assertions}]

-----------------------------------------------------------------------------
(* commitTaskVerdict: the artifact is written once per id, the Task node   *)
(* gets a revision unless it already carries the same record.              *)
Status(verdict) == IF verdict.passed THEN "accepted" ELSE "proposed"
alreadyProjected(verdict) == node.status = Status(verdict) /\ node.verdict = verdict

commitTaskVerdict(verdict) ==
    /\ files' = IF verdict.id \in DOMAIN files THEN files
                ELSE [id \in DOMAIN files \cup {verdict.id} |-> IF id = verdict.id THEN verdict ELSE files[id]]
    /\ node' = IF alreadyProjected(verdict) THEN node
               ELSE [revision |-> node.revision + 1,
                     status |-> Status(verdict), verdict |-> verdict]

\* The snapshot phase judges once the stored gate results still bind the
\* sources and, with the evaluation module, every run is evaluated.
Judge(created) ==
    /\ DOMAIN gates # {}
    /\ task.evaluated => Evaluated
    /\ node.revision < MaxRevisions
    /\ commitTaskVerdict(buildVerdict(created))
    /\ last' = [verdict |-> buildVerdict(created), gates |-> gates, evaluation |-> evaluation,
                tdd |-> tdd, judged |-> TRUE]
    /\ UNCHANGED <<task, gates, evaluation, tdd, used>>

RunGates(results) ==
    /\ used < MaxEvidence
    /\ used' = used + 1
    /\ gates' = [g \in DOMAIN results |-> [passed |-> results[g], evidence |-> used + 1]]
    /\ evaluation' = None
    /\ UNCHANGED <<task, tdd, files, node, last>>

Evaluate(passed) ==
    /\ task.evaluated /\ ~Evaluated /\ DOMAIN gates # {} /\ used < MaxEvidence
    /\ used' = used + 1
    /\ evaluation' = [passed |-> passed, evidence |-> used + 1]
    /\ UNCHANGED <<task, gates, tdd, files, node, last>>

\* A TDD cycle ends; a cycle restarted after its records were invalidated
\* covers its assertions again.
EndCycle(cycle) ==
    /\ task.tdd /\ Cardinality(tdd.cycles) < MaxCycles
    /\ cycle.assertions \subseteq DOMAIN task.assertions /\ cycle.assertions # {}
    /\ tdd' = [tdd EXCEPT !.cycles = @ \cup {cycle}]
    /\ UNCHANGED <<task, gates, evaluation, used, files, node, last>>

ReviseContract ==
    /\ task.tdd /\ tdd.contract = 1 /\ tdd' = [tdd EXCEPT !.contract = 2]
    /\ UNCHANGED <<task, gates, evaluation, used, files, node, last>>

Init ==
    /\ task \in Tasks
    /\ gates = [g \in {} |-> None] /\ evaluation = None
    /\ tdd = [contract |-> 1, cycles |-> {}] /\ used = 0
    /\ files = [id \in {} |-> None]
    /\ node = [revision |-> 1, status |-> "proposed", verdict |-> Unjudged]
    /\ last = [judged |-> FALSE]
Next ==
    \/ \E created \in 1..2 : Judge(created)
    \/ \E S \in SUBSET Gates \ {{}} : \E results \in [S -> BOOLEAN] : RunGates(results)
    \/ \E passed \in BOOLEAN : Evaluate(passed)
    \/ \E status \in {"completed", "blocked"}, S \in SUBSET DOMAIN task.assertions, refactored \in BOOLEAN :
         EndCycle([status |-> status, assertions |-> S, contract |-> tdd.contract, refactored |-> refactored,
                    n |-> Cardinality(tdd.cycles)])
    \/ ReviseContract
Spec == Init /\ [][Next]_vars

-----------------------------------------------------------------------------
TypeOK ==
    /\ task \in Tasks /\ used \in 0..MaxEvidence /\ tdd.contract \in 1..2
    /\ DOMAIN gates \subseteq Gates /\ \A g \in DOMAIN gates : gates[g].evidence \in 1..used
    /\ node.status \in {"proposed", "accepted"} /\ node.revision \in Nat

\* The Task node says what the last verdict said, whatever was judged before
\* under the same evidence (commitTaskVerdict: the node follows the verdict
\* just built, the artifact of an id is never rewritten).
NodeFollowsVerdict ==
    last.judged => /\ node.verdict = last.verdict
                   /\ node.status = "accepted" <=> last.verdict.passed

\* An accepted task under strict TDD rests on one completed cycle for each of
\* its assertions, none of them under an earlier contract, and on no failing
\* gate (computeTaskTddVerdict through buildVerdict and commitTaskVerdict).
AcceptedIsProven ==
    last.judged /\ node.status = "accepted" /\ task.tdd /\ task.mode = "required"
      => /\ \A a \in DOMAIN task.assertions :
              \E c \in last.tdd.cycles : /\ {d \in last.tdd.cycles : d.status = "completed" /\ a \in d.assertions} = {c}
                                         /\ c.contract = last.tdd.contract
         /\ \A g \in DOMAIN last.gates : last.gates[g].passed
         /\ last.evaluation # None => last.evaluation.passed
=============================================================================
