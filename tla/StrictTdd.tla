------------------------------ MODULE StrictTdd ------------------------------
(***************************************************************************)
(* Strict TDD (runtime/src/tdd): runTask proves a task in the order        *)
(* baseline, tests, red, implementation, green and, if planned, refactor.  *)
(* Every phase works in a workspace of its own, made from the baseline, so *)
(* several calls for one cycle share only the evidence store; one step     *)
(* models a phase up to its next append.  A tree maps each path to its     *)
(* version, 0 being the baseline's; a patch is the part of a tree that     *)
(* differs from the baseline.                                              *)
(***************************************************************************)
EXTENDS Naturals, FiniteSets, FiniteSetsExt, Functions

CONSTANTS MaxCalls,      \* how often runTask is called
          Contracts,     \* contract digests a call may carry
          Scope,         \* path -> the write scope of the path policy it lies in
          Class,         \* path -> what classifyPath says of it
          TaskPaths,     \* Task.write_paths; {} when the task declares none
          Writes,        \* the sets of files an executor may hand over
          Observations,  \* what a gate run may report
          Oracle,        \* the failure oracle of the cluster
          Planned,       \* is a refactor planned?
          Overlapping    \* the pairs of calls that may overlap

VARIABLES run, evidence, cycles, published
vars == <<run, evidence, cycles, published>>

Calls == 1..MaxCalls
Paths == DOMAIN Scope
Baseline == [p \in Paths |-> 0]
None == [type |-> "none"]
Fresh == [pc |-> "new", contract |-> "none", ordinal |-> 0, tree |-> Baseline, patch |-> <<>>,
          baseline |-> None, red |-> None, green |-> None, refactor |-> None, status |-> "none",
          accepted |-> {}, grants |-> {}]
Over == {"handoff", "failed", "drift", "replay refused"}
Init == run = [c \in Calls |-> Fresh] /\ evidence = {} /\ cycles = {} /\ published = {}

-----------------------------------------------------------------------------
(* Workspaces and patches.                                                 *)
Diff(tree) == {p \in Paths : tree[p] # 0}
CanonicalTestPatch(tree, S) == [p \in S \cap Diff(tree) |-> tree[p]]
ApplyFiles(tree, files, version) == [p \in Paths |-> IF p \in files THEN version ELSE tree[p]]
ApplyPatch(patch) == [p \in Paths |-> IF p \in DOMAIN patch THEN patch[p] ELSE 0]

ValidateTestAuthoringPatch(files) == \A p \in files : Class[p] \in {"test", "test_config"}
TddPhaseWriteScopes(phase) ==
    CASE phase \in {"baseline_guard", "red_verification"} -> {}
      [] phase = "test_authoring" -> {p \in Paths : Scope[p] \in {"test", "test_config"}}
      [] phase \in {"implementation", "refactor"} -> {p \in Paths : Scope[p] = "production"}
EffectiveTddWriteScopes(phase) ==
    IF TaskPaths = {} THEN TddPhaseWriteScopes(phase) ELSE TddPhaseWriteScopes(phase) \cap TaskPaths
AttestWriteSet(files, phase) == files \subseteq EffectiveTddWriteScopes(phase)
(* Without Task.write_paths only the path policy limits the tests.         *)
AttestTests(files) == TaskPaths # {} => AttestWriteSet(files, "test_authoring")
IssueTddPhaseGrant(grants, phase) == grants \cup {[phase |-> phase, writes |-> TddPhaseWriteScopes(phase)]}

(* Observations: [outcome, failures, selectors, drift, touches].           *)
MatchFailureOracle(f) ==
    /\ f.kind \in Oracle.kinds
    /\ Oracle.codes # {} => f.code \in Oracle.codes
    /\ Oracle.symbols # {} => f.symbols \subseteq Oracle.symbols
    /\ Oracle.messages # {} => f.message \in Oracle.messages
GatePassed(o) == o.outcome = "structured" /\ o.failures = {} /\ o.selectors # {}
BindingDigestChecks(o) == ~o.drift
AcceptRed(o) ==
    LET hits == {f \in o.failures : f.target}
    IN /\ BindingDigestChecks(o) /\ o.outcome = "structured"
       /\ hits # {} /\ \A f \in hits : MatchFailureOracle(f)
AcceptGreen(o, red) ==
    /\ BindingDigestChecks(o) /\ o.outcome = "structured"
    /\ o.failures = {} /\ Oracle.selectors \subseteq o.selectors /\ o.selectors = red.selectors
AcceptRefactor(o, green) ==
    /\ BindingDigestChecks(o) /\ o.outcome = "structured"
    /\ o.failures = {} /\ o.selectors = green.selectors

Binding(c, type, o, tree) ==
    [type |-> type, contract |-> run[c].contract, ordinal |-> run[c].ordinal, patch |-> run[c].patch,
     selectors |-> o.selectors, tree |-> tree,
     shows |-> IF GatePassed(o) THEN "pass" ELSE IF \E f \in o.failures : f.target THEN "target fails" ELSE "other"]

-----------------------------------------------------------------------------
(* runTask.                                                                *)
NextOrdinal == Max({0} \cup {k.ordinal : k \in cycles}) + 1
Go(c, new) == run' = [run EXCEPT ![c] = new]
End(c, pc) == Go(c, [Fresh EXCEPT !.pc = pc])
Stopping(r, status) == [r EXCEPT !.pc = "stop", !.status = status]
Stop(c) == Go(c, Stopping(run[c], "blocked")) /\ UNCHANGED <<evidence, cycles, published>>

RunTask(c, contract) ==
    /\ run[c].pc = "new" /\ \A d \in 1..(c - 1) : run[d].pc # "new"
    /\ \A d \in 1..(c - 1) : run[d].pc \in Over \/ {c, d} \in Overlapping
    /\ LET done == {k \in cycles : k.status = "completed" /\ k.contract = contract}
       IN Go(c, IF done # {}
                THEN [Fresh EXCEPT !.pc = "replayed", !.contract = contract,
                                   !.ordinal = (CHOOSE k \in done : TRUE).ordinal, !.accepted = evidence]
                ELSE [Fresh EXCEPT !.pc = "baseline", !.contract = contract, !.ordinal = NextOrdinal])
    /\ UNCHANGED <<evidence, cycles, published>>

(* The baseline gate runs in an untouched workspace and must leave it so.  *)
GuardBaseline(c, o) ==
    LET r == [run[c] EXCEPT !.grants = IssueTddPhaseGrant(@, "baseline_guard")]
        e == Binding(c, "baseline_test_result", o, Baseline)
    IN /\ run[c].pc = "baseline"
       /\ IF o.drift \/ o.touches # {}
          THEN Stop(c)
          ELSE /\ evidence' = evidence \cup {e}
               /\ LET n == [r EXCEPT !.baseline = e, !.accepted = @ \cup {e}]
                  IN Go(c, IF GatePassed(o) THEN [n EXCEPT !.pc = "author"] ELSE Stopping(n, "blocked"))
               /\ UNCHANGED <<cycles, published>>

AuthorTests(c, files) ==
    LET tree == ApplyFiles(Baseline, files, 1)
    IN /\ run[c].pc = "author"
       /\ IF EffectiveTddWriteScopes("test_authoring") = {} \/ ~AttestTests(files)
             \/ ~ValidateTestAuthoringPatch(files)
          THEN Stop(c)
          ELSE /\ Go(c, [run[c] EXCEPT !.pc = "red", !.patch = CanonicalTestPatch(tree, Paths),
                                       !.grants = IssueTddPhaseGrant(@, "test_authoring")])
               /\ UNCHANGED <<evidence, cycles, published>>

VerifyRed(c, o) ==
    LET tree == ApplyPatch(run[c].patch)
        after == ApplyFiles(tree, o.touches, 3)
        e == Binding(c, "red_test_result", o, tree)
        r == [run[c] EXCEPT !.grants = IssueTddPhaseGrant(@, "red_verification")]
    IN /\ run[c].pc = "red"
       /\ IF CanonicalTestPatch(after, Paths) # run[c].patch \/ ~AcceptRed(o)
          THEN Stop(c)
          ELSE /\ evidence' = evidence \cup {e}
               /\ Go(c, [r EXCEPT !.pc = "implement", !.red = e, !.accepted = @ \cup {e}])
               /\ UNCHANGED <<cycles, published>>

(* The implementation may not change what is not production code.          *)
TestsPreservedAny(tree, patch) == TRUE
TestsPreserved(tree, patch) == CanonicalTestPatch(tree, {p \in Paths : Class[p] # "production"}) = patch
Implement(c, files) ==
    LET tree == ApplyFiles(ApplyPatch(run[c].patch), files, 2)
    IN /\ run[c].pc = "implement"
       /\ IF EffectiveTddWriteScopes("implementation") = {} \/ ~AttestWriteSet(files, "implementation")
             \/ ~TestsPreserved(tree, run[c].patch)
          THEN Stop(c)
          ELSE /\ Go(c, [run[c] EXCEPT !.pc = "green", !.tree = tree,
                                       !.grants = IssueTddPhaseGrant(@, "implementation")])
               /\ UNCHANGED <<evidence, cycles, published>>

VerifyGreen(c, o) ==
    LET e == Binding(c, "green_test_result", o, run[c].tree)
    IN /\ run[c].pc = "green"
       /\ IF ~AcceptGreen(o, run[c].red)
          THEN Stop(c)
          ELSE /\ evidence' = evidence \cup {e}
               /\ Go(c, [run[c] EXCEPT !.pc = IF Planned THEN "refactor" ELSE "complete", !.green = e,
                                       !.accepted = @ \cup {e}])
               /\ UNCHANGED <<cycles, published>>

(* The refactor's writes are held against the grant only.                  *)
Refactor(c, files, o) ==
    LET tree == ApplyFiles(run[c].tree, files, 3)
        e == Binding(c, "refactor_test_result", o, tree)
    IN /\ run[c].pc = "refactor"
       /\ IF EffectiveTddWriteScopes("refactor") = {} \/ ~AttestWriteSet(files, "refactor")
             \/ ~AcceptRefactor(o, run[c].green)
          THEN Stop(c)
          ELSE /\ evidence' = evidence \cup {e}
               /\ Go(c, [run[c] EXCEPT !.pc = "complete", !.tree = tree, !.refactor = e, !.accepted = @ \cup {e},
                                       !.grants = IssueTddPhaseGrant(@, "refactor")])
               /\ UNCHANGED <<cycles, published>>

(* A phase throws: the attempt is invalidated.                             *)
PhaseCrash(c) ==
    /\ run[c].pc \in {"baseline", "author", "red", "implement", "green", "refactor"}
    /\ Go(c, Stopping(run[c], "invalidated")) /\ UNCHANGED <<evidence, cycles, published>>

BuildTddCycleRecord(r) ==
    [contract |-> r.contract, ordinal |-> r.ordinal, patch |-> r.patch, baseline |-> r.baseline, red |-> r.red,
     green |-> r.green, refactor |-> r.refactor, status |-> IF r.pc = "complete" THEN "completed" ELSE r.status]
(* An attempt is recorded once: a second record of it makes runTask fail.  *)
Recorded(r) == \E k \in cycles : k.ordinal = r.ordinal
AppendCycle(c) ==
    /\ run[c].pc \in {"stop", "complete"}
    /\ IF Recorded(run[c])
       THEN End(c, "failed") /\ UNCHANGED cycles
       ELSE /\ cycles' = cycles \cup {BuildTddCycleRecord(run[c])}
            /\ Go(c, [run[c] EXCEPT !.pc = IF @ = "complete" THEN "completed" ELSE "blocked"])
    /\ UNCHANGED <<evidence, published>>

(* executeRequiredTddTask: what runTask returned must bind the attempt,    *)
(* then its cycle and evidence become artifacts.                           *)
OutcomeBinds(c) == \A e \in run[c].accepted : e.contract = run[c].contract /\ e.ordinal = run[c].ordinal
CycleOf(c) == CHOOSE k \in cycles : k.ordinal = run[c].ordinal
ExecuteRequiredTddTask(c) ==
    /\ run[c].pc \in {"completed", "blocked", "replayed"}
    /\ IF OutcomeBinds(c)
       THEN /\ published' = published \cup {[cycle |-> CycleOf(c), evidence |-> run[c].accepted]}
            /\ End(c, IF CycleOf(c).status = "completed" THEN "handoff" ELSE "failed")
       ELSE /\ End(c, IF run[c].pc = "replayed" THEN "replay refused" ELSE "drift")
            /\ UNCHANGED published
    /\ UNCHANGED <<evidence, cycles>>

Ended == \A c \in Calls : run[c].pc \in Over
Next ==
    \/ \E c \in Calls :
         \/ \E k \in Contracts : RunTask(c, k)
         \/ \E o \in Observations : GuardBaseline(c, o) \/ VerifyRed(c, o) \/ VerifyGreen(c, o)
         \/ \E w \in Writes : AuthorTests(c, w) \/ Implement(c, w)
         \/ \E w \in Writes, o \in Observations : Refactor(c, w, o)
         \/ PhaseCrash(c) \/ AppendCycle(c) \/ ExecuteRequiredTddTask(c)
    \/ Ended /\ UNCHANGED vars
Spec == Init /\ [][Next]_vars

-----------------------------------------------------------------------------
Completed == {k \in cycles : k.status = "completed"}

(* Attempts are numbered from one and the store holds only evidence.       *)
TypeOK ==
    /\ \A k \in cycles : k.ordinal \in Calls /\ k.contract \in Contracts
    /\ \A e \in evidence : e.contract \in Contracts /\ e.tree \in [Paths -> 0..3]
    /\ \A c \in Calls : run[c].accepted \subseteq evidence

(* A completed cycle is a proof: its gate passed on the untouched baseline,*)
(* its tests failed there with nothing else changed, and the very same     *)
(* tests passed once production code had changed.                          *)
ProvenInOrder ==
    \A k \in Completed :
       /\ k.baseline.shows = "pass" /\ k.baseline.tree = Baseline
       /\ k.red.shows = "target fails" /\ k.red.tree = ApplyPatch(k.patch)
       /\ k.green.shows = "pass"
       /\ \A p \in Paths : Class[p] # "production" => k.green.tree[p] = k.red.tree[p]
       /\ Planned => k.refactor.shows = "pass"

(* Calls that overlap never leave two accounts of one attempt, nor two     *)
(* proofs of one contract.                                                 *)
OneAccountPerAttempt ==
    \A k, l \in cycles : k # l => /\ k.ordinal # l.ordinal
                                  /\ ~(k \in Completed /\ l \in Completed /\ k.contract = l.contract)

(* What becomes an artifact with a cycle is evidence of that very attempt. *)
PublishedEvidenceIsOwn ==
    \A a \in published : \A e \in a.evidence : e.ordinal = a.cycle.ordinal /\ e.contract = a.cycle.contract

(* "Implementation/Refactor cannot change the test patch": the tree a      *)
(* completed cycle ends with still has the frozen tests.                   *)
RefactorKeepsTests ==
    \A k \in Completed : k.refactor # None =>
       \A p \in Paths : Class[p] # "production" => k.refactor.tree[p] = k.red.tree[p]

(* A completed cycle can be replayed: its outcome is accepted.             *)
ReplayIsAccepted == \A c \in Calls : run[c].pc # "replay refused"
=============================================================================
