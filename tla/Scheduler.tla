------------------------------- MODULE Scheduler -------------------------------
(***************************************************************************)
(* The local task scheduler: drive, cancel and startup recovery of         *)
(* packages/runtime/src/scheduling/scheduler.ts and recovery.ts, under the *)
(* loop of orchestration/scheduler-runtime.ts that drives the tasks of a   *)
(* wave and then integrates it, with the agent pool of agent-pool.ts.      *)
(*                                                                         *)
(* One driver process at a time holds the Driver Lock (see DriverLock).    *)
(* Inside it the drive and a cancel are two coroutines; they interleave at *)
(* every commit and every wait.  A crash loses the process, its pool and   *)
(* its memory, not the Ledger facts and not the agent processes.  Git and  *)
(* the evidence of a wave are the subject of WaveIntegration.              *)
(*                                                                         *)
(* First come the scheduling facts one operation keeps in the Ledger and   *)
(* what is derived from them: the lease chain (lease.ts), the iteration    *)
(* budget (budget.ts), the status projection (projection.ts) and the       *)
(* selection of tasks (readiness.ts).  The chain of a task is summed up by *)
(* its latest lease, the consumption of the closed ones and the retry      *)
(* kinds used so far; attempt numbers and fencing tokens both count the    *)
(* grants of a task, so one number stands for both.  Steps and tokens are  *)
(* accounted alike: one amount stands for the pair.  Every task has a      *)
(* required Gate, so a task that queued a candidate has passed Evidence.   *)
(***************************************************************************)
EXTENDS Integers, Sequences, FiniteSets, FiniteSetsExt, Folds

CONSTANTS
  Tasks,
  Order,             \* the tasks in plan order
  WaveOf,            \* WaveOf[t]: index of the parallel wave of t
  TaskBudget,        \* TaskBudget[t]: approved budget of t
  Limit,             \* budget of the iteration
  Unfit,             \* tasks whose capabilities the adapter lacks
  FindingsReadBack,  \* readFacts returns the findings that commit wrote
  Policy,            \* Policy[t]: outcomes the policy may decide for t
  Slots,             \* slots of the agent pool
  MaxBoots,          \* bound on driver processes
  MaxFaults,         \* bound on failed commits and failed preparations
  MaxCancels         \* bound on cancel requests

ASSUME OrderAssumption ==
  /\ Order \in Seq(Tasks)
  /\ \A t \in Tasks : \E i \in DOMAIN Order : Order[i] = t
  /\ \A i, j \in DOMAIN Order : Order[i] = Order[j] => i = j

ASSUME PlanAssumption ==
  /\ WaveOf \in [Tasks -> Nat]
  /\ TaskBudget \in [Tasks -> Nat \ {0}]
  /\ Limit \in Nat
  /\ Unfit \subseteq Tasks
  /\ FindingsReadBack \in BOOLEAN

ASSUME SchedulerAssumption ==
  /\ Policy \in [Tasks -> SUBSET {"allow", "deny", "block", "requires_approval"}]
  /\ Slots \in Nat \ {0}
  /\ MaxBoots \in Nat /\ MaxFaults \in Nat /\ MaxCancels \in Nat

VARIABLES
  lease,       \* lease[t]: latest lease of t, spent budget, retry kinds used
  run,         \* run[t]: run records of the latest lease of t
  queued,      \* queued[t]: attempts whose candidate patch was queued, with the
               \* Evidence of the task Gates
  findings,    \* open findings, as <<rule, task>>; "wave" when none is blocked
  approvals,   \* tasks with a pending approval request
  checked,     \* tasks with Evidence of candidate Gates, provisional or not
  validated,   \* tasks whose current candidate has valid candidate Evidence
  integrated   \* tasks of the accepted waves

facts == <<lease, run, queued, findings, approvals, checked, validated, integrated>>

RetryKinds == {"executor_retry", "integration_retry"}
Closed == {"released", "expired", "revoked"}
Reasons == {"none", "completion", "gate_failure", "policy_denial", "adapter_failure",
            "user_cancellation", "process_interruption", "manual_stop", "budget_ceiling"}
NonRetryable == {"policy_denial", "gate_failure", "manual_stop"}
Rules == {"policy_denial", "policy_conflict", "dispatch_preparation_failed",
          "undeclared_write", "task_gate_failed", "write_set_violation",
          "run_terminated", "retry_exhausted", "budget_exhausted", "wave_gate_failed",
          "capability_mismatch", "budget_usage_unknown", "cancellation_uncertain",
          "integration_retry_scheduled", "integration_conflict", "candidate_gate_failed"}

LeaseType ==
  [attempt : Nat, state : {"none", "granted"} \cup Closed,
   kind : {"none"} \cup RetryKinds, reserved : Nat, spent : Nat,
   kinds : SUBSET RetryKinds]
RunType == [started : BOOLEAN, reason : Reasons, used : Nat]

NoLease == [attempt |-> 0, state |-> "none", kind |-> "none",
            reserved |-> 0, spent |-> 0, kinds |-> {}]
NoRun == [started |-> FALSE, reason |-> "none", used |-> 0]

FactsTypeOK ==
  /\ lease \in [Tasks -> LeaseType]
  /\ run \in [Tasks -> RunType]
  /\ queued \in [Tasks -> SUBSET Nat]
  /\ findings \subseteq Rules \X (Tasks \cup {"wave"})
  /\ approvals \subseteq Tasks
  /\ checked \subseteq Tasks /\ validated \subseteq checked
  /\ integrated \subseteq Tasks

FactsInit ==
  /\ lease = [t \in Tasks |-> NoLease]
  /\ run = [t \in Tasks |-> NoRun]
  /\ queued = [t \in Tasks |-> {}]
  /\ findings = {}
  /\ approvals = {}
  /\ checked = {} /\ validated = {}
  /\ integrated = {}

-----------------------------------------------------------------------------
(* Leases and budget.                                                      *)

Granted(t) == lease[t].state = "granted"

\* restoreBudgetAccount and remainingBudget: limit less consumption and
\* reservations.
Charged(t) == lease[t].spent + (IF Granted(t) THEN lease[t].reserved ELSE 0)

RemainingBudget == Limit - MapThenSumSet(Charged, Tasks)
TaskRemainder(t) == TaskBudget[t] - lease[t].spent

\* Mutant of GrantTaskLease: a retry is granted the whole task budget again.
GrantTaskLeaseFresh(t, kind) ==
  [lease EXCEPT ![t] = [@ EXCEPT !.attempt = @ + 1, !.state = "granted", !.kind = kind,
                                 !.reserved = TaskBudget[t],
                                 !.kinds = @ \cup ({kind} \ {"none"})]]

\* Mutant of GrantTaskLease: the lease does not record its retry kind.
GrantTaskLeaseUnmarked(t, kind) ==
  [lease EXCEPT ![t] = [@ EXCEPT !.attempt = @ + 1, !.state = "granted", !.kind = "none",
                                 !.reserved = TaskRemainder(t)]]

\* grantTaskLease with the reservation of reserveTaskBudget; the previous lease
\* must be closed, a retry kind follows a previous attempt and is used once.  The
\* schema of the record admits the two kinds only.
CanGrant(t, kind) ==
  /\ kind \in {"none"} \cup RetryKinds /\ ~Granted(t) /\ kind \notin lease[t].kinds
  /\ kind # "none" => lease[t].attempt > 0
GrantTaskLease(t, kind) ==
  [lease EXCEPT ![t] = [attempt |-> @.attempt + 1, state |-> "granted", kind |-> kind,
                        reserved |-> TaskRemainder(t), spent |-> @.spent,
                        kinds |-> @.kinds \cup ({kind} \ {"none"})]]

\* terminateTaskLease throws when the consumption exceeds the reservation.
CanTerminate(t, used) == Granted(t) /\ used <= lease[t].reserved
TerminateTaskLease(l, state, used) ==
  [l EXCEPT !.state = state, !.spent = @ + used]

-----------------------------------------------------------------------------
(* Status projection.                                                      *)

\* readFacts.
ReadFindings == IF FindingsReadBack THEN findings ELSE {}
HasOpenFindingRule(rule, t) == <<rule, t>> \in ReadFindings
\* The scheduled integration retry is the one finding that does not block.
HasOpenBlocker(t) == \E f \in ReadFindings : f[2] = t /\ f[1] # "integration_retry_scheduled"

EarliestIncompleteWave ==
  LET open == {WaveOf[t] : t \in Tasks \ integrated}
  IN  IF open = {} THEN -1 ELSE Min(open)

CompletedRun(t) == run[t].reason = "completion"

\* projectSchedulerState for a task whose latest lease is closed.
ClosedLeaseStatus(t) ==
  IF CompletedRun(t)
    THEN IF lease[t].state = "released" /\ queued[t] # {}
           THEN "candidate_validated" ELSE "verifying"
    ELSE IF run[t].reason \in NonRetryable \/ lease[t].kind # "none"
           THEN "blocked" ELSE "retry_pending"

Status(t) ==
  IF t \in integrated THEN "integrated"
  ELSE IF lease[t].state \in Closed /\ run[t].reason = "user_cancellation" THEN "cancelled"
  ELSE IF HasOpenBlocker(t) THEN "blocked"
  ELSE IF t \in approvals THEN "awaiting_approval"
  ELSE IF HasOpenFindingRule("integration_retry_scheduled", t) THEN "verifying"
  ELSE IF Granted(t)
         THEN IF run[t].reason = "none" THEN "running"
              ELSE IF queued[t] # {} THEN "integration_queued" ELSE "verifying"
  ELSE IF lease[t].state \in Closed THEN ClosedLeaseStatus(t)
  ELSE IF WaveOf[t] = EarliestIncompleteWave THEN "ready" ELSE "waiting_dependency"

\* isPendingCandidateLease: the run completed within its reservation and its
\* patch is queued.
PendingCandidate(t) ==
  /\ lease[t].attempt \in queued[t] /\ CompletedRun(t)
  /\ run[t].used <= lease[t].reserved

\* Mutant of Orphaned: every granted lease of a dead process is an orphan.
OrphanedAll == {t \in Tasks : Granted(t)}
Orphaned == {t \in Tasks : Granted(t) /\ ~PendingCandidate(t)}

\* hasDurableCancellation looks at the terminal runs of every attempt; no
\* attempt follows a cancelled one, so the latest is enough.
DurableCancellation == \E t \in Tasks : run[t].reason = "user_cancellation"

-----------------------------------------------------------------------------
(* Selection.                                                              *)

\* t comes before u in the plan.
Precedes(t, u) == \E i, j \in DOMAIN Order : i < j /\ Order[i] = t /\ Order[j] = u
\* The member of S whose turn it is.
First(t, S) == t \in S /\ \A u \in S \ {t} : Precedes(t, u)

\* Candidates are taken greedily in plan order while slots and iteration budget
\* last.
Affordable(acc, t) ==
  acc.slots > 0 /\ TaskRemainder(t) > 0 /\ TaskRemainder(t) <= acc.left
Greedy(candidates, slots) ==
  LET take(t, acc) ==
        IF Affordable(acc, t)
          THEN [chosen |-> acc.chosen \cup {t}, slots |-> acc.slots - 1,
                left |-> acc.left - TaskRemainder(t)]
          ELSE acc
      none == [chosen |-> {}, slots |-> slots, left |-> RemainingBudget]
      task(t) == t
      last(S) == CHOOSE t \in S : \A u \in S \ {t} : Precedes(u, t)
  IN  MapThenFoldSet(take, none, task, last, candidates).chosen
Fitting(candidates, slots) == candidates \cap Greedy(candidates, slots)

Ready(t) == Status(t) \in {"ready", "retry_pending"} /\ t \notin Unfit
RetryKind(t) == IF Status(t) = "retry_pending" THEN "executor_retry" ELSE "none"

\* Mutant of SelectReadyTasks: a task of any wave that has no lease is ready.
SelectReadyTasksAnyWave(slots) ==
  {[task |-> t, kind |-> RetryKind(t)] :
     t \in Fitting({u \in Tasks : Ready(u) \/ Status(u) = "waiting_dependency"}, slots)}

SelectReadyTasks(slots) ==
  {[task |-> t, kind |-> RetryKind(t)] : t \in Fitting({u \in Tasks : Ready(u)}, slots)}

\* synthesizeIntegrationRetries, tried when nothing is ready.
RetryScheduled(t) ==
  /\ Status(t) = "verifying"
  /\ HasOpenFindingRule("integration_retry_scheduled", t)
  /\ "integration_retry" \notin lease[t].kinds
SynthesizeIntegrationRetries(slots) ==
  {[task |-> t, kind |-> "integration_retry"] :
     t \in Fitting({u \in Tasks : RetryScheduled(u)}, slots)}

Dispatchable(slots) ==
  IF SelectReadyTasks(slots) # {} THEN SelectReadyTasks(slots)
                                   ELSE SynthesizeIntegrationRetries(slots)

-----------------------------------------------------------------------------
(* The processes.                                                          *)

VARIABLES
  phase,      \* where the driver is
  status,     \* what its last run returned
  pass,       \* passes of the current drive
  todo,       \* candidates left to dispatch, or tasks left to validate
  running,    \* dispatched tasks waiting for classification
  retried,    \* integration retries spent by this drive
  live,       \* agent processes, as <<task, attempt>>
  pool,       \* the ones in the activeRuns of the current driver
  result,     \* result[t]: settlement of the latest run of t
  approved,   \* tasks whose approval request was granted
  reclosed,   \* some lease has a second terminal record: the chain is unreadable
  canceller,  \* "none", or "stop" while the cancel coroutine is at work
  ownLock,    \* it runs outside of a run, under a Driver Lock of its own
  ctodo,      \* runs of the granted leases it read, still to be stopped
  cstopping,  \* the one it told to stop and waits for
  cstopped,   \* runs that confirmed the cancellation
  cfailed,    \* runs that did not
  cancelled,  \* cancelledOperations: memory of the process
  boots, faults, cancels

drive == <<phase, status, pass, todo, running, retried>>
agents == <<live, pool, result>>
cancelling == <<canceller, ownLock, ctodo, cstopping, cstopped, cfailed, cancelled>>
bounds == <<boots, faults, cancels>>
vars == <<facts, drive, agents, approved, reclosed, cancelling, bounds>>

Phases == {"down", "boot", "replay", "revalidate", "idle", "enter", "pass", "dispatch",
           "prepare", "starting", "classify", "close", "block", "wave", "rebuild", "validate", "accept"}
NoResult == [kind |-> "none", used |-> 0]
\* What an agent run settles to: a thrown error, a crash class, a confirmed
\* cancellation, a claimed completion, writes outside the write set, or any
\* other terminal result.
ResultKinds == {"throw", "crash", "cancelled", "complete", "undeclared", "other"}
MaxPasses == 3 * Cardinality(Tasks) + 2
Run(t) == <<t, lease[t].attempt>>

TypeOK ==
  /\ FactsTypeOK
  /\ phase \in Phases
  /\ status \in {"none", "completed", "paused", "wave_paused", "blocked", "cancelled",
                 "recovery_required", "inconclusive", "error"}
  /\ pass \in 0..MaxPasses + 1
  /\ todo \subseteq [task : Tasks, kind : {"none"} \cup RetryKinds]
  /\ running \subseteq Tasks /\ retried \subseteq Tasks
  /\ pool \subseteq live /\ live \subseteq Tasks \X Nat
  /\ result \in [Tasks -> {NoResult} \cup [kind : ResultKinds, used : Nat]]
  /\ approved \subseteq Tasks
  /\ canceller \in {"none", "stop"}
  /\ ctodo \cup cstopping \cup cstopped \cup cfailed \subseteq Tasks \X Nat
  /\ {reclosed, ownLock, cancelled} \subseteq BOOLEAN
  /\ boots \in 0..MaxBoots /\ faults \in 0..MaxFaults /\ cancels \in 0..MaxCancels

Init ==
  /\ FactsInit
  /\ phase = "down" /\ status = "none" /\ pass = 0
  /\ todo = {} /\ running = {} /\ retried = {}
  /\ live = {} /\ pool = {} /\ result = [t \in Tasks |-> NoResult]
  /\ approved = {} /\ reclosed = FALSE
  /\ canceller = "none" /\ ownLock = FALSE
  /\ ctodo = {} /\ cstopping = {} /\ cstopped = {} /\ cfailed = {}
  /\ cancelled = FALSE
  /\ boots = 0 /\ faults = 0 /\ cancels = 0

-----------------------------------------------------------------------------
(* Commits: one atomic batch of transitions each.                          *)

Close(t, state, used) ==
  lease' = [lease EXCEPT ![t] = TerminateTaskLease(@, state, used)]
RecordRun(t, reason, used) ==
  run' = [run EXCEPT ![t] = [@ EXCEPT !.reason = reason, !.used = used]]
CreateFinding(rule, t) == findings' = findings \cup {<<rule, t>>}
NoFinding == UNCHANGED findings

\* The drive or the run loop gives control back and the Driver Lock is
\* released.
Return(s) ==
  /\ phase' = "idle" /\ status' = s
  /\ todo' = {} /\ running' = {} /\ retried' = {} /\ pass' = 0

\* So does a cancel.
CancelEnds ==
  /\ canceller' = "none" /\ ownLock' = FALSE
  /\ ctodo' = {} /\ cstopping' = {} /\ cstopped' = {} /\ cfailed' = {}

Fault == faults < MaxFaults /\ faults' = faults + 1 /\ UNCHANGED <<boots, cancels>>

-----------------------------------------------------------------------------
(* Processes.                                                              *)

Boot ==
  /\ phase = "down" /\ boots < MaxBoots
  /\ phase' = "boot" /\ status' = "none"
  /\ boots' = boots + 1
  /\ UNCHANGED <<facts, pass, todo, running, retried, agents, approved, reclosed, cancelling,
                 faults, cancels>>

\* The process dies or exits.  Its agents are processes of their own.
Crash ==
  /\ phase # "down" /\ boots < MaxBoots
  /\ phase' = "down"
  /\ pass' = 0 /\ todo' = {} /\ running' = {} /\ retried' = {}
  /\ pool' = {} /\ result' = [t \in Tasks |-> NoResult]
  /\ CancelEnds /\ cancelled' = FALSE
  /\ UNCHANGED <<facts, status, live, approved, reclosed, bounds>>

\* An agent no driver waits for ends by itself.
OrphanExits(r) ==
  /\ r \in live \ pool
  /\ live' = live \ {r}
  /\ UNCHANGED <<facts, drive, pool, result, approved, reclosed, cancelling, bounds>>

\* A human grants the pending request of t (the approval runtime, external),
\* between two drives.
Approve(t) ==
  /\ t \in approvals /\ phase \in {"idle", "down"}
  /\ approvals' = approvals \ {t}
  /\ approved' = approved \cup {t}
  /\ UNCHANGED <<lease, run, queued, findings, checked, validated, integrated, drive, agents,
                 reclosed,
                 cancelling, bounds>>

\* recoverSchedulingOperation, once per process before its first run: orphaned
\* leases are revoked in one batch.  The new pool knows no run, so it attests
\* each as gone; a started run is then charged nothing, any other one is
\* charged in full and blocked.  A run that overran its reservation keeps the
\* completion record, which sorts after the interruption.  Candidate Evidence
\* of no accepted wave becomes provisional.
Recover ==
  /\ phase = "boot" /\ ~ownLock /\ ~reclosed
  /\ lease' = [t \in Tasks |->
                 IF t \notin Orphaned THEN lease[t]
                 ELSE TerminateTaskLease(lease[t], "revoked",
                        IF run[t].started THEN 0 ELSE lease[t].reserved)]
  /\ run' = [t \in Tasks |->
               IF t \in Orphaned /\ run[t].reason = "none"
                 THEN [run[t] EXCEPT !.reason = "process_interruption"] ELSE run[t]]
  /\ findings' = findings \cup
       {<<"budget_usage_unknown", t>> : t \in {u \in Orphaned : ~run[u].started}}
  /\ validated' = validated \cap integrated
  /\ phase' = "replay"
  /\ UNCHANGED <<queued, approvals, checked, integrated, status, pass, todo, running, retried,
                 agents, approved, reclosed, cancelling, bounds>>

\* A further run of the same process: no recovery.
RunAgain ==
  /\ phase = "idle" /\ ~ownLock
  /\ phase' = "enter"
  /\ UNCHANGED <<facts, status, pass, todo, running, retried, agents, approved, reclosed,
                 cancelling, bounds>>

-----------------------------------------------------------------------------
(* drive.                                                                  *)

DriveEnter ==
  /\ phase = "enter" /\ ~reclosed
  /\ IF cancelled \/ DurableCancellation THEN Return("cancelled")
     ELSE IF Orphaned # {} THEN Return("recovery_required")
     ELSE phase' = "pass" /\ UNCHANGED <<status, pass, todo, running, retried>>
  /\ UNCHANGED <<facts, agents, approved, reclosed, cancelling, bounds>>

IdleSlots == Slots - Cardinality(pool)

DrivePass ==
  /\ phase = "pass" /\ ~reclosed
  /\ IF pass > MaxPasses THEN Return("inconclusive")
     ELSE /\ todo' = Dispatchable(IdleSlots)
          /\ phase' = IF todo' = {} THEN "block" ELSE "dispatch"
          /\ pass' = pass + 1
          /\ UNCHANGED <<status, running, retried>>
  /\ UNCHANGED <<facts, agents, approved, reclosed, cancelling, bounds>>

\* The entry of todo whose turn it is.
Turn(c) == c \in todo /\ \A d \in todo \ {c} : Precedes(c.task, d.task)

NextCandidate(c) ==
  /\ todo' = todo \ {c}
  /\ phase' = IF todo' = {} THEN "classify" ELSE "dispatch"

\* A denied or conflicting action blocks its task.
RefuseCandidate(outcome, t) ==
  /\ outcome \in {"deny", "block"}
  /\ CreateFinding(IF outcome = "deny" THEN "policy_denial" ELSE "policy_conflict", t)
  /\ UNCHANGED approvals

\* An approval binds the digest of the action.  The digest holds what is left
\* of the iteration, and the first lease both fixes the deadline and lowers the
\* budget: an approval is found again only while there is no lease.
ApprovalBinds(t) == t \in approved /\ \A u \in Tasks : lease[u].attempt = 0

RequestApproval(outcome, t) ==
  /\ outcome = "requires_approval" /\ ~ApprovalBinds(t)
  /\ approvals' = approvals \cup {t}
  /\ NoFinding

\* dispatchCandidate up to the decision: no lease.
DispatchRefused(c) ==
  /\ phase = "dispatch" /\ Turn(c)
  /\ \E outcome \in Policy[c.task] :
       RefuseCandidate(outcome, c.task) \/ RequestApproval(outcome, c.task)
  /\ NextCandidate(c)
  /\ UNCHANGED <<lease, run, queued, checked, validated, integrated, status, pass, running,
                 agents, approved, reclosed,
                 cancelling, bounds>>
  /\ retried' = IF c.kind = "integration_retry" THEN retried \cup {c.task} ELSE retried

\* dispatchCandidate reserves the budget and commits the lease before any
\* process starts.  The selection has checked the reservation.
DispatchGranted(c) ==
  /\ phase = "dispatch" /\ Turn(c)
  /\ \/ "allow" \in Policy[c.task]
     \/ "requires_approval" \in Policy[c.task] /\ ApprovalBinds(c.task)
  /\ CanGrant(c.task, c.kind)
  /\ TaskRemainder(c.task) <= RemainingBudget
  /\ lease' = GrantTaskLease(c.task, c.kind)
  /\ run' = [run EXCEPT ![c.task] = NoRun]
  /\ result' = [result EXCEPT ![c.task] = NoResult]
  /\ retried' = IF c.kind = "integration_retry" THEN retried \cup {c.task} ELSE retried
  /\ phase' = "prepare"
  /\ validated' = validated \ {c.task}
  /\ UNCHANGED <<queued, findings, approvals, checked, integrated, status, pass, todo, running,
                 live, pool, approved, reclosed, cancelling, bounds>>

\* pool.run: the agent starts, then run_started is committed.
StartRun(c) ==
  /\ phase = "prepare" /\ Turn(c)
  /\ live' = live \cup {Run(c.task)} /\ pool' = pool \cup {Run(c.task)}
  /\ phase' = "starting"
  /\ UNCHANGED <<facts, status, pass, todo, running, retried, result, approved, reclosed,
                 cancelling, bounds>>

RecordStarted(c) ==
  /\ phase = "starting" /\ Turn(c)
  /\ run' = [run EXCEPT ![c.task].started = TRUE]
  /\ running' = running \cup {c.task}
  /\ NextCandidate(c)
  /\ UNCHANGED <<lease, queued, findings, approvals, checked, validated, integrated, status,
                 pass, retried,
                 agents, approved, reclosed, cancelling, bounds>>

\* Preparation or the run_started commit failed: the lease is revoked, whether
\* or not the agent runs, and the task blocks.  The lease in memory is granted; a
\* cancel may have closed it meanwhile, and then it gets a second terminal record.
PreparationFails(c) ==
  /\ phase \in {"prepare", "starting"} /\ Turn(c)
  /\ Fault
  /\ IF Granted(c.task) THEN Close(c.task, "revoked", 0) ELSE UNCHANGED lease
  /\ reclosed' = (reclosed \/ ~Granted(c.task))
  /\ CreateFinding("dispatch_preparation_failed", c.task)
  /\ NextCandidate(c)
  /\ UNCHANGED <<run, queued, approvals, checked, validated, integrated, status, pass,
                 running, retried,
                 agents, approved, cancelling>>

\* A commit of the drive throws: its entries are lost, their agents go on.
DriveThrows ==
  /\ phase \in {"dispatch", "close", "block", "validate", "accept"}
  /\ Fault
  /\ Return("error")
  /\ UNCHANGED <<facts, agents, approved, reclosed, cancelling>>

\* An agent of the pool settles.  Cancellation is cooperative: only a run that
\* was told to stop may report it.  No drive waits for the result of an older
\* attempt.
Settle(r) ==
  /\ r \in pool
  /\ LET t == r[1] IN
     IF r # Run(t) THEN UNCHANGED result
     ELSE \E kind \in ResultKinds, used \in 0..lease[t].reserved + 1 :
            /\ kind = "cancelled" => r \in cstopping
            /\ kind = "throw" => used = 0
            /\ result' = [result EXCEPT ![t] = [kind |-> kind, used |-> used]]
  /\ live' = live \ {r} /\ pool' = pool \ {r}
  /\ UNCHANGED <<facts, drive, approved, reclosed, cancelling, bounds>>

\* The drive waits for its runs in plan order, and for a cancel in progress.
AwaitSettled ==
  /\ phase = "classify"
  /\ IF running = {} THEN phase' = "pass" /\ UNCHANGED <<status, pass, todo, running, retried>>
     ELSE /\ \E t \in running : First(t, running) /\ result[t] # NoResult
          /\ canceller = "none"
          /\ IF cancelled THEN Return("cancelled")
             ELSE phase' = "close" /\ UNCHANGED <<status, pass, todo, running, retried>>
  /\ UNCHANGED <<facts, agents, approved, reclosed, cancelling, bounds>>

-----------------------------------------------------------------------------
(* classifyRun: how a settled run closes its lease, one commit each.       *)

\* Run record, closed lease and finding of one batch.
Settlement(t, reason, state, rule) ==
  /\ CanTerminate(t, result[t].used)
  /\ RecordRun(t, reason, result[t].used)
  /\ Close(t, state, result[t].used)
  /\ IF rule = "none" THEN NoFinding ELSE CreateFinding(rule, t)
  /\ UNCHANGED queued

\* classifyCrash: one executor retry on the remainder, then blocked.
ClassifyCrash(t) ==
  LET retry == lease[t].kind # "none"
      spendable == lease[t].reserved - result[t].used > 0
  IN  Settlement(t, "adapter_failure", "expired",
        CASE ~retry /\ spendable -> "none"
          [] retry -> "retry_exhausted"
          [] OTHER -> "budget_exhausted")

\* A claimed completion whose patch and Gates hold is queued; its lease stays
\* granted until the candidate is validated.
QueueCandidate(t) ==
  /\ RecordRun(t, "completion", result[t].used)
  /\ queued' = [queued EXCEPT ![t] = @ \cup {lease[t].attempt}]
  /\ UNCHANGED <<lease, findings>>

\* A failed write-set attestation, and a failed commit of the queued candidate,
\* are both recorded as a violation.
ClassifyCompletion(t) ==
  \/ QueueCandidate(t)
  \/ Settlement(t, "gate_failure", "revoked", "task_gate_failed")
  \/ Settlement(t, "policy_denial", "revoked", "write_set_violation")

\* The reasons a run may claim besides, one of each class the projection tells
\* apart: completed, never retried, retried.
ClaimedReasons == {"completion", "manual_stop", "budget_ceiling"}

\* Undeclared writes are looked at first, also in a run that was cancelled.
ClassifyRun(t) ==
  CASE result[t].kind \in {"throw", "crash"} -> ClassifyCrash(t)
    [] result[t].kind = "undeclared" ->
         \E reason \in ClaimedReasons : Settlement(t, reason, "revoked", "undeclared_write")
    [] result[t].kind = "cancelled" ->
         \E rule \in {"none", "undeclared_write"} :
           Settlement(t, "user_cancellation", "revoked", rule)
    [] result[t].kind = "complete" -> ClassifyCompletion(t)
    [] OTHER ->
         \E reason \in ClaimedReasons : Settlement(t, reason, "released", "run_terminated")

Classify(t) ==
  /\ phase = "close" /\ First(t, running)
  /\ ClassifyRun(t)
  /\ running' = running \ {t}
  /\ result' = [result EXCEPT ![t] = NoResult]
  /\ phase' = "classify"
  /\ UNCHANGED <<approvals, checked, validated, integrated, status, pass, todo, retried, live,
                 pool, approved, reclosed,
                 cancelling, bounds>>

\* A consumption above the reservation cannot close the lease: the drive throws
\* and the lease stays granted.
ClassifyOverrun(t) ==
  /\ phase = "close" /\ First(t, running)
  /\ result[t].used > lease[t].reserved
  /\ Return("error")
  /\ UNCHANGED <<facts, agents, approved, reclosed, cancelling, bounds>>

-----------------------------------------------------------------------------
(* The blocking pass.                                                      *)

SingleRetryUsed(t) ==
  /\ Status(t) = "verifying"
  /\ HasOpenFindingRule("integration_retry_scheduled", t)
  /\ "integration_retry" \in lease[t].kinds /\ t \notin retried
Unaffordable(t) == TaskRemainder(t) <= 0 \/ TaskRemainder(t) > RemainingBudget
Standing(t) == Status(t) \in {"ready", "retry_pending"}

BlockingFindings ==
  {<<"integration_conflict", t>> : t \in {u \in Tasks : SingleRetryUsed(u)}}
  \cup {<<"capability_mismatch", t>> : t \in {u \in Tasks : Standing(u) /\ u \in Unfit}}
  \cup {<<"budget_exhausted", t>> :
          t \in {u \in Tasks : Standing(u) /\ u \notin Unfit /\ Unaffordable(u)}}

\* statusOf, on the facts read after the commits.
StatusOf(statuses) ==
  CASE "blocked" \in statuses -> "blocked"
    [] "awaiting_approval" \in statuses -> "paused"
    [] statuses \cap {"running", "ready", "retry_pending"} # {} -> "paused"
    [] OTHER -> "completed"

BlockingPass ==
  /\ phase = "block" /\ ~reclosed
  /\ findings' = findings \cup BlockingFindings
  /\ UNCHANGED <<lease, run, queued, approvals, checked, validated, integrated>>
  /\ LET s == StatusOf({Status(t)' : t \in Tasks}) IN
     IF s # "completed" THEN Return(s)
     ELSE /\ phase' = "wave" /\ pass' = 0 /\ retried' = {}
          /\ UNCHANGED <<status, todo, running>>
  /\ UNCHANGED <<agents, approved, reclosed, cancelling, bounds>>

-----------------------------------------------------------------------------
(* Integration of a wave.  Recovery rebuilds and validates it too, but it    *)
(* swallows every failure and never accepts.                               *)

Replaying == phase \in {"replay", "revalidate"}
\* An integration error: recovery goes on to the run, the run loop throws.
IntegrationThrows ==
  IF Replaying THEN phase' = "enter" /\ todo' = {} /\ UNCHANGED <<status, pass, running,
                 retried>>
               ELSE Return("error")

CandidateReady(t) ==
  /\ queued[t] # {}
  /\ \/ Granted(t) /\ Status(t) \in {"integration_queued", "verifying"}
     \/ lease[t].state = "released" /\ Status(t) = "candidate_validated"

\* The run loop takes the earliest open wave.
PickWave ==
  /\ phase = "wave"
  /\ IF EarliestIncompleteWave = -1 THEN Return("completed")
     ELSE IF \E t \in Tasks : WaveOf[t] = EarliestIncompleteWave /\ ~CandidateReady(t)
            THEN Return("blocked")
     ELSE phase' = "rebuild" /\ UNCHANGED <<status, pass, todo, running, retried>>
  /\ UNCHANGED <<facts, agents, approved, reclosed, cancelling, bounds>>

\* replayCandidates: the open wave is rebuilt when all of it is queued, unless
\* its Gates have failed.
Replayable ==
  /\ ~reclosed /\ ~DurableCancellation /\ EarliestIncompleteWave # -1
  /\ ~HasOpenFindingRule("wave_gate_failed", "wave")
  /\ \A t \in Tasks : WaveOf[t] = EarliestIncompleteWave => queued[t] # {}

ReplaySkipped ==
  /\ phase = "replay" /\ ~Replayable
  /\ phase' = "enter"
  /\ UNCHANGED <<facts, status, pass, todo, running, retried, agents, approved, reclosed,
                 cancelling, bounds>>

Rebuilding == (phase = "rebuild" /\ ~reclosed) \/ (phase = "replay" /\ Replayable)

\* A wave whose leases are all released after candidate Gates ran keeps the
\* commit they ran on; otherwise the patches are applied again.
Reused == \A t \in Tasks : WaveOf[t] = EarliestIncompleteWave =>
                           lease[t].state = "released" /\ t \in checked

RebuildWaveCandidate ==
  /\ Rebuilding
  /\ phase' = IF phase = "replay" THEN "revalidate" ELSE "validate"
  /\ todo' = {[task |-> t, kind |-> "none"] :
                t \in {u \in Tasks : WaveOf[u] = EarliestIncompleteWave}}
  /\ UNCHANGED <<facts, status, pass, running, retried, agents, approved, reclosed,
                 cancelling, bounds>>

\* noteIntegrationConflict: the first failure to apply schedules the retry, a
\* further one blocks.  A granted lease is released with its metered budget,
\* which an overrun does not have.
NoteIntegrationConflict(t) ==
  LET consumed == \/ "integration_retry" \in lease[t].kinds
                  \/ HasOpenFindingRule("integration_retry_scheduled", t)
  IN  /\ CreateFinding(IF consumed THEN "integration_conflict"
                                   ELSE "integration_retry_scheduled", t)
      /\ IF Granted(t) THEN Close(t, "released", run[t].used) ELSE UNCHANGED lease

ApplyFails(t) ==
  /\ Rebuilding /\ ~Reused
  /\ WaveOf[t] = EarliestIncompleteWave
  /\ IF Granted(t) /\ ~CanTerminate(t, run[t].used) THEN UNCHANGED <<lease, findings>>
     ELSE NoteIntegrationConflict(t)
  /\ IntegrationThrows
  /\ UNCHANGED <<run, queued, approvals, checked, validated, integrated, agents, approved,
                 reclosed,
                 cancelling, bounds>>

Validating == phase \in {"validate", "revalidate"} /\ todo # {}

NextValidation(c) ==
  /\ todo' = todo \ {c}
  /\ phase' = IF todo' # {} THEN phase ELSE IF Replaying THEN "enter" ELSE "accept"
  /\ UNCHANGED <<status, pass, running, retried>>

\* The run loop takes the validation of a released lease as it is.
ValidationKept(c) ==
  /\ Validating /\ Turn(c)
  /\ phase = "validate" /\ lease[c.task].state = "released"
  /\ NextValidation(c)
  /\ UNCHANGED <<facts, agents, approved, reclosed, cancelling, bounds>>

\* The lease that may be validated: granted, or in recovery the released one of
\* a reused candidate.  The task Evidence of every attempt is handed over, and
\* a record of an older one is refused.
Validatable(t) ==
  /\ ~reclosed
  /\ Granted(t) \/ (Replaying /\ lease[t].state = "released" /\ Reused)
  /\ queued[t] = {lease[t].attempt}

ValidationRefused(c) ==
  /\ Validating /\ Turn(c)
  /\ phase = "revalidate" \/ lease[c.task].state # "released"
  /\ ~Validatable(c.task) \/ (Granted(c.task) /\ run[c.task].used > lease[c.task].reserved)
  /\ IntegrationThrows
  /\ UNCHANGED <<facts, agents, approved, reclosed, cancelling, bounds>>

ValidateTaskCandidate(c) ==
  /\ Validating /\ Turn(c)
  /\ phase = "revalidate" \/ lease[c.task].state # "released"
  /\ Validatable(c.task)
  /\ checked' = checked \cup {c.task}
  /\ \/ /\ Granted(c.task) => CanTerminate(c.task, run[c.task].used)
        /\ IF Granted(c.task) THEN Close(c.task, "released", run[c.task].used) ELSE UNCHANGED lease
        /\ validated' = validated \cup {c.task}
        /\ NoFinding
     \/ /\ CreateFinding("candidate_gate_failed", c.task)
        /\ UNCHANGED <<lease, validated>>
  /\ NextValidation(c)
  /\ UNCHANGED <<run, queued, approvals, integrated, agents, approved, reclosed, cancelling,
                 bounds>>

\* Mutant of AcceptWave: released leases are enough.
AcceptWaveUnchecked ==
  /\ phase = "accept" /\ ~reclosed
  /\ \A t \in Tasks : WaveOf[t] = EarliestIncompleteWave => lease[t].state = "released"
  /\ integrated' = integrated \cup {t \in Tasks : WaveOf[t] = EarliestIncompleteWave}
  /\ phase' = "enter"
  /\ UNCHANGED <<lease, run, queued, findings, approvals, checked, validated, status, pass,
                 todo, running, retried, agents, approved, reclosed, cancelling, bounds>>

WaveValidated ==
  /\ ~reclosed
  /\ \A t \in Tasks : WaveOf[t] = EarliestIncompleteWave =>
                      lease[t].state = "released" /\ t \in validated

\* acceptWave: every task of the wave validated, policy and wave Gates passed.
AcceptWave ==
  /\ phase = "accept" /\ WaveValidated
  /\ integrated' = integrated \cup {t \in Tasks : WaveOf[t] = EarliestIncompleteWave}
  /\ phase' = "enter"
  /\ UNCHANGED <<lease, run, queued, findings, approvals, checked, validated, status, pass,
                 todo, running, retried, agents, approved, reclosed, cancelling, bounds>>

\* acceptWave: a wave Gate fails, or the operation ref drifted (baseline_drift
\* has the same effect); the finding blocks no task.
WaveGateFails ==
  /\ phase = "accept" /\ WaveValidated
  /\ CreateFinding("wave_gate_failed", "wave")
  /\ Return("error")
  /\ UNCHANGED <<lease, run, queued, approvals, checked, validated, integrated, agents,
                 approved, reclosed, cancelling, bounds>>

\* The policy refuses the wave or wants an approval; or acceptWave throws: a
\* task is not validated, or the action digest moved with the clock.
WaveNotAccepted ==
  /\ phase = "accept"
  /\ \E s \in {"blocked", "wave_paused", "error"} : Return(s)
  /\ UNCHANGED <<facts, agents, approved, reclosed, cancelling, bounds>>

-----------------------------------------------------------------------------
(* A lease with two terminal records: buildTaskLeaseChain throws, and with it *)
(* every reader of the leases.                                             *)

ChainUnreadable ==
  /\ reclosed /\ phase \in {"enter", "pass", "block", "rebuild", "accept"}
  /\ Return("error")
  /\ UNCHANGED <<facts, agents, approved, reclosed, cancelling, bounds>>

-----------------------------------------------------------------------------
(* cancel: the granted leases are read once, their runs are stopped one by   *)
(* one, and the outcome is committed.                                      *)

CancelStart ==
  /\ phase # "down" /\ ~reclosed /\ canceller = "none" /\ cancels < MaxCancels
  /\ canceller' = "stop"
  /\ ownLock' = (phase \in {"boot", "idle"})
  /\ ctodo' = {Run(t) : t \in {u \in Tasks : Granted(u)}}
  /\ cancels' = cancels + 1
  /\ UNCHANGED <<facts, drive, agents, approved, reclosed, cstopping, cstopped, cfailed,
                 cancelled, boots, faults>>

\* pool.cancel: a run the pool does not know cannot be confirmed.  The runs are
\* stopped in the order of task ids, which is any order here.
CancelRun(r) ==
  /\ cstopping = {} /\ r \in ctodo
  /\ ctodo' = ctodo \ {r}
  /\ IF r \in pool THEN cstopping' = {r} /\ UNCHANGED cfailed
                   ELSE cfailed' = cfailed \cup {r} /\ UNCHANGED cstopping
  /\ UNCHANGED <<facts, drive, agents, approved, reclosed, canceller, ownLock, cstopped,
                 cancelled, bounds>>

\* The settlement of a run that is no longer the latest of its task is not kept.
CancelSettled(r) ==
  /\ r \in cstopping /\ r \notin pool
  /\ \/ /\ r = Run(r[1]) => result[r[1]].kind = "cancelled"
        /\ cstopped' = cstopped \cup {r} /\ UNCHANGED cfailed
     \/ /\ r = Run(r[1]) => result[r[1]].kind # "cancelled"
        /\ cfailed' = cfailed \cup {r} /\ UNCHANGED cstopped
  /\ cstopping' = {}
  /\ UNCHANGED <<facts, drive, agents, approved, reclosed, canceller, ownLock, ctodo,
                 cancelled, bounds>>

AllStopped == canceller = "stop" /\ ctodo = {} /\ cstopping = {}
WithinReservation(r) == r = Run(r[1]) => result[r[1]].used <= lease[r[1]].reserved

\* Every run confirmed: one commit revokes the leases as they were read.  With no
\* lease to revoke nothing is committed and only the process remembers.
CancelConfirmed ==
  /\ AllStopped /\ cfailed = {}
  /\ \A r \in cstopped : WithinReservation(r)
  /\ lease' = [t \in Tasks |-> IF Run(t) \in cstopped /\ Granted(t)
                                THEN TerminateTaskLease(lease[t], "revoked", result[t].used)
                                ELSE lease[t]]
  /\ run' = [t \in Tasks |-> IF Run(t) \in cstopped
                              THEN [run[t] EXCEPT !.reason = "user_cancellation"] ELSE run[t]]
  /\ reclosed' = (reclosed \/ \E r \in cstopped : r # Run(r[1]) \/ ~Granted(r[1]))
  /\ cancelled' = TRUE
  /\ CancelEnds
  /\ UNCHANGED <<queued, findings, approvals, checked, validated, integrated, drive, agents,
                 approved, bounds>>

\* Mutant of CancelUnconfirmed: the drive is never told that the cancel ended.
CancelUnconfirmedUnsettled ==
  /\ AllStopped /\ cfailed # {}
  /\ findings' = findings \cup {<<"cancellation_uncertain", r[1]>> : r \in cfailed}
  /\ UNCHANGED <<lease, run, queued, approvals, checked, validated, integrated, drive, agents,
                 approved, reclosed, cancelling, bounds>>

CancelUnconfirmed ==
  /\ AllStopped /\ cfailed # {}
  /\ findings' = findings \cup {<<"cancellation_uncertain", r[1]>> : r \in cfailed}
  /\ CancelEnds
  /\ UNCHANGED <<lease, run, queued, approvals, checked, validated, integrated, drive, agents,
                 approved, reclosed, cancelled, bounds>>

\* An overrun cannot be settled, or the commit fails: unconfirmed, nothing is
\* recorded.
CancelThrows ==
  /\ AllStopped
  /\ \/ /\ \E r \in cstopped : r # Run(r[1]) \/ ~WithinReservation(r)
        /\ cfailed = {}
        /\ UNCHANGED bounds
     \/ Fault
  /\ CancelEnds
  /\ UNCHANGED <<facts, drive, agents, approved, reclosed, cancelled>>

-----------------------------------------------------------------------------

DriverStep ==
  \/ Recover \/ DriveEnter \/ DrivePass \/ AwaitSettled \/ BlockingPass
  \/ PickWave \/ ReplaySkipped \/ RebuildWaveCandidate \/ AcceptWave
  \/ WaveGateFails \/ WaveNotAccepted \/ ChainUnreadable
  \/ \E c \in todo :
       \/ DispatchRefused(c) \/ DispatchGranted(c) \/ StartRun(c) \/ RecordStarted(c)
       \/ ValidationKept(c) \/ ValidationRefused(c) \/ ValidateTaskCandidate(c)
  \/ \E t \in Tasks : Classify(t) \/ ClassifyOverrun(t) \/ ApplyFails(t)

CancelStep ==
  \/ CancelConfirmed \/ CancelUnconfirmed \/ CancelThrows
  \/ \E r \in ctodo : CancelRun(r)
  \/ \E r \in cstopping : CancelSettled(r)

Failure == DriveThrows \/ \E c \in todo : PreparationFails(c)

Next ==
  \/ DriverStep \/ CancelStart \/ CancelStep \/ Failure
  \/ Boot \/ Crash \/ RunAgain
  \/ \E r \in live : Settle(r) \/ OrphanExits(r)
  \/ \E t \in Tasks : Approve(t)

Spec == Init /\ [][Next]_vars

\* The event loop of a process that lives runs every coroutine that can go on,
\* and the adapters bound every run: agents at work do not all stay so for ever.
FairSpec ==
  /\ Spec
  /\ WF_vars(DriverStep) /\ WF_vars(CancelStep) /\ WF_vars(\E r \in pool : Settle(r))

-----------------------------------------------------------------------------
(* Properties.                                                             *)

\* What a task has consumed over all its attempts and holds reserved never exceeds
\* its approved budget, whatever crashes, retries, cancels and recovery do
\* (budget.ts reserveTaskBudget, lease.ts terminateTaskLease).
TaskBudgetKept == \A t \in Tasks : Charged(t) <= TaskBudget[t]

\* Neither do all tasks together exceed the budget of the iteration, which may be
\* less than their sum (readiness.ts selectReadyTasks, budget.ts remainingBudget).
IterationBudgetKept == MapThenSumSet(Charged, Tasks) <= Limit

\* A task is leased again only for a retry kind it has not used: at most one
\* executor retry and one integration retry, over all processes (lease.ts
\* grantTaskLease, scheduler.ts classifyCrash).
AttemptsAreRetries == \A t \in Tasks : lease[t].attempt <= 1 + Cardinality(lease[t].kinds)

\* No task is leased before every earlier wave is integrated (projection.ts
\* projectSchedulerState).
WaveOrder ==
  \A t, u \in Tasks : lease[t].attempt > 0 /\ WaveOf[u] < WaveOf[t] => u \in integrated

\* What is integrated was validated: its last run completed, queued its patch
\* and passed the candidate Gates, and its lease was released.
IntegratedWasValidated ==
  \A t \in integrated :
    /\ lease[t].state = "released" /\ t \in validated
    /\ CompletedRun(t) /\ lease[t].attempt \in queued[t]

\* The lease of a completed and queued candidate ends only as released, never
\* by recovery or a cancel (recovery.ts "process loss does not make that
\* authority orphaned").
CompletedWorkKept ==
  [][\A t \in Tasks : Granted(t) /\ PendingCandidate(t) /\ ~Granted(t)'
       => lease'[t].state = "released"]_vars


\* A drive pauses only for an approval: what else stands still became a finding
\* in the blocking pass (scheduler.ts statusOf).
PausedOnlyForApproval == [][status' = "paused" /\ status # "paused" => approvals # {}]_vars

\* The loop of a drive ends within its bound on passes (scheduler.ts
\* executeDrive, scheduling_loop_inconclusive).
LoopConclusive == status # "inconclusive"

\* Every run of the driver comes back, unless the process dies, also when a cancel
\* is in progress (scheduler.ts executeDrive awaits it).
DriveReturns == (phase = "enter") ~> (phase \in {"idle", "down"})

\* While the first process lives a task blocks as an integration conflict only
\* after its integration retry (integration.ts noteIntegrationConflict); the
\* replay of a later one blocks it at once.
RetryBeforeConflict ==
  \A t \in Tasks : boots = 1 /\ <<"integration_conflict", t>> \in findings
                   => "integration_retry" \in lease[t].kinds

-----------------------------------------------------------------------------
(* What comments say of this code and it does not do; the README has the   *)
(* instances that show it.                                                 *)

\* "a terminal lease record is final and never transitions again" (lease.ts
\* buildTaskLeaseChain, which every reader of the leases calls).
TerminalLeaseIsFinal == ~reclosed

\* A confirmed cancellation is the last word in its process: no new lease.
NoLeaseAfterCancel ==
  [][cancelled => \A t \in Tasks : lease'[t].attempt = lease[t].attempt]_vars

\* A task with an open blocking finding is not leased again.
BlockedNeverLeased ==
  [][\A t \in Tasks : (\E f \in findings : f[2] = t /\ f[1] # "integration_retry_scheduled")
       => lease'[t].attempt = lease[t].attempt]_vars

\* The task Evidence that enters candidate validation is fresh: all of it is of
\* the attempt under validation.
FreshTaskEvidence ==
  phase = "validate" => \A t \in Tasks :
    WaveOf[t] = EarliestIncompleteWave /\ Granted(t) => queued[t] = {lease[t].attempt}
=============================================================================
