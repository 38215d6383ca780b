------------------------- MODULE SchedulerInvariant -------------------------
(***************************************************************************)
(* The inductive invariant of the scheduler: budgets, the shape of a       *)
(* drive, leases, candidates, runs and waves. It holds initially, every    *)
(* step keeps the part about budgets, and lemmas say what plan order and   *)
(* selection give.                                                         *)
(***************************************************************************)
EXTENDS Scheduler, WellFoundedInduction, TLAPS

Entries == [task : Tasks, kind : {"none"} \cup RetryKinds]
Runs == Tasks \X Nat
Stopping == cstopping \cup cstopped

Settled == {NoResult} \cup [kind : ResultKinds, used : Nat]

\* The budget of every task covers what is spent and, under a granted lease,
\* what is reserved.
WithinBudget(l) ==
  \A t \in Tasks : /\ l[t].spent <= TaskBudget[t]
                   /\ l[t].state = "granted" => l[t].spent + l[t].reserved <= TaskBudget[t]

\* The inductive invariant.  Spent alone must stay within the budget, or the
\* remainder a retry reserves could be negative; and the usage a commit reads
\* from a run or a settlement must be a natural number.
BudgetInv ==
  /\ lease \in [Tasks -> LeaseType] /\ WithinBudget(lease)
  /\ run \in [Tasks -> RunType]
  /\ result \in [Tasks -> Settled]

\* The types of what the drive and the cancel hold.
ShapeInv ==
  /\ queued \in [Tasks -> SUBSET Nat]
  /\ validated \subseteq Tasks /\ integrated \subseteq Tasks
  /\ todo \subseteq Entries /\ running \subseteq Tasks
  /\ pool \cup ctodo \cup Stopping \subseteq Runs

\* Closing a lease within its reservation keeps its record typed and its task
\* within budget (lease.ts terminateTaskLease).
LEMMA TerminateKeepsBudget ==
  ASSUME NEW l \in LeaseType, NEW state \in Closed, NEW used \in Nat, NEW b \in Nat,
         l.spent + used <= b
  PROVE  /\ TerminateTaskLease(l, state, used) \in LeaseType
         /\ TerminateTaskLease(l, state, used).spent <= b
         /\ TerminateTaskLease(l, state, used).state # "granted"
<1>1. l.spent \in Nat /\ l.reserved \in Nat
  BY DEF LeaseType
<1>2. l.spent + used \in Nat /\ l.spent + used <= b
  BY <1>1
<1>3. TerminateTaskLease(l, state, used)
        = [[l EXCEPT !.state = state] EXCEPT !.spent = l.spent + used]
  BY DEF TerminateTaskLease, LeaseType
<1>4. [l EXCEPT !.state = state] \in LeaseType
  BY DEF LeaseType, Closed
<1>5. [[l EXCEPT !.state = state] EXCEPT !.spent = l.spent + used] \in LeaseType
  BY <1>2, <1>4, Zenon DEF LeaseType
<1>6. /\ TerminateTaskLease(l, state, used).spent = l.spent + used
      /\ TerminateTaskLease(l, state, used).state = state
  BY <1>3 DEF LeaseType
<1> QED
  BY <1>2, <1>3, <1>5, <1>6 DEF Closed

\* Closing the lease of one task within its reservation (every commit with a
\* terminate_lease transition for one task) keeps all tasks within budget.
LEMMA CloseKeepsBudget ==
  ASSUME BudgetInv, NEW t \in Tasks, NEW state \in Closed, NEW used \in Nat,
         CanTerminate(t, used), Close(t, state, used)
  PROVE  lease' \in [Tasks -> LeaseType] /\ WithinBudget(lease')
<1> USE PlanAssumption
<1>1. lease[t] \in LeaseType /\ TaskBudget[t] \in Nat
  BY DEF BudgetInv
<1>2. lease[t].spent + used <= TaskBudget[t]
  <2>1. lease[t].spent \in Nat /\ lease[t].reserved \in Nat
    BY <1>1 DEF LeaseType
  <2>2. lease[t].spent + lease[t].reserved <= TaskBudget[t] /\ used <= lease[t].reserved
    BY DEF BudgetInv, WithinBudget, CanTerminate, Granted
  <2> QED
    BY <1>1, <2>1, <2>2
<1>3. /\ TerminateTaskLease(lease[t], state, used) \in LeaseType
      /\ TerminateTaskLease(lease[t], state, used).spent <= TaskBudget[t]
      /\ TerminateTaskLease(lease[t], state, used).state # "granted"
  BY <1>1, <1>2, TerminateKeepsBudget
<1>4. lease' = [lease EXCEPT ![t] = TerminateTaskLease(lease[t], state, used)]
  BY DEF Close
<1> QED
  BY <1>3, <1>4 DEF BudgetInv, WithinBudget

\* A grant reserves exactly what is left of the task budget, whatever the kind of
\* the attempt (lease.ts grantTaskLease, budget.ts reserveTaskBudget).
LEMMA GrantKeepsBudget ==
  ASSUME BudgetInv, NEW t \in Tasks, NEW kind, CanGrant(t, kind),
         lease' = GrantTaskLease(t, kind)
  PROVE  lease' \in [Tasks -> LeaseType] /\ WithinBudget(lease')
<1> USE PlanAssumption
<1> DEFINE g == [attempt |-> lease[t].attempt + 1, state |-> "granted", kind |-> kind,
                 reserved |-> TaskRemainder(t), spent |-> lease[t].spent,
                 kinds |-> lease[t].kinds \cup ({kind} \ {"none"})]
<1>1. lease[t] \in LeaseType /\ TaskBudget[t] \in Nat /\ lease[t].spent <= TaskBudget[t]
  BY DEF BudgetInv, WithinBudget
<1>2. TaskRemainder(t) \in Nat /\ lease[t].spent + TaskRemainder(t) = TaskBudget[t]
  BY <1>1 DEF TaskRemainder, LeaseType
<1>3. kind \in {"none"} \cup RetryKinds
  BY DEF CanGrant
<1>4. g \in LeaseType
  <2>1. lease[t].attempt + 1 \in Nat /\ lease[t].spent \in Nat
    BY <1>1 DEF LeaseType
  <2>2. lease[t].kinds \cup ({kind} \ {"none"}) \in SUBSET RetryKinds
    BY <1>1, <1>3 DEF LeaseType
  <2> QED
    BY <1>2, <1>3, <2>1, <2>2 DEF LeaseType
<1>5. g.spent = lease[t].spent /\ g.reserved = TaskRemainder(t)
  OBVIOUS
<1>6. lease' = [lease EXCEPT ![t] = g]
  BY DEF GrantTaskLease
<1> HIDE DEF g
<1> QED
  BY <1>1, <1>2, <1>4, <1>5, <1>6 DEF BudgetInv, WithinBudget

\* BudgetInv holds before the first process boots.
LEMMA InitBudgetInv == Init => BudgetInv
<1> SUFFICES ASSUME Init PROVE BudgetInv
  OBVIOUS
<1>1. NoLease \in LeaseType /\ NoLease.spent = 0 /\ NoLease.state = "none"
  BY DEF NoLease, LeaseType, RetryKinds, Closed
<1>2. NoRun \in RunType
  BY Zenon DEF NoRun, RunType, Reasons
<1>3. lease = [t \in Tasks |-> NoLease] /\ run = [t \in Tasks |-> NoRun]
      /\ result = [t \in Tasks |-> NoResult]
  BY DEF Init, FactsInit
<1> QED
  BY <1>1, <1>2, <1>3, PlanAssumption DEF BudgetInv, WithinBudget, Settled

\* Recording a run and settling it keep the types (scheduler.ts
\* runTerminatedRecord).
LEMMA RecordRunType ==
  ASSUME BudgetInv, NEW t \in Tasks, NEW reason \in Reasons, NEW used \in Nat,
         RecordRun(t, reason, used)
  PROVE  run' \in [Tasks -> RunType]
<1>1. run[t] \in RunType
  BY DEF BudgetInv
<1>2. [run[t] EXCEPT !.reason = reason, !.used = used] \in RunType
  BY <1>1, Zenon DEF RunType
<1> QED
  BY <1>2 DEF RecordRun, BudgetInv

\* One classified run, closed within its reservation (scheduler.ts classifyRun).
LEMMA SettlementKeepsBudget ==
  ASSUME BudgetInv, NEW t \in Tasks, NEW reason \in Reasons, NEW state \in Closed, NEW rule,
         Settlement(t, reason, state, rule)
  PROVE  lease' \in [Tasks -> LeaseType] /\ WithinBudget(lease') /\ run' \in [Tasks -> RunType]
<1>1. result[t].used \in Nat
  BY DEF BudgetInv, Settled, NoResult
<1>2. CanTerminate(t, result[t].used) /\ RecordRun(t, reason, result[t].used)
      /\ Close(t, state, result[t].used)
  BY DEF Settlement
<1> QED
  BY <1>1, <1>2, CloseKeepsBudget, RecordRunType

\* Classification of any result keeps the budget (scheduler.ts classifyRun).
LEMMA ClassifyKeepsBudget ==
  ASSUME BudgetInv, NEW t \in Tasks, ClassifyRun(t)
  PROVE  lease' \in [Tasks -> LeaseType] /\ WithinBudget(lease') /\ run' \in [Tasks -> RunType]
<1>1. \/ \E reason \in Reasons, state \in Closed, rule \in Rules \cup {"none"} :
           Settlement(t, reason, state, rule)
      \/ QueueCandidate(t)
  BY DEF ClassifyRun, ClassifyCrash, ClassifyCompletion, ClaimedReasons, Reasons, Closed, Rules
<1>2. ASSUME QueueCandidate(t)
      PROVE  lease' \in [Tasks -> LeaseType] /\ WithinBudget(lease') /\ run' \in [Tasks -> RunType]
  <2>1. result[t].used \in Nat /\ "completion" \in Reasons
    BY DEF BudgetInv, Settled, NoResult, Reasons
  <2>2. run' \in [Tasks -> RunType]
    BY <1>2, <2>1, RecordRunType DEF QueueCandidate
  <2> QED
    BY <1>2, <2>2 DEF QueueCandidate, BudgetInv
<1> QED
  BY <1>1, <1>2, SettlementKeepsBudget

\* Startup recovery charges an orphaned lease nothing or its whole reservation
\* (recovery.ts recoverSchedulingOperation).
LEMMA RecoverKeepsBudget ==
  ASSUME BudgetInv, Recover
  PROVE  lease' \in [Tasks -> LeaseType] /\ WithinBudget(lease') /\ run' \in [Tasks -> RunType]
<1> USE PlanAssumption
<1>1. ASSUME NEW t \in Orphaned
      PROVE  LET used == IF run[t].started THEN 0 ELSE lease[t].reserved
                 m == TerminateTaskLease(lease[t], "revoked", used)
             IN  m \in LeaseType /\ m.spent <= TaskBudget[t] /\ m.state # "granted"
  <2>1. t \in Tasks /\ lease[t] \in LeaseType /\ Granted(t) /\ TaskBudget[t] \in Nat
    BY DEF Orphaned, BudgetInv
  <2>2. lease[t].spent + lease[t].reserved <= TaskBudget[t] /\ lease[t].reserved \in Nat
    BY <2>1 DEF BudgetInv, WithinBudget, Granted, LeaseType
  <2>3. \A used \in {0, lease[t].reserved} : used \in Nat /\ lease[t].spent + used <= TaskBudget[t]
    BY <2>1, <2>2 DEF LeaseType
  <2>4. "revoked" \in Closed
    BY DEF Closed
  <2> QED
    BY <2>1, <2>2, <2>3, <2>4, TerminateKeepsBudget
<1>2. \A t \in Tasks : lease'[t] = IF t \notin Orphaned THEN lease[t]
        ELSE TerminateTaskLease(lease[t], "revoked", IF run[t].started THEN 0 ELSE lease[t].reserved)
  BY DEF Recover
<1>3. \A t \in Tasks : [run[t] EXCEPT !.reason = "process_interruption"] \in RunType
  BY DEF BudgetInv, RunType, Reasons
<1>4. lease' \in [Tasks -> LeaseType]
  BY <1>1 DEF Recover, BudgetInv
<1>5. WithinBudget(lease')
  BY <1>1, <1>2 DEF WithinBudget, BudgetInv
<1> QED
  BY <1>3, <1>4, <1>5 DEF Recover, BudgetInv

\* A confirmed cancel revokes every stopped lease within its reservation
\* (scheduler.ts cancel).
LEMMA CancelKeepsBudget ==
  ASSUME BudgetInv, CancelConfirmed
  PROVE  lease' \in [Tasks -> LeaseType] /\ WithinBudget(lease') /\ run' \in [Tasks -> RunType]
<1> USE PlanAssumption
<1>1. ASSUME NEW t \in Tasks, Run(t) \in cstopped, Granted(t)
      PROVE  LET m == TerminateTaskLease(lease[t], "revoked", result[t].used)
             IN  m \in LeaseType /\ m.spent <= TaskBudget[t] /\ m.state # "granted"
  <2>1. lease[t] \in LeaseType /\ TaskBudget[t] \in Nat /\ result[t].used \in Nat
    BY DEF BudgetInv, Settled, NoResult
  <2>2. result[t].used <= lease[t].reserved
    BY <1>1 DEF CancelConfirmed, WithinReservation, Run
  <2>3. lease[t].spent + result[t].used <= TaskBudget[t]
    <3>1. lease[t].spent \in Nat /\ lease[t].reserved \in Nat
      BY <2>1 DEF LeaseType
    <3>2. lease[t].spent + lease[t].reserved <= TaskBudget[t]
      BY <1>1 DEF BudgetInv, WithinBudget, Granted
    <3> QED
      BY <2>1, <2>2, <3>1, <3>2
  <2>4. "revoked" \in Closed
    BY DEF Closed
  <2> QED
    BY <2>1, <2>2, <2>3, <2>4, TerminateKeepsBudget
<1>2. \A t \in Tasks : lease'[t] = IF Run(t) \in cstopped /\ Granted(t)
        THEN TerminateTaskLease(lease[t], "revoked", result[t].used) ELSE lease[t]
  BY DEF CancelConfirmed
<1>3. \A t \in Tasks : [run[t] EXCEPT !.reason = "user_cancellation"] \in RunType
  BY DEF BudgetInv, RunType, Reasons
<1>4. lease' \in [Tasks -> LeaseType]
  BY <1>1 DEF CancelConfirmed, BudgetInv
<1>5. WithinBudget(lease')
  BY <1>1, <1>2 DEF WithinBudget, BudgetInv
<1> QED
  BY <1>3, <1>4, <1>5 DEF CancelConfirmed, BudgetInv

\* Every step of the driver, of a cancel, of an agent and of the environment
\* preserves BudgetInv.
LEMMA NextBudgetInv ==
  ASSUME BudgetInv, todo \subseteq Entries, [Next]_vars
  PROVE  BudgetInv'
<1> USE PlanAssumption
<1>a. ASSUME UNCHANGED <<lease, run, result>> PROVE BudgetInv'
  BY <1>a DEF BudgetInv
<1>b. ASSUME lease' \in [Tasks -> LeaseType], WithinBudget(lease'), run' \in [Tasks -> RunType],
             result' \in [Tasks -> Settled]
      PROVE  BudgetInv'
  BY <1>b DEF BudgetInv
<1>c. NoResult \in Settled /\ NoRun \in RunType
  BY Zenon DEF Settled, NoRun, RunType, Reasons
<1>d. {"revoked", "released"} \subseteq Closed
  BY DEF Closed
<1>e. \A t \in Tasks : run[t].used \in Nat
  BY DEF BudgetInv, RunType
<1>f. \A c \in todo : c.task \in Tasks
  BY DEF Entries
<1>1. CASE Boot \/ RunAgain \/ DriveEnter \/ DrivePass \/ AwaitSettled \/ BlockingPass
           \/ PickWave \/ ReplaySkipped \/ RebuildWaveCandidate \/ AcceptWave \/ WaveGateFails
           \/ WaveNotAccepted \/ ChainUnreadable \/ DriveThrows \/ CancelStart
           \/ CancelUnconfirmed \/ CancelThrows
           \/ (\E r \in ctodo : CancelRun(r)) \/ (\E r \in cstopping : CancelSettled(r))
  BY <1>1, <1>a, Zenon DEF Boot, RunAgain, DriveEnter, DrivePass, AwaitSettled, BlockingPass, PickWave,
       ReplaySkipped, RebuildWaveCandidate, AcceptWave, WaveGateFails, WaveNotAccepted,
       ChainUnreadable, DriveThrows, CancelStart, CancelRun, CancelSettled, CancelUnconfirmed, CancelThrows,
       facts, agents
<1>2. ASSUME NEW c \in todo,
             DispatchRefused(c) \/ StartRun(c) \/ ValidationKept(c) \/ ValidationRefused(c)
      PROVE  BudgetInv'
  BY <1>2, <1>a DEF DispatchRefused, StartRun, ValidationKept, ValidationRefused, facts, agents
<1>15. ASSUME NEW t \in Tasks, ClassifyOverrun(t) \/ Approve(t) PROVE BudgetInv'
  BY <1>15, <1>a DEF ClassifyOverrun, Approve, facts, agents
<1>3. CASE Crash
  BY <1>3, <1>c DEF Crash, facts, BudgetInv
<1>4. CASE Recover
  BY <1>4, <1>b, RecoverKeepsBudget DEF Recover, agents, BudgetInv
<1>5. CASE CancelConfirmed
  BY <1>5, <1>b, CancelKeepsBudget DEF CancelConfirmed, agents, BudgetInv
<1>6. ASSUME NEW c \in todo, DispatchGranted(c) PROVE BudgetInv'
  <2>1. lease' \in [Tasks -> LeaseType] /\ WithinBudget(lease')
    BY <1>6, <1>f, GrantKeepsBudget DEF DispatchGranted
  <2>2. run' \in [Tasks -> RunType] /\ result' \in [Tasks -> Settled]
    BY <1>6, <1>c, <1>f DEF DispatchGranted, BudgetInv
  <2> QED
    BY <1>b, <2>1, <2>2
<1>7. ASSUME NEW c \in todo, RecordStarted(c) PROVE BudgetInv'
  <2>1. [run[c.task] EXCEPT !.started = TRUE] \in RunType
    BY <1>f, Zenon DEF BudgetInv, RunType
  <2> QED
    BY <1>7, <1>b, <2>1, Zenon DEF RecordStarted, agents, BudgetInv
<1>8. ASSUME NEW c \in todo, PreparationFails(c) PROVE BudgetInv'
  <2>1. CanTerminate(c.task, 0) \/ ~Granted(c.task)
    BY <1>f DEF CanTerminate, BudgetInv, LeaseType
  <2>2. lease' \in [Tasks -> LeaseType] /\ WithinBudget(lease')
    BY <1>8, <1>d, <1>f, <2>1, CloseKeepsBudget DEF PreparationFails, BudgetInv
  <2> QED
    BY <1>8, <1>b, <2>2 DEF PreparationFails, agents, BudgetInv
<1>9. ASSUME NEW t \in Tasks, Classify(t) PROVE BudgetInv'
  BY <1>9, <1>b, <1>c, ClassifyKeepsBudget DEF Classify, BudgetInv
<1>10. ASSUME NEW t \in Tasks, ApplyFails(t) PROVE BudgetInv'
  BY <1>10, <1>a, <1>b, <1>d, <1>e, CloseKeepsBudget
  DEF ApplyFails, NoteIntegrationConflict, agents, BudgetInv
<1>11. ASSUME NEW c \in todo, ValidateTaskCandidate(c) PROVE BudgetInv'
  BY <1>11, <1>b, <1>d, <1>e, <1>f, CloseKeepsBudget
  DEF ValidateTaskCandidate, agents, BudgetInv
<1>12. ASSUME NEW r \in live, Settle(r) PROVE BudgetInv'
  <2>1. CASE UNCHANGED result
    BY <1>12, <1>a, <2>1 DEF Settle, facts
  <2>2. ASSUME NEW kind \in ResultKinds, NEW used \in 0..lease[r[1]].reserved + 1,
               result' = [result EXCEPT ![r[1]] = [kind |-> kind, used |-> used]]
        PROVE  BudgetInv'
    <3>1. r[1] \in Tasks => [kind |-> kind, used |-> used] \in Settled
      BY <2>2 DEF Settled, BudgetInv, LeaseType
    <3>2. result' \in [Tasks -> Settled]
      BY <2>2, <3>1, Zenon DEF BudgetInv
    <3> QED
      BY <1>12, <3>2 DEF Settle, facts, BudgetInv
  <2> QED
    BY <1>12, <2>1, <2>2, Zenon DEF Settle
<1>14. ASSUME NEW r \in live, OrphanExits(r) PROVE BudgetInv'
  BY <1>14, <1>a DEF OrphanExits, facts
<1>13. CASE UNCHANGED vars
  BY <1>13, <1>a DEF vars, facts, agents
<1> QED
  BY <1>1, <1>2, <1>3, <1>4, <1>5, <1>6, <1>7, <1>8, <1>9, <1>10, <1>11, <1>12, <1>13,
     <1>14, <1>15
  DEF Next, DriverStep, CancelStep, Failure

-----------------------------------------------------------------------------
(* The shape of a drive: what its phase, its candidates, its runs and the    *)
(* cancel beside it say about the leases.                                  *)

Dispatching == phase \in {"dispatch", "prepare", "starting"}
Preparing == phase \in {"prepare", "starting"}
Waiting(c) == phase = "dispatch" \/ (Preparing /\ ~Turn(c))
QueuedNow(t) == lease[t].attempt \in queued[t]
EarlierDone(t) == \A u \in Tasks : WaveOf[u] < WaveOf[t] => u \in integrated

\* A queued attempt has completed and a validated candidate is the queued one.
LeaseInv ==
  \A t \in Tasks :
    /\ lease[t].state = "none" <=> lease[t].attempt = 0
    /\ \A n \in queued[t] : n <= lease[t].attempt
    /\ QueuedNow(t) => CompletedRun(t)
    /\ t \in validated => QueuedNow(t)

\* A candidate that waits is still what the selection saw, and the one being
\* prepared is new.
DispatchInv ==
  /\ Dispatching => \A c, d \in todo : c.task = d.task => c = d
  /\ Dispatching => \A c \in todo :
       c.task \notin running /\ c.task \notin integrated /\ EarlierDone(c.task)
  /\ \A c \in todo : Waiting(c) /\ c.kind = "none" => lease[c.task].attempt = 0
  /\ Preparing => \A c \in todo : Turn(c) => ~QueuedNow(c.task)
  /\ phase = "prepare" => \A c \in todo : Turn(c) =>
       result[c.task] = NoResult /\ Run(c.task) \notin pool \cup Stopping

\* A run that is at work, settled or stopped and not yet classified has not been
\* queued.
RunInv ==
  /\ running # {} => Dispatching \/ phase \in {"classify", "close"}
  /\ \A t \in running : ~QueuedNow(t)
  /\ phase = "close" => \A t \in running : First(t, running) =>
       result[t] # NoResult /\ Run(t) \notin Stopping
  /\ \A t \in Tasks : result[t] # NoResult => ~QueuedNow(t)
  /\ \A t \in Tasks : Run(t) \in pool => ~QueuedNow(t) /\ result[t] = NoResult
  /\ \A t \in Tasks : Run(t) \in cstopped => ~QueuedNow(t)
  /\ \A r \in pool \cup Stopping : r[2] <= lease[r[1]].attempt
  /\ canceller = "none" => ctodo = {} /\ Stopping = {}

\* Integration and the order of waves.
WaveInv ==
  /\ \A t \in integrated : lease[t].state = "released" /\ t \in validated
  /\ \A t \in Tasks :
       lease[t].attempt > 0 \/ <<"integration_retry_scheduled", t>> \in findings
         => EarlierDone(t)

Inv == BudgetInv /\ ShapeInv /\ LeaseInv /\ DispatchInv /\ RunInv /\ WaveInv

-----------------------------------------------------------------------------
(* Plan order and selection.                                               *)

\* The plan order is strict: each task has one place in it.
LEMMA PrecedesAsymmetric ==
  ASSUME NEW t, NEW u, Precedes(t, u), Precedes(u, t)
  PROVE  FALSE
<1>1. PICK i \in DOMAIN Order, j \in DOMAIN Order : i < j /\ Order[i] = t /\ Order[j] = u
  BY DEF Precedes
<1>2. PICK k \in DOMAIN Order, l \in DOMAIN Order : k < l /\ Order[k] = u /\ Order[l] = t
  BY DEF Precedes
<1>3. k = j /\ l = i
  BY <1>1, <1>2, OrderAssumption
<1>4. i \in Nat /\ j \in Nat
  BY OrderAssumption
<1> QED
  BY <1>1, <1>2, <1>3, <1>4

\* One candidate at a time has its turn, and one run at a time is classified.
LEMMA OneTurn ==
  ASSUME NEW c, NEW d, Turn(c), Turn(d)
  PROVE  c = d
BY PrecedesAsymmetric DEF Turn

\* One run of a set comes first in plan order (scheduler.ts driveOnce classifies
\* settled runs in that order).
LEMMA OneFirst ==
  ASSUME NEW S, NEW t, NEW u, First(t, S), First(u, S)
  PROVE  t = u
BY PrecedesAsymmetric DEF First

\* Every non-empty set of naturals has the least element Min chooses.
LEMMA LeastIsMin ==
  ASSUME NEW S \in SUBSET Nat, S # {}
  PROVE  Min(S) \in S /\ \A y \in S : Min(S) <= y
<1> DEFINE R == OpToRel(<, Nat)
<1>1. IsWellFoundedOn(R, Nat)
  BY NatLessThanWellFounded
<1>2. \A x, y \in Nat : <<y, x>> \in R <=> y < x
  BY DEF OpToRel
<1> HIDE DEF R
<1>3. \E x \in S : \A y \in S : <<y, x>> \notin R
  BY <1>1, WFMin, Zenon
<1>4. PICK x \in S : \A y \in S : <<y, x>> \notin R
  BY <1>3
<1>5. \A y \in S : x =< y
  <2> TAKE y \in S
  <2>1. x \in Nat /\ y \in Nat
    OBVIOUS
  <2>2. ~(y < x)
    BY <1>2, <1>4, <2>1, Zenon
  <2> QED
    BY <2>1, <2>2
<1> QED
  BY <1>5, Zenon DEF Min

\* In the earliest incomplete wave all earlier waves are integrated (projection.ts).
LEMMA EarliestFacts ==
  ASSUME NEW t \in Tasks, WaveOf[t] = EarliestIncompleteWave
  PROVE  EarlierDone(t)
<1> DEFINE open == {WaveOf[u] : u \in Tasks \ integrated}
<1>1. open \in SUBSET Nat
  BY PlanAssumption
<1>2. CASE open = {}
  <2>1. EarliestIncompleteWave = -1
    BY <1>2 DEF EarliestIncompleteWave
  <2> QED
    BY <2>1, PlanAssumption
<1>3. CASE open # {}
  <2>1. EarliestIncompleteWave = Min(open)
    BY <1>3 DEF EarliestIncompleteWave
  <2>2. \A y \in open : WaveOf[t] <= y
    BY <1>1, <1>3, <2>1, LeastIsMin
  <2> SUFFICES ASSUME NEW u \in Tasks, WaveOf[u] < WaveOf[t], u \notin integrated PROVE FALSE
    BY DEF EarlierDone
  <2>3. WaveOf[u] \in open
    OBVIOUS
  <2> QED
    BY <2>2, <2>3, PlanAssumption
<1> QED
  BY <1>2, <1>3

\* What the selection offers (readiness.ts selectReadyTasks,
\* synthesizeIntegrationRetries): one entry per task, of a task that is ready or
\* has a retry to come.
LEMMA Selected ==
  ASSUME NEW slots, NEW c \in Dispatchable(slots)
  PROVE  /\ c \in Entries
         /\ \/ Ready(c.task) /\ c.kind = RetryKind(c.task)
            \/ RetryScheduled(c.task) /\ c.kind = "integration_retry"
<1>1. CASE c \in SelectReadyTasks(slots)
  <2>1. PICK t \in Fitting({u \in Tasks : Ready(u)}, slots) : c = [task |-> t, kind |-> RetryKind(t)]
    BY <1>1 DEF SelectReadyTasks
  <2>2. t \in Tasks /\ Ready(t)
    BY DEF Fitting
  <2>3. RetryKind(t) \in {"none"} \cup RetryKinds
    BY DEF RetryKind, RetryKinds
  <2> QED
    BY <2>1, <2>2, <2>3 DEF Entries
<1>2. CASE c \in SynthesizeIntegrationRetries(slots)
  <2>1. PICK t \in Fitting({u \in Tasks : RetryScheduled(u)}, slots) :
          c = [task |-> t, kind |-> "integration_retry"]
    BY <1>2 DEF SynthesizeIntegrationRetries
  <2>2. t \in Tasks /\ RetryScheduled(t)
    BY DEF Fitting
  <2> QED
    BY <2>1, <2>2 DEF Entries, RetryKinds
<1> QED
  BY <1>1, <1>2 DEF Dispatchable

\* A pass offers a task once: the synthesized retries are of tasks the selection
\* did not take (readiness.ts synthesizeIntegrationRetries).
LEMMA SelectedOnce ==
  ASSUME NEW slots, NEW c \in Dispatchable(slots), NEW d \in Dispatchable(slots), c.task = d.task
  PROVE  c = d
<1>1. ASSUME c \in SelectReadyTasks(slots), d \in SelectReadyTasks(slots) PROVE c = d
  <2>1. PICK t \in Tasks : c = [task |-> t, kind |-> RetryKind(t)]
    BY <1>1, Zenon DEF SelectReadyTasks, Fitting
  <2>2. PICK u \in Tasks : d = [task |-> u, kind |-> RetryKind(u)]
    BY <1>1, Zenon DEF SelectReadyTasks, Fitting
  <2>3. t = u
    BY <2>1, <2>2
  <2> QED
    BY <2>1, <2>2, <2>3
<1>2. ASSUME c \in SynthesizeIntegrationRetries(slots), d \in SynthesizeIntegrationRetries(slots)
      PROVE  c = d
  <2>1. PICK t \in Tasks : c = [task |-> t, kind |-> "integration_retry"]
    BY <1>2, Zenon DEF SynthesizeIntegrationRetries, Fitting
  <2>2. PICK u \in Tasks : d = [task |-> u, kind |-> "integration_retry"]
    BY <1>2, Zenon DEF SynthesizeIntegrationRetries, Fitting
  <2>3. t = u
    BY <2>1, <2>2
  <2> QED
    BY <2>1, <2>2, <2>3
<1> QED
  BY <1>1, <1>2 DEF Dispatchable

\* Inv holds before the first process boots.
LEMMA InitInv == Init => Inv
<1> SUFFICES ASSUME Init PROVE Inv
  OBVIOUS
<1>1. BudgetInv
  BY InitBudgetInv
<1>2. /\ todo = {} /\ running = {} /\ pool = {} /\ ctodo = {} /\ cstopping = {} /\ cstopped = {}
      /\ phase = "down" /\ integrated = {} /\ validated = {} /\ findings = {}
      /\ queued = [t \in Tasks |-> {}] /\ result = [t \in Tasks |-> NoResult]
      /\ \A t \in Tasks : lease[t].state = "none" /\ lease[t].attempt = 0
  BY DEF Init, FactsInit, NoLease
<1>3. ShapeInv
  BY <1>2 DEF ShapeInv, Stopping
<1>4. LeaseInv
  <2>1. \A t \in Tasks : queued[t] = {}
    BY <1>2
  <2> QED
    BY <1>2, <2>1 DEF LeaseInv, QueuedNow
<1>5. DispatchInv /\ RunInv /\ WaveInv
  BY <1>2 DEF DispatchInv, RunInv, WaveInv, Dispatching, Preparing, Waiting, Stopping
<1> QED
  BY <1>1, <1>3, <1>4, <1>5 DEF Inv


-----------------------------------------------------------------------------
(* What the steps do, in the terms of the invariants.                      *)

\* To the facts, unless a lease is granted or a candidate is queued.
Settling ==
  /\ queued' = queued
  /\ \A t \in Tasks :
       /\ lease'[t].attempt = lease[t].attempt /\ lease'[t].kinds = lease[t].kinds
       /\ \/ lease'[t].state = lease[t].state
          \/ /\ Granted(t) /\ lease'[t].state \in Closed
             /\ PendingCandidate(t) => lease'[t].state = "released"
       /\ QueuedNow(t) => run'[t].reason = "completion"
       /\ t \in validated' => t \in validated \/ QueuedNow(t)
       /\ t \in validated /\ t \in integrated => t \in validated'
       /\ <<"integration_retry_scheduled", t>> \in findings'
            => <<"integration_retry_scheduled", t>> \in findings \/ EarlierDone(t)
  /\ integrated \subseteq integrated' /\ integrated' \subseteq Tasks
  /\ \A t \in integrated' \ integrated :
       lease'[t].state = "released" /\ t \in validated /\ t \in validated'
  /\ validated' \subseteq Tasks

\* To the agents and the cancel, unless an agent starts, settles or is stopped.
Fading ==
  /\ \A t \in Tasks : result'[t] \in {result[t], NoResult}
  /\ pool' \subseteq pool
  /\ \/ UNCHANGED <<canceller, ctodo, cstopping, cstopped>>
     \/ ctodo' = {} /\ cstopping' = {} /\ cstopped' = {}

\* To the drive, outside of dispatch and classification.
DrivePhases == {"dispatch", "prepare", "starting", "classify", "close"}
Away ==
  /\ phase' \notin DrivePhases /\ todo' \subseteq Entries
  /\ running' = {} \/ (running' = running /\ phase \notin DrivePhases)

Aside == UNCHANGED <<phase, todo, running>>

\* A closed lease keeps its attempt and its retry kinds (lease.ts
\* terminateTaskLease).
LEMMA TerminateFacts ==
  ASSUME NEW l \in LeaseType, NEW state, NEW used
  PROVE  /\ TerminateTaskLease(l, state, used).attempt = l.attempt
         /\ TerminateTaskLease(l, state, used).kinds = l.kinds
         /\ TerminateTaskLease(l, state, used).state = state
BY DEF TerminateTaskLease, LeaseType

\* Closing one lease is Settling, unless it would close a queued candidate other
\* than as released.
LEMMA CloseSettles ==
  ASSUME Inv, NEW t \in Tasks, NEW state \in Closed, NEW used, Granted(t),
         PendingCandidate(t) => state = "released", Close(t, state, used)
  PROVE  \A u \in Tasks :
           /\ lease'[u].attempt = lease[u].attempt /\ lease'[u].kinds = lease[u].kinds
           /\ \/ lease'[u].state = lease[u].state
              \/ /\ Granted(u) /\ lease'[u].state \in Closed
                 /\ PendingCandidate(u) => lease'[u].state = "released"
<1>1. lease[t] \in LeaseType /\ DOMAIN lease = Tasks
  BY DEF Inv, BudgetInv
<1>2. \A u \in Tasks : lease'[u] = IF u = t THEN TerminateTaskLease(lease[t], state, used) ELSE lease[u]
  BY <1>1 DEF Close
<1>3. /\ TerminateTaskLease(lease[t], state, used).attempt = lease[t].attempt
      /\ TerminateTaskLease(lease[t], state, used).kinds = lease[t].kinds
      /\ TerminateTaskLease(lease[t], state, used).state = state
  BY <1>1, TerminateFacts
<1> QED
  BY <1>2, <1>3

\* With the facts unchanged, or only a finding, an approval request or Evidence
\* more, a step is Settling.
LEMMA QuietSettles ==
  ASSUME Inv, UNCHANGED <<lease, run, queued, validated, integrated>>,
         \A t \in Tasks : <<"integration_retry_scheduled", t>> \in findings'
            => <<"integration_retry_scheduled", t>> \in findings \/ EarlierDone(t)
  PROVE  Settling
<1>1. \A t \in Tasks : QueuedNow(t) => run[t].reason = "completion"
  BY DEF Inv, LeaseInv, CompletedRun
<1> QED
  BY <1>1 DEF Settling, Inv, ShapeInv
=============================================================================
