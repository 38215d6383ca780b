----------------------------- MODULE MCScheduler -----------------------------
(***************************************************************************)
(* Instances of Scheduler: two tasks, in one wave or in two.               *)
(***************************************************************************)
EXTENDS Scheduler

CONSTANTS t1, t2

TwoTasks == <<t1, t2>>
OneWave == [t \in {t1, t2} |-> 0]
TwoWaves == [t \in {t1, t2} |-> IF t = t1 THEN 0 ELSE 1]
OneTask == <<t1>>
SingleWave == [t \in {t1} |-> 0]
Budgets == [t \in Tasks |-> IF t = t1 THEN 2 ELSE 1]
Units == [t \in Tasks |-> 1]
Allowed == [t \in Tasks |-> {"allow"}]
AnyOutcome == [t \in Tasks |-> {"allow", "deny", "block", "requires_approval"}]
NeedsApproval == [t \in Tasks |-> {"requires_approval"}]
Nobody == {}

=============================================================================
