-------------------------- MODULE TargetIntegration --------------------------
(***************************************************************************)
(* Preparing and accepting integrations on the Target                      *)
(* (packages/runtime/src/collaboration/integration.ts, ledger-resequence.ts*)
(* and the candidate half of adapters/vcs-git/src/control-store.ts).       *)
(*                                                                         *)
(* prepare takes the project's integration lease, builds the two-parent    *)
(* candidate in a scratch worktree, stages it and validates it; accept     *)
(* rebuilds the same candidate from the frozen inputs, compares, validates *)
(* again and swaps the Target.  A candidate is identified by what was      *)
(* merged: operation, version of its branch, Target commit.  The Target    *)
(* only moves by compare-and-swap, so a Target commit is its position.     *)
(* Merging is abstracted to which operations conflict, and the validation  *)
(* chain to which operations are invalid next to which others.             *)
(***************************************************************************)
EXTENDS Lease, FiniteSets, FiniteSetsExt

CONSTANTS Handlers,
          Ops,           \* operations with a published branch
          BaseManifests, \* ledger length all branches were forked from
          Conflicts,     \* pairs <<op, other>>: op does not merge once other is in
          Invalid,       \* pairs <<op, other>>: op does not validate once other is in
                         \* ("base" is always in)
          Commands,      \* command ids
          Kind, OpOf,    \* what a command asks for, and for which operation
          Serial,        \* does the process run one integration command at a time
          Scenarios,     \* budgets: sends per command, ticks, commits by others,
                         \* publications, crashes
          MaxTime

VARIABLES control,   \* the Control Ref: snapshots and integration lease records
          target,    \* the Target: accepted integration records and foreign commits
          branch,    \* how far each operation's branch is published
          staged,    \* staging refs: candidate -> its record
          worktree,  \* the scratch worktree of the mirror
          clock, h,
          arg,       \* the integration a client's accept command names
          told,      \* answers: <<command, candidate, "prepared" or "accepted">>
          budget

vars == <<control, target, branch, staged, worktree, clock, h, arg, told, budget>>

------------------------------------------------------------------------------
(* Ledger manifests and their resequencing *)

Manifest(id, seq) == [id |-> id, seq |-> seq]
BaseLedger == {Manifest(<<"base", k>>, k) : k \in 1..BaseManifests}

\* The manifests an operation's branch carries at version v.
BranchLedger(op, v) ==
    BaseLedger \cup {Manifest(<<op, k>>, BaseManifests + k) : k \in 1..v}

MaxSequence(ledger) == Max({m.seq : m \in ledger} \cup {0})

\* The same id under another sequence has another digest, which nothing explains.
Explained(ledger, incoming) ==
    \A a \in ledger, b \in incoming : a.id = b.id => a = b

\* The incoming-only manifests in the order of their old sequence, numbered on
\* from the Target's largest.
ResequenceCandidateLedger(ledger, incoming) ==
    LET new == incoming \ ledger
    IN  {Manifest(m.id, MaxSequence(ledger) + Cardinality({x \in new : x.seq <= m.seq})) :
            m \in new}

\* planIntegrationCandidate: the resequenced manifests and one final manifest
\* that carries the integration record.
PlannedLedger(ledger, id, incoming) ==
    LET merged == ledger \cup ResequenceCandidateLedger(ledger, incoming)
    IN  merged \cup {Manifest(<<"integration", id>>, MaxSequence(merged) + 1)}

Linear(ledger) ==
    /\ {m.seq : m \in ledger} = 1..Cardinality(ledger)
    /\ Cardinality({m.id : m \in ledger}) = Cardinality(ledger)

------------------------------------------------------------------------------
LedgerAt(n) ==
    LET own == {k \in 1..n : target[k].kind = "integration"}
    IN  IF own = {} THEN BaseLedger ELSE target[Max(own)].ledger

IntegratedAt(n) == {target[k].rec.id : k \in {j \in 1..n : target[j].kind = "integration"}}
OpsAt(n) == {"base"} \cup {id.op : id \in IntegratedAt(n)}

\* integrationIdFor: the frozen merge inputs, nothing else.
IntegrationId(op, v, n) == [op |-> op, version |-> v, base |-> n]

Contained(id) == \E x \in IntegratedAt(id.base) : x.op = id.op /\ x.version >= id.version
Merges(id) == \A o \in OpsAt(id.base) : <<id.op, o>> \notin Conflicts
\* validateCandidateTree: replay and linearity of the ledger, then impact,
\* evidence and approval bindings against the merged state.
Valid(id, ledger) ==
    Linear(ledger) /\ \A o \in OpsAt(id.base) : <<id.op, o>> \notin Invalid

NoId == [op |-> "none", version |-> 0, base |-> 0]
NoRecord == [id |-> NoId, cmd |-> "none", token |-> 0]
Foreign == [kind |-> "foreign", rec |-> NoRecord, ledger |-> {}]
Empty == [id |-> NoId, rec |-> NoRecord]

Idle == [pc |-> "idle", cmd |-> "none", attempt |-> 0, view |-> 0, id |-> NoId,
         rec |-> NoRecord, reproduce |-> NoRecord, seenTarget |-> 0,
         snap |-> <<>>, draft |-> <<>>]

LeaseEntries(chain) == SelectSeq(chain, LAMBDA e : e.kind = "lease")
IntegrationLeaseHistory(chain) ==
    [i \in DOMAIN LeaseEntries(chain) |-> LeaseEntries(chain)[i].body]
Seen(p) == SubSeq(control, 1, h[p].view)
Snapshot(c, at) == [kind |-> "snapshot", body |-> [who |-> c, at |-> at]]
LeaseEntry(r) == [kind |-> "lease", body |-> r]

Init ==
    /\ control = <<>> /\ target = <<>> /\ clock = 0
    /\ branch = [o \in Ops |-> 1]
    /\ staged = {} /\ worktree = Empty
    /\ h = [p \in Handlers |-> Idle]
    /\ arg = [c \in Commands |-> NoId] /\ told = {}
    /\ budget \in Scenarios

------------------------------------------------------------------------------
Return(p) == h' = [h EXCEPT ![p] = Idle]
Fail(p) == Return(p) /\ UNCHANGED told
Tell(p, what) == Return(p) /\ told' = told \cup {<<h[p].cmd, h[p].id, what>>}
Goto(p, pc) == h' = [h EXCEPT ![p].pc = pc] /\ UNCHANGED told

Free == ~Serial \/ \A q \in Handlers : h[q].pc = "idle"

Send(c) == budget.sends[c] > 0 /\ budget' = [budget EXCEPT !.sends[c] = @ - 1]

\* prepare_integration arrives: authorization, then the heads it freezes.
IssuePrepare(p, c) ==
    /\ Kind[c] = "prepare" /\ h[p].pc = "idle" /\ Free /\ Send(c)
    /\ h' = [h EXCEPT ![p] =
                [Idle EXCEPT !.pc = "acquire", !.cmd = c, !.view = Len(control),
                             !.snap = Snapshot(c, clock),
                             !.id = IntegrationId(OpOf[c], branch[OpOf[c]], Len(target))]]
    /\ UNCHANGED <<control, target, branch, staged, worktree, clock, arg, told>>

\* accept_integration arrives, for an integration some client saw prepared.
IssueAccept(p, c) ==
    /\ Kind[c] = "accept" /\ h[p].pc = "idle" /\ Free /\ Send(c)
    /\ \E id \in (IF arg[c] # NoId THEN {arg[c]}
                  ELSE {s.id : s \in staged} \cup {t[2] : t \in told}) :
           /\ id.op = OpOf[c]
           /\ arg' = [arg EXCEPT ![c] = id]
           /\ h' = [h EXCEPT ![p] = [Idle EXCEPT !.pc = "candidate", !.cmd = c,
                                                 !.view = Len(control), !.id = id,
                                                 !.seenTarget = Len(target)]]
    /\ UNCHANGED <<control, target, branch, staged, worktree, clock, told>>

\* An awaited call fails and nothing of it landed; the process dying in the
\* middle of a command leaves the same remote state behind.
Unavailable(p) ==
    /\ h[p].pc \notin {"idle", "release", "recover"} /\ Fail(p)
    /\ UNCHANGED <<control, target, branch, staged, worktree, clock, arg, budget>>

------------------------------------------------------------------------------
(* acquireIntegrationLease *)

SwapLands(view) == view = Len(control)

AppendControl(p, entry) ==
    /\ \/ /\ SwapLands(h[p].view)
          /\ control' = Append(control, entry)
          /\ h' \in {[h EXCEPT ![p].pc = "acquire", ![p].view = @ + 1], [h EXCEPT ![p] = Idle]}
       \/ /\ ~SwapLands(h[p].view)
          /\ h' = IF h[p].attempt = 0 THEN [h EXCEPT ![p].pc = "reread", ![p].attempt = 1]
                                      ELSE [h EXCEPT ![p] = Idle]
          /\ UNCHANGED control
    /\ UNCHANGED <<target, branch, staged, worktree, clock, arg, told, budget>>

ReRead(p) ==
    /\ h[p].pc = "reread"
    /\ h' = [h EXCEPT ![p].pc = "acquire", ![p].view = Len(control)]
    /\ UNCHANGED <<control, target, branch, staged, worktree, clock, arg, told, budget>>

\* assertLiveLeaseTip
LiveTip(leases, now, token) ==
    leases # <<>> /\ IsLive(Tip(leases), now) /\ Tip(leases).token = token

\* One turn of the acquisition: the actor's snapshot first, then the lease
\* transition, and the lease of the command must hold the tip.
Acquire(p) ==
    LET c == h[p].cmd
        leases == IntegrationLeaseHistory(Seen(p))
        t == TransitionAcquireLease(leases, c, clock)
    IN
    /\ h[p].pc = "acquire"
    /\ IF h[p].snap \notin Range(Seen(p))
       THEN h' = [h EXCEPT ![p].pc = "snapshot"]
       ELSE h' = CASE t.kind = "draft" ->
                        [h EXCEPT ![p].pc = "lease", ![p].draft = LeaseEntry(t.record)]
                   [] t.kind = "existing" /\ LiveTip(leases, clock, t.record.token) ->
                        [h EXCEPT ![p].pc = "candidate",
                                  ![p].rec = [id |-> h[p].id, cmd |-> c, token |-> t.record.token]]
                   [] OTHER -> [h EXCEPT ![p] = Idle]
    /\ UNCHANGED <<control, target, branch, staged, worktree, clock, arg, told, budget>>

AppendSnapshot(p) == h[p].pc = "snapshot" /\ AppendControl(p, h[p].snap)
AppendLease(p) == h[p].pc = "lease" /\ AppendControl(p, h[p].draft)

------------------------------------------------------------------------------
(* readCandidate, and what prepare and accept conclude from it *)

StagedFor(id) == {r \in staged : r.id = id}

\* A candidate the command itself staged is reproduced, any other replaced.
PrepareCandidateRead(p) ==
    LET own == {r \in StagedFor(h[p].id) : r.cmd = h[p].cmd} IN
    /\ h[p].pc = "candidate" /\ Kind[h[p].cmd] = "prepare"
    /\ h' = [h EXCEPT ![p].pc = "build",
                      ![p].rec = IF own = {} THEN @ ELSE CHOOSE r \in own : TRUE,
                      ![p].reproduce = IF own = {} THEN @ ELSE CHOOSE r \in own : TRUE]
    /\ UNCHANGED <<control, target, branch, staged, worktree, clock, arg, told, budget>>

\* A landed swap removes the staging ref: without a staged candidate the
\* answer is looked for in the Target.
AcceptCandidateRead(p) ==
    LET found == StagedFor(h[p].id) IN
    /\ h[p].pc = "candidate" /\ Kind[h[p].cmd] = "accept"
    /\ IF found # {}
       THEN LET r == CHOOSE r \in found : TRUE IN
            /\ h' = [h EXCEPT ![p].pc = "existing", ![p].rec = r, ![p].reproduce = r]
            /\ UNCHANGED told
       ELSE IF h[p].id \in IntegratedAt(Len(target)) THEN Tell(p, "accepted") ELSE Fail(p)
    /\ UNCHANGED <<control, target, branch, staged, worktree, clock, arg, budget>>

RecordOnTarget(rec) == \E i \in DOMAIN target : target[i].rec = rec

\* Lost-answer recovery comes before the lease, then the lease and its token,
\* then the Target head the command read.
AcceptCheck(p) ==
    LET id == h[p].id  rec == h[p].rec IN
    /\ h[p].pc = "existing"
    /\ IF id \in IntegratedAt(Len(target))
       THEN IF RecordOnTarget(rec) THEN Tell(p, "accepted") ELSE Fail(p)
       ELSE IF /\ LiveTip(IntegrationLeaseHistory(Seen(p)), clock, rec.token)
               /\ h[p].seenTarget = id.base
            THEN Goto(p, "build") ELSE Fail(p)
    /\ UNCHANGED <<control, target, branch, staged, worktree, clock, arg, budget>>

------------------------------------------------------------------------------
(* prepareCandidate: build and stage; validateCandidateTree *)

Incoming(id) == BranchLedger(id.op, id.version)

\* The frozen heads must still be the heads, the merge clean and the ledgers
\* explainable; the worktree then holds the merge and the planned files.
Build(p) ==
    LET id == h[p].id
        ledger == LedgerAt(id.base)
        frozen == Len(target) = id.base /\ branch[id.op] = id.version /\ ~Contained(id)
        planned == /\ Merges(id) /\ Explained(ledger, Incoming(id))
                   /\ Incoming(id) \ ledger # {}
    IN
    /\ h[p].pc = "build"
    /\ worktree' = CASE ~frozen -> worktree
                      [] frozen /\ ~planned -> Empty
                      [] OTHER -> [id |-> id, rec |-> h[p].rec]
    /\ IF frozen /\ planned THEN Goto(p, "stage") ELSE Fail(p)
    /\ UNCHANGED <<control, target, branch, staged, clock, arg, budget>>

\* The worktree is committed, its parents are compared with the frozen heads,
\* and the commit replaces what the staging ref named; the tree a repeated
\* command or an accept rebuilt must be the staged one.
Stage(p) ==
    /\ h[p].pc = "stage"
    /\ IF worktree.id = h[p].id
       THEN /\ staged' = (staged \ StagedFor(h[p].id)) \cup {worktree.rec}
            /\ IF h[p].reproduce \in {NoRecord, worktree.rec}
               THEN Goto(p, "validate") \/ Fail(p)
               ELSE Fail(p)
       ELSE Fail(p) /\ UNCHANGED staged
    /\ UNCHANGED <<control, target, branch, worktree, clock, arg, budget>>


\* The validation reads the worktree, after the staging push was awaited.
Validate(p) ==
    LET id == worktree.id IN
    /\ h[p].pc = "validate"
    /\ IF id # NoId /\ Valid(id, PlannedLedger(LedgerAt(id.base), id, Incoming(id)))
       THEN IF Kind[h[p].cmd] = "prepare" THEN Tell(p, "prepared") ELSE Goto(p, "swap")
       ELSE Fail(p)
    /\ UNCHANGED <<control, target, branch, staged, worktree, clock, arg, budget>>

------------------------------------------------------------------------------
(* compareAndSwapTarget, recovery and release *)

TargetUnmoved(base) == Len(target) = base

Swap(p) ==
    LET id == h[p].id
        commit == [kind |-> "integration", rec |-> h[p].rec,
                   ledger |-> PlannedLedger(LedgerAt(id.base), id, Incoming(id))]
    IN
    /\ h[p].pc = "swap"
    /\ \/ /\ TargetUnmoved(id.base)
          /\ target' = Append(target, commit)
          /\ \/ Goto(p, "release") /\ staged' \in {staged, staged \ StagedFor(id)}
             \/ Goto(p, "recover") /\ UNCHANGED staged
       \/ ~TargetUnmoved(id.base) /\ Goto(p, "recover") /\ UNCHANGED <<target, staged>>
    /\ UNCHANGED <<control, branch, worktree, clock, arg, budget>>

\* The swap may have landed although it was reported failed.
Recover(p) ==
    /\ h[p].pc = "recover"
    /\ IF RecordOnTarget(h[p].rec) THEN Goto(p, "release") ELSE Fail(p)
    /\ UNCHANGED <<control, target, branch, staged, worktree, clock, arg, budget>>

\* releaseIntegrationLease: best effort, on the chain the command read.
Release(p) ==
    LET leases == IntegrationLeaseHistory(Seen(p))
        t == TransitionRelease(leases, h[p].cmd, h[p].rec.token, clock)
    IN
    /\ h[p].pc = "release" /\ Tell(p, "accepted")
    /\ IF t.kind = "draft" /\ SwapLands(h[p].view)
       THEN control' \in {control, Append(control, LeaseEntry(t.record))}
       ELSE UNCHANGED control
    /\ UNCHANGED <<target, branch, staged, worktree, clock, arg, budget>>

------------------------------------------------------------------------------
(* Everyone else: commits on the Target, publications, time *)

TargetMoves ==
    /\ budget.foreign > 0 /\ budget' = [budget EXCEPT !.foreign = @ - 1]
    /\ target' = Append(target, Foreign)
    /\ UNCHANGED <<control, branch, staged, worktree, clock, h, arg, told>>

\* Another command of the coordinator extends the Control Ref.
ControlMoves ==
    /\ budget.foreign > 0 /\ budget' = [budget EXCEPT !.foreign = @ - 1]
    /\ control' = Append(control, [kind |-> "other", body |-> <<>>])
    /\ UNCHANGED <<target, branch, staged, worktree, clock, h, arg, told>>

PublishMore(o) ==
    /\ budget.publishes > 0 /\ budget' = [budget EXCEPT !.publishes = @ - 1]
    /\ branch' = [branch EXCEPT ![o] = @ + 1]
    /\ UNCHANGED <<control, target, staged, worktree, clock, h, arg, told>>

Tick ==
    /\ clock < MaxTime /\ budget.ticks > 0
    /\ clock' = clock + 1 /\ budget' = [budget EXCEPT !.ticks = @ - 1]
    /\ UNCHANGED <<control, target, branch, staged, worktree, h, arg, told>>

\* The process is restarted: the handlers are gone, and start-up has put a
\* revocation over an integration lease that is still live (the steps of the
\* start-up are in CollabCoordinator).
Restart ==
    LET leases == IntegrationLeaseHistory(control) IN
    /\ budget.crashes > 0 /\ budget' = [budget EXCEPT !.crashes = @ - 1]
    /\ h' = [p \in Handlers |-> Idle]
    /\ control' = IF leases # <<>> /\ IsLive(Tip(leases), clock)
                  THEN Append(control, LeaseEntry(LeaseRevocationDraft(Tip(leases), Len(control))))
                  ELSE control
    /\ UNCHANGED <<target, branch, staged, worktree, clock, arg, told>>

Handle(p) ==
    \/ \E c \in Commands : IssuePrepare(p, c) \/ IssueAccept(p, c)
    \/ Unavailable(p) \/ ReRead(p)
    \/ Acquire(p) \/ AppendSnapshot(p) \/ AppendLease(p)
    \/ PrepareCandidateRead(p) \/ AcceptCandidateRead(p) \/ AcceptCheck(p)
    \/ Build(p) \/ Stage(p) \/ Validate(p)
    \/ Swap(p) \/ Recover(p) \/ Release(p)

Next ==
    \/ \E p \in Handlers : Handle(p)
    \/ TargetMoves \/ ControlMoves \/ Restart \/ Tick
    \/ \E o \in Ops : PublishMore(o)

Spec == Init /\ [][Next]_vars

------------------------------------------------------------------------------
(* Properties *)

\* Type invariant.
TypeOK ==
    /\ \A i \in DOMAIN target : target[i].kind \in {"integration", "foreign"}
    /\ \A p \in Handlers :
           /\ h[p].pc \in {"idle", "acquire", "reread", "snapshot", "lease", "candidate",
                           "existing", "build", "stage", "validate", "swap", "recover", "release"}
           /\ h[p].view \in 0..Len(control)
    /\ \A r, s \in staged : r.id = s.id => r = s
    /\ clock \in 0..MaxTime

\* Whatever is integrated in whatever order, the ledger on the Target stays one
\* chain 1..N without a repeated id, and no accepted manifest is renumbered:
\* forks are resolved in the candidate only (resequenceCandidateLedger).
TargetLedgerLinear ==
    /\ \A i \in DOMAIN target : target[i].kind = "integration" => Linear(target[i].ledger)
    /\ \A i, j \in DOMAIN target :
           i < j /\ target[i].kind = "integration" /\ target[j].kind = "integration"
           => target[i].ledger \subseteq target[j].ledger

\* Every accepted integration merged cleanly and validated against exactly the
\* Target it was put on, whatever was integrated between its prepare and its
\* accept (validateCandidateTree in accept, and the swap).
AcceptedIsValid ==
    \A i \in DOMAIN target : target[i].kind = "integration" =>
        LET id == target[i].rec.id IN
        id.base = i - 1 /\ Merges(id) /\ Valid(id, target[i].ledger)

\* No branch version is integrated twice, although accepts are repeated after
\* lost answers and staging refs survive the swap.
IntegratedOnce ==
    \A i, j \in DOMAIN target :
        /\ target[i].kind = "integration" /\ target[j].kind = "integration"
        /\ target[i].rec.id.op = target[j].rec.id.op
        /\ target[i].rec.id.version = target[j].rec.id.version
        => i = j

\* Integrations enter the Target in the order of their fencing tokens: a holder
\* whose lease was superseded cannot accept after its successor did.
IntegrationTokensIncrease ==
    \A i, j \in DOMAIN target :
        i < j /\ target[i].kind = "integration" /\ target[j].kind = "integration"
        => target[i].rec.token < target[j].rec.token

\* A client is told "accepted" only of an integration the Target contains.
AcceptedStands ==
    \A t \in told : t[3] = "accepted" => t[2] \in IntegratedAt(Len(target))
==============================================================================
