----------------------------- MODULE Approvals -----------------------------
(***************************************************************************)
(* Approval requests and decisions of one workflow operation: requests     *)
(* made by the pipeline, decided at a prompt, by a command or remotely,    *)
(* re-issued when what they control has changed, and the operation's       *)
(* blockers.  A command reads and checks the ledger in one step and its    *)
(* transaction lands in a later one; a process may die in between.         *)
(***************************************************************************)
EXTENDS Naturals, FiniteSets

CONSTANTS Procs,        \* processes that may run commands at the same time
          Asked,        \* object |-> who proposed it, who requested it remotely (or "none"), what may be decided
          LocalActors, RemoteActors,
          ReadsBinding, \* whether the service is given a reader of the current bindings
          MaxDrift, MaxRecords, MaxCrashes

VARIABLES requests,  \* committed requests
          decisions, \* committed decisions
          state,     \* "running" (any resumable state) or "blocked"
          blockers,  \* ids of the requests the working state's blockers name
          current,   \* object |-> version of its bindings
          inbox,     \* request id |-> the terminal decision of the control ref
          proc,      \* process |-> what it is about to do
          answer,    \* process |-> the result of its last command, and the remote decision it was for (or 0)
          issued, crashes
vars == <<requests, decisions, state, blockers, current, inbox, proc, answer, issued, crashes>>

Nobody == "none"
Idle == [pc |-> "idle"]
Init ==
    /\ requests = {} /\ decisions = {} /\ state = "running" /\ blockers = {}
    /\ current = [o \in DOMAIN Asked |-> 0] /\ inbox = {}
    /\ proc = [p \in Procs |-> Idle] /\ answer = [p \in Procs |-> [remote |-> 0, result |-> "none"]]
    /\ issued = 0 /\ crashes = 0

-----------------------------------------------------------------------------
RequestById(r) == CHOOSE q \in requests : q.id = r
Terminal(r) == {d \in decisions : d.request = r /\ d.decision # "defer"}
ReadPendingApprovalRequests ==
    {q \in requests : Terminal(q.id) = {} /\ \A n \in requests : n.supersedes # q.id}

ReconcileLiveBlockers(names, pending, resolved) ==
    {b \in names : b \notin resolved /\ (pending = {} \/ b \in pending)} \cup pending

BindingDrift(q) == ReadsBinding /\ current[q.object] # q.binding
BuildApprovalRequest(id, o, supersedes, proposer) ==
    [id |-> id, object |-> o, binding |-> current[o], supersedes |-> supersedes, proposer |-> proposer]
BuildApprovalDecision(id, q, d, actor, remote) ==
    [id |-> id, request |-> q.id, object |-> q.object, decision |-> d, actor |-> actor, remote |-> remote]

(* A transaction on its way, from what the ledger showed when it was put   *)
(* together; then what the command does after it.                          *)
Txn(p, new, made, names, next, then) ==
    /\ proc' = [proc EXCEPT ![p] = [pc |-> "commit", requests |-> new, decisions |-> made, blockers |-> names,
                                    state |-> next, then |-> then]]
    /\ issued' = issued + Cardinality(new \cup made) /\ issued' <= MaxRecords /\ UNCHANGED answer
Answer(p, remote, result) ==
    /\ answer' = [answer EXCEPT ![p] = [remote |-> remote, result |-> result]]
    /\ proc' = [proc EXCEPT ![p] = Idle] /\ UNCHANGED issued

Commit(p) ==
    LET t == proc[p]
    IN /\ t.pc = "commit"
       /\ requests' = requests \cup t.requests /\ decisions' = decisions \cup t.decisions
       /\ blockers' = t.blockers /\ state' = IF t.state = "same" THEN state ELSE t.state
       /\ IF t.then.pc = "idle" THEN Answer(p, t.then.remote, t.then.result)
          ELSE proc' = [proc EXCEPT ![p] = t.then] /\ UNCHANGED <<answer, issued>>
       /\ UNCHANGED <<current, inbox, crashes>>
Done(remote, result) == [pc |-> "idle", remote |-> remote, result |-> result]
Ledger == <<requests, decisions, state, blockers, current, inbox, crashes>>

-----------------------------------------------------------------------------
(* requestApproval and requestApprovalInteractively: persist, then block   *)
(* or ask.  Every object is asked for once.                                *)
RequestApproval(p, o, interactive) ==
    LET q == BuildApprovalRequest(issued + 1, o, 0, Asked[o].proposer)
    IN /\ proc[p] = Idle /\ state = "running"
       /\ \A n \in requests \cup UNION {proc[x].requests : x \in {y \in Procs : proc[y].pc = "commit"}} : n.object # o
       /\ Txn(p, {q}, {}, blockers, "same", [pc |-> IF interactive THEN "prompt" ELSE "block", id |-> q.id])
       /\ UNCHANGED Ledger

BlockAwaitingDecision(p) ==
    LET r == proc[p].id
    IN /\ proc[p].pc = "block"
       /\ IF state = "blocked" THEN Answer(p, 0, "required")
          ELSE Txn(p, {}, {}, blockers \cup {r}, "blocked", Done(0, "required"))
       /\ UNCHANGED Ledger

(* parseApprovalOutcome: only an exact answer that is allowed decides.     *)
Prompt(p, input, actor) ==
    LET r == proc[p].id
    IN /\ proc[p].pc = "prompt"
       /\ proc' = [proc EXCEPT ![p] = IF input \in Asked[RequestById(r).object].allowed
                                      THEN [pc |-> "resolve", id |-> r, decision |-> input, actor |-> actor]
                                      ELSE [pc |-> "block", id |-> r]]
       /\ UNCHANGED <<answer, issued>> /\ UNCHANGED Ledger

(* invalidateAndReissue: the new request supersedes the old in one commit. *)
ReissueUnlinked(q, id) == BuildApprovalRequest(id, q.object, 0, q.proposer)
Reissue(q, id) == BuildApprovalRequest(id, q.object, q.id, q.proposer)
InvalidateAndReissue(p, q, remote) ==
    LET n == Reissue(q, issued + 1)
    IN Txn(p, {n}, {}, ReconcileLiveBlockers(blockers \cup {n.id}, {n.id}, {q.id}), "same",
           Done(remote, "approval_binding_drift"))

(* The checks of resolveDecision, in their order, and what they lead to.   *)
ResolveDecision(p, q, d, actor, remote) ==
    LET made == BuildApprovalDecision(issued + 1, q, d, actor, remote)
        self == actor = q.proposer \/ (remote # 0 /\ actor = Asked[q.object].requester)
    IN CASE q \notin ReadPendingApprovalRequests -> Answer(p, remote, "approval_not_pending")
         [] d \notin Asked[q.object].allowed -> Answer(p, remote, "approval_decision_not_allowed")
         [] self -> Answer(p, remote, "approval_self_approval")
         [] state = "blocked" -> Answer(p, remote, "InvalidStateTransition")
         [] BindingDrift(q) -> InvalidateAndReissue(p, q, remote)
         [] OTHER -> Txn(p, {}, {made},
                         IF d = "defer" THEN ReconcileLiveBlockers(blockers, {q.id}, {})
                         ELSE ReconcileLiveBlockers(blockers, {}, {q.id}),
                         "same", IF d = "defer" THEN [pc |-> "block", id |-> q.id] ELSE Done(remote, "decided"))
Resolve(p) ==
    /\ proc[p].pc = "resolve"
    /\ ResolveDecision(p, RequestById(proc[p].id), proc[p].decision, proc[p].actor, 0)
    /\ UNCHANGED Ledger

-----------------------------------------------------------------------------
(* resolveApproval: a blocked operation is resumed before it is decided    *)
(* on; a reject is committed as it stands, without a resume, without a     *)
(* look at the bindings, and leaves the blockers.                          *)
ResolveApproval(p, q, d, actor) ==
    LET then == [pc |-> "resolve", id |-> q.id, decision |-> d, actor |-> actor]
    IN /\ proc[p] = Idle /\ q \in requests /\ d \in {"approve", "defer"}
       /\ IF state = "blocked" THEN Txn(p, {}, {}, blockers, "running", then)
          ELSE proc' = [proc EXCEPT ![p] = then] /\ UNCHANGED <<answer, issued>>
       /\ UNCHANGED Ledger
RejectApproval(p, q, actor) ==
    /\ proc[p] = Idle /\ q \in requests
    /\ CASE "reject" \notin Asked[q.object].allowed -> Answer(p, 0, "invalid_phase")
         [] actor = q.proposer -> Answer(p, 0, "invalid_phase")
         [] q \notin ReadPendingApprovalRequests -> Answer(p, 0, "operation_not_found")
         [] OTHER -> Txn(p, {}, {BuildApprovalDecision(issued + 1, q, "reject", actor, 0)}, blockers, "same",
                         Done(0, "decided"))
    /\ UNCHANGED Ledger

-----------------------------------------------------------------------------
(* materializeRemoteApprovalDecision, for the terminal decision of the     *)
(* control ref; a retry finds what it made before by the digest.           *)
ValidateRemoteApprovalDecision(q, m) ==
    CASE Asked[q.object].requester = Nobody -> "approval_binding_mismatch"
      [] m.actor = Asked[q.object].requester -> "approval_self_approval"
      [] ~m.fresh -> "permission_snapshot_stale"
      [] m.binding # q.binding -> "approval_binding_mismatch"
      [] OTHER -> "valid"
Existing(m) == \E d \in decisions : d.remote = m.id
MaterializeRemoteApprovalDecision(p, m) ==
    LET q == RequestById(m.request)
        refused == ValidateRemoteApprovalDecision(q, m)
    IN /\ proc[p] = Idle /\ m \in inbox
       /\ CASE refused # "valid" -> Answer(p, m.id, refused)
            [] refused = "valid" /\ Existing(m) -> Answer(p, m.id, "replayed")
            [] OTHER -> ResolveDecision(p, q, m.decision, m.actor, m.id)
       /\ UNCHANGED Ledger

(* The coordinator's side (CollabCoordinator): one terminal decision per   *)
(* request, bound to what the request binds.                               *)
DecideRemotely(q, d, actor, fresh) ==
    /\ q \in ReadPendingApprovalRequests /\ \A m \in inbox : m.request # q.id
    /\ inbox' = inbox \cup {[id |-> q.id, request |-> q.id, decision |-> d, actor |-> actor, fresh |-> fresh,
                             binding |-> q.binding]}
    /\ UNCHANGED <<requests, decisions, state, blockers, current, proc, answer, issued, crashes>>
Resume == state = "blocked" /\ state' = "running"
          /\ UNCHANGED <<requests, decisions, blockers, current, inbox, proc, answer, issued, crashes>>
Drift(o) == current[o] < MaxDrift /\ current' = [current EXCEPT ![o] = @ + 1]
            /\ UNCHANGED <<requests, decisions, state, blockers, inbox, proc, answer, issued, crashes>>
Crash(p) ==
    /\ proc[p] # Idle /\ crashes < MaxCrashes /\ crashes' = crashes + 1 /\ proc' = [proc EXCEPT ![p] = Idle]
    /\ UNCHANGED <<requests, decisions, state, blockers, current, inbox, answer, issued>>

Next ==
    \/ \E p \in Procs :
         \/ Commit(p) \/ BlockAwaitingDecision(p) \/ Resolve(p) \/ Crash(p)
         \/ \E o \in DOMAIN Asked, i \in BOOLEAN : RequestApproval(p, o, i)
         \/ \E i \in {"approve", "defer", "garbage"}, a \in LocalActors : Prompt(p, i, a)
         \/ \E q \in requests, a \in LocalActors :
              RejectApproval(p, q, a) \/ \E d \in {"approve", "defer"} : ResolveApproval(p, q, d, a)
         \/ \E m \in inbox : MaterializeRemoteApprovalDecision(p, m)
    \/ \E q \in requests, d \in {"approve", "reject"}, a \in RemoteActors, f \in BOOLEAN : DecideRemotely(q, d, a, f)
    \/ Resume \/ \E o \in DOMAIN Asked : Drift(o)
    \/ UNCHANGED vars
Spec == Init /\ [][Next]_vars

-----------------------------------------------------------------------------
(* Records come from issued ids; blockers name requests.                   *)
TypeOK ==
    /\ \A x \in requests \cup decisions : x.id \in 1..issued
    /\ state \in {"running", "blocked"} /\ blockers \subseteq 1..issued
    /\ \A m \in inbox : \E q \in requests : q.id = m.request

Alone == Cardinality(Procs) = 1
OfObject(set, o) == {x \in set : x.object = o}

(* With one command at a time, whatever drifts and crashes, an object      *)
(* asked for has either one pending request or one terminal decision.      *)
OneHeadPerObject ==
    Alone => \A o \in DOMAIN Asked :
        OfObject(requests, o) # {} =>
            Cardinality(OfObject(ReadPendingApprovalRequests, o))
            + Cardinality({d \in OfObject(decisions, o) : d.decision # "defer"}) = 1

(* Nobody decides on what they proposed, nor remotely on what they         *)
(* requested, however often the request was re-issued.                     *)
NotSelfApproved ==
    \A d \in decisions : d.actor # Asked[d.object].proposer /\ (d.remote # 0 => d.actor # Asked[d.object].requester)

(* With one command at a time, a remote decision that was materialised is  *)
(* never answered as one that came too late.                               *)
RetryReplays ==
    Alone => \A p \in Procs : answer[p].result = "approval_not_pending" => \A d \in decisions : d.remote = 0 \/ d.remote # answer[p].remote

(* While the operation is blocked and no command runs, its blockers name   *)
(* the pending request (of the only object asked for).                     *)
BlockedNamesPending ==
    /\ Alone /\ Cardinality(DOMAIN Asked) = 1 /\ state = "blocked" /\ \A p \in Procs : proc[p] = Idle
    => \A q \in ReadPendingApprovalRequests : q.id \in blockers

(* A valid terminal decision of the control ref is materialised by the     *)
(* next sync.                                                              *)
RemoteDecisionLands == \A p \in Procs : answer[p].result # "InvalidStateTransition"
=============================================================================
