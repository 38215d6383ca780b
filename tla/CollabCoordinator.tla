-------------------------- MODULE CollabCoordinator --------------------------
(***************************************************************************)
(* The collaboration coordinator (packages/runtime/src/collaboration/      *)
(* coordinator.ts) over the Git control store                              *)
(* (adapters/vcs-git/src/control-store.ts).                                *)
(*                                                                         *)
(* The remote repository is the only authority.  The Control Ref is a      *)
(* chain of records (principal snapshots, lease records, remote approval   *)
(* decisions) that grows by compare-and-swap; connection records are files *)
(* rev-<n> on the Target; an Operation Ref holds what was published for an *)
(* operation.  One coordinator process serves commands concurrently; every *)
(* await of a handler is a step boundary here.  A push may land although   *)
(* its answer is lost, and a push in flight when the process dies may      *)
(* still land later.                                                       *)
(***************************************************************************)
EXTENDS Lease, FiniteSets, TLC

CONSTANTS Handlers,      \* concurrent command executions of the process
          Commands,      \* command ids
          Scenarios,     \* budgets: is the project connected at first, how often each
                         \* command may be sent, crashes, clock ticks
          Kind,          \* command id -> what it asks for
          Who,           \* command id -> the principal that sends it
          Requester,     \* the principal that filed the approval request
          MayApprove,    \* principals whose permission suffices to decide
          MaxTime        \* largest clock value

VARIABLES control,   \* the Control Ref: a sequence of records
          conns,     \* connection files on the Target: revision -> record
          committed, \* every connection record a push ever put on the Target
          head,      \* the Operation Ref: published commits, oldest first
          staging,   \* the candidate the operation's staging ref names
          clock,
          boot,      \* the process: down, or how far its start-up is
          h,         \* what each handler is doing
          arg,       \* the arguments a command was first sent with
          told,      \* records the clients were told
          toldHead,  \* published heads the clients were told
          inFlight,  \* pushes that outlived the process
          budget     \* what of the behaviour's scenario is left

vars == <<control, conns, committed, head, staging, clock, boot, h, arg,
          told, toldHead, inFlight, budget>>

remote == <<control, conns, committed, head>>
client == <<staging, arg>>
answer == <<told, toldHead>>

------------------------------------------------------------------------------
Snapshot(who, at) == [kind |-> "snapshot", body |-> [who |-> who, at |-> at]]
LeaseEntry(r) == [kind |-> "lease", body |-> r]
Decision(c, what, snap) ==
    [kind |-> "decision", body |-> [id |-> <<c, 0>>, decision |-> what, snap |-> snap]]

\* The lease records of the operation, in chain order.
LeaseRecordsOf(chain) ==
    LET entries == SelectSeq(chain, LAMBDA e : e.kind = "lease")
    IN  [i \in DOMAIN entries |-> entries[i].body]

HasLiveLease(chain, now) ==
    LET leases == LeaseRecordsOf(chain)
    IN  leases # <<>> /\ IsLive(Tip(leases), now)

HasSnapshot(chain) == \E i \in DOMAIN chain : chain[i].kind = "snapshot"

IsTerminal(e) == e.kind = "decision" /\ e.body.decision # "defer"

TerminalRemoteDecision(chain) ==
    chain[CHOOSE i \in DOMAIN chain :
              IsTerminal(chain[i]) /\ \A j \in 1..(i - 1) : ~IsTerminal(chain[j])]

NoConnection == [rev |-> 0, status |-> "none", cmd |-> "none", who |-> "none"]

\* readLatestConnection: the highest revision on the Target.
LatestConnection ==
    IF conns = <<>> THEN NoConnection ELSE conns[Len(conns)]

NoArguments == [token |-> 0, cand |-> <<>>, base |-> 0]

Idle == [pc |-> "idle", cmd |-> "none", attempt |-> 0, view |-> 0,
         conn |-> NoConnection, expected |-> <<>>, draft |-> <<>>]

\* What a handler knows of the Control Ref.  The ref only ever grows (the
\* mirror fetches it without force), so a length identifies the read head.
Seen(p) == SubSeq(control, 1, h[p].view)

InitialConnection == [rev |-> 1, status |-> "active", cmd |-> "setup", who |-> "founder"]

Init ==
    /\ budget \in Scenarios
    /\ control = IF budget.connected THEN <<Snapshot("founder", 0)>> ELSE <<>>
    /\ conns = IF budget.connected THEN <<InitialConnection>> ELSE <<>>
    /\ committed = IF budget.connected THEN {InitialConnection} ELSE {}
    /\ head = <<>> /\ staging = <<>> /\ clock = 0
    /\ boot = [pc |-> "ready", view |-> 0, attempt |-> 0]
    /\ h = [p \in Handlers |-> Idle]
    /\ arg = [c \in Commands |-> NoArguments]
    /\ told = {} /\ toldHead = {} /\ inFlight = {}

------------------------------------------------------------------------------
\* Answers: a handler that returns becomes idle.
Return(p) == h' = [h EXCEPT ![p] = Idle]
Fail(p) == Return(p) /\ UNCHANGED answer
TellRecord(p, e) == Return(p) /\ told' = told \cup {<<h[p].cmd, e>>} /\ UNCHANGED toldHead
TellHead(p, c) == Return(p) /\ toldHead' = toldHead \cup {c} /\ UNCHANGED told
Goto(p, pc) == h' = [h EXCEPT ![p].pc = pc] /\ UNCHANGED answer

\* The tokens a client may name: those some client was told.
KnownTokens == {t[2].body.token : t \in {u \in told : u[2].kind = "lease"}}

\* The arguments of a command when it is sent for the first time: a lease the
\* client knows of, and for a publication a candidate built on the published
\* head and on the Target as it stands (every record committed there moves it).
FreshArguments(c) ==
    CASE Kind[c] \in {"renew", "release"} ->
            {[NoArguments EXCEPT !.token = t] : t \in KnownTokens}
      [] Kind[c] = "publish" ->
            {[token |-> t, cand |-> Append(head, [by |-> c, token |-> t]),
              base |-> Cardinality(committed)] : t \in KnownTokens}
      [] OTHER -> {NoArguments}

\* A command arrives (again) and its handler reads the authoritative state:
\* execute, readProjectState and readControl.  A publisher first stages its
\* candidate.
Issue(p, c) ==
    /\ boot.pc = "ready" /\ h[p].pc = "idle" /\ budget.sends[c] > 0
    /\ \E a \in (IF arg[c] = NoArguments THEN FreshArguments(c) ELSE {arg[c]}) :
           /\ arg' = [arg EXCEPT ![c] = a]
           /\ staging' = IF Kind[c] = "publish" THEN a.cand ELSE staging
    /\ budget' = [budget EXCEPT !.sends[c] = @ - 1]
    /\ h' = [h EXCEPT ![p] = [Idle EXCEPT !.pc = "decide", !.cmd = c,
                                          !.view = Len(control), !.conn = LatestConnection]]
    /\ UNCHANGED <<remote, clock, boot, answer, inFlight>>

\* The second attempt of a lease or approval command re-reads and re-decides.
ReRead(p) ==
    /\ h[p].pc = "reread"
    /\ h' = [h EXCEPT ![p].pc = "decide", ![p].view = Len(control),
                      ![p].conn = LatestConnection]
    /\ UNCHANGED <<remote, client, clock, boot, answer, inFlight, budget>>

\* An awaited call finds the remote or the platform unavailable, and nothing
\* of it landed.
Unavailable(p) ==
    /\ h[p].pc # "idle" /\ Fail(p)
    /\ UNCHANGED <<remote, client, clock, boot, inFlight, budget>>

------------------------------------------------------------------------------
(* connect and disconnect *)

Active(p) == h[p].conn.status = "active"

\* connect, up to its first write: a repeated command or an equal connection
\* is answered from what exists, a different active connection is refused.
DecideConnect(p) ==
    LET c == h[p].cmd  latest == h[p].conn IN
    /\ h[p].pc = "decide" /\ Kind[c] = "connect"
    /\ IF latest.cmd = c \/ latest.status = "active"
       THEN Fail(p)
       ELSE /\ h' = [h EXCEPT ![p].pc = "snapshot", ![p].draft = Snapshot(Who[c], clock)]
            /\ UNCHANGED answer
    /\ UNCHANGED <<remote, client, clock, boot, inFlight, budget>>

\* disconnect, up to its write: refused while a live lease is seen.
DecideDisconnect(p) ==
    LET c == h[p].cmd  latest == h[p].conn IN
    /\ h[p].pc = "decide" /\ Kind[c] = "disconnect"
    /\ IF latest.status # "active" \/ latest.cmd = c \/ HasLiveLease(Seen(p), clock)
       THEN Fail(p)
       ELSE Goto(p, "record")
    /\ UNCHANGED <<remote, client, clock, boot, inFlight, budget>>

ConnectionRecord(p) ==
    LET c == h[p].cmd IN
    [rev |-> h[p].conn.rev + 1, cmd |-> c, who |-> Who[c],
     status |-> IF Kind[c] = "connect" THEN "active" ELSE "disconnected"]

\* appendProjectRecord: the file of the revision is written on top of the
\* Target head the call itself fetches, so the swap only guards against a
\* move during the call, not since the command's read.
CommitRecord(p) ==
    LET r == ConnectionRecord(p) IN
    /\ h[p].pc = "record"
    /\ conns' = IF r.rev \in DOMAIN conns THEN [conns EXCEPT ![r.rev] = r]
                                         ELSE Append(conns, r)
    /\ committed' = committed \cup {r}
    /\ Fail(p)
    /\ UNCHANGED <<control, head, client, clock, boot, inFlight, budget>>

------------------------------------------------------------------------------
(* appendControl: the Control Ref compare-and-swap *)

SwapLands(view) == view = Len(control)

\* A lost swap sends a lease or approval command round once more and is
\* final for a connect and for a second loss.
SwapLost(p) ==
    IF h[p].attempt = 0 /\ Kind[h[p].cmd] # "connect"
    THEN h' = [h EXCEPT ![p].pc = "reread", ![p].attempt = 1] /\ UNCHANGED answer
    ELSE Fail(p)

\* The push of handler p's record: it lands and is acknowledged (the handler
\* goes on at pc), lands without the handler learning it, or loses.
AppendControl(p, entry, pc) ==
    /\ \/ /\ SwapLands(h[p].view)
          /\ control' = Append(control, entry)
          /\ \/ h' = [h EXCEPT ![p].pc = pc, ![p].view = @ + 1] /\ UNCHANGED answer
             \/ Fail(p)
       \/ /\ ~SwapLands(h[p].view)
          /\ SwapLost(p)
          /\ UNCHANGED control
    /\ UNCHANGED <<conns, committed, head, client, clock, boot, inFlight, budget>>

AppendSnapshot(p) ==
    /\ h[p].pc = "snapshot"
    /\ AppendControl(p, h[p].draft,
                     IF Kind[h[p].cmd] = "connect" THEN "record" ELSE "decision")

------------------------------------------------------------------------------
(* leaseCommand *)

Transition(p) ==
    LET c == h[p].cmd  leases == LeaseRecordsOf(Seen(p)) IN
    CASE Kind[c] = "acquire" -> TransitionAcquireLease(leases, c, clock)
      [] Kind[c] = "renew" -> TransitionRenew(leases, c, arg[c].token, clock)
      [] Kind[c] = "release" -> TransitionRelease(leases, c, arg[c].token, clock)

\* One turn of the command's loop: judge the chain it knows at the present
\* time; a draft is to be appended, anything else is the answer.
DecideLease(p) ==
    /\ h[p].pc = "decide" /\ Kind[h[p].cmd] \in {"acquire", "renew", "release"}
    /\ IF ~Active(p) \/ ~HasSnapshot(Seen(p))
       THEN Fail(p)
       ELSE LET t == Transition(p) IN
            CASE t.kind = "draft" ->
                    /\ h' = [h EXCEPT ![p].pc = "lease", ![p].draft = LeaseEntry(t.record)]
                    /\ UNCHANGED answer
              [] t.kind = "existing" -> TellRecord(p, LeaseEntry(t.record))
              [] t.kind = "rejected" -> Fail(p)
    /\ UNCHANGED <<remote, client, clock, boot, inFlight, budget>>

AppendLease(p) == h[p].pc = "lease" /\ AppendControl(p, h[p].draft, "decide")

------------------------------------------------------------------------------
(* submitRemoteApproval *)


\* A repeated command is answered with its record, a settled request with the
\* decision that settled it; otherwise the actor is authenticated, must not be
\* the requester and must hold the permission (validateRemoteApprovalDecision).
DecideApproval(p) ==
    LET c == h[p].cmd
        seen == Seen(p)
        own == {i \in DOMAIN seen : seen[i].kind = "decision" /\ seen[i].body.id = <<c, 0>>}
        snap == Snapshot(Who[c], clock)
    IN
    /\ h[p].pc = "decide" /\ Kind[c] \in {"approve", "reject", "defer"}
    /\ CASE ~Active(p) -> Fail(p)
         [] Active(p) /\ own # {} -> TellRecord(p, seen[CHOOSE i \in own : TRUE])
         [] Active(p) /\ own = {} /\ (\E i \in DOMAIN seen : IsTerminal(seen[i])) ->
                TellRecord(p, TerminalRemoteDecision(seen))
         [] OTHER ->
                IF ~HasSnapshot(seen) \/ Who[c] = Requester \/ Who[c] \notin MayApprove
                THEN Fail(p)
                ELSE /\ h' = [h EXCEPT ![p].draft = snap,
                                       ![p].pc = IF snap \in Range(seen) THEN "decision"
                                                                          ELSE "snapshot"]
                     /\ UNCHANGED answer
    /\ UNCHANGED <<remote, client, clock, boot, inFlight, budget>>

AppendDecision(p) ==
    /\ h[p].pc = "decision"
    /\ AppendControl(p, Decision(h[p].cmd, Kind[h[p].cmd], h[p].draft.body), "decide")

------------------------------------------------------------------------------
(* publishOperationCandidate and compareAndSwapOperation *)

MayPublish(leases, token, now) ==
    leases # <<>> /\ IsLive(Tip(leases), now) /\ Tip(leases).token = token

\* Only the holder of the current, live lease may publish.
DecidePublish(p) ==
    LET c == h[p].cmd IN
    /\ h[p].pc = "decide" /\ Kind[c] = "publish"
    /\ IF Active(p) /\ MayPublish(LeaseRecordsOf(Seen(p)), arg[c].token, clock)
       THEN Goto(p, "heads") ELSE Fail(p)
    /\ UNCHANGED <<remote, client, clock, boot, inFlight, budget>>

\* listOperationHeads: the head the swap will expect; a head that already is
\* the candidate answers a repeated command.
ListOperationHeads(p) ==
    /\ h[p].pc = "heads"
    /\ IF head = arg[h[p].cmd].cand
       THEN TellHead(p, head)
       ELSE /\ h' = [h EXCEPT ![p].pc = "swap", ![p].expected = head]
            /\ UNCHANGED answer
    /\ UNCHANGED <<remote, client, clock, boot, inFlight, budget>>

\* The store's backstop reads the Control Ref again: the tip of the lease chain
\* must hold the token and not be ended (the clock is not consulted).
FencingHolds(token) ==
    LET leases == LeaseRecordsOf(control) IN
    leases # <<>> => Tip(leases).token = token /\ Tip(leases).state \in HeldStates

\* The candidate must be staged, the head unmoved, the candidate a descendant
\* of the head or, for the first publication, of the Target.
CheckSwap(p) ==
    LET a == arg[h[p].cmd] IN
    /\ h[p].pc = "swap"
    /\ IF /\ staging = a.cand
          /\ h[p].expected = head
          /\ IF head # <<>> THEN IsPrefix(head, a.cand) ELSE a.base = Cardinality(committed)
          /\ FencingHolds(a.token)
       THEN Goto(p, "push") ELSE Fail(p)
    /\ UNCHANGED <<remote, client, clock, boot, inFlight, budget>>


HeadUnmoved(expected) == head = expected

\* push --force-with-lease: acknowledged, landed without an answer, or lost.
PushHead(p) ==
    LET cand == arg[h[p].cmd].cand IN
    /\ h[p].pc = "push"
    /\ \/ HeadUnmoved(h[p].expected) /\ head' = cand /\ (TellHead(p, cand) \/ Fail(p))
       \/ ~HeadUnmoved(h[p].expected) /\ Fail(p) /\ UNCHANGED head
    /\ UNCHANGED <<control, conns, committed, client, clock, boot, inFlight, budget>>

------------------------------------------------------------------------------
(* Crash, start-up and time *)

\* The pushes the handlers had in flight; git runs as a child process, and
\* what it already sent may still be applied by the remote.
Pushes ==
    {[view |-> h[p].view, entry |-> h[p].draft] : p \in {q \in Handlers : h[q].pc = "lease"}}

Crash ==
    /\ boot.pc # "down" /\ budget.crashes > 0
    /\ budget' = [budget EXCEPT !.crashes = @ - 1]
    /\ boot' = [pc |-> "down", view |-> 0, attempt |-> 0]
    /\ h' = [p \in Handlers |-> Idle]
    /\ inFlight' \in {inFlight, inFlight \cup Pushes}
    /\ UNCHANGED <<remote, client, clock, answer>>

LateLanding(x) ==
    /\ inFlight' = inFlight \ {x}
    /\ control' = IF SwapLands(x.view) THEN Append(control, x.entry) ELSE control
    /\ UNCHANGED <<conns, committed, head, client, clock, boot, h, answer, budget>>

\* resumeCollaborationCoordinator: read, revoke what is still live by the wall
\* clock, rebuild the projection, serve.
ResumeRead ==
    /\ boot.pc \in {"down", "reread"}
    /\ boot' = [boot EXCEPT !.pc = "judge", !.view = Len(control)]
    /\ UNCHANGED <<remote, client, clock, h, answer, inFlight, budget>>

ResumeJudge ==
    /\ boot.pc = "judge"
    /\ boot' = [boot EXCEPT !.pc = IF HasLiveLease(SubSeq(control, 1, boot.view), clock)
                                   THEN "revoke" ELSE "ready"]
    /\ UNCHANGED <<remote, client, clock, h, answer, inFlight, budget>>

ResumeRevoke ==
    LET leases == LeaseRecordsOf(SubSeq(control, 1, boot.view))
        revoked == LeaseEntry(LeaseRevocationDraft(Tip(leases), boot.view))
    IN
    /\ boot.pc = "revoke"
    /\ \/ /\ SwapLands(boot.view)
          /\ control' = Append(control, revoked)
          /\ boot' \in {[boot EXCEPT !.pc = "ready"], [boot EXCEPT !.pc = "down", !.attempt = 0]}
       \/ /\ ~SwapLands(boot.view)
          /\ boot' = IF boot.attempt = 0 THEN [boot EXCEPT !.pc = "reread", !.attempt = 1]
                                         ELSE [boot EXCEPT !.pc = "down", !.attempt = 0]
          /\ UNCHANGED control
    /\ UNCHANGED <<conns, committed, head, client, clock, h, answer, inFlight, budget>>

\* Any failed read or rebuild blocks the start-up; it is tried again.
ResumeBlocked ==
    /\ boot.pc \in {"judge", "revoke", "reread"}
    /\ boot' = [pc |-> "down", view |-> 0, attempt |-> 0]
    /\ UNCHANGED <<remote, client, clock, h, answer, inFlight, budget>>

Tick ==
    /\ clock < MaxTime /\ budget.ticks > 0
    /\ clock' = clock + 1 /\ budget' = [budget EXCEPT !.ticks = @ - 1]
    /\ UNCHANGED <<remote, client, boot, h, answer, inFlight>>

Handle(p) ==
    \/ \E c \in Commands : Issue(p, c)
    \/ ReRead(p) \/ Unavailable(p)
    \/ DecideConnect(p) \/ DecideDisconnect(p) \/ CommitRecord(p)
    \/ AppendSnapshot(p)
    \/ DecideLease(p) \/ AppendLease(p)
    \/ DecideApproval(p) \/ AppendDecision(p)
    \/ DecidePublish(p) \/ ListOperationHeads(p) \/ CheckSwap(p) \/ PushHead(p)

Next ==
    \/ \E p \in Handlers : Handle(p)
    \/ Crash \/ ResumeRead \/ ResumeJudge \/ ResumeRevoke \/ ResumeBlocked
    \/ \E x \in inFlight : LateLanding(x)
    \/ Tick

Spec == Init /\ [][Next]_vars

------------------------------------------------------------------------------
(* Properties *)

LeaseRecords ==
    [state : LeaseStates, token : Nat, expires : Nat,
     id : (Commands \cup {"resume"}) \X Nat]

\* Type invariant of the remote state and of the handlers' positions.
TypeOK ==
    /\ \A i \in DOMAIN control :
           /\ control[i].kind \in {"snapshot", "lease", "decision"}
           /\ control[i].kind = "lease" => control[i].body \in LeaseRecords
    /\ \A i \in DOMAIN conns : conns[i].rev = i /\ conns[i] \in committed
    /\ \A p \in Handlers :
           /\ h[p].pc \in {"idle", "decide", "reread", "snapshot", "record", "lease",
                           "decision", "heads", "swap", "push"}
           /\ h[p].view \in 0..Len(control) /\ h[p].attempt \in {0, 1}
    /\ boot.pc \in {"ready", "down", "judge", "revoke", "reread"}
    /\ clock \in 0..MaxTime

\* However often a command is sent, answered or lost, it leaves at most one
\* record of its own on the Control Ref: leaseCommand and submitRemoteApproval
\* look for the command id in the chain their swap extends.
OneRecordPerCommand ==
    \A i, j \in DOMAIN control :
        /\ control[i].kind \in {"lease", "decision"} /\ control[i].kind = control[j].kind
        /\ control[i].body.id = control[j].body.id
        => i = j

\* What a client was told stands on the remote: the lease record or decision is
\* on the Control Ref, the published candidate is part of the Operation Ref.
AnswersStand ==
    /\ \A t \in told : t[2] \in Range(control)
    /\ \A c \in toldHead : IsPrefix(c, head)


\* A decision rests on a snapshot of its own actor that precedes it on the
\* chain, and the actor is not the requester.
DecisionsAreWitnessed ==
    \A i \in DOMAIN control : control[i].kind = "decision" =>
        /\ \E j \in 1..(i - 1) : control[j].kind = "snapshot"
                                /\ control[j].body = control[i].body.snap
        /\ control[i].body.snap.who = Who[control[i].body.id[1]]
        /\ control[i].body.snap.who # Requester

\* A lease is declared expired only after its latest expiry has passed, however
\* old the read that the declaring command started from: a renewal that landed
\* in between makes its swap lose.
ExpiryNotEarly ==
    [][\A i \in DOMAIN control' \ DOMAIN control :
          control'[i].kind = "lease" /\ control'[i].body.state = "expired"
          => Tip(LeaseRecordsOf(control)).expires <= clock]_vars

\* Start-up ends with no lease in force that stood on the chain when it was
\* read: "a coordinator restart must never inherit a lease whose holder may be
\* gone" (resumeCollaborationCoordinator).
NoInheritedLease ==
    [][boot.pc # "ready" /\ boot'.pc = "ready" =>
          LET leases == LeaseRecordsOf(SubSeq(control, 1, boot.view)) IN
          leases # <<>> /\ IsLive(Tip(leases), clock)
          => Tip(LeaseRecordsOf(control')).state = "revoked"]_vars

\* The coordinator implements the fenced lease: tokens grow by one from holder
\* to holder, a new holder only follows an ended lease, and published work is
\* in token order although the lease and the published head live on two refs
\* that no swap updates together.
leaseTokens == LeaseRecordsOf(control)
Fenced == INSTANCE FencedLease WITH
    epoch <- IF leaseTokens = <<>> THEN 0 ELSE Tip(leaseTokens).token,
    held <- leaseTokens # <<>> /\ Tip(leaseTokens).state \in HeldStates,
    published <- [i \in DOMAIN head |-> head[i].token]

\* "history is never rewritten": every connection record that was committed is
\* still on the Target.
ConnectionHistoryKept == committed \subseteq Range(conns)
==============================================================================
