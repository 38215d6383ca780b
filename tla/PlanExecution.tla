--------------------------- MODULE PlanExecution ---------------------------
(***************************************************************************)
(* What binds a run to what was approved. The plan phase commits a plan and *)
(* the TDD contracts of its tasks, the context phase a bundle for each task *)
(* and its enrichment, and the execute phase computes the specification of *)
(* an authorization from the plan, the bundles, the grants and the adapter, *)
(* asks for its approval, and commits the authorization with its grants    *)
(* before the first run. The process may stop between any two commits, and *)
(* the adapter and the tasks' scope are configuration that may be edited   *)
(* while it is down. A digest is the value it is taken of.                 *)
(***************************************************************************)
EXTENDS Integers, FiniteSets

CONSTANTS Tasks,        \* the tasks of the plan
          Setups,       \* [agent, prompter, strict, enriching, covered]: an agent executes, someone is asked at once,
                        \* strict TDD, an enrichment port, complete impact coverage
          Opaque,       \* the adapters whose work the Harness cannot see
          Adapters,     \* adapter profiles
          Scopes,       \* write scopes
          MaxChanges,   \* bound: edits of the configuration
          MaxCrashes    \* bound: crashes and failed enrichments

VARIABLES setup,      \* what the operation was started with
          config,     \* [adapter, scope] the configuration now
          plan,       \* the committed plan, or None
          contracts,  \* tasks' committed TDD contracts: [task, plan]
          bundles,    \* committed context bundles: [task, plan, approvals]
          enriched,   \* bundles with a committed enrichment
          state,      \* working state of the last checkpoint: [phase, bundles, approvals]
          requests,   \* approval requests: [spec, answer]
          auth,       \* the committed authorization: [spec, approval], or None
          grants,     \* committed grant records: [spec, auth]
          runs,       \* started runs: [task, bundle, grant, auth, scope, adapter]
          proc,       \* the process: [pc, bundles, todo]
          edits, faults

vars == <<setup, config, plan, contracts, bundles, enriched, state, requests, auth, grants, runs, proc, edits, faults>>
ledger == <<plan, contracts, bundles, enriched, auth, grants, runs>>

None == [none |-> TRUE]
Down == [pc |-> "down", bundles |-> {}, todo |-> {}]
At(pc, bs, todo) == [pc |-> pc, bundles |-> bs, todo |-> todo]

Init ==
    /\ setup \in Setups /\ config \in [adapter : Adapters, scope : Scopes]
    /\ plan = None /\ contracts = {} /\ bundles = {} /\ enriched = {}
    /\ state = [phase |-> "plan", bundles |-> {}, approvals |-> {}]
    /\ requests = {} /\ auth = None /\ grants = {} /\ runs = {}
    /\ proc = Down /\ edits = 0 /\ faults = 0

\* A drive starts at the phase of the last checkpoint, with nothing in memory.
Resume ==
    /\ proc = Down /\ state.phase \in {"plan", "context", "execute"}
    /\ proc' = At(state.phase, {}, {})
    /\ UNCHANGED <<setup, config, ledger, state, requests, edits, faults>>

-----------------------------------------------------------------------------
(* The plan phase                                                          *)

\* A committed plan is kept; otherwise one is made for the adapter and the scope of now.
PlanPhase ==
    /\ proc.pc = "plan"
    /\ plan' = IF plan = None THEN config ELSE plan
    /\ proc' = At("contracts", {}, Tasks)
    /\ UNCHANGED <<setup, config, contracts, bundles, enriched, state, requests, auth, grants, runs, edits, faults>>

\* One commit for each task; a contract that is there must bind this plan.
CompileContract ==
    /\ proc.pc = "contracts" /\ setup.strict /\ proc.todo # {}
    /\ \E t \in proc.todo :
           LET known == {c \in contracts : c.task = t} IN
           IF \E c \in known : c.plan # plan
           THEN proc' = Down /\ UNCHANGED contracts
           ELSE /\ contracts' = IF known = {} THEN contracts \cup {[task |-> t, plan |-> plan]} ELSE contracts
                /\ proc' = [proc EXCEPT !.todo = @ \ {t}]
    /\ UNCHANGED <<setup, config, plan, bundles, enriched, state, requests, auth, grants, runs, edits, faults>>

PlanCheckpoint ==
    /\ proc.pc = "contracts" /\ (~setup.strict \/ proc.todo = {})
    /\ state' = [state EXCEPT !.phase = "context"]
    /\ proc' = At("context", {}, {})
    /\ UNCHANGED <<setup, config, ledger, requests, edits, faults>>

-----------------------------------------------------------------------------
(* The context phase                                                       *)

\* The committed bundles that the checkpoint names.
LoadBundleRecords(s, committed) == committed \cap s.bundles

Covers(bs) == \A t \in Tasks : \E b \in bs : b.task = t
Compiled == {[task |-> t, plan |-> plan, approvals |-> state.approvals] : t \in Tasks}

ContextPhase ==
    /\ proc.pc = "context"
    /\ IF Covers(LoadBundleRecords(state, bundles))
       THEN /\ state' = [state EXCEPT !.phase = "execute"]
            /\ proc' = At("execute", LoadBundleRecords(state, bundles), {})
            /\ UNCHANGED bundles
       ELSE /\ bundles' = bundles \cup Compiled
            /\ proc' = At("enrich", Compiled, IF setup.enriching THEN Compiled ELSE {})
            /\ UNCHANGED state
    /\ UNCHANGED <<setup, config, plan, contracts, enriched, requests, auth, grants, runs, edits, faults>>

\* All enrichments are one commit; a failed one blocks the operation in this phase.
Enrich ==
    /\ proc.pc = "enrich" /\ proc.todo # {}
    /\ \/ enriched' = enriched \cup proc.todo /\ proc' = [proc EXCEPT !.todo = {}] /\ UNCHANGED faults
       \/ faults < MaxCrashes /\ faults' = faults + 1 /\ proc' = Down /\ UNCHANGED enriched
    /\ UNCHANGED <<setup, config, plan, contracts, bundles, state, requests, auth, grants, runs, edits>>

ContextCheckpoint ==
    /\ proc.pc = "enrich" /\ proc.todo = {}
    /\ state' = [state EXCEPT !.phase = "execute", !.bundles = proc.bundles]
    /\ proc' = [proc EXCEPT !.pc = "execute"]
    /\ UNCHANGED <<setup, config, ledger, requests, edits, faults>>

-----------------------------------------------------------------------------
(* The execute phase                                                       *)

BundleOf(bs, t) == CHOOSE b \in bs : b.task = t
GrantSpec(b, c, s) == [task |-> b.task, bundle |-> b, plan |-> b.plan, scope |-> c.scope, adapter |-> c.adapter, approvals |-> b.approvals]

SpecOf(bs, c, s) ==
    [plan |-> plan, bundles |-> bs, grants |-> {GrantSpec(b, c, s) : b \in bs}, adapter |-> c.adapter,
     risk |-> IF setup.agent /\ c.adapter \in Opaque THEN "high" ELSE "low"]

\* Mutant: an approval of the plan's authorization stands for every content of it.
AnswersToPlan(spec) == {r.answer : r \in {r \in requests : r.spec.plan = spec.plan}}
AnswersTo(spec) == {r.answer : r \in {r \in requests : r.spec = spec}}
StoredFor(a, spec) == a # None /\ a.spec = spec

HeldBundles == IF proc.bundles = {} THEN LoadBundleRecords(state, bundles) ELSE proc.bundles
BoundTo(bs) == Covers(bs) /\ \A b \in bs : b.plan = plan

\* The decision and the approval's digest in the working state are one commit.
Decided(asked, r) ==
    \E a \in {"approved", "rejected"} :
        /\ requests' = (asked \ {r}) \cup {[r EXCEPT !.answer = a]}
        /\ state' = IF a = "approved" THEN [state EXCEPT !.approvals = @ \cup {Cardinality(@) + 1}] ELSE state

\* A task that writes needs complete impact coverage; without it the operation goes back to the impact phase.
Writes(c) == c.scope # "none"
CoverageMissing ==
    /\ proc.pc = "execute" /\ Covers(HeldBundles) /\ Writes(config) /\ ~setup.covered
    /\ state' = [state EXCEPT !.phase = "impact"] /\ proc' = Down
    /\ UNCHANGED <<setup, config, ledger, requests, edits, faults>>
Ready == proc.pc = "execute" /\ (setup.covered \/ ~Writes(config))

\* Binding drift: a bundle or a stored grant does not fit, or an authorization of the plan is in the
\* ledger and a different one may not take its path. The process ends and nothing is written.
GrantsStored(bs) == \A b \in bs : \E g \in grants : g.spec = GrantSpec(b, config, state) /\ g.auth = auth
PathTaken(spec) ==
    auth # None /\ ~StoredFor(auth, spec) /\ (setup.agent => "approved" \in AnswersTo(spec))
Drifted(bs) ==
    LET spec == SpecOf(bs, config, state) IN ~BoundTo(bs) \/ (StoredFor(auth, spec) /\ ~GrantsStored(bs)) \/ PathTaken(spec)
Refused ==
    /\ Ready /\ Drifted(HeldBundles)
    /\ proc' = Down
    /\ UNCHANGED <<setup, config, ledger, state, requests, edits, faults>>

UseStored ==
    /\ Ready /\ BoundTo(HeldBundles)
    /\ StoredFor(auth, SpecOf(HeldBundles, config, state)) /\ GrantsStored(HeldBundles)
    /\ proc' = At("start", HeldBundles, Tasks)
    /\ UNCHANGED <<setup, config, ledger, state, requests, edits, faults>>

\* An unanswered request stands. Without a prompter, or when it gives no decision, the operation is blocked.
AskApproval ==
    /\ Ready /\ BoundTo(HeldBundles) /\ setup.agent
    /\ LET spec == SpecOf(HeldBundles, config, state)
           asked == requests \cup {[spec |-> spec, answer |-> "pending"]}
       IN /\ ~StoredFor(auth, spec) /\ AnswersTo(spec) \cap {"approved", "rejected"} = {}
          /\ \/ requests' = asked /\ proc' = Down /\ UNCHANGED state
             \/ setup.prompter /\ Decided(asked, [spec |-> spec, answer |-> "pending"]) /\ UNCHANGED proc
    /\ UNCHANGED <<setup, config, ledger, edits, faults>>

Reject ==
    /\ Ready /\ BoundTo(HeldBundles) /\ setup.agent
    /\ "rejected" \in AnswersTo(SpecOf(HeldBundles, config, state))
    /\ ~StoredFor(auth, SpecOf(HeldBundles, config, state))
    /\ state' = [state EXCEPT !.phase = "aborted"] /\ proc' = Down
    /\ UNCHANGED <<setup, config, ledger, requests, edits, faults>>

\* The authorization and its grants are one commit.
Authorize ==
    /\ Ready /\ BoundTo(HeldBundles) /\ auth = None
    /\ LET spec == SpecOf(HeldBundles, config, state)
           record == [spec |-> spec, approval |-> IF setup.agent THEN spec ELSE None]
       IN /\ setup.agent => "approved" \in AnswersTo(spec)
          /\ auth' = record
          /\ grants' = grants \cup {[spec |-> g, auth |-> record] : g \in spec.grants}
    /\ proc' = At("start", HeldBundles, Tasks)
    /\ UNCHANGED <<setup, config, plan, contracts, bundles, enriched, state, requests, runs, edits, faults>>

\* The envelope of a task is built from its grant and its bundle; strict TDD needs the contract too.
StartRun ==
    /\ proc.pc = "start" /\ proc.todo # {}
    /\ \E t \in proc.todo :
           LET b == BundleOf(proc.bundles, t)
               g == CHOOSE g \in grants : g.spec.task = t /\ g.auth = auth
           IN /\ setup.strict => \E c \in contracts : c.task = t
              /\ runs' = IF \E r \in runs : r.task = t THEN runs
                         ELSE runs \cup {[task |-> t, bundle |-> b, grant |-> g, auth |-> auth, scope |-> g.spec.scope, adapter |-> config.adapter]}
              /\ proc' = [proc EXCEPT !.todo = @ \ {t}]
    /\ UNCHANGED <<setup, config, plan, contracts, bundles, enriched, state, requests, auth, grants, edits, faults>>

Executed ==
    /\ proc.pc = "start" /\ proc.todo = {}
    /\ state' = [state EXCEPT !.phase = "verify"] /\ proc' = Down
    /\ UNCHANGED <<setup, config, ledger, requests, edits, faults>>

-----------------------------------------------------------------------------
(* People and faults                                                       *)

Answer ==
    /\ proc = Down
    /\ \E r \in requests : r.answer = "pending" /\ Decided(requests, r)
    /\ UNCHANGED <<setup, config, ledger, proc, edits, faults>>

EditConfig ==
    /\ proc = Down /\ edits < MaxChanges /\ state.phase \in {"plan", "context", "execute"}
    /\ config' \in [adapter : Adapters, scope : Scopes] \ {config}
    /\ edits' = edits + 1
    /\ UNCHANGED <<setup, ledger, state, requests, proc, faults>>

Crash ==
    /\ proc # Down /\ faults < MaxCrashes
    /\ proc' = Down /\ faults' = faults + 1
    /\ UNCHANGED <<setup, config, ledger, state, requests, edits>>

\* The phases that follow, and the one before, are other components'.
Done ==
    /\ proc = Down /\ state.phase \in {"verify", "impact", "aborted"}
    /\ UNCHANGED vars

Next ==
    \/ Resume \/ PlanPhase \/ CompileContract \/ PlanCheckpoint \/ ContextPhase \/ Enrich \/ ContextCheckpoint
    \/ CoverageMissing \/ Refused \/ UseStored \/ AskApproval \/ Reject \/ Authorize \/ StartRun \/ Executed \/ Answer \/ EditConfig \/ Crash \/ Done

Spec == Init /\ [][Next]_vars

-----------------------------------------------------------------------------
TypeOK ==
    /\ state.phase \in {"plan", "context", "execute", "verify", "impact", "aborted"}
    /\ proc.pc \in {"down", "plan", "contracts", "context", "enrich", "execute", "start"}
    /\ state.bundles \subseteq bundles /\ enriched \subseteq bundles

(* authorizePlanExecution and buildEnvelope: a run starts only under an    *)
(* authorization of its own plan, bundle, grant and adapter, approved with *)
(* exactly that content when an agent executes it, wherever the process    *)
(* stopped and whatever was edited before.                                 *)
EnvelopeIsAuthorized ==
    \A r \in runs :
        /\ r.auth.spec.plan = plan /\ r.bundle \in r.auth.spec.bundles /\ r.bundle.task = r.task
        /\ r.grant.spec \in r.auth.spec.grants /\ r.grant.spec.bundle = r.bundle /\ r.grant.auth = r.auth
        /\ r.adapter = r.auth.spec.adapter
        /\ setup.agent => \E q \in requests : q.spec = r.auth.spec /\ q.answer = "approved"

(* phaseContext: a run never gets a bundle whose enrichment was due and    *)
(* is not in the ledger.                                                   *)
EnrichedBeforeRunning == setup.enriching => \A r \in runs : r.bundle \in enriched

(* authorizePlanExecution: approving an execution changes the working      *)
(* state, but not what was approved: nobody is asked again unless the      *)
(* configuration was edited or the context had to be compiled again.       *)
AskedOncePerConfiguration == Cardinality({q.spec : q \in requests}) <= 1 + edits
=============================================================================
