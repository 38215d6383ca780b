---------------------------- MODULE PolicyRules ----------------------------
(***************************************************************************)
(* The policy evaluator: up to three policy layers are merged field by     *)
(* field with the operator each field declares, and every action is decided *)
(* against the result and against the capability grant it runs under. A    *)
(* grant is issued inside the policy in force, may be narrowed any number  *)
(* of times, and goes stale when a layer changes.                          *)
(*                                                                         *)
(* A path, a tool and an entry of the approval list are sequences of       *)
(* segments, <<>> where the action names none. The digest of an effective  *)
(* policy is the set of layers it was merged from. Fractions are left out. *)
(***************************************************************************)
EXTENDS Integers, Sequences, FiniteSets, FiniteSetsExt, SequencesExt

CONSTANTS Layers,      \* the policy layers that may be installed
          Requests,    \* the grants that may be asked for
          Narrowings,  \* the narrowings a holder may ask for, each restating the bounds of its tools
          Actions      \* the actions to decide

VARIABLES layers,   \* the layers in force, at most one of a name
          issued,   \* the grant as issued
          held,     \* the grant as last narrowed
          pinned    \* the layers a scheduler's plan is bound to

vars == <<layers, issued, held, pinned>>

LayerOrder == <<"installation", "pack", "project">>
Operators == {"hard_ceiling", "allow_intersection", "deny_union", "approval_union", "strongest_control", "project_default"}
Risks == <<"low", "medium", "high", "critical">>
Escalations == {"approve", "accept_evidence", "change_policy", "register_tool", "grant_path"}
SchedulerKinds == {"dispatch_task", "retry_task", "integrate_wave"}
Position(s, x) == SelectInSeq(s, LAMBDA y : y = x)
RiskRank(risk) == Position(Risks, risk)

\* What a field holds: a list of strings, a number or a word.
Strings(S) == [type |-> "strings", strings |-> S, number |-> 0, word |-> ""]
Number(n) == [type |-> "number", strings |-> {}, number |-> n, word |-> ""]
Word(w) == [type |-> "word", strings |-> {}, number |-> 0, word |-> w]
Undeclared == [type |-> "none", strings |-> {}, number |-> 0, word |-> ""]

Strengths(path) ==
    CASE path = "controls.trajectory" -> <<"external-only", "summarized", "full">>
      [] path = "controls.redaction" -> <<"none", "references", "full">>
      [] path = "controls.retention" -> <<"ephemeral", "run", "release">>
      [] path = "controls.side_effect_interception" -> <<"optional", "required">>
      [] OTHER -> <<>>

-----------------------------------------------------------------------------
(* Merging the layers                                                      *)

Entries(ls, path) == UNION {{[layer |-> l.name, op |-> f.op, value |-> f.value] : f \in {f \in l.fields : f.path = path}} : l \in ls}
Declared(ls) == UNION {{f.path : f \in l.fields} : l \in ls}

\* A value the operator cannot merge: a list where a number is due, a control without an order.
Unmergeable(path, e) ==
    \/ e.op = "hard_ceiling" /\ e.value.type # "number"
    \/ e.op \in {"allow_intersection", "deny_union", "approval_union"} /\ e.value.type # "strings"
    \/ e.op = "strongest_control" /\ (e.value.type # "word" \/ Position(Strengths(path), e.value.word) = 0)

Conflict(ls, path) ==
    LET entries == Entries(ls, path)
        ops == {e.op : e \in entries}
    IN  \/ ops \ Operators # {}
        \/ Cardinality(ops) > 1
        \/ \E e \in entries : Unmergeable(path, e)
Conflicts(ls) == {path \in Declared(ls) : Conflict(ls, path)}

Intersection(entries) ==
    {s \in UNION {e.value.strings : e \in entries} : \A e \in entries : s \in e.value.strings}

MergeField(path, entries) ==
    LET op == (CHOOSE e \in entries : TRUE).op IN
    CASE op = "hard_ceiling" -> Number(Min({e.value.number : e \in entries}))
      [] op = "allow_intersection" -> Strings(Intersection(entries))
      [] op \in {"deny_union", "approval_union"} -> Strings(UNION {e.value.strings : e \in entries})
      [] op = "strongest_control" ->
             (CHOOSE e \in entries :
                 \A d \in entries : Position(Strengths(path), d.value.word) <= Position(Strengths(path), e.value.word)).value
      [] op = "project_default" ->
             (CHOOSE e \in entries : \A d \in entries : Position(LayerOrder, d.layer) <= Position(LayerOrder, e.layer)).value

\* A field in conflict is left out of the merged policy.
Field(ls, path) ==
    IF path \in Declared(ls) /\ ~Conflict(ls, path) THEN MergeField(path, Entries(ls, path)) ELSE Undeclared
Allows(ls, path, x) == LET field == Field(ls, path) IN field.type = "strings" => x \in field.strings
Lists(ls, path) == LET field == Field(ls, path) IN IF field.type = "strings" THEN field.strings ELSE {}

-----------------------------------------------------------------------------
(* Paths                                                                   *)

Legal(path) == path # <<>> /\ ".." \notin ToSet(path)
Within(scopes, path) == Legal(path) /\ \E s \in scopes : Legal(s) /\ IsPrefix(s, path)
InAllowed(ls, field, path) == LET scopes == Field(ls, field) IN scopes.type = "strings" => Within(scopes.strings, path)

-----------------------------------------------------------------------------
(* Grants                                                                  *)

NoGrant == [phase |-> "none"]

Capped(ls, path, n) == LET cap == Field(ls, path) IN IF cap.type = "number" THEN Min({n, cap.number}) ELSE n

Issuable(ls, r) ==
    /\ \A c \in r.capabilities : Allows(ls, "capabilities.allow", c) /\ c \notin Lists(ls, "capabilities.deny")
    /\ \A p \in r.read \cup r.write : Legal(p)
    /\ \A p \in r.read : InAllowed(ls, "paths.read.allow", p)
    /\ \A p \in r.write : InAllowed(ls, "paths.write.allow", p) /\ ~Within(Lists(ls, "paths.deny"), p)
    /\ \A t \in r.tools : Allows(ls, "resources.allow", t.name)
    /\ Allows(ls, "phases.allow", <<r.phase>>)

IssueGrant(ls, r) ==
    [r EXCEPT !.steps = Capped(ls, "budgets.max_steps", @)] @@ [policy |-> ls]

\* Every narrowed tool was granted, and a bound it restates lies inside the bound it had.
ToolsNarrow(old, new) ==
    \A t \in new : \E o \in old :
        /\ o.name = t.name
        /\ t.bounded /\ o.bounded => t.values \subseteq o.values

Narrows(g, n) ==
    /\ n.capabilities \subseteq g.capabilities
    /\ \A p \in n.read \cup n.write : Legal(p)
    /\ n.read \subseteq g.read
    /\ n.write \subseteq g.write
    /\ n.fields \subseteq g.fields
    /\ ToolsNarrow(g.tools, n.tools)
    /\ n.steps <= g.steps

\* Why a grant does not cover an action. A parameter that is not a plain value passes every bound.
OutsideGrant(g, a) ==
    \/ a.phase # g.phase
    \/ a.kind = "read_path" /\ ~Within(g.read, a.resource)
    \/ a.kind = "write_path" /\ ~Within(g.write, a.resource)
    \/ a.kind = "propose_state" /\ a.resource \notin g.fields
    \/ /\ a.kind = "invoke_tool"
       /\ ~\E t \in g.tools : t.name = a.resource /\ (t.bounded => a.value \in t.values \cup {"structured"})

-----------------------------------------------------------------------------
(* Deciding an action                                                      *)

OfPath(a) == a.kind \in {"read_path", "write_path"} /\ a.resource # <<>>
ByAgent(a) == a.actor \in {"agent", "adapter"}

\* Untrusted context never escalates, nor carries an approval of a scheduler's action; nor does an agent escalate.
Presumes(a) ==
    \/ a.origin = "prompt" /\ (a.kind \in Escalations \/ (a.approval # "none" /\ a.kind \in SchedulerKinds))
    \/ ByAgent(a) /\ a.kind \in Escalations
DeniedByName(ls, a) ==
    \/ OfPath(a) /\ (~Legal(a.resource) \/ Within(Lists(ls, "paths.deny"), a.resource))
    \/ a.resource # <<>> /\ a.resource \in Lists(ls, "resources.deny")
    \/ a.kind = "invoke_tool" /\ a.resource # <<>> /\ a.resource \in Lists(ls, "capabilities.deny")
DeniedByGrant(ls, a, g) ==
    g # NoGrant /\ a.kind \notin Escalations /\ (OutsideGrant(g, a) \/ g.policy # ls)
OutsideAllowed(ls, a) ==
    \/ a.kind = "read_path" /\ a.resource # <<>> /\ ~InAllowed(ls, "paths.read.allow", a.resource)
    \/ a.kind = "write_path" /\ a.resource # <<>> /\ ~InAllowed(ls, "paths.write.allow", a.resource)
    \/ a.kind = "invoke_tool" /\ a.resource # <<>> /\ ~Allows(ls, "resources.allow", a.resource)
    \/ ~Allows(ls, "phases.allow", <<a.phase>>)

\* The adapter must show as much of its trajectory, and intercept as much, as the policy asks.
Uncontrolled(ls, a) ==
    LET trajectory == Field(ls, "controls.trajectory")
        rank(w) == Position(Strengths("controls.trajectory"), w)
    IN  ByAgent(a) /\
            \/ trajectory.type = "word" /\ rank(a.shows) < rank(trajectory.word)
            \/ Field(ls, "controls.side_effect_interception") = Word("required") /\ ~a.intercepts

\* An entry of the list names a kind of action, or a risk from which on every action needs an approval.
RequiresApproval(ls, a) ==
    \E entry \in Lists(ls, "approvals.required") :
        \/ entry = <<a.kind>>
        \/ Len(entry) = 2 /\ entry[1] = "risk" /\ RiskRank(entry[2]) > 0 /\ RiskRank(a.risk) >= RiskRank(entry[2])
Approved(a, g) == a.approval # "none" /\ (g = NoGrant \/ a.approval \in g.approvals)

DecideAction(ls, a, g) ==
    CASE Conflicts(ls) # {} -> "block"
      [] Presumes(a) \/ DeniedByName(ls, a) \/ DeniedByGrant(ls, a, g) \/ OutsideAllowed(ls, a) \/ Uncontrolled(ls, a) -> "deny"
      [] RequiresApproval(ls, a) /\ ~Approved(a, g) -> "requires_approval"
      [] OTHER -> "allow"

\* The scheduler's requests are the control plane's own, in phase execute, pinned to the policy of the plan.
SchedulerAction(a) == a.kind \in SchedulerKinds /\ a.actor = "harness" /\ a.origin = "control_plane" /\ a.phase = "execute"
PortDecides(ls, pin, a, g) == IF pin # ls THEN "block" ELSE DecideAction(ls, a, g)

-----------------------------------------------------------------------------
(* The ceilings of the scheduler                                           *)

Fallback == [x \in {"budgets.iteration.max_steps", "budgets.iteration.max_tokens", "budgets.iteration.max_duration_ms"} |->
                 CASE x = "budgets.iteration.max_steps" -> "loop.max_steps"
                   [] x = "budgets.iteration.max_tokens" -> "loop.max_tokens"
                   [] OTHER -> "loop.max_duration_ms"]
CeilingPaths == DOMAIN Fallback
DefaultConcurrency == 2
Unlimited == -1

Positive(value) == value.type = "number" /\ value.number > 0
Ignorable(value) == value.type = "none" \/ Positive(value)
Dishonoured(value) == ~Ignorable(value)

ResolveCeilings(ls) ==
    LET concurrency == Field(ls, "scheduler.max_concurrency")
        ceiling(path) == CASE Positive(Field(ls, path)) -> Field(ls, path).number
                           [] Positive(Field(ls, Fallback[path])) -> Field(ls, Fallback[path]).number
                           [] OTHER -> Unlimited
    IN  [outcome |-> IF \E path \in CeilingPaths \cup {"scheduler.max_concurrency"} : Dishonoured(Field(ls, path))
                     THEN "blocked" ELSE "resolved",
         concurrency |-> IF Positive(concurrency) THEN concurrency.number ELSE DefaultConcurrency,
         iteration |-> [path \in CeilingPaths |-> ceiling(path)]]

-----------------------------------------------------------------------------
Init == layers = {} /\ issued = NoGrant /\ held = NoGrant /\ pinned = {}

\* A layer is installed, in place of the one of its name, or removed.
SetLayer(l) ==
    /\ l \notin layers
    /\ layers' = {k \in layers : k.name # l.name} \cup {l}
    /\ UNCHANGED <<issued, held, pinned>>
RemoveLayer(l) ==
    /\ layers' = layers \ {l}
    /\ UNCHANGED <<issued, held, pinned>>

Issue(r) ==
    /\ Issuable(layers, r)
    /\ issued' = IssueGrant(layers, r)
    /\ held' = issued'
    /\ pinned' = layers
    /\ UNCHANGED layers

Narrow(n) ==
    /\ held # NoGrant
    /\ Narrows(held, n)
    /\ held' = [held EXCEPT !.capabilities = n.capabilities, !.read = n.read, !.write = n.write, !.fields = n.fields,
                            !.tools = n.tools, !.steps = n.steps]
    /\ UNCHANGED <<layers, issued, pinned>>

Next ==
    \/ \E l \in Layers : SetLayer(l)
    \/ \E l \in layers : RemoveLayer(l)
    \/ \E r \in Requests : Issue(r)
    \/ \E n \in Narrowings : Narrow(n)
Spec == Init /\ [][Next]_vars

-----------------------------------------------------------------------------
(* At most one layer of a name is in force, and a grant has a phase.       *)
TypeOK ==
    /\ layers \subseteq Layers /\ pinned \subseteq Layers
    /\ \A k, l \in layers : k.name = l.name => k = l
    /\ (issued = NoGrant) = (held = NoGrant)

Permits(outcome) == CASE outcome = "allow" -> 2 [] outcome = "requires_approval" -> 1 [] OTHER -> 0

(* mergePolicyLayers: a layer that joins the policy can only take          *)
(* permissions away, whatever the others declare, unless it sets a         *)
(* project default.                                                        *)
TighteningOnlyTightens ==
    \A l \in layers : \A a \in Actions :
        (\A f \in l.fields : f.op # "project_default") =>
            Permits(DecideAction(layers, a, NoGrant)) <= Permits(DecideAction(layers \ {l}, a, NoGrant))

(* narrowGrant: after any number of narrowings and of policy changes, what *)
(* the held grant permits the grant it came from would have permitted, and *)
(* the policy it was issued under as well.                                 *)
NarrowedIsNarrower ==
    held # NoGrant =>
        \A a \in Actions :
            /\ Permits(DecideAction(layers, a, held)) <= Permits(DecideAction(layers, a, issued))
            /\ a.kind \notin Escalations /\ Permits(DecideAction(layers, a, held)) > 0 =>
                   Permits(DecideAction(issued.policy, a, NoGrant)) > 0

(* resolveSchedulerCeilings: a ceiling some layer declares, and that       *)
(* merges, bounds what the scheduler resolves, or the resolution blocks;   *)
(* it is never replaced by a default.                                      *)
DeclaredCeilingsHonoured ==
    Conflicts(layers) = {} /\ ResolveCeilings(layers).outcome = "resolved" =>
        /\ \A path \in CeilingPaths : \A e \in Entries(layers, path) :
               e.op = "hard_ceiling" => /\ ResolveCeilings(layers).iteration[path] # Unlimited
                                        /\ ResolveCeilings(layers).iteration[path] <= e.value.number
        /\ \A e \in Entries(layers, "scheduler.max_concurrency") :
               e.op = "hard_ceiling" => ResolveCeilings(layers).concurrency <= e.value.number

(* createPolicyDecisionAdapter: once the policy has drifted from the one   *)
(* the scheduler's plan is pinned to, no approval lets it act; while it    *)
(* has not, it acts under a current grant, or under none.                  *)
DriftStopsTheScheduler ==
    \A a \in Actions, g \in {NoGrant, held} : SchedulerAction(a) /\ PortDecides(layers, pinned, a, g) = "allow" =>
        /\ g # NoGrant => g.policy = layers
        /\ RequiresApproval(pinned, a) => a.approval # "none"
=============================================================================
