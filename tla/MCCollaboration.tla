--------------------------- MODULE MCCollaboration ---------------------------
(***************************************************************************)
(* Two instances behind one selector: the coordinator's commands on the    *)
(* Control Ref, and the integration commands on the Target.  A behaviour   *)
(* runs one of them; a scenario says what its clients send.                *)
(***************************************************************************)
EXTENDS CollabCoordinator

CONSTANT Serial     \* does the process run one integration command at a time

VARIABLES active,
          tControl, target, branch, staged, worktree, tClock, tH, tArg, tTold, tBudget

MCKind == [a1 |-> "acquire", a2 |-> "acquire", n1 |-> "renew", r1 |-> "release",
           p1 |-> "publish", p2 |-> "publish", y1 |-> "approve", y2 |-> "reject",
           y3 |-> "defer", y4 |-> "approve", c1 |-> "connect", c2 |-> "connect",
           d1 |-> "disconnect", d2 |-> "disconnect"]
MCCommands == DOMAIN MCKind
MCWho == [c \in MCCommands |-> CASE c \in {"y1", "c1"} -> "ann" [] c \in {"y2", "y3", "c2"} -> "bob"
                                 [] c = "y4" -> "founder" [] OTHER -> "carl"]

Budget(connected, once, twice, crashed, ticked) ==
    [sends |-> [c \in MCCommands |-> CASE c \in once -> 1 [] c \in twice -> 2 [] OTHER -> 0],
     connected |-> connected, crashes |-> crashed, ticks |-> ticked]

MCScenarios ==
    {Budget(TRUE, {"a2", "n1"}, {"a1"}, 1, 3),
     Budget(TRUE, {"a1", "a2", "p2"}, {"p1"}, 0, 2),
     Budget(TRUE, {"a1", "n1", "r1", "p1"}, {}, 1, 2),
     Budget(TRUE, {"y2", "y4"}, {"y1"}, 1, 1),
     Budget(TRUE, {"y1", "y2", "y3"}, {}, 0, 1),
     Budget(TRUE, {"c1", "d1", "d2", "a1"}, {}, 1, 2),
     Budget(FALSE, {"c1", "c2", "d1"}, {}, 0, 0)}

TKind == [p1 |-> "prepare", p2 |-> "prepare", p3 |-> "prepare", p4 |-> "prepare",
          a1 |-> "accept", a2 |-> "accept", a3 |-> "accept", a4 |-> "accept"]
TOpOf == [p1 |-> "o1", p2 |-> "o2", p3 |-> "o1", p4 |-> "o3",
          a1 |-> "o1", a2 |-> "o2", a3 |-> "o1", a4 |-> "o3"]
TBudget(once, twice, ticks, foreign, publishes, crashed) ==
    [sends |-> [c \in DOMAIN TKind |-> CASE c \in once -> 1 [] c \in twice -> 2 [] OTHER -> 0],
     ticks |-> ticks, foreign |-> foreign, publishes |-> publishes, crashes |-> crashed]

TScenarios ==
    {TBudget({"p2", "a1", "a2"}, {"p1"}, 2, 0, 0, 0),
     TBudget({"p1", "p3", "a1", "a3"}, {}, 2, 0, 0, 0),
     TBudget({"p1", "a1"}, {}, 2, 1, 1, 0),
     TBudget({"p3"}, {"p1", "a1"}, 1, 1, 0, 0),
     TBudget({"p1", "a1"}, {"p4", "a4"}, 1, 0, 0, 1)}

T == INSTANCE TargetIntegration WITH
    Ops <- {"o1", "o2", "o3"}, BaseManifests <- 1,
    Conflicts <- {<<"o1", "o3">>}, Invalid <- {<<"o3", "o1">>, <<"o2", "o3">>},
    Commands <- DOMAIN TKind, Kind <- TKind, OpOf <- TOpOf,
    Scenarios <- TScenarios,
    control <- tControl, clock <- tClock, h <- tH, arg <- tArg, told <- tTold,
    budget <- tBudget

tVars == <<tControl, target, branch, staged, worktree, tClock, tH, tArg, tTold, tBudget>>
mcVars == <<vars, active, tVars>>

MCInit ==
    /\ Init /\ T!Init
    /\ \/ active = "coordinator" /\ tBudget = CHOOSE b \in TScenarios : TRUE
       \/ active = "target" /\ budget = CHOOSE b \in MCScenarios : TRUE

MCNext ==
    \/ active = "coordinator" /\ Next /\ UNCHANGED <<active, tVars>>
    \/ active = "target" /\ T!Next /\ UNCHANGED <<active, vars>>

MCSpec == MCInit /\ [][MCNext]_mcVars

Symmetric == Permutations(Handlers)


==============================================================================
