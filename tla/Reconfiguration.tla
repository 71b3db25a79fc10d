-------------------------- MODULE Reconfiguration --------------------------
(***************************************************************************)
(* Changing the set of executors while the engine runs: the layouts of the *)
(* resource manager (vllm/v1/resource_manager/resource_manager.py), the    *)
(* planner's choice of the next one, the graph of kill and launch commands *)
(* between two layouts and its execution by concurrent tasks               *)
(* (vllm/v1/engine/reconfig_commands.py).                                  *)
(*                                                                         *)
(* A configuration maps executor ids to sets of bundles (a bundle is one   *)
(* GPU of a node).  The planner's first program, which only decides how    *)
(* many executors of each degree there are, is an arbitrary choice; its    *)
(* second one, which places them, is modelled by its constraints and its   *)
(* objective.  The engine is reduced to executors that become busy and     *)
(* idle again.                                                             *)
(***************************************************************************)
EXTENDS ExecutorsManager, Integers, Sequences, FiniteSetsExt, Functions

CONSTANTS
    NodeBundles,   \* node_to_bundles: for each node its bundles, numbers
    NumGpus,       \* num_gpus_per_model_executor of the executors 0, 1, ...
    Degrees        \* candidate_tp_degree

Nodes == DOMAIN NodeBundles
Bundles == UNION {NodeBundles[n] : n \in Nodes}

\* Node-local, degrees of the planner that divide every node.  Nothing is running
\* before the initial configuration is launched.
ASSUME LayoutAssumption ==
    /\ Executors \subseteq Nat /\ 0 .. Len(NumGpus) - 1 \subseteq Executors
    /\ Initial = {}
    /\ Degrees \subseteq Nat \ {0} /\ NumGpus \in Seq(Degrees)
    /\ NodeBundles \in Seq(SUBSET Nat) /\ Nodes # {}
    /\ \A n \in Nodes : IsFiniteSet(NodeBundles[n]) /\ NodeBundles[n] # {}
    /\ \A n \in Nodes, g \in Degrees : Cardinality(NodeBundles[n]) % g = 0
    /\ \A n, m \in Nodes : n # m => NodeBundles[n] \cap NodeBundles[m] = {}

VARIABLES
    config,      \* ResourceManager.config
    parents,     \* parents[c] of the commands of the current reconfiguration
    started,     \* commands whose task exists and has not run yet
    launching,   \* launch commands whose executor is under construction
    bundle_ids,  \* the bundles an executor was constructed with
    phase        \* position of run_reconfigure_loop

commandVars == <<config, parents, started, launching, bundle_ids, phase>>

vars == <<managerVars, commandVars>>

Dummy == -1

NoCommands == [c \in {} |-> {}]

-----------------------------------------------------------------------------
(* The layouts.                                                            *)

UsedBundles(c) == UNION {c[e] : e \in DOMAIN c}

\* Faulty variant: available[k:].
SmallestRest(k, S) == {b \in S : Cardinality({a \in S : a < b}) >= k}

\* The k smallest elements of S: available[:k].
Smallest(k, S) == {b \in S : Cardinality({a \in S : a < b}) < k}

\* get_initial_config after its first k executors: each takes the first free
\* bundles of the node with the fewest bundles assigned that has enough.
initial_config[k \in 0 .. Len(NumGpus)] ==
    IF k = 0 THEN NoCommands
    ELSE LET c            == initial_config[k - 1]
             available(n) == NodeBundles[n] \ UsedBundles(c)
             assigned(n)  == Cardinality(NodeBundles[n] \cap UsedBundles(c))
             enough       == {n \in Nodes : Cardinality(available(n)) >= NumGpus[k]}
             node         == CHOOSE n \in enough : \A m \in enough :
                                \/ assigned(n) < assigned(m)
                                \/ assigned(n) = assigned(m) /\ n <= m
         IN  [e \in 0 .. k - 1 |->
                 IF e = k - 1 THEN Smallest(NumGpus[k], available(node)) ELSE c[e]]

get_initial_config == initial_config[Len(NumGpus)]

\* It raises, and nothing starts, when no node has enough bundles left.
ASSUME InitialAssumption ==
    \A k \in 1 .. Len(NumGpus) : \E n \in Nodes :
        Cardinality(NodeBundles[n] \ UsedBundles(initial_config[k - 1])) >= NumGpus[k]

\* The bundle assignments that satisfy the constraints of the planner: sets of
\* bundles of one node, of a candidate degree, that use every bundle once.
Layouts ==
    LET pieces == UNION {{S \in SUBSET NodeBundles[n] : Cardinality(S) \in Degrees} :
                            n \in Nodes}
    IN  {P \in SUBSET pieces :
            /\ UNION P = Bundles
            /\ \A S, T \in P : S # T => S \cap T = {}}

Kept(c, P) == {e \in DOMAIN c : c[e] \in P}

SameCounts(P, Q) ==
    \A g \in Degrees : Cardinality({S \in P : Cardinality(S) = g}) =
                       Cardinality({S \in Q : Cardinality(S) = g})

\* get_minimum_movement_config: among the layouts with the same number of
\* executors of each degree, one that keeps the most executors.
MinimumMovement(c) ==
    {P \in Layouts : \A Q \in Layouts :
        SameCounts(P, Q) => Cardinality(Kept(c, Q)) <= Cardinality(Kept(c, P))}

next_id(c) == Max(DOMAIN c) + 1

\* The orders in which the elements of a finite set can be met.
Orders(S) == Bijection(1 .. Cardinality(S), S)

\* The configuration for layout P: kept executors keep their id, the others get
\* new ids in some order.
ConfigFor(c, P) ==
    LET rest == P \ {c[e] : e \in Kept(c, P)}
        new  == CHOOSE s \in Orders(rest) : TRUE
        id   == next_id(c)
    IN  [e \in Kept(c, P) \cup (id .. id + Cardinality(rest) - 1) |->
            IF e \in Kept(c, P) THEN c[e] ELSE new[e - id + 1]]

\* plan_reconfiguration: the current configuration (no workload, or no gain over
\* it; only if it uses every bundle in the second case) or a new one.
Plans(c) == {c} \cup {ConfigFor(c, P) : P \in MinimumMovement(c)}

-----------------------------------------------------------------------------
(* The graph of commands.                                                  *)

Kills(old, new) == DOMAIN old \ DOMAIN new
Launches(old, new) == DOMAIN new \ DOMAIN old

Overlap(old, new, k, l) == old[k] \cap new[l] # {}

\* create_stagewise_parallel_command: parents of each command.
ParallelCommand(old, new) ==
    [c \in Kills(old, new) \cup Launches(old, new) |->
        LET before == IF c \in DOMAIN old THEN {}
                      ELSE {k \in Kills(old, new) : Overlap(old, new, k, c)}
        IN  IF before = {} THEN {Dummy} ELSE before]

\* build_stages: the connected components of the overlap relation between
\* kills and launches.
Stages(old, new) ==
    LET kills   == Kills(old, new)
        nodes   == kills \cup Launches(old, new)
        adj(u, v) == IF u \in kills THEN v \notin kills /\ Overlap(old, new, u, v)
                                    ELSE v \in kills /\ Overlap(old, new, v, u)
        closed  == {S \in SUBSET nodes : \A u \in S, v \in nodes \ S : ~adj(u, v)}
    IN  {{v \in nodes : \A S \in closed : u \in S => v \in S} : u \in nodes}

\* The search starts from the kills, in the order of a set, then from the
\* launches that no kill has reached.
StageOrders(old, new) ==
    LET kills == Kills(old, new)
    IN  {s \in Orders(Stages(old, new)) : \A i, j \in DOMAIN s :
            i < j /\ s[i] \cap kills = {} => s[j] \cap kills = {}}

\* Faulty variant: a stage waits for the kills of the previous one only.
PrevStageKills(old, new, stages, i) ==
    IF i = 1 THEN {Dummy} ELSE stages[i - 1] \cap Kills(old, new)

PrevStage(old, new, stages, i) ==
    IF i = 1 THEN {Dummy} ELSE stages[i - 1] \cap Launches(old, new)

\* Faulty variant: a launch waits for one of the kills that free its bundles.
SequentialCommandOneKill(old, new, stages) ==
    [c \in Kills(old, new) \cup Launches(old, new) |->
        LET i == CHOOSE i \in DOMAIN stages : c \in stages[i]
        IN  IF c \in DOMAIN old THEN PrevStage(old, new, stages, i)
            ELSE {CHOOSE k \in stages[i] \cap Kills(old, new) : Overlap(old, new, k, c)}]

\* create_stagewise_sequential_command: a kill waits for the launches of the
\* previous stage, a launch for the kills of its stage that overlap.
SequentialCommand(old, new, stages) ==
    [c \in Kills(old, new) \cup Launches(old, new) |->
        LET i == CHOOSE i \in DOMAIN stages : c \in stages[i]
        IN  IF c \in DOMAIN old THEN PrevStage(old, new, stages, i)
            ELSE {k \in stages[i] \cap Kills(old, new) : Overlap(old, new, k, c)}]

Children(graph, p) == {c \in DOMAIN graph : p \in graph[c]}

-----------------------------------------------------------------------------
Init ==
    /\ ManagerInit
    /\ config = NoCommands
    /\ parents = NoCommands
    /\ started = {}
    /\ launching = {}
    /\ bundle_ids = [e \in Executors |-> {}]
    /\ phase = "startup"

\* dummy.execute(): the dummy has nothing to do and starts its children.
ExecuteDummy(graph) ==
    /\ parents' = [c \in DOMAIN graph |-> graph[c] \ {Dummy}]
    /\ started' = {c \in Children(graph, Dummy) : graph[c] = {Dummy}}

\* The first call of reconfig, before the engine's loop runs.
InitialReconfig ==
    /\ phase = "startup"
    /\ config' = get_initial_config
    /\ ExecuteDummy(ParallelCommand(config, get_initial_config))
    /\ phase' = "launching"
    /\ UNCHANGED <<managerVars, launching, bundle_ids>>

\* On a single node, a plan whose first stage kills every executor is skipped.
FullKill(old, graph) ==
    /\ Cardinality(Nodes) = 1
    /\ Cardinality(Children(graph, Dummy)) = Cardinality(DOMAIN old)

\* reconfig, then the execution of the dummy command.  The configuration is
\* read by this loop only, so waiting for the planner's process is not a step
\* of its own.
Reconfig ==
    /\ phase = "sleep"
    /\ \E new \in Plans(config) :
        /\ DOMAIN new \subseteq Executors
        /\ \E stages \in StageOrders(config, new) :
            LET cmd == SequentialCommand(config, new, stages)
            IN  IF FullKill(config, cmd)
                THEN ExecuteDummy(NoCommands) /\ UNCHANGED config
                ELSE ExecuteDummy(cmd) /\ config' = new
    /\ phase' = "executing"
    /\ UNCHANGED <<managerVars, launching, bundle_ids>>

\* Faulty variant: a child starts when its first parent has completed.
NotifyChildrenAtOnce(p, rest) ==
    /\ parents' = [c \in DOMAIN parents |-> parents[c] \ {p}]
    /\ started' = rest \cup Children(parents, p)

\* The rest of execute() when _execute has returned: every child loses this
\* parent and the children without parents are started.
NotifyChildren(p, rest) ==
    /\ parents' = [c \in DOMAIN parents |-> parents[c] \ {p}]
    /\ started' = rest \cup {c \in Children(parents, p) : parents[c] = {p}}

\* An assertion fails and the exception ends the gather of the engine's loops.
Die ==
    /\ phase' = "dead"
    /\ UNCHANGED <<managerVars, config, parents, started, launching, bundle_ids>>

used_executor_ids == {e \in Executors : status[e] # "ABSENT" \/ killer[e] # "none"}

\* LaunchCommand.execute up to the construction of the executor.
BeginLaunch(e) ==
    /\ phase # "dead"
    /\ e \in started \cap DOMAIN config
    /\ IF parents[e] # {} \/ e \in used_executor_ids
       THEN Die
       ELSE /\ started' = started \ {e}
            /\ launching' = launching \cup {e}
            /\ bundle_ids' = [bundle_ids EXCEPT ![e] = config[e]]
            /\ UNCHANGED <<managerVars, config, parents, phase>>

\* The executor is constructed: it is registered and the children are notified.
EndLaunch(e) ==
    /\ phase # "dead"
    /\ e \in launching
    /\ LaunchExecutor(e)
    /\ NotifyChildren(e, started)
    /\ launching' = launching \ {e}
    /\ UNCHANGED <<config, bundle_ids, phase>>

\* KillCommand.execute up to the first suspension of kill_executor.
BeginKill(e) ==
    /\ phase # "dead"
    /\ e \in started \ DOMAIN config
    /\ IF parents[e] # {} \/ e \notin used_executor_ids
       THEN Die
       ELSE /\ KillExecutor(e)
            /\ started' = started \ {e}
            /\ UNCHANGED <<config, parents, launching, bundle_ids, phase>>

ContinueKill(e) ==
    /\ phase # "dead"
    /\ KillerWakes(e)
    /\ UNCHANGED commandVars

EndKill(e) ==
    /\ phase # "dead"
    /\ ShutdownDone(e)
    /\ NotifyChildren(e, started)
    /\ UNCHANGED <<config, launching, bundle_ids, phase>>

Executing == {e \in Executors : killer[e] \in {"waiting", "notified", "shutdown"}} \cup launching

\* Faulty variant: the child tasks are not awaited.
ReconfigDoneEarly ==
    /\ phase \in {"launching", "executing"}
    /\ phase' = "sleep"
    /\ UNCHANGED <<managerVars, config, parents, started, launching, bundle_ids>>

\* Each execute() awaits the tasks of its children, so the dummy's returns when
\* no command is under way.
ReconfigDone ==
    /\ phase \in {"launching", "executing"}
    /\ started = {}
    /\ Executing = {}
    /\ phase' = "sleep"
    /\ UNCHANGED <<managerVars, config, parents, started, launching, bundle_ids>>

\* The engine runs a batch on e.  The loop starts after the initial launches.
EngineTakes(e) ==
    /\ phase \in {"sleep", "executing"}
    /\ status[e] = "IDLE"
    /\ status' = [status EXCEPT ![e] = "EXECUTING"]
    /\ UNCHANGED <<waiting_to_be_killed, killer, commandVars>>

\* The engine has processed the output of e.
EngineReturns(e) ==
    /\ phase \in {"sleep", "executing"}
    /\ status[e] = "EXECUTING"
    /\ status' = [status EXCEPT ![e] = "IDLE"]
    /\ killer' = Notified({e})
    /\ UNCHANGED <<waiting_to_be_killed, commandVars>>

Next ==
    \/ InitialReconfig
    \/ Reconfig
    \/ ReconfigDone
    \/ \E e \in Executors :
        \/ BeginLaunch(e) \/ EndLaunch(e)
        \/ BeginKill(e) \/ ContinueKill(e) \/ EndKill(e)
        \/ EngineTakes(e) \/ EngineReturns(e)

Spec == Init /\ [][Next]_vars

-----------------------------------------------------------------------------
TypeOK ==
    /\ ManagerTypeOK
    /\ DOMAIN config \subseteq Executors
    /\ \A e \in DOMAIN config : config[e] \in (SUBSET Bundles) \ {{}}
    /\ \A c \in DOMAIN parents : c \in Executors /\ parents[c] \subseteq Executors
    /\ started \subseteq DOMAIN parents
    /\ launching \subseteq DOMAIN config
    /\ bundle_ids \in [Executors -> SUBSET Bundles]
    /\ phase \in {"startup", "launching", "sleep", "executing", "dead"}

\* An executor holds its bundles from its construction to the end of its
\* shutdown, and no bundle is held by two executors at a time: a launch waits
\* for every kill that frees one of its bundles, and a kill for the executor's
\* last batch.
NoSharedBundles ==
    \A e, f \in Present \cup launching :
        e # f => bundle_ids[e] \cap bundle_ids[f] = {}

\* When execute() of the dummy command has returned, exactly the executors of
\* the configuration are running, on the bundles it gives them: every command of
\* the graph was reached and has completed.
LayoutDeployed ==
    phase = "sleep" =>
        /\ Present = DOMAIN config
        /\ \A e \in Present : bundle_ids[e] = config[e]

\* There is an executor that is not being killed at any time after startup: a
\* stage starts only when the launches of the previous one are registered, and
\* a plan that kills everything at once is skipped.
ServiceContinuity ==
    phase \in {"sleep", "executing"} => Present \ waiting_to_be_killed # {}

\* No assertion of execute, launch_executor or kill_executor fails: ids are
\* never given twice, killed executors exist, and no command starts before its
\* parents.
NoFailedCommand == phase # "dead"

=============================================================================
