----------------------- MODULE ReconfigurationProofs ------------------------
(* Proofs about Reconfiguration for every cluster, every choice of degrees  *)
(* and any number of reconfigurations.                                      *)
EXTENDS Reconfiguration, FiniteSetTheorems, WellFoundedInduction, TLAPS

\* The configurations of the resource manager: executors on bundles of one node,
\* no bundle twice.
IsConfig(c) ==
    /\ c = [e \in DOMAIN c |-> c[e]] /\ DOMAIN c \subseteq Executors
    /\ \A e \in DOMAIN c : c[e] # {} /\ \E n \in Nodes : c[e] \subseteq NodeBundles[n]
    /\ \A e, f \in DOMAIN c : e # f => c[e] \cap c[f] = {}

\* The command for executor e, a launch or a kill, has begun or has completed.
Begun(e) == IF e \in DOMAIN config THEN e \in launching \cup Present ELSE killer[e] # "none"
Completed(e) == IF e \in DOMAIN config THEN e \in Present ELSE killer[e] = "done"

\* Executors: the killer and the registry agree, nobody kills an executor of the
\* configuration, executors run on the bundles it gives them, and an id in use or
\* used up is not above the ids of the configuration, where new ones start.
ExecutorTracked(e) ==
    /\ status[e] \in {"ABSENT", "IDLE", "EXECUTING", "KILLING"}
    /\ status[e] = "KILLING" <=> killer[e] = "shutdown"
    /\ killer[e] = "done" => status[e] = "ABSENT"
    /\ killer[e] \in {"waiting", "notified"} => status[e] # "ABSENT"
    /\ e \in waiting_to_be_killed <=> killer[e] \in {"waiting", "notified", "shutdown"}
    /\ e \in DOMAIN config => killer[e] = "none"
    /\ e \in launching => e \in DOMAIN config /\ e \notin Present
    /\ e \in (Present \cup launching) \cap DOMAIN config => bundle_ids[e] = config[e]
    /\ e \in Present \/ killer[e] # "none" => \E f \in DOMAIN config : e <= f

ExecutorsTracked == \A e \in Executors : ExecutorTracked(e)

\* Commands: there is one for everything that differs from the configuration.  A
\* command waits for commands of the other kind that have not completed, or its task
\* exists, or it has begun; and a launch that has not begun waits for every executor
\* that holds one of its bundles.
CommandTracked(c) ==
    /\ c \in Executors
    /\ c \in DOMAIN config \/ c \in Present \/ killer[c] = "done"
    /\ parents[c] \subseteq DOMAIN parents
    /\ \A p \in parents[c] : ~Completed(p) /\ (p \in DOMAIN config <=> c \notin DOMAIN config)
    /\ parents[c] = {} <=> c \in started \/ Begun(c)
    /\ c \in started => ~Begun(c)
    /\ c \in DOMAIN config /\ ~Begun(c) =>
        \A k \in Present \ DOMAIN config : bundle_ids[k] \cap config[c] # {} => k \in parents[c]

CommandsTracked ==
    /\ (DOMAIN config \ Present) \cup (Present \ DOMAIN config) \subseteq DOMAIN parents
    /\ started \subseteq DOMAIN parents
    /\ \A c \in DOMAIN parents : CommandTracked(c)

\* No command waits for itself.
Acyclic(graph) ==
    \E rank \in [DOMAIN graph -> Nat] :
        \A c \in DOMAIN graph : \A p \in graph[c] \cap DOMAIN graph : rank[p] < rank[c]

\* An executor of the configuration runs, or some kill waits for one.
Continued ==
    \/ Present \cap DOMAIN config # {}
    \/ \E k \in DOMAIN parents \ DOMAIN config : parents[k] # {}

PhaseTracked ==
    /\ phase \in {"startup", "launching", "sleep", "executing"}
    /\ phase = "startup" => DOMAIN config = {}
    /\ phase # "startup" => UsedBundles(config) = Bundles
    /\ phase \in {"startup", "sleep"} =>
        Present = DOMAIN config /\ launching = {} /\ started = {}
    /\ phase = "executing" => Continued

-----------------------------------------------------------------------------
(* Orders of the elements of a set, and largest elements.                  *)

LEMMA OrderFact ==
  ASSUME NEW S, IsFiniteSet(S), NEW f \in Orders(S)
  PROVE  /\ Cardinality(S) \in Nat
         /\ f \in [1 .. Cardinality(S) -> S]
         /\ \A i, j \in 1 .. Cardinality(S) : f[i] = f[j] => i = j
         /\ \A x \in S : \E i \in 1 .. Cardinality(S) : f[i] = x
  <1>1. f \in Injection(1 .. Cardinality(S), S) /\ f \in Surjection(1 .. Cardinality(S), S)
    BY Zenon DEF Orders, Bijection
  <1>2. f \in [1 .. Cardinality(S) -> S] /\ \A x \in S : \E i \in 1 .. Cardinality(S) : f[i] = x
    BY <1>1, Zenon DEF Surjection
  <1>3. \A i, j \in 1 .. Cardinality(S) : f[i] = f[j] => i = j
    BY <1>1, <1>2 DEF Injection, IsInjective
  <1> QED
    BY <1>2, <1>3, FS_CardinalityType, Zenon

LEMMA OrderExists ==
  ASSUME NEW S, IsFiniteSet(S)
  PROVE  (CHOOSE s \in Orders(S) : TRUE) \in Orders(S)
  <1>1. Orders(S) # {}
    BY FS_CardinalityType, Zenon DEF ExistsBijection, Orders
  <1> QED
    BY <1>1, Zenon

\* Every nonempty finite set of naturals has a largest element.
LEMMA MaxFact ==
  ASSUME NEW S \in SUBSET Nat, IsFiniteSet(S), S # {}
  PROVE  Max(S) \in S /\ \A x \in S : x <= Max(S)
  <1> DEFINE Above(x) == {y \in S : y > x}
             T == {Above(x) : x \in S}
  <1>1. T \subseteq FiniteSubsetsOf(S) /\ T # {}
    <2>1. FiniteSubsetsOf(S) = SUBSET S
      BY FS_FiniteSubsetsOfFinite, Zenon
    <2>2. \A x \in S : Above(x) \in SUBSET S
      OBVIOUS
    <2>3. T \subseteq SUBSET S /\ T # {}
      BY <2>2, Zenon
    <2> QED
      BY <2>1, <2>3, Zenon
  <1>2. IsWellFoundedOn(StrictSubsetOrdering(S), FiniteSubsetsOf(S))
    BY FS_StrictSubsetOrderingWellFounded, Zenon
  <1>3. PICK A \in T : \A B \in T : <<B, A>> \notin StrictSubsetOrdering(S)
    <2> HIDE DEF T
    <2> QED
      BY <1>1, <1>2, WFMin, Zenon
  <1>4. PICK x \in S : A = Above(x)
    BY Zenon
  <1>5. ASSUME NEW y \in S, y > x
        PROVE  FALSE
    <2>1. Above(y) \subseteq Above(x) /\ y \in Above(x) /\ y \notin Above(y)
      <3>1. S \subseteq Int /\ x \in Int /\ y \in Int
        OBVIOUS
      <3>2. ~(y > y) /\ \A z \in S : z > y => z > x
        BY <1>5, <3>1
      <3> QED
        BY <1>5, <3>2, Zenon
    <2>2. Above(y) \in T
      BY Zenon
    <2>3. <<Above(y), Above(x)>> \in StrictSubsetOrdering(S)
      BY <2>1 DEF StrictSubsetOrdering
    <2> QED
      BY <1>3, <1>4, <2>2, <2>3, Zenon
  <1>6. \A y \in S : x >= y
    BY <1>5
  <1>7. Max(S) \in S /\ \A y \in S : Max(S) >= y
    BY <1>6, Zenon DEF Max
  <1> QED
    BY <1>7

-----------------------------------------------------------------------------
(* The layouts and the configurations the planner makes of them.           *)

LEMMA BundlesFinite == IsFiniteSet(Bundles)
  <1> DEFINE S == {NodeBundles[n] : n \in Nodes}
             f == [n \in Nodes |-> NodeBundles[n]]
  <1>1. PICK m \in Nat : Nodes = 1 .. m
    BY LayoutAssumption DEF Nodes
  <1>2. IsFiniteSet(Nodes)
    BY <1>1, FS_Interval
  <1>3. f \in Surjection(Nodes, S)
    BY DEF Surjection
  <1>4. IsFiniteSet(S)
    BY <1>2, <1>3, FS_Surjection, Zenon
  <1>5. \A T \in S : IsFiniteSet(T)
    BY LayoutAssumption, Zenon
  <1> QED
    BY <1>4, <1>5, FS_UNION, Zenon DEF Bundles

LEMMA LayoutFacts ==
  ASSUME NEW P \in Layouts
  PROVE  /\ IsFiniteSet(P) /\ UNION P = Bundles
         /\ \A S \in P : S # {} /\ \E n \in Nodes : S \subseteq NodeBundles[n]
         /\ \A S, T \in P : S # T => S \cap T = {}
  <1> DEFINE pieces == UNION {{S \in SUBSET NodeBundles[n] : Cardinality(S) \in Degrees} :
                                n \in Nodes}
  <1>1. P \subseteq pieces /\ UNION P = Bundles /\ \A S, T \in P : S # T => S \cap T = {}
    BY Zenon DEF Layouts
  <1>2. \A S \in pieces : \E n \in Nodes : S \subseteq NodeBundles[n] /\ Cardinality(S) \in Degrees
    OBVIOUS
  <1>3. \A S \in P : \E n \in Nodes : S \subseteq NodeBundles[n] /\ Cardinality(S) \in Degrees
    BY <1>1, <1>2, Zenon
  <1>4. \A S \in P : S # {}
    <2>1. Cardinality({}) = 0 /\ 0 \notin Degrees
      BY FS_EmptySet, LayoutAssumption
    <2> QED
      BY <1>3, <2>1, Zenon
  <1>5. P \in SUBSET (SUBSET Bundles)
    BY <1>1, Zenon
  <1>6. IsFiniteSet(P)
    BY <1>5, BundlesFinite, FS_SUBSET, FS_Subset, Zenon
  <1> QED
    BY <1>1, <1>3, <1>4, <1>6, Zenon

\* What the rest of the argument needs to know of a new configuration.
IsPlan(old, new) ==
    /\ IsConfig(new) /\ UsedBundles(new) = Bundles
    /\ \A e \in DOMAIN old \cap DOMAIN new : new[e] = old[e]
    /\ \A e \in DOMAIN new \ DOMAIN old : \A f \in DOMAIN old : f < e

LEMMA ConfigForIsPlan ==
  ASSUME NEW c, IsConfig(c), DOMAIN c # {}, NEW P \in Layouts,
         DOMAIN ConfigFor(c, P) \subseteq Executors
  PROVE  IsPlan(c, ConfigFor(c, P))
  <1> DEFINE K == Kept(c, P)
             rest == P \ {c[e] : e \in K}
             s == CHOOSE o \in Orders(rest) : TRUE
             id == next_id(c)
             N == id .. id + Cardinality(rest) - 1
             At(e) == e - id + 1
             IdOf(i) == i + id - 1
             new == ConfigFor(c, P)
  <1>0. /\ \A S \in P : S # {} /\ \E n \in Nodes : S \subseteq NodeBundles[n]
        /\ \A S, T \in P : S # T => S \cap T = {}
        /\ IsFiniteSet(P) /\ UNION P = Bundles
    BY LayoutFacts, Zenon
  <1>1. new = [e \in K \cup N |-> IF e \in K THEN c[e] ELSE s[At(e)]]
    BY Zenon DEF ConfigFor
  <1>2. /\ DOMAIN c \in SUBSET Nat /\ IsFiniteSet(DOMAIN c)
    <2>1. DOMAIN c \in SUBSET Executors /\ Executors \in SUBSET Nat
      BY LayoutAssumption, Zenon DEF IsConfig
    <2> QED
      BY <2>1, ExecutorsAssumption, FS_Subset, Zenon
  <1>3. id \in Nat /\ \A e \in DOMAIN c : e \in Nat /\ e < id
    <2>1. Max(DOMAIN c) \in DOMAIN c /\ \A x \in DOMAIN c : x <= Max(DOMAIN c)
      BY <1>2, MaxFact
    <2>2. PICK m \in Nat : m = Max(DOMAIN c)
      BY <1>2, <2>1, Zenon
    <2>3. id = m + 1
      BY <2>2, Zenon DEF next_id
    <2> QED
      BY <1>2, <2>1, <2>2, <2>3
  <1>4. IsFiniteSet(rest)
    BY <1>0, FS_Difference, Zenon
  <1>5. PICK m \in Nat :
          /\ s \in [1 .. m -> rest] /\ Cardinality(rest) = m
          /\ \A i, j \in 1 .. m : s[i] = s[j] => i = j
          /\ \A x \in rest : \E i \in 1 .. m : s[i] = x
    <2>1. s \in Orders(rest)
      BY <1>4, OrderExists, Zenon
    <2> HIDE DEF s, rest
    <2>2. /\ Cardinality(rest) \in Nat
          /\ s \in [1 .. Cardinality(rest) -> rest]
          /\ \A i, j \in 1 .. Cardinality(rest) : s[i] = s[j] => i = j
          /\ \A x \in rest : \E i \in 1 .. Cardinality(rest) : s[i] = x
      BY <1>4, <2>1, OrderFact
    <2> QED
      BY <2>2, Zenon
  <1> HIDE DEF s, rest, id, new
  <1>6. N = id .. id + m - 1
    BY <1>5, Zenon
  <1> HIDE DEF N
  <1>7. /\ \A e \in N : At(e) \in 1 .. m /\ \A f \in DOMAIN c : f < e
        /\ \A i \in 1 .. m : IdOf(i) \in N /\ At(IdOf(i)) = i
        /\ \A e, f \in N : At(e) = At(f) => e = f
    BY <1>3, <1>6
  <1>8. K \subseteq DOMAIN c /\ K \cap N = {} /\ \A e \in K : c[e] \in P
    <2>1. \A e \in N : e \notin DOMAIN c
      BY <1>3, <1>7
    <2> QED
      BY <2>1, Zenon DEF Kept
  <1> HIDE DEF N, At, IdOf
  <1>9. /\ DOMAIN new = K \cup N
        /\ \A e \in K : new[e] = c[e]
        /\ \A e \in N : new[e] = s[At(e)]
    BY <1>1, <1>8, Zenon
  <1>10. \A e \in N : new[e] \in P /\ \A f \in K : new[e] # c[f]
    <2>1. \A x \in rest : x \in P /\ \A f \in K : x # c[f]
      BY Zenon DEF rest
    <2>2. \A e \in N : s[At(e)] \in rest
      BY <1>5, <1>7, Zenon
    <2> QED
      BY <1>9, <2>1, <2>2, Zenon
  <1>11. \A e \in DOMAIN new : new[e] \in P
    BY <1>8, <1>9, <1>10, Zenon
  <1>12. \A e, f \in DOMAIN new : e # f => new[e] # new[f]
    <2>1. \A e, f \in K : e # f => c[e] # c[f]
      BY <1>8, Zenon DEF IsConfig
    <2>2. ASSUME NEW e \in N, NEW f \in N, e # f
          PROVE  new[e] # new[f]
      <3>1. new[e] = s[At(e)] /\ new[f] = s[At(f)] /\ At(e) # At(f)
        BY <1>7, <1>9, <2>2, Zenon
      <3>2. At(e) \in 1 .. m /\ At(f) \in 1 .. m
        BY <1>7, Zenon
      <3> QED
        BY <1>5, <3>1, <3>2, Zenon
    <2> QED
      BY <1>9, <1>10, <2>1, <2>2, Zenon
  <1>13. IsConfig(new)
    <2>1. new = [e \in DOMAIN new |-> new[e]]
      BY <1>1, Zenon
    <2>2. \A e \in DOMAIN new : new[e] # {} /\ \E n \in Nodes : new[e] \subseteq NodeBundles[n]
      BY <1>0, <1>11
    <2>3. \A e, f \in DOMAIN new : e # f => new[e] \cap new[f] = {}
      BY <1>0, <1>11, <1>12
    <2>4. DOMAIN new \subseteq Executors
      BY Zenon DEF new
    <2> QED
      BY <2>1, <2>2, <2>3, <2>4, Zenon DEF IsConfig
  <1>14. \A S \in P : \E e \in DOMAIN new : new[e] = S
    <2> SUFFICES ASSUME NEW S \in P
                 PROVE  \E e \in DOMAIN new : new[e] = S
      BY Zenon
    <2>1. CASE S \in rest
      <3>1. PICK i \in 1 .. m : s[i] = S
        BY <1>5, <2>1, Zenon
      <3>2. IdOf(i) \in N /\ new[IdOf(i)] = S
        BY <1>7, <1>9, <3>1, Zenon
      <3> QED
        BY <1>9, <3>2, Zenon
    <2>2. CASE S \notin rest
      BY <1>9, <2>2, Zenon DEF rest
    <2> QED
      BY <2>1, <2>2, Zenon
  <1>15. UsedBundles(new) = UNION P
    BY <1>11, <1>14, Zenon DEF UsedBundles
  <1>16. UsedBundles(new) = Bundles
    BY <1>0, <1>15, Zenon
  <1>17. \A e \in DOMAIN c \cap DOMAIN new : new[e] = c[e]
    BY <1>3, <1>7, <1>9
  <1>18. \A e \in DOMAIN new \ DOMAIN c : \A f \in DOMAIN c : f < e
    BY <1>7, <1>8, <1>9, Zenon
  <1> QED
    BY <1>13, <1>16, <1>17, <1>18, Zenon DEF IsPlan, new

-----------------------------------------------------------------------------
(* The graph of commands between two configurations.                       *)

IsGraph(graph, old, new) ==
    /\ DOMAIN graph = Kills(old, new) \cup Launches(old, new)
    /\ \A c \in DOMAIN graph :
        /\ \/ graph[c] = {Dummy}
           \/ graph[c] # {} /\ graph[c] \subseteq DOMAIN graph
        /\ \A p \in graph[c] \ {Dummy} : p \in DOMAIN new <=> c \notin DOMAIN new
        /\ c \in DOMAIN new =>
            \A k \in Kills(old, new) : Overlap(old, new, k, c) => k \in graph[c]
    /\ Acyclic(graph)

LEMMA DummyNew == Dummy \notin Executors
  BY LayoutAssumption DEF Dummy

LEMMA ParallelIsGraph ==
  ASSUME NEW old, DOMAIN old = {}, NEW new, DOMAIN new \subseteq Executors
  PROVE  /\ IsGraph(ParallelCommand(old, new), old, new)
         /\ \A c \in DOMAIN new : ParallelCommand(old, new)[c] = {Dummy}
  <1> DEFINE graph == ParallelCommand(old, new)
  <1>1. Kills(old, new) = {} /\ Launches(old, new) = DOMAIN new
    BY Zenon DEF Kills, Launches
  <1>2. graph = [c \in DOMAIN new |-> {Dummy}]
    BY <1>1, Zenon DEF ParallelCommand
  <1>3. Acyclic(graph)
    <2>1. [c \in DOMAIN new |-> 0] \in [DOMAIN graph -> Nat]
      BY <1>2
    <2>2. \A c \in DOMAIN graph : graph[c] \cap DOMAIN graph = {}
      BY <1>2, DummyNew, Zenon
    <2> QED
      BY <2>1, <2>2, Zenon DEF Acyclic
  <1> QED
    BY <1>1, <1>2, <1>3, Zenon DEF IsGraph

\* When both configurations use every bundle, a kill frees bundles for a launch and
\* a launch takes bundles of a kill: executors of both configurations stay put.
LEMMA KillsOverlap ==
  ASSUME NEW old, IsConfig(old), NEW new, IsPlan(old, new), NEW k \in Kills(old, new)
  PROVE  \E l \in Launches(old, new) : Overlap(old, new, k, l)
  <1>1. k \in DOMAIN old /\ k \notin DOMAIN new
    BY Zenon DEF Kills
  <1>2. PICK b \in old[k], n \in Nodes : b \in NodeBundles[n]
    BY <1>1, Zenon DEF IsConfig
  <1>3. b \in UsedBundles(new)
    BY <1>2, Zenon DEF IsPlan, Bundles
  <1>4. PICK l \in DOMAIN new : b \in new[l]
    BY <1>3, Zenon DEF UsedBundles
  <1>5. l \notin DOMAIN old
    BY <1>1, <1>4, Zenon DEF IsPlan, IsConfig
  <1> QED
    BY <1>4, <1>5, Zenon DEF Launches, Overlap

LEMMA LaunchesOverlap ==
  ASSUME NEW old, UsedBundles(old) = Bundles, NEW new, IsPlan(old, new),
         NEW l \in Launches(old, new)
  PROVE  \E k \in Kills(old, new) : Overlap(old, new, k, l)
  <1>1. l \in DOMAIN new /\ l \notin DOMAIN old
    BY Zenon DEF Launches
  <1>2. PICK b \in new[l], n \in Nodes : b \in NodeBundles[n]
    <2>1. IsConfig(new)
      BY Zenon DEF IsPlan
    <2> QED
      BY <1>1, <2>1, Zenon DEF IsConfig
  <1>3. b \in UsedBundles(old)
    BY <1>2, Zenon DEF Bundles
  <1>4. PICK k \in DOMAIN old : b \in old[k]
    BY <1>3, Zenon DEF UsedBundles
  <1>5. k \notin DOMAIN new
    BY <1>1, <1>4, Zenon DEF IsPlan, IsConfig
  <1> QED
    BY <1>4, <1>5, Zenon DEF Kills, Overlap

\* Sets of commands that overlap with none outside, and build_stages: the stages are
\* the smallest of them.
ClosedSets(old, new) ==
    {S \in SUBSET (Kills(old, new) \cup Launches(old, new)) :
        \A k \in Kills(old, new), l \in Launches(old, new) :
            Overlap(old, new, k, l) => (k \in S <=> l \in S)}

LEMMA StagesAreSmallest ==
  ASSUME NEW old, NEW new
  PROVE  LET nodes == Kills(old, new) \cup Launches(old, new)
         IN  Stages(old, new) =
               {{v \in nodes : \A S \in ClosedSets(old, new) : u \in S => v \in S} : u \in nodes}
  <1> DEFINE kills == Kills(old, new)
             launches == Launches(old, new)
             nodes == kills \cup launches
             adj(u, v) == IF u \in kills THEN v \notin kills /\ Overlap(old, new, u, v)
                                         ELSE v \in kills /\ Overlap(old, new, v, u)
             closed == {S \in SUBSET nodes : \A u \in S, v \in nodes \ S : ~adj(u, v)}
             Least(C) == {{v \in nodes : \A S \in C : u \in S => v \in S} : u \in nodes}
  <1>1. kills \cap launches = {}
    BY Zenon DEF Kills, Launches
  <1>2. ASSUME NEW S \in SUBSET nodes
        PROVE  (\A u \in S, v \in nodes \ S : ~adj(u, v)) <=> S \in ClosedSets(old, new)
    <2>1. ASSUME \A u \in S, v \in nodes \ S : ~adj(u, v),
                 NEW k \in kills, NEW l \in launches, Overlap(old, new, k, l)
          PROVE  k \in S <=> l \in S
      <3>1. adj(k, l) /\ adj(l, k)
        BY <1>1, <2>1, Zenon
      <3> QED
        BY <2>1, <3>1, Zenon
    <2>2. ASSUME S \in ClosedSets(old, new), NEW u \in S, NEW v \in nodes \ S, adj(u, v)
          PROVE  FALSE
      BY <1>1, <2>2, Zenon DEF ClosedSets
    <2> QED
      BY <2>1, <2>2, Zenon DEF ClosedSets
  <1>3. closed = ClosedSets(old, new)
    BY <1>2, Zenon DEF ClosedSets
  <1>4. Stages(old, new) = Least(closed)
    BY Zenon DEF Stages
  <1> HIDE DEF closed, Least
  <1>5. Stages(old, new) = Least(ClosedSets(old, new))
    BY <1>3, <1>4, Zenon
  <1> QED
    BY <1>5, Zenon DEF Least

LEMMA StageFacts ==
  ASSUME NEW old, NEW new
  PROVE  LET nodes == Kills(old, new) \cup Launches(old, new)
         IN  /\ \A T \in Stages(old, new) : T \in SUBSET nodes /\ T # {}
             /\ \A v \in nodes : \E T \in Stages(old, new) : v \in T
             /\ \A T, U \in Stages(old, new) : T # U => T \cap U = {}
             /\ Stages(old, new) \subseteq ClosedSets(old, new)
             /\ \A T \in Stages(old, new), S \in ClosedSets(old, new) :
                   T \cap S # {} => T \subseteq S
  <1> DEFINE nodes == Kills(old, new) \cup Launches(old, new)
             closed == ClosedSets(old, new)
             Comp(u) == {v \in nodes : \A S \in closed : u \in S => v \in S}
             stages == Stages(old, new)
  <1>1. stages = {Comp(u) : u \in nodes}
    BY StagesAreSmallest, Zenon
  <1>2. \A u \in nodes : u \in Comp(u)
    BY Zenon
  <1>3. ASSUME NEW S \in closed
        PROVE  nodes \ S \in closed
    BY <1>3, Zenon DEF ClosedSets
  <1>4. ASSUME NEW u \in nodes, NEW v \in Comp(u)
        PROVE  Comp(v) = Comp(u)
    <2>1. \A S \in closed : v \in S => u \in S
      BY <1>3, <1>4, Zenon
    <2>2. \A S \in closed : v \in S <=> u \in S
      BY <2>1, <1>4, Zenon
    <2> QED
      BY <2>2, Zenon
  <1>5. ASSUME NEW u \in nodes
        PROVE  Comp(u) \in closed
    BY Zenon DEF ClosedSets
  <1>6. ASSUME NEW u \in nodes, NEW S \in closed, Comp(u) \cap S # {}
        PROVE  Comp(u) \subseteq S
    <2>1. PICK v \in Comp(u) : v \in S
      BY <1>6, Zenon
    <2>2. Comp(v) = Comp(u)
      BY <1>4, Zenon
    <2>3. Comp(v) \subseteq S
      BY <2>1, Zenon
    <2> QED
      BY <2>2, <2>3, Zenon
  <1>7. \A u \in nodes : Comp(u) \subseteq nodes
    BY Zenon
  <1>8. ASSUME NEW u \in nodes, NEW v \in nodes, Comp(u) \cap Comp(v) # {}
        PROVE  Comp(u) = Comp(v)
    <2>1. PICK w \in Comp(u) : w \in Comp(v)
      BY <1>8, Zenon
    <2> HIDE DEF Comp, nodes
    <2>2. Comp(w) = Comp(u)
      BY <1>4, Zenon
    <2>3. Comp(w) = Comp(v)
      BY <1>4, <2>1, Zenon
    <2> QED
      BY <2>2, <2>3, Zenon
  <1> HIDE DEF Comp, stages, nodes
  <1>9. /\ \A T \in stages : T \in SUBSET nodes /\ T # {}
        /\ \A v \in nodes : \E T \in stages : v \in T
        /\ stages \subseteq closed
    BY <1>1, <1>2, <1>5, <1>7, Zenon
  <1>10. \A T, U \in stages : T # U => T \cap U = {}
    BY <1>1, <1>8, Zenon
  <1>11. \A T \in stages, S \in closed : T \cap S # {} => T \subseteq S
    <2> SUFFICES ASSUME NEW T \in stages, NEW S \in closed, T \cap S # {}
                 PROVE  T \subseteq S
      BY Zenon
    <2>1. PICK u \in nodes : T = Comp(u)
      BY <1>1, Zenon
    <2> QED
      BY <1>6, <2>1, Zenon
  <1> QED
    BY <1>9, <1>10, <1>11, Zenon DEF stages, nodes

LEMMA StageOrderFacts ==
  ASSUME NEW old, IsConfig(old), NEW new, IsConfig(new), NEW stages \in StageOrders(old, new)
  PROVE  \E m \in Nat :
         /\ stages \in [1 .. m -> Stages(old, new)] /\ DOMAIN stages = 1 .. m
         /\ \A i, j \in 1 .. m : i # j => stages[i] # stages[j]
         /\ \A T \in Stages(old, new) : \E i \in 1 .. m : stages[i] = T
  <1> DEFINE S == Stages(old, new)
             n == Cardinality(S)
             nodes == Kills(old, new) \cup Launches(old, new)
  <1>1. stages \in Orders(S)
    BY Zenon DEF StageOrders
  <1>2. nodes \in SUBSET Executors
    BY Zenon DEF Kills, Launches, IsConfig
  <1>3. S \in SUBSET (SUBSET nodes)
    BY StageFacts, Zenon
  <1>4. IsFiniteSet(S)
    BY <1>2, <1>3, ExecutorsAssumption, FS_Subset, FS_SUBSET, Zenon
  <1> HIDE DEF S
  <1>5. /\ n \in Nat /\ stages \in [1 .. n -> S]
        /\ \A i, j \in 1 .. n : stages[i] = stages[j] => i = j
        /\ \A T \in S : \E i \in 1 .. n : stages[i] = T
    BY <1>1, <1>4, OrderFact, Zenon
  <1> QED
    BY <1>5, Zenon DEF S

\* Each command is in one stage, and in the stage of the commands it overlaps with.
LEMMA StageOfCommand ==
  ASSUME NEW old, IsConfig(old), NEW new, IsConfig(new), NEW stages \in StageOrders(old, new)
  PROVE  LET nodes == Kills(old, new) \cup Launches(old, new)
             stage(c) == CHOOSE i \in DOMAIN stages : c \in stages[i]
         IN  /\ \A i \in DOMAIN stages : i \in Nat \ {0} /\ stages[i] \in Stages(old, new)
                                         /\ (i # 1 => i - 1 \in DOMAIN stages)
             /\ \A c \in nodes : stage(c) \in DOMAIN stages /\ c \in stages[stage(c)]
             /\ \A c \in nodes : \A i \in DOMAIN stages : c \in stages[i] => i = stage(c)
             /\ \A k \in Kills(old, new), l \in Launches(old, new) :
                   Overlap(old, new, k, l) => stage(k) = stage(l)
  <1> DEFINE nodes == Kills(old, new) \cup Launches(old, new)
             stage(c) == CHOOSE i \in DOMAIN stages : c \in stages[i]
  <1>1. PICK m \in Nat :
         /\ stages \in [1 .. m -> Stages(old, new)] /\ DOMAIN stages = 1 .. m
         /\ \A i, j \in 1 .. m : i # j => stages[i] # stages[j]
         /\ \A T \in Stages(old, new) : \E i \in 1 .. m : stages[i] = T
    BY StageOrderFacts
  <1>2. /\ \A v \in nodes : \E T \in Stages(old, new) : v \in T
        /\ \A T, U \in Stages(old, new) : T # U => T \cap U = {}
        /\ Stages(old, new) \subseteq ClosedSets(old, new)
    BY StageFacts, Zenon
  <1>3. \A c \in nodes : \E i \in DOMAIN stages : c \in stages[i]
    BY <1>1, <1>2
  <1>4. \A c \in nodes : stage(c) \in DOMAIN stages /\ c \in stages[stage(c)]
    BY <1>3, Zenon
  <1> HIDE DEF stage
  <1>5. ASSUME NEW c \in nodes, NEW i \in DOMAIN stages, c \in stages[i]
        PROVE  i = stage(c)
    <2>1. stages[i] \in Stages(old, new) /\ stages[stage(c)] \in Stages(old, new)
      BY <1>1, <1>4, Zenon
    <2>2. stages[i] = stages[stage(c)]
      BY <1>2, <1>4, <1>5, <2>1, Zenon
    <2> QED
      BY <1>1, <1>4, <2>2, Zenon
  <1>6. ASSUME NEW k \in Kills(old, new), NEW l \in Launches(old, new), Overlap(old, new, k, l)
        PROVE  stage(k) = stage(l)
    <2>1. k \in nodes /\ l \in nodes
      BY Zenon
    <2>2. stages[stage(k)] \in ClosedSets(old, new)
      BY <1>1, <1>2, <1>4, <2>1, Zenon
    <2>3. l \in stages[stage(k)]
      BY <1>4, <1>6, <2>1, <2>2, Zenon DEF ClosedSets
    <2> QED
      BY <1>4, <1>5, <2>1, <2>3, Zenon
  <1>7. \A i \in DOMAIN stages : i \in Nat \ {0} /\ stages[i] \in Stages(old, new)
                                 /\ (i # 1 => i - 1 \in DOMAIN stages)
    BY <1>1
  <1> QED
    BY <1>4, <1>5, <1>6, <1>7, Zenon DEF stage

LEMMA SequentialIsGraph ==
  ASSUME NEW old, IsConfig(old), UsedBundles(old) = Bundles, NEW new, IsPlan(old, new),
         NEW stages \in StageOrders(old, new)
  PROVE  IsGraph(SequentialCommand(old, new, stages), old, new)
  <1> DEFINE kills == Kills(old, new)
             launches == Launches(old, new)
             nodes == kills \cup launches
             stage(c) == CHOOSE i \in DOMAIN stages : c \in stages[i]
             graph == SequentialCommand(old, new, stages)
             before(c) == {k \in stages[stage(c)] \cap kills : Overlap(old, new, k, c)}
  <1>1. /\ \A i \in DOMAIN stages : i \in Nat \ {0} /\ stages[i] \in Stages(old, new)
                                    /\ (i # 1 => i - 1 \in DOMAIN stages)
        /\ \A c \in nodes : stage(c) \in DOMAIN stages /\ c \in stages[stage(c)]
        /\ \A c \in nodes : \A i \in DOMAIN stages : c \in stages[i] => i = stage(c)
        /\ \A k \in kills, l \in launches : Overlap(old, new, k, l) => stage(k) = stage(l)
    BY StageOfCommand, Zenon DEF IsPlan
  <1>2. /\ DOMAIN graph = nodes
        /\ \A c \in nodes : graph[c] = IF c \in DOMAIN old
                                       THEN PrevStage(old, new, stages, stage(c)) ELSE before(c)
    BY Zenon DEF SequentialCommand
  <1> HIDE DEF graph, stage
  <1>3. /\ kills \cap launches = {}
        /\ \A c \in nodes : (c \in kills <=> c \in DOMAIN old) /\ (c \in launches <=> c \in DOMAIN new)
    BY Zenon DEF Kills, Launches
  <1>4. Dummy \notin nodes
    BY DummyNew, Zenon DEF Kills, Launches, IsConfig, IsPlan
  <1>5. ASSUME NEW c \in kills
        PROVE  \/ graph[c] = {Dummy} /\ stage(c) = 1
               \/ /\ graph[c] # {} /\ graph[c] \subseteq launches
                  /\ stage(c) # 1 /\ \A p \in graph[c] : stage(p) = stage(c) - 1
    <2>1. c \in nodes /\ graph[c] = PrevStage(old, new, stages, stage(c))
      BY <1>2, <1>3, Zenon
    <2>2. CASE stage(c) = 1
      BY <2>1, <2>2, Zenon DEF PrevStage
    <2>3. CASE stage(c) # 1
      <3>1. PICK j \in DOMAIN stages : j = stage(c) - 1
        BY <1>1, <2>1, <2>3, Zenon
      <3>2. graph[c] = stages[j] \cap launches
        BY <2>1, <2>3, <3>1, Zenon DEF PrevStage
      <3>3. stages[j] \in Stages(old, new)
        BY <1>1, Zenon
      <3>4. stages[j] \subseteq nodes /\ stages[j] # {} /\ stages[j] \in ClosedSets(old, new)
        <4>1. /\ \A T \in Stages(old, new) : T \in SUBSET nodes /\ T # {}
              /\ Stages(old, new) \subseteq ClosedSets(old, new)
          BY StageFacts, Zenon
        <4> HIDE DEF nodes
        <4> QED
          BY <3>3, <4>1, Zenon
      <3>5. PICK u \in stages[j] : u \in nodes
        BY <3>4, Zenon
      <3>6. ASSUME u \in kills
            PROVE  stages[j] \cap launches # {}
        <4>0. \E l \in Launches(old, new) : Overlap(old, new, u, l)
          BY <3>6, KillsOverlap
        <4>1. PICK l \in launches : Overlap(old, new, u, l)
          BY <4>0, Zenon
        <4>2. l \in stages[j]
          BY <3>4, <3>6, <4>1, Zenon DEF ClosedSets
        <4> QED
          BY <4>2, Zenon
      <3>7. stages[j] \cap launches # {}
        BY <3>5, <3>6, Zenon
      <3>8. \A p \in graph[c] : stage(p) = j
        BY <1>1, <3>2, Zenon
      <3> QED
        BY <2>3, <3>1, <3>2, <3>7, <3>8, Zenon
    <2> QED
      BY <2>2, <2>3, Zenon
  <1>6. ASSUME NEW c \in launches
        PROVE  /\ graph[c] # {} /\ graph[c] \subseteq kills
               /\ \A k \in kills : Overlap(old, new, k, c) => k \in graph[c]
               /\ \A p \in graph[c] : stage(p) = stage(c)
    <2>1. c \in nodes /\ graph[c] = before(c)
      BY <1>2, <1>3, Zenon
    <2>2. \A k \in kills : Overlap(old, new, k, c) => k \in graph[c]
      BY <1>1, <2>1, Zenon
    <2>3. graph[c] # {}
      BY <2>2, LaunchesOverlap, Zenon
    <2>4. graph[c] \subseteq kills /\ \A p \in graph[c] : Overlap(old, new, p, c)
      BY <2>1, Zenon
    <2>5. \A p \in graph[c] : stage(p) = stage(c)
      BY <1>1, <2>4, Zenon
    <2> QED
      BY <2>2, <2>3, <2>4, <2>5, Zenon
  <1>7. Acyclic(graph)
    <2> DEFINE rank == [c \in nodes |-> IF c \in kills THEN 2 * stage(c) ELSE 2 * stage(c) + 1]
    <2>1. \A c \in nodes : stage(c) \in Nat
      BY <1>1, Zenon
    <2>2. rank \in [DOMAIN graph -> Nat]
      BY <1>2, <2>1
    <2>3. ASSUME NEW c \in nodes, NEW p \in graph[c] \cap nodes
          PROVE  rank[p] < rank[c]
      <3>1. CASE c \in kills
        <4>1. p \in launches /\ stage(p) = stage(c) - 1
          BY <1>4, <1>5, <2>3, <3>1, Zenon
        <4>2. rank[p] = 2 * stage(p) + 1 /\ rank[c] = 2 * stage(c)
          BY <1>3, <3>1, <4>1, Zenon
        <4> QED
          BY <2>1, <4>1, <4>2
      <3>2. CASE c \in launches
        <4>1. p \in kills /\ stage(p) = stage(c)
          BY <1>6, <2>3, <3>2, Zenon
        <4>2. rank[p] = 2 * stage(p) /\ rank[c] = 2 * stage(c) + 1
          BY <1>3, <3>2, <4>1, Zenon
        <4> QED
          BY <2>1, <4>1, <4>2
      <3> QED
        BY <3>1, <3>2, Zenon
    <2> HIDE DEF rank
    <2> QED
      BY <1>2, <2>2, <2>3, Zenon DEF Acyclic
  <1>8. ASSUME NEW c \in nodes
        PROVE  /\ graph[c] = {Dummy} \/ (graph[c] # {} /\ graph[c] \subseteq nodes)
               /\ \A p \in graph[c] \ {Dummy} : p \in DOMAIN new <=> c \notin DOMAIN new
               /\ c \in DOMAIN new => \A k \in kills : Overlap(old, new, k, c) => k \in graph[c]
    <2>1. CASE c \in kills
      BY <1>3, <1>5, <2>1, Zenon
    <2>2. CASE c \in launches
      BY <1>3, <1>6, <2>2, Zenon
    <2> QED
      BY <2>1, <2>2, Zenon
  <1> QED
    BY <1>2, <1>7, <1>8, Zenon DEF IsGraph, graph

\* The commands of one node form a closed set: bundles of different nodes are
\* different.
LEMMA NodeIsClosed ==
  ASSUME NEW old, IsConfig(old), NEW new, IsConfig(new), NEW n \in Nodes
  PROVE  {c \in Kills(old, new) \cup Launches(old, new) :
            (IF c \in DOMAIN old THEN old[c] ELSE new[c]) \subseteq NodeBundles[n]}
           \in ClosedSets(old, new)
  <1> DEFINE place(c) == IF c \in DOMAIN old THEN old[c] ELSE new[c]
             nodes == Kills(old, new) \cup Launches(old, new)
             S == {c \in nodes : place(c) \subseteq NodeBundles[n]}
  <1>1. SUFFICES ASSUME NEW k \in Kills(old, new), NEW l \in Launches(old, new),
                        Overlap(old, new, k, l)
                 PROVE  k \in S <=> l \in S
    BY Zenon DEF ClosedSets
  <1>2. /\ k \in nodes /\ l \in nodes /\ place(k) = old[k] /\ place(l) = new[l]
        /\ k \in DOMAIN old /\ l \in DOMAIN new
    BY Zenon DEF Kills, Launches
  <1>3. PICK b : b \in old[k] /\ b \in new[l]
    BY <1>1, Zenon DEF Overlap
  <1>4. PICK i \in Nodes : old[k] \subseteq NodeBundles[i]
    BY <1>2, Zenon DEF IsConfig
  <1>5. PICK j \in Nodes : new[l] \subseteq NodeBundles[j]
    BY <1>2, Zenon DEF IsConfig
  <1>6. \A x, y \in Nodes : b \in NodeBundles[x] /\ b \in NodeBundles[y] => x = y
    BY LayoutAssumption, Zenon
  <1> HIDE DEF place
  <1>7. (place(k) \subseteq NodeBundles[n] => n = i) /\ (place(l) \subseteq NodeBundles[n] => n = j)
    BY <1>2, <1>3, <1>4, <1>5, <1>6, Zenon
  <1>8. i = j
    BY <1>3, <1>4, <1>5, <1>6, Zenon
  <1> QED
    BY <1>2, <1>4, <1>5, <1>7, <1>8, Zenon

\* Unless the plan is one of those that are skipped, an executor is kept or one of
\* the kills waits for a launch.
LEMMA SequentialContinues ==
  ASSUME NEW old, IsConfig(old), UsedBundles(old) = Bundles, DOMAIN old # {},
         NEW new, IsPlan(old, new), NEW stages \in StageOrders(old, new),
         ~FullKill(old, SequentialCommand(old, new, stages))
  PROVE  \/ DOMAIN old \cap DOMAIN new # {}
         \/ \E k \in Kills(old, new) : SequentialCommand(old, new, stages)[k] # {Dummy}
  <1> DEFINE kills == Kills(old, new)
             launches == Launches(old, new)
             nodes == kills \cup launches
             stage(c) == CHOOSE i \in DOMAIN stages : c \in stages[i]
             graph == SequentialCommand(old, new, stages)
  <1>1. /\ \A i \in DOMAIN stages : stages[i] \in Stages(old, new)
        /\ \A c \in nodes : stage(c) \in DOMAIN stages /\ c \in stages[stage(c)]
    BY StageOfCommand, Zenon DEF IsPlan
  <1>2. /\ DOMAIN graph = nodes
        /\ \A c \in kills : graph[c] = PrevStage(old, new, stages, stage(c))
        /\ \A c \in launches : graph[c] \subseteq kills
    BY Zenon DEF SequentialCommand, Kills, Launches
  <1> HIDE DEF graph, stage
  <1>3. SUFFICES ASSUME DOMAIN old \cap DOMAIN new = {}, \A k \in kills : graph[k] = {Dummy}
                 PROVE  FALSE
    BY Zenon DEF graph
  <1>4. kills = DOMAIN old
    BY <1>3, Zenon DEF Kills
  <1>5. Dummy \notin nodes
    BY DummyNew, Zenon DEF Kills, Launches, IsConfig, IsPlan
  <1>6. \A k \in kills : stage(k) = 1
    <2>1. SUFFICES ASSUME NEW k \in kills, stage(k) # 1
                   PROVE  FALSE
      BY Zenon
    <2>2. PrevStage(old, new, stages, stage(k)) \subseteq launches
      BY <2>1, Zenon DEF PrevStage
    <2> QED
      BY <1>2, <1>3, <1>5, <2>2, Zenon
  <1>7. CASE Cardinality(Nodes) = 1
    <2>1. Children(graph, Dummy) = kills
      <3>1. ASSUME NEW c \in nodes
            PROVE  Dummy \in graph[c] <=> c \in kills
        BY <1>2, <1>3, <1>5, Zenon
      <3> QED
        BY <1>2, <3>1, Zenon DEF Children
    <2> QED
      BY <1>4, <1>7, <2>1, Zenon DEF FullKill, graph
  <1>8. CASE Cardinality(Nodes) # 1
    <2>1. PICK e \in DOMAIN old : TRUE
      BY Zenon
    <2>2. PICK i \in Nodes : old[e] \subseteq NodeBundles[i]
      BY Zenon DEF IsConfig
    <2>3. PICK j \in Nodes : j # i
      <3>1. CASE Nodes = {i}
        <4>1. Cardinality({i}) = 1
          BY FS_Singleton, Zenon
        <4> QED
          BY <1>8, <3>1, <4>1, Zenon
      <3> QED
        BY <2>2, <3>1, Zenon
    <2>4. PICK b : b \in NodeBundles[j]
      BY LayoutAssumption, Zenon
    <2>5. b \in UsedBundles(old)
      BY <2>4, Zenon DEF Bundles
    <2>6. PICK f \in DOMAIN old : b \in old[f]
      BY <2>5, Zenon DEF UsedBundles
    <2>7. ~(old[f] \subseteq NodeBundles[i])
      BY <2>3, <2>4, <2>6, LayoutAssumption, Zenon
    <2> DEFINE S == {c \in nodes : (IF c \in DOMAIN old THEN old[c] ELSE new[c])
                                      \subseteq NodeBundles[i]}
    <2>8. e \in nodes /\ f \in nodes /\ e \in kills /\ f \in kills
      BY <1>4, Zenon
    <2>9. e \in S /\ f \notin S
      BY <2>2, <2>7, <2>8, Zenon
    <2>10. S \in ClosedSets(old, new)
      BY NodeIsClosed, Zenon DEF IsPlan
    <2> HIDE DEF S
    <2>11. e \in stages[1] /\ f \in stages[1] /\ stages[1] \in Stages(old, new)
      BY <1>1, <1>6, <2>8, Zenon
    <2>12. \A T \in Stages(old, new), U \in ClosedSets(old, new) : T \cap U # {} => T \subseteq U
      BY StageFacts, Zenon
    <2> QED
      BY <2>9, <2>10, <2>11, <2>12, Zenon
  <1> QED
    BY <1>7, <1>8, Zenon

-----------------------------------------------------------------------------
(* The inductive invariant.                                                *)

IInv ==
    /\ TypeOK /\ NoSharedBundles /\ IsConfig(config)
    /\ ExecutorsTracked /\ CommandsTracked /\ Acyclic(parents) /\ PhaseTracked

LEMMA InitIInv ==
  ASSUME Init
  PROVE  IInv
  <1>1. /\ status = [e \in Executors |-> "ABSENT"] /\ killer = [e \in Executors |-> "none"]
        /\ waiting_to_be_killed = {} /\ started = {} /\ launching = {}
        /\ bundle_ids = [e \in Executors |-> {}] /\ phase = "startup"
        /\ DOMAIN config = {} /\ DOMAIN parents = {} /\ config = [e \in DOMAIN config |-> config[e]]
    BY LayoutAssumption DEF Init, ManagerInit, NoCommands
  <1>2. TypeOK
    BY <1>1 DEF TypeOK, ManagerTypeOK, Status, KillerPhase
  <1>3. Present = {}
    BY <1>1 DEF Present
  <1>4. NoSharedBundles /\ IsConfig(config) /\ CommandsTracked /\ PhaseTracked
    BY <1>1, <1>3, Zenon DEF NoSharedBundles, IsConfig, CommandsTracked, PhaseTracked
  <1>5. ExecutorsTracked
    BY <1>1, <1>3 DEF ExecutorsTracked, ExecutorTracked
  <1>6. Acyclic(parents)
    <2>1. [c \in {} |-> 0] \in [DOMAIN parents -> Nat]
      BY <1>1
    <2> QED
      BY <1>1, <2>1, Zenon DEF Acyclic
  <1> QED
    BY <1>2, <1>4, <1>5, <1>6, Zenon DEF IInv

\* A new graph of commands is installed when the previous configuration is deployed.
LEMMA InstallTracked ==
  ASSUME IInv, Present = DOMAIN config, launching = {},
         NEW new, IsPlan(config, new), NEW graph, IsGraph(graph, config, new),
         ExecuteDummy(graph), config' = new, UNCHANGED <<managerVars, launching, bundle_ids>>
  PROVE  /\ NoSharedBundles' /\ IsConfig(config)' /\ ExecutorsTracked'
         /\ CommandsTracked' /\ Acyclic(parents)'
         /\ phase' \in {"startup", "launching", "sleep", "executing", "dead"} => TypeOK'
  <1> USE DEF IInv
  <1> DEFINE old == config
             kills == Kills(old, new)
             launches == Launches(old, new)
             nodes == kills \cup launches
  <1>1. /\ status' = status /\ waiting_to_be_killed' = waiting_to_be_killed /\ killer' = killer
        /\ launching' = {} /\ bundle_ids' = bundle_ids /\ Present' = DOMAIN old
    BY Zenon DEF managerVars, Present
  <1>2. /\ DOMAIN graph = nodes /\ DOMAIN parents' = nodes
        /\ \A c \in nodes : parents'[c] = graph[c] \ {Dummy}
        /\ started' = {c \in Children(graph, Dummy) : graph[c] = {Dummy}}
    BY Zenon DEF ExecuteDummy, IsGraph
  <1>3. /\ DOMAIN old \subseteq Executors /\ DOMAIN new \subseteq Executors /\ IsConfig(new)
        /\ nodes \subseteq Executors /\ Dummy \notin nodes
    BY DummyNew, Zenon DEF IsConfig, IsPlan, Kills, Launches
  <1>4. ASSUME NEW c \in nodes
        PROVE  /\ graph[c] = {Dummy} <=> parents'[c] = {}
               /\ parents'[c] \subseteq nodes
               /\ \A p \in parents'[c] : p \in DOMAIN new <=> c \notin DOMAIN new
               /\ c \in DOMAIN new => \A k \in kills : Overlap(old, new, k, c) => k \in parents'[c]
               /\ c \in started' <=> graph[c] = {Dummy}
    <2>1. /\ graph[c] = {Dummy} \/ (graph[c] # {} /\ graph[c] \subseteq nodes)
          /\ \A p \in graph[c] \ {Dummy} : p \in DOMAIN new <=> c \notin DOMAIN new
          /\ c \in DOMAIN new => \A k \in kills : Overlap(old, new, k, c) => k \in graph[c]
      BY <1>2, Zenon DEF IsGraph
    <2>2. c \in started' <=> graph[c] = {Dummy}
      BY <1>2, Zenon DEF Children
    <2> QED
      BY <1>2, <1>3, <2>1, <2>2, Zenon
  <1>5. started' \subseteq nodes
    BY <1>2, Zenon DEF Children
  <1>6. \A e \in Executors : ExecutorTracked(e)
    BY Zenon DEF ExecutorsTracked
  <1>7. \A e \in DOMAIN old : killer[e] = "none" /\ bundle_ids[e] = old[e]
    BY <1>3, <1>6, Zenon DEF ExecutorTracked
  <1>8. ASSUME NEW e \in Executors
        PROVE  ExecutorTracked(e)'
    <2>1. e \in DOMAIN new => killer[e] = "none"
      <3>1. SUFFICES ASSUME e \in DOMAIN new, e \notin DOMAIN old, killer[e] # "none"
                     PROVE  FALSE
        BY <1>7, Zenon
      <3>2. PICK f \in DOMAIN old : e <= f
        BY <1>6, <3>1, Zenon DEF ExecutorTracked
      <3>3. f < e
        BY <3>1, Zenon DEF IsPlan
      <3>4. e \in Nat /\ f \in Nat
        BY <1>3, LayoutAssumption, Zenon
      <3> QED
        BY <3>2, <3>3, <3>4
    <2>2. e \in DOMAIN old /\ e \in DOMAIN new => bundle_ids[e] = new[e]
      BY <1>7, Zenon DEF IsPlan
    <2>3. ASSUME e \in DOMAIN old \/ killer[e] # "none"
          PROVE  \E f \in DOMAIN new : e <= f
      <3>1. PICK f \in DOMAIN old : e <= f
        BY <1>6, <2>3, Zenon DEF ExecutorTracked
      <3>2. CASE f \notin DOMAIN new
        <4>1. f \in Kills(old, new)
          BY <3>2, Zenon DEF Kills
        <4>2. \E l \in Launches(old, new) : Overlap(old, new, f, l)
          BY <4>1, KillsOverlap
        <4>3. PICK l \in DOMAIN new : l \notin DOMAIN old
          BY <4>2, Zenon DEF Launches
        <4>4. f < l
          BY <4>3, Zenon DEF IsPlan
        <4>5. e \in Nat /\ f \in Nat /\ l \in Nat
          BY <1>3, LayoutAssumption, Zenon
        <4>6. e <= l
          BY <3>1, <4>4, <4>5
        <4> QED
          BY <4>6, Zenon
      <3> QED
        BY <3>1, <3>2, Zenon
    <2> QED
      BY <1>1, <1>6, <2>1, <2>2, <2>3, Zenon DEF ExecutorTracked
  <1>9. ASSUME NEW c \in nodes
        PROVE  ~Completed(c)' /\ ~Begun(c)'
    <2>1. CASE c \in kills
      <3>1. c \notin DOMAIN new /\ c \in DOMAIN old
        BY <2>1, Zenon DEF Kills
      <3> QED
        BY <1>1, <1>7, <3>1, Zenon DEF Completed, Begun
    <2>2. CASE c \in launches
      <3>1. c \in DOMAIN new /\ c \notin DOMAIN old
        BY <2>2, Zenon DEF Launches
      <3> QED
        BY <1>1, <3>1, Zenon DEF Completed, Begun
    <2> QED
      BY <2>1, <2>2, Zenon
  <1>10. ASSUME NEW c \in nodes
         PROVE  CommandTracked(c)'
    <2>1. c \in Executors /\ (c \in DOMAIN new \/ c \in Present')
      BY <1>1, <1>3, Zenon DEF Kills, Launches
    <2>2. ASSUME c \in DOMAIN new, NEW k \in Present' \ DOMAIN new, bundle_ids[k] \cap new[c] # {}
          PROVE  k \in parents'[c]
      <3>1. k \in kills /\ bundle_ids[k] = old[k]
        BY <1>1, <1>7, <2>2, Zenon DEF Kills
      <3>2. Overlap(old, new, k, c)
        BY <2>2, <3>1, Zenon DEF Overlap
      <3> QED
        BY <1>4, <2>2, <3>1, <3>2, Zenon
    <2> QED
      BY <1>1, <1>2, <1>4, <1>9, <2>1, <2>2, Zenon DEF CommandTracked
  <1>11. CommandsTracked'
    <2>1. (DOMAIN new \ Present') \cup (Present' \ DOMAIN new) \subseteq nodes
      BY <1>1, Zenon DEF Kills, Launches
    <2> QED
      BY <1>2, <1>5, <1>10, <2>1, Zenon DEF CommandsTracked
  <1>12. Acyclic(parents)'
    <2>1. PICK rank \in [nodes -> Nat] :
            \A c \in nodes : \A p \in graph[c] \cap nodes : rank[p] < rank[c]
      BY <1>2, Zenon DEF IsGraph, Acyclic
    <2>2. \A c \in nodes : parents'[c] \subseteq graph[c]
      BY <1>2, Zenon
    <2> QED
      BY <1>2, <2>1, <2>2, Zenon DEF Acyclic
  <1>13. NoSharedBundles'
    BY <1>1, Zenon DEF NoSharedBundles
  <1>14. ASSUME phase' \in {"startup", "launching", "sleep", "executing", "dead"}
         PROVE  TypeOK'
    <2>1. ManagerTypeOK'
      BY <1>1, Zenon DEF TypeOK, ManagerTypeOK
    <2>2. ASSUME NEW e \in DOMAIN new
          PROVE  new[e] \in (SUBSET Bundles) \ {{}}
      <3>1. PICK n \in Nodes : new[e] \subseteq NodeBundles[n]
        BY <1>3, Zenon DEF IsConfig
      <3>2. new[e] # {}
        BY <1>3, Zenon DEF IsConfig
      <3> QED
        BY <3>1, <3>2 DEF Bundles
    <2>3. \A c \in nodes : c \in Executors /\ parents'[c] \subseteq Executors
      BY <1>3, <1>4, Zenon
    <2> QED
      BY <1>1, <1>2, <1>3, <1>5, <1>14, <2>1, <2>2, <2>3, Zenon DEF TypeOK
  <1>15. IsConfig(config)'
    BY <1>3, ZenonT(30) DEF IsConfig
  <1>16. ExecutorsTracked'
    BY <1>8, Zenon DEF ExecutorsTracked
  <1> QED
    BY <1>11, <1>12, <1>13, <1>14, <1>15, <1>16, Zenon

\* Commands are under way only while a graph is being executed.
LEMMA CommandsUnderWay ==
  ASSUME IInv, NEW e \in Executors,
         e \in started \cup launching \/ killer[e] \in {"notified", "shutdown"}
  PROVE  phase \in {"launching", "executing"}
  <1>1. SUFFICES ASSUME phase \in {"startup", "sleep"}
                 PROVE  FALSE
    BY Zenon DEF IInv, PhaseTracked
  <1>2. Present = DOMAIN config /\ launching = {} /\ started = {}
    BY <1>1, Zenon DEF IInv, PhaseTracked
  <1>3. ExecutorTracked(e)
    BY Zenon DEF IInv, ExecutorsTracked
  <1>4. CASE killer[e] = "notified"
    BY <1>2, <1>3, <1>4 DEF ExecutorTracked, Present
  <1>5. CASE killer[e] = "shutdown"
    BY <1>2, <1>3, <1>5 DEF ExecutorTracked, Present
  <1> QED
    BY <1>2, <1>4, <1>5, Zenon

\* What is left to show of a step of a command.
LEMMA CommandStep ==
  ASSUME IInv, phase \in {"launching", "executing"}, phase' = phase, config' = config,
         TypeOK', NoSharedBundles', ExecutorsTracked', CommandsTracked', Acyclic(parents)',
         Continued => Continued'
  PROVE  IInv'
  <1>1. IsConfig(config)'
    BY Zenon DEF IInv, IsConfig
  <1>2. PhaseTracked'
    BY DEF IInv, PhaseTracked, UsedBundles
  <1> QED
    BY <1>1, <1>2, Zenon DEF IInv

\* The executor under construction or started is none of those that hold its bundles.
LEMMA BeginLaunchIInv ==
  ASSUME IInv, NEW e \in Executors, BeginLaunch(e)
  PROVE  IInv'
  <1> USE DEF IInv
  <1>1. e \in started /\ e \in DOMAIN config /\ e \in DOMAIN parents
    BY Zenon DEF BeginLaunch, CommandsTracked
  <1>2. \A x \in Executors : ExecutorTracked(x)
    BY Zenon DEF ExecutorsTracked
  <1>3. \A c \in DOMAIN parents : CommandTracked(c)
    BY Zenon DEF CommandsTracked
  <1>4. ~Begun(e) /\ parents[e] = {}
    BY <1>1, <1>3, Zenon DEF CommandTracked
  <1>5. e \notin Present /\ e \notin launching /\ killer[e] = "none"
    BY <1>1, <1>2, <1>4, Zenon DEF Begun, ExecutorTracked
  <1>6. e \notin used_executor_ids
    BY <1>5, Zenon DEF used_executor_ids, Present
  <1>7. /\ started' = started \ {e} /\ launching' = launching \cup {e}
        /\ bundle_ids' = [bundle_ids EXCEPT ![e] = config[e]]
        /\ status' = status /\ waiting_to_be_killed' = waiting_to_be_killed /\ killer' = killer
        /\ config' = config /\ parents' = parents /\ phase' = phase
    BY <1>4, <1>6, Zenon DEF BeginLaunch, managerVars
  <1>8. Present' = Present
    BY <1>7, Zenon DEF Present
  <1>9. /\ bundle_ids'[e] = config[e]
        /\ \A x \in Executors : x # e => bundle_ids'[x] = bundle_ids[x]
    BY <1>7 DEF TypeOK
  <1>10. TypeOK'
    <2>1. ManagerTypeOK'
      BY <1>7, Zenon DEF TypeOK, ManagerTypeOK
    <2>2. config[e] \in SUBSET Bundles
      BY <1>1 DEF TypeOK
    <2>3. bundle_ids' \in [Executors -> SUBSET Bundles]
      BY <1>7, <2>2 DEF TypeOK
    <2> QED
      BY <1>1, <1>7, <2>1, <2>3, Zenon DEF TypeOK
  <1>11. ASSUME NEW x \in Executors
         PROVE  ExecutorTracked(x)'
    <2>1. ExecutorTracked(x)
      BY <1>2, Zenon
    <2>2. CASE x = e
      BY <1>1, <1>5, <1>7, <1>8, <1>9, <2>1, <2>2, Zenon DEF ExecutorTracked
    <2>3. CASE x # e
      BY <1>7, <1>8, <1>9, <2>1, <2>3, Zenon DEF ExecutorTracked
    <2> QED
      BY <2>2, <2>3, Zenon
  <1>12. ASSUME NEW c \in DOMAIN parents
         PROVE  CommandTracked(c)'
    <2>1. CommandTracked(c) /\ c \in Executors
      BY <1>3, Zenon DEF CommandTracked
    <2>2. \A p \in parents[c] : Completed(p)' <=> Completed(p)
      BY <1>7, <1>8, Zenon DEF Completed
    <2>3. Begun(c)' <=> Begun(c) \/ c = e
      BY <1>1, <1>7, <1>8, Zenon DEF Begun
    <2>4. \A k \in Present \ DOMAIN config : bundle_ids'[k] = bundle_ids[k]
      BY <1>1, <1>9, Zenon DEF Present
    <2> QED
      BY <1>4, <1>7, <1>8, <2>1, <2>2, <2>3, <2>4, Zenon DEF CommandTracked
  <1>13. CommandsTracked'
    BY <1>7, <1>8, <1>12, Zenon DEF CommandsTracked
  <1>14. Acyclic(parents)' /\ (Continued => Continued')
    BY <1>7, <1>8, Zenon DEF Acyclic, Continued
  <1>15. NoSharedBundles'
    <2>1. ASSUME NEW f \in Present \cup launching, f # e
          PROVE  bundle_ids[f] \cap config[e] = {}
      <3>1. f \in Executors
        BY Zenon DEF Present, TypeOK
      <3>2. CASE f \in DOMAIN config
        <4>1. bundle_ids[f] = config[f]
          BY <1>2, <3>1, <3>2, Zenon DEF ExecutorTracked
        <4> QED
          BY <1>1, <2>1, <3>2, <4>1, Zenon DEF IsConfig
      <3>3. CASE f \notin DOMAIN config
        <4>1. f \in Present \ DOMAIN config
          BY <1>2, <3>1, <3>3, Zenon DEF ExecutorTracked
        <4> QED
          BY <1>1, <1>3, <1>4, <4>1, Zenon DEF CommandTracked
      <3> QED
        BY <3>2, <3>3, Zenon
    <2>2. ASSUME NEW f \in (Present \cup launching)', NEW g \in (Present \cup launching)', f # g
          PROVE  bundle_ids'[f] \cap bundle_ids'[g] = {}
      <3>1. /\ f \in Executors /\ g \in Executors
            /\ f = e \/ f \in Present \cup launching
            /\ g = e \/ g \in Present \cup launching
        BY <1>7, <1>8, Zenon DEF Present, TypeOK
      <3>2. CASE f = e
        <4>1. bundle_ids[g] \cap config[e] = {}
          BY <2>1, <2>2, <3>1, <3>2, Zenon
        <4> QED
          BY <1>9, <2>2, <3>1, <3>2, <4>1, Zenon
      <3>3. CASE g = e
        <4>1. bundle_ids[f] \cap config[e] = {}
          BY <2>1, <2>2, <3>1, <3>3, Zenon
        <4> QED
          BY <1>9, <2>2, <3>1, <3>3, <4>1, Zenon
      <3>4. CASE f # e /\ g # e
        BY <1>9, <2>2, <3>1, <3>4, Zenon DEF NoSharedBundles
      <3> QED
        BY <3>2, <3>3, <3>4, Zenon
    <2> QED
      BY <2>2, Zenon DEF NoSharedBundles
  <1>16. phase \in {"launching", "executing"}
    BY <1>1, CommandsUnderWay, Zenon
  <1>17. ExecutorsTracked'
    BY <1>11, Zenon DEF ExecutorsTracked
  <1> HIDE DEF IInv
  <1> QED
    BY <1>7, <1>10, <1>13, <1>14, <1>15, <1>16, <1>17, CommandStep, Zenon

\* The children of a command that has completed lose it as a parent.
LEMMA NotifyFacts ==
  ASSUME CommandsTracked, Acyclic(parents), NEW p, NotifyChildren(p, started)
  PROVE  /\ DOMAIN parents' = DOMAIN parents
         /\ \A c \in DOMAIN parents :
             /\ parents'[c] = parents[c] \ {p}
             /\ c \in started' <=> c \in started \/ parents[c] = {p}
         /\ started' \subseteq DOMAIN parents
         /\ Acyclic(parents)'
  <1>1. DOMAIN parents' = DOMAIN parents /\ \A c \in DOMAIN parents : parents'[c] = parents[c] \ {p}
    BY Zenon DEF NotifyChildren
  <1>2. started' = started \cup {c \in Children(parents, p) : parents[c] = {p}}
    BY Zenon DEF NotifyChildren
  <1>3. started' \subseteq DOMAIN parents
    BY <1>2, Zenon DEF CommandsTracked, Children
  <1>4. \A c \in DOMAIN parents : c \in started' <=> c \in started \/ parents[c] = {p}
    BY <1>2, Zenon DEF Children
  <1>5. Acyclic(parents)'
    <2>1. PICK rank \in [DOMAIN parents -> Nat] :
            \A c \in DOMAIN parents : \A q \in parents[c] \cap DOMAIN parents : rank[q] < rank[c]
      BY Zenon DEF Acyclic
    <2> QED
      BY <1>1, <2>1, Zenon DEF Acyclic
  <1> QED
    BY <1>1, <1>3, <1>4, <1>5, Zenon

LEMMA EndLaunchIInv ==
  ASSUME IInv, NEW e \in Executors, EndLaunch(e)
  PROVE  IInv'
  <1> USE DEF IInv
  <1>1. /\ e \in launching /\ status[e] = "ABSENT" /\ killer[e] = "none"
        /\ status' = [status EXCEPT ![e] = "IDLE"]
        /\ waiting_to_be_killed' = waiting_to_be_killed /\ killer' = killer
        /\ NotifyChildren(e, started) /\ launching' = launching \ {e}
        /\ config' = config /\ bundle_ids' = bundle_ids /\ phase' = phase
    BY Zenon DEF EndLaunch, LaunchExecutor
  <1>2. \A x \in Executors : ExecutorTracked(x)
    BY Zenon DEF ExecutorsTracked
  <1>3. \A c \in DOMAIN parents : CommandTracked(c)
    BY Zenon DEF CommandsTracked
  <1>4. e \in DOMAIN config /\ e \notin Present
    BY <1>1, <1>2, Zenon DEF ExecutorTracked
  <1>5. status'[e] = "IDLE" /\ \A x \in Executors : x # e => status'[x] = status[x]
    BY <1>1 DEF TypeOK, ManagerTypeOK
  <1>6. Present' = Present \cup {e}
    BY <1>5 DEF Present
  <1>7. /\ DOMAIN parents' = DOMAIN parents
        /\ \A c \in DOMAIN parents :
            /\ parents'[c] = parents[c] \ {e}
            /\ c \in started' <=> c \in started \/ parents[c] = {e}
        /\ started' \subseteq DOMAIN parents
        /\ Acyclic(parents)'
    BY <1>1, NotifyFacts, Zenon
  <1>8. TypeOK'
    <2>1. ManagerTypeOK'
      BY <1>1 DEF TypeOK, ManagerTypeOK, Status
    <2>2. \A c \in DOMAIN parents : c \in Executors /\ parents'[c] \subseteq Executors
      BY <1>7, Zenon DEF TypeOK
    <2> QED
      BY <1>1, <1>7, <2>1, <2>2, Zenon DEF TypeOK
  <1>9. ASSUME NEW x \in Executors
        PROVE  ExecutorTracked(x)'
    <2>1. ExecutorTracked(x)
      BY <1>2, Zenon
    <2>2. CASE x = e
      <3>1. \E f \in DOMAIN config : e <= f
        BY <1>4, LayoutAssumption DEF TypeOK
      <3> QED
        BY <1>1, <1>4, <1>5, <1>6, <2>1, <2>2, <3>1 DEF ExecutorTracked
    <2>3. CASE x # e
      BY <1>1, <1>5, <1>6, <2>1, <2>3, Zenon DEF ExecutorTracked
    <2> QED
      BY <2>2, <2>3, Zenon
  <1>10. ASSUME NEW c \in DOMAIN parents
         PROVE  CommandTracked(c)'
    <2>1. CommandTracked(c) /\ c \in Executors
      BY <1>3, Zenon DEF CommandTracked
    <2>2. \A p \in parents[c] \ {e} : Completed(p)' <=> Completed(p)
      BY <1>1, <1>6, Zenon DEF Completed
    <2>3. Begun(c)' <=> Begun(c)
      BY <1>1, <1>4, <1>6, Zenon DEF Begun
    <2>4. Present' \ DOMAIN config = Present \ DOMAIN config
      BY <1>4, <1>6, Zenon
    <2>5. parents'[c] = {} <=> c \in started' \/ Begun(c)'
      <3>1. parents[c] = {} <=> c \in started \/ Begun(c)
        BY <2>1, Zenon DEF CommandTracked
      <3>2. parents'[c] = {} <=> parents[c] = {} \/ parents[c] = {e}
        BY <1>7, Zenon
      <3> QED
        BY <1>7, <2>3, <3>1, <3>2, Zenon
    <2>6. c \in started' => ~Begun(c)'
      BY <1>7, <2>1, <2>3, Zenon DEF CommandTracked
    <2>7. c \in DOMAIN config /\ ~Begun(c)' =>
            \A k \in Present' \ DOMAIN config : bundle_ids[k] \cap config[c] # {} => k \in parents'[c]
      BY <1>4, <1>7, <2>1, <2>3, <2>4, Zenon DEF CommandTracked
    <2>8. c \in DOMAIN config \/ c \in Present' \/ killer[c] = "done"
      BY <1>6, <2>1, Zenon DEF CommandTracked
    <2>9. /\ parents'[c] \subseteq DOMAIN parents
          /\ \A p \in parents'[c] : ~Completed(p)' /\ (p \in DOMAIN config <=> c \notin DOMAIN config)
      BY <1>7, <2>1, <2>2, Zenon DEF CommandTracked
    <2> QED
      BY <1>1, <1>7, <2>1, <2>5, <2>6, <2>7, <2>8, <2>9, Zenon DEF CommandTracked
  <1>11. CommandsTracked'
    BY <1>1, <1>4, <1>6, <1>7, <1>10, Zenon DEF CommandsTracked
  <1>12. Continued'
    BY <1>1, <1>4, <1>6, Zenon DEF Continued
  <1>13. NoSharedBundles'
    <2>1. Present' \cup launching' = Present \cup launching
      BY <1>1, <1>6, Zenon
    <2> QED
      BY <1>1, <2>1, Zenon DEF NoSharedBundles
  <1>14. phase \in {"launching", "executing"}
    BY <1>1, CommandsUnderWay, Zenon
  <1>15. ExecutorsTracked'
    BY <1>9, Zenon DEF ExecutorsTracked
  <1> HIDE DEF IInv
  <1> QED
    BY <1>1, <1>7, <1>8, <1>11, <1>12, <1>13, <1>14, <1>15, CommandStep, Zenon

\* Steps that leave the commands and the set of executors alone.
LEMMA QuietStep ==
  ASSUME IInv, UNCHANGED commandVars, ManagerTypeOK', Present' = Present, ExecutorsTracked',
         \A x \in Executors : /\ killer'[x] = "none" <=> killer[x] = "none"
                              /\ killer'[x] = "done" <=> killer[x] = "done"
  PROVE  IInv'
  <1> USE DEF IInv
  <1>1. /\ config' = config /\ parents' = parents /\ started' = started /\ launching' = launching
        /\ bundle_ids' = bundle_ids /\ phase' = phase
    BY Zenon DEF commandVars
  <1>2. TypeOK' /\ NoSharedBundles' /\ IsConfig(config)' /\ Acyclic(parents)'
    BY <1>1, ZenonT(30) DEF TypeOK, NoSharedBundles, IsConfig, Acyclic
  <1>3. \A c \in Executors : (Completed(c)' <=> Completed(c)) /\ (Begun(c)' <=> Begun(c))
    BY <1>1, Zenon DEF Completed, Begun
  <1>4. ASSUME NEW c \in DOMAIN parents
        PROVE  CommandTracked(c)'
    <2>1. CommandTracked(c) /\ c \in Executors /\ parents[c] \subseteq Executors
      BY Zenon DEF CommandsTracked, CommandTracked, TypeOK
    <2> QED
      BY <1>1, <1>3, <2>1, Zenon DEF CommandTracked
  <1>5. CommandsTracked'
    BY <1>1, <1>4, Zenon DEF CommandsTracked
  <1>6. PhaseTracked'
    <2>1. UsedBundles(config)' = UsedBundles(config) /\ (Continued => Continued')
      BY <1>1, Zenon DEF UsedBundles, Continued
    <2> QED
      BY <1>1, <2>1, Zenon DEF PhaseTracked
  <1> QED
    BY <1>2, <1>5, <1>6, Zenon

LEMMA BeginKillIInv ==
  ASSUME IInv, NEW e \in Executors, BeginKill(e)
  PROVE  IInv'
  <1> USE DEF IInv
  <1>1. e \in started /\ e \notin DOMAIN config /\ e \in DOMAIN parents
    BY Zenon DEF BeginKill, CommandsTracked
  <1>2. \A x \in Executors : ExecutorTracked(x)
    BY Zenon DEF ExecutorsTracked
  <1>3. \A c \in DOMAIN parents : CommandTracked(c)
    BY Zenon DEF CommandsTracked
  <1>4. ~Begun(e) /\ parents[e] = {}
    BY <1>1, <1>3, Zenon DEF CommandTracked
  <1>5. killer[e] = "none" /\ e \in Present
    <2>1. killer[e] = "none"
      BY <1>1, <1>4, Zenon DEF Begun
    <2> QED
      BY <1>1, <1>3, <2>1 DEF CommandTracked
  <1>6. e \in used_executor_ids
    BY <1>5, Zenon DEF used_executor_ids, Present
  <1>7. /\ KillExecutor(e) /\ started' = started \ {e}
        /\ config' = config /\ parents' = parents /\ launching' = launching
        /\ bundle_ids' = bundle_ids /\ phase' = phase
    BY <1>4, <1>6, Zenon DEF BeginKill
  <1>8. /\ ManagerTypeOK' /\ waiting_to_be_killed' = waiting_to_be_killed \cup {e}
        /\ \/ status'[e] = "KILLING" /\ killer'[e] = "shutdown"
           \/ status'[e] = status[e] /\ killer'[e] = "waiting"
        /\ \A x \in Executors : x # e => status'[x] = status[x] /\ killer'[x] = killer[x]
    BY <1>7 DEF KillExecutor, TypeOK, ManagerTypeOK, Status, KillerPhase
  <1>9. Present' = Present
    <2>1. status[e] # "ABSENT"
      BY <1>5, Zenon DEF Present
    <2>2. \A x \in Executors : status'[x] # "ABSENT" <=> status[x] # "ABSENT"
      BY <1>8, <2>1
    <2> QED
      BY <2>2, Zenon DEF Present
  <1>10. TypeOK'
    BY <1>7, <1>8, Zenon DEF TypeOK
  <1>11. ASSUME NEW x \in Executors
         PROVE  ExecutorTracked(x)'
    <2>1. ExecutorTracked(x)
      BY <1>2, Zenon
    <2>2. CASE x = e
      <3>1. status[e] # "KILLING" /\ status[e] # "ABSENT"
        BY <1>5, <2>1, <2>2 DEF ExecutorTracked, Present
      <3> QED
        BY <1>1, <1>5, <1>7, <1>8, <1>9, <2>1, <2>2, <3>1 DEF ExecutorTracked
    <2>3. CASE x # e
      BY <1>7, <1>8, <1>9, <2>1, <2>3, Zenon DEF ExecutorTracked
    <2> QED
      BY <2>2, <2>3, Zenon
  <1>12. ASSUME NEW c \in DOMAIN parents
         PROVE  CommandTracked(c)'
    <2>1. CommandTracked(c) /\ c \in Executors /\ parents[c] \subseteq Executors
      BY <1>3, Zenon DEF CommandTracked, TypeOK
    <2>2. \A p \in Executors : Completed(p)' <=> Completed(p)
      <3>1. killer'[e] # "done"
        BY <1>8
      <3>2. killer[e] # "done"
        BY <1>5
      <3> QED
        BY <1>7, <1>8, <1>9, <3>1, <3>2, Zenon DEF Completed
    <2>3. Begun(c)' <=> Begun(c) \/ c = e
      <3>1. killer'[e] # "none"
        BY <1>8
      <3> QED
        BY <1>1, <1>7, <1>8, <1>9, <2>1, <3>1, Zenon DEF Begun
    <2>4. c \in DOMAIN config \/ c \in Present \/ killer'[c] = "done"
      BY <1>5, <1>8, <2>1, Zenon DEF CommandTracked
    <2> QED
      BY <1>1, <1>4, <1>7, <1>9, <2>1, <2>2, <2>3, <2>4, Zenon DEF CommandTracked
  <1>13. CommandsTracked'
    BY <1>7, <1>9, <1>12, Zenon DEF CommandsTracked
  <1>14. Acyclic(parents)' /\ NoSharedBundles' /\ (Continued => Continued')
    BY <1>7, <1>9, Zenon DEF Acyclic, NoSharedBundles, Continued
  <1>15. phase \in {"launching", "executing"}
    BY <1>1, CommandsUnderWay, Zenon
  <1>16. ExecutorsTracked'
    BY <1>11, Zenon DEF ExecutorsTracked
  <1> HIDE DEF IInv
  <1> QED
    BY <1>7, <1>10, <1>13, <1>14, <1>15, <1>16, CommandStep, Zenon

LEMMA ContinueKillIInv ==
  ASSUME IInv, NEW e \in Executors, ContinueKill(e)
  PROVE  IInv'
  <1>1. killer[e] = "notified" /\ UNCHANGED commandVars
    BY Zenon DEF ContinueKill, KillerWakes
  <1>2. /\ ManagerTypeOK' /\ waiting_to_be_killed' = waiting_to_be_killed
        /\ \/ status'[e] = "KILLING" /\ killer'[e] = "shutdown"
           \/ status'[e] = status[e] /\ killer'[e] = "waiting"
        /\ \A x \in Executors : x # e => status'[x] = status[x] /\ killer'[x] = killer[x]
    BY DEF IInv, ContinueKill, KillerWakes, TypeOK, ManagerTypeOK, Status, KillerPhase
  <1>3. \A x \in Executors : ExecutorTracked(x)
    BY Zenon DEF IInv, ExecutorsTracked
  <1>4. status[e] # "ABSENT" /\ status[e] # "KILLING"
    BY <1>1, <1>3 DEF ExecutorTracked
  <1>5. Present' = Present
    <2>1. \A x \in Executors : status'[x] # "ABSENT" <=> status[x] # "ABSENT"
      BY <1>2, <1>4
    <2> QED
      BY <2>1, Zenon DEF Present
  <1>6. ASSUME NEW x \in Executors
        PROVE  ExecutorTracked(x)'
    <2>1. ExecutorTracked(x)
      BY <1>3, Zenon
    <2>2. CASE x = e
      BY <1>1, <1>2, <1>4, <1>5, <2>1, <2>2 DEF ExecutorTracked, commandVars
    <2>3. CASE x # e
      BY <1>1, <1>2, <1>5, <2>1, <2>3, Zenon DEF ExecutorTracked, commandVars
    <2> QED
      BY <2>2, <2>3, Zenon
  <1>7. \A x \in Executors : /\ killer'[x] = "none" <=> killer[x] = "none"
                             /\ killer'[x] = "done" <=> killer[x] = "done"
    BY <1>1, <1>2
  <1>8. ExecutorsTracked'
    BY <1>6, Zenon DEF ExecutorsTracked
  <1> QED
    BY <1>1, <1>2, <1>5, <1>7, <1>8, QuietStep, Zenon

\* The engine takes an idle executor for a batch or returns it.
LEMMA EngineIInv ==
  ASSUME IInv, NEW e \in Executors, EngineTakes(e) \/ EngineReturns(e)
  PROVE  IInv'
  <1>1. /\ status[e] \in {"IDLE", "EXECUTING"} /\ status'[e] \in {"IDLE", "EXECUTING"}
        /\ ManagerTypeOK' /\ waiting_to_be_killed' = waiting_to_be_killed
        /\ \A x \in Executors : x # e => status'[x] = status[x]
        /\ \A x \in Executors : \/ killer'[x] = killer[x]
                                \/ killer[x] = "waiting" /\ killer'[x] = "notified"
        /\ UNCHANGED commandVars
    <2>1. CASE EngineTakes(e)
      BY <2>1 DEF IInv, EngineTakes, TypeOK, ManagerTypeOK, Status, KillerPhase
    <2>2. CASE EngineReturns(e)
      BY <2>2 DEF IInv, EngineReturns, TypeOK, ManagerTypeOK, Status, KillerPhase, Notified
    <2> QED
      BY <2>1, <2>2, Zenon
  <1>2. Present' = Present
    <2>1. \A x \in Executors : status'[x] # "ABSENT" <=> status[x] # "ABSENT"
      BY <1>1
    <2> QED
      BY <2>1, Zenon DEF Present
  <1>3. \A x \in Executors : ExecutorTracked(x)
    BY Zenon DEF IInv, ExecutorsTracked
  <1>4. ASSUME NEW x \in Executors
        PROVE  ExecutorTracked(x)'
    <2>1. /\ config' = config /\ launching' = launching /\ bundle_ids' = bundle_ids
          /\ ExecutorTracked(x)
      BY <1>1, <1>3, Zenon DEF commandVars
    <2>2. /\ status'[x] \in {"ABSENT", "IDLE", "EXECUTING", "KILLING"}
          /\ status'[x] = "KILLING" <=> status[x] = "KILLING"
          /\ status'[x] = "ABSENT" <=> status[x] = "ABSENT"
      BY <1>1, <2>1 DEF ExecutorTracked
    <2> QED
      BY <1>1, <1>2, <2>1, <2>2 DEF ExecutorTracked
  <1>5. \A x \in Executors : /\ killer'[x] = "none" <=> killer[x] = "none"
                             /\ killer'[x] = "done" <=> killer[x] = "done"
    BY <1>1
  <1>6. ExecutorsTracked'
    BY <1>4, Zenon DEF ExecutorsTracked
  <1> QED
    BY <1>1, <1>2, <1>5, <1>6, QuietStep, Zenon

LEMMA EndKillIInv ==
  ASSUME IInv, NEW e \in Executors, EndKill(e)
  PROVE  IInv'
  <1> USE DEF IInv
  <1>1. /\ killer[e] = "shutdown" /\ status' = [status EXCEPT ![e] = "ABSENT"]
        /\ waiting_to_be_killed' = waiting_to_be_killed \ {e}
        /\ killer' = [killer EXCEPT ![e] = "done"]
        /\ NotifyChildren(e, started)
        /\ config' = config /\ launching' = launching /\ bundle_ids' = bundle_ids /\ phase' = phase
    BY Zenon DEF EndKill, ShutdownDone
  <1>2. \A x \in Executors : ExecutorTracked(x)
    BY Zenon DEF ExecutorsTracked
  <1>3. \A c \in DOMAIN parents : CommandTracked(c)
    BY Zenon DEF CommandsTracked
  <1>4. e \notin DOMAIN config /\ e \in Present /\ e \notin launching
    <2>1. status[e] = "KILLING" /\ e \notin DOMAIN config /\ e \notin launching
      BY <1>1, <1>2 DEF ExecutorTracked
    <2> QED
      BY <2>1 DEF Present
  <1>5. /\ status'[e] = "ABSENT" /\ killer'[e] = "done"
        /\ \A x \in Executors : x # e => status'[x] = status[x] /\ killer'[x] = killer[x]
    BY <1>1 DEF TypeOK, ManagerTypeOK
  <1>6. Present' = Present \ {e}
    BY <1>5 DEF Present
  <1>7. /\ DOMAIN parents' = DOMAIN parents
        /\ \A c \in DOMAIN parents :
            /\ parents'[c] = parents[c] \ {e}
            /\ c \in started' <=> c \in started \/ parents[c] = {e}
        /\ started' \subseteq DOMAIN parents
        /\ Acyclic(parents)'
    BY <1>1, NotifyFacts, Zenon
  <1>8. TypeOK'
    <2>1. ManagerTypeOK'
      BY <1>1 DEF TypeOK, ManagerTypeOK, Status, KillerPhase
    <2>2. \A c \in DOMAIN parents : c \in Executors /\ parents'[c] \subseteq Executors
      BY <1>7, Zenon DEF TypeOK
    <2> QED
      BY <1>1, <1>7, <2>1, <2>2, Zenon DEF TypeOK
  <1>9. ASSUME NEW x \in Executors
        PROVE  ExecutorTracked(x)'
    <2>1. ExecutorTracked(x)
      BY <1>2, Zenon
    <2>2. CASE x = e
      <3>1. \E f \in DOMAIN config : e <= f
        BY <1>4, <2>1, <2>2, Zenon DEF ExecutorTracked
      <3> QED
        BY <1>1, <1>4, <1>5, <1>6, <2>2, <3>1 DEF ExecutorTracked
    <2>3. CASE x # e
      BY <1>1, <1>5, <1>6, <2>1, <2>3, Zenon DEF ExecutorTracked
    <2> QED
      BY <2>2, <2>3, Zenon
  <1>10. ASSUME NEW c \in DOMAIN parents
         PROVE  CommandTracked(c)'
    <2>1. CommandTracked(c) /\ c \in Executors /\ parents[c] \subseteq Executors
      BY <1>3, Zenon DEF CommandTracked, TypeOK
    <2>2. \A p \in Executors \ {e} : Completed(p)' <=> Completed(p)
      BY <1>1, <1>5, <1>6, Zenon DEF Completed
    <2>3. Begun(c)' <=> Begun(c)
      <3>1. CASE c = e
        <4>1. killer[e] # "none" /\ killer'[e] # "none"
          BY <1>1, <1>5
        <4> QED
          BY <1>1, <1>4, <3>1, <4>1, Zenon DEF Begun
      <3>2. CASE c # e
        BY <1>1, <1>5, <1>6, <2>1, <3>2, Zenon DEF Begun
      <3> QED
        BY <3>1, <3>2, Zenon
    <2>4. parents'[c] = {} <=> c \in started' \/ Begun(c)'
      <3>1. parents[c] = {} <=> c \in started \/ Begun(c)
        BY <2>1, Zenon DEF CommandTracked
      <3>2. parents'[c] = {} <=> parents[c] = {} \/ parents[c] = {e}
        BY <1>7, Zenon
      <3> QED
        BY <1>7, <2>3, <3>1, <3>2, Zenon
    <2>5. c \in started' => ~Begun(c)'
      BY <1>7, <2>1, <2>3, Zenon DEF CommandTracked
    <2>6. c \in DOMAIN config /\ ~Begun(c)' =>
            \A k \in Present' \ DOMAIN config : bundle_ids[k] \cap config[c] # {} => k \in parents'[c]
      BY <1>6, <1>7, <2>1, <2>3, Zenon DEF CommandTracked
    <2>7. c \in DOMAIN config \/ c \in Present' \/ killer'[c] = "done"
      BY <1>5, <1>6, <2>1, Zenon DEF CommandTracked
    <2>8. /\ parents'[c] \subseteq DOMAIN parents
          /\ \A p \in parents'[c] : ~Completed(p)' /\ (p \in DOMAIN config <=> c \notin DOMAIN config)
      BY <1>7, <2>1, <2>2, Zenon DEF CommandTracked
    <2> QED
      BY <1>1, <1>7, <2>1, <2>4, <2>5, <2>6, <2>7, <2>8, Zenon DEF CommandTracked
  <1>11. CommandsTracked'
    BY <1>1, <1>4, <1>6, <1>7, <1>10, Zenon DEF CommandsTracked
  <1>12. ASSUME Continued
         PROVE  Continued'
    <2>1. CASE Present \cap DOMAIN config # {}
      BY <1>1, <1>4, <1>6, <2>1, Zenon DEF Continued
    <2>2. CASE \E k \in DOMAIN parents \ DOMAIN config : parents[k] # {}
      <3>1. PICK k \in DOMAIN parents \ DOMAIN config : parents[k] # {}
        BY <2>2, Zenon
      <3>2. e \notin parents[k]
        BY <1>3, <1>4, <3>1, Zenon DEF CommandTracked
      <3>3. k \in DOMAIN parents' \ DOMAIN config' /\ parents'[k] # {}
        BY <1>1, <1>7, <3>1, <3>2, Zenon
      <3> QED
        BY <3>3, Zenon DEF Continued
    <2> QED
      BY <1>12, <2>1, <2>2, Zenon DEF Continued
  <1>13. NoSharedBundles'
    BY <1>1, <1>6, Zenon DEF NoSharedBundles
  <1>14. phase \in {"launching", "executing"}
    BY <1>1, CommandsUnderWay, Zenon
  <1>15. ExecutorsTracked'
    BY <1>9, Zenon DEF ExecutorsTracked
  <1> HIDE DEF IInv
  <1> QED
    BY <1>1, <1>7, <1>8, <1>11, <1>12, <1>13, <1>14, <1>15, CommandStep, Zenon

LEMMA MinFact ==
  ASSUME NEW S \in SUBSET Nat, S # {}
  PROVE  \E x \in S : \A y \in S : ~(y < x)
  <1> DEFINE R == OpToRel(<, Nat)
  <1>1. IsWellFoundedOn(R, Nat)
    BY NatLessThanWellFounded DEF OpToRel
  <1>2. \A y, z \in Nat : y < z => <<y, z>> \in R
    BY DEF OpToRel
  <1> HIDE DEF R
  <1>3. PICK x \in S : \A y \in S : ~(<<y, x>> \in R)
    BY <1>1, WFMin, Zenon
  <1> QED
    BY <1>2, <1>3, Zenon

\* When no command is under way every command has completed: of the others one
\* would wait for none.
LEMMA AllCompleted ==
  ASSUME IInv, started = {}, Executing = {}, NEW c \in DOMAIN parents
  PROVE  Completed(c)
  <1> USE DEF IInv
  <1>1. SUFFICES ASSUME ~Completed(c)
                 PROVE  FALSE
    OBVIOUS
  <1>2. PICK rank \in [DOMAIN parents -> Nat] :
          \A x \in DOMAIN parents : \A p \in parents[x] \cap DOMAIN parents : rank[p] < rank[x]
    BY Zenon DEF Acyclic
  <1> DEFINE open == {x \in DOMAIN parents : ~Completed(x)}
             S == {rank[x] : x \in open}
  <1>3. S \in SUBSET Nat /\ S # {}
    BY <1>1, <1>2
  <1>4. PICK r \in S : \A y \in S : ~(y < r)
    <2> HIDE DEF S
    <2> QED
      BY <1>3, MinFact, Zenon
  <1>5. PICK x \in open : r = rank[x]
    BY Zenon
  <1>6. x \in DOMAIN parents /\ ~Completed(x) /\ CommandTracked(x) /\ x \in Executors
    BY Zenon DEF CommandsTracked, TypeOK
  <1>7. ExecutorTracked(x)
    BY <1>6, Zenon DEF ExecutorsTracked
  <1>8. CASE parents[x] # {}
    <2>1. PICK p : p \in parents[x]
      BY <1>8, Zenon
    <2>2. p \in open
      BY <1>6, <2>1, Zenon DEF CommandTracked
    <2>3. rank[p] < rank[x] /\ rank[p] \in S
      BY <1>2, <1>6, <2>1, <2>2, Zenon
    <2> QED
      BY <1>4, <1>5, <2>3, Zenon
  <1>9. CASE parents[x] = {}
    <2>1. Begun(x)
      BY <1>6, <1>9, Zenon DEF CommandTracked
    <2>2. CASE x \in DOMAIN config
      BY <1>6, <2>1, <2>2, Zenon DEF Begun, Completed, Executing
    <2>3. CASE x \notin DOMAIN config
      <3>1. killer[x] \in KillerPhase /\ killer[x] \notin {"waiting", "notified", "shutdown"}
        BY <1>6 DEF Executing, TypeOK, ManagerTypeOK
      <3> QED
        BY <1>6, <2>1, <2>3, <3>1 DEF Begun, Completed, KillerPhase
    <2> QED
      BY <2>2, <2>3, Zenon
  <1> QED
    BY <1>8, <1>9, Zenon

-----------------------------------------------------------------------------
(* The initial configuration.                                              *)

\* The step of get_initial_config for executor k - 1, from configuration c.
Node(k, c) ==
    LET available(n) == NodeBundles[n] \ UsedBundles(c)
        assigned(n)  == Cardinality(NodeBundles[n] \cap UsedBundles(c))
        enough       == {n \in Nodes : Cardinality(available(n)) >= NumGpus[k]}
    IN  CHOOSE n \in enough : \A m \in enough :
            \/ assigned(n) < assigned(m)
            \/ assigned(n) = assigned(m) /\ n <= m

Extended(k, c) ==
    [e \in 0 .. k - 1 |->
        IF e = k - 1 THEN Smallest(NumGpus[k], NodeBundles[Node(k, c)] \ UsedBundles(c)) ELSE c[e]]

\* What is true of 0 and of n + 1 whenever it is of n is true of every number.
LEMMA NatInduction1 ==
  ASSUME NEW S, 0 \in S, \A n \in Nat : n \in S => n + 1 \in S
  PROVE  \A n \in Nat : n \in S
  <1>1. SUFFICES ASSUME NEW m \in Nat, m \notin S
                 PROVE  FALSE
    OBVIOUS
  <1> DEFINE T == Nat \ S
  <1>2. T \in SUBSET Nat /\ T # {}
    BY <1>1
  <1> HIDE DEF T
  <1>3. PICK x \in T : \A y \in T : ~(y < x)
    BY <1>2, MinFact, Zenon
  <1>4. x \in Nat /\ x \notin S
    BY DEF T
  <1>5. x # 0 /\ x - 1 \in Nat /\ x - 1 + 1 = x /\ x - 1 < x
    BY <1>4
  <1>6. x - 1 \in T
    BY <1>4, <1>5 DEF T
  <1> QED
    BY <1>3, <1>5, <1>6

\* The recursive definition has a solution.
LEMMA InitialConfigUnfolds ==
  ASSUME NEW N, N = Len(NumGpus)
  PROVE  /\ N \in Nat
         /\ initial_config = [k \in 0 .. N |-> IF k = 0 THEN NoCommands
                                               ELSE Extended(k, initial_config[k - 1])]
  <1>1. N \in Nat
    BY LayoutAssumption
  <1> DEFINE Solution(f, m) == f = [k \in 0 .. m |-> IF k = 0 THEN NoCommands ELSE Extended(k, f[k - 1])]
             S == {m \in Nat : \E f : Solution(f, m)}
  <1>2. 0 \in S
    <2> DEFINE f == [k \in 0 .. 0 |-> NoCommands]
    <2>1. Solution(f, 0)
      OBVIOUS
    <2> QED
      BY <2>1, Zenon
  <1>3. ASSUME NEW n \in Nat, n \in S
        PROVE  n + 1 \in S
    <2>1. PICK f : Solution(f, n)
      BY <1>3
    <2> DEFINE g == [k \in 0 .. n + 1 |-> IF k = n + 1 THEN Extended(n + 1, f[n]) ELSE f[k]]
    <2>2. ASSUME NEW k \in 0 .. n + 1
          PROVE  g[k] = IF k = 0 THEN NoCommands ELSE Extended(k, g[k - 1])
      <3>1. CASE k = n + 1
        <4>1. k # 0 /\ k - 1 = n /\ n \in 0 .. n + 1 /\ n # n + 1
          BY <3>1
        <4>2. g[k - 1] = f[n] /\ g[k] = Extended(n + 1, f[n])
          BY <3>1, <4>1, Zenon
        <4> HIDE DEF g
        <4> QED
          BY <3>1, <4>1, <4>2, Zenon
      <3>2. CASE k # n + 1
        <4>1. k \in 0 .. n /\ g[k] = f[k]
          BY <3>2
        <4>2. f[k] = IF k = 0 THEN NoCommands ELSE Extended(k, f[k - 1])
          BY <2>1, <4>1, Zenon
        <4>3. k # 0 => k - 1 \in 0 .. n + 1 /\ k - 1 # n + 1
          BY <4>1
        <4>4. k # 0 => g[k - 1] = f[k - 1]
          BY <4>3, Zenon
        <4> HIDE DEF g
        <4> QED
          BY <4>1, <4>2, <4>4, Zenon
      <3> QED
        BY <3>1, <3>2, Zenon
    <2>3. g = [k \in 0 .. n + 1 |-> g[k]]
      BY Zenon
    <2> HIDE DEF g
    <2>4. Solution(g, n + 1)
      BY <2>2, <2>3, Zenon
    <2> QED
      BY <2>4
  <1> HIDE DEF S
  <1>4. N \in S
    BY <1>1, <1>2, <1>3, NatInduction1, Zenon
  <1>5. \E f : Solution(f, N)
    BY <1>4, Zenon DEF S
  <1>6. initial_config = CHOOSE f : Solution(f, N)
    BY Zenon DEF initial_config, Extended, Node
  <1>7. Solution(initial_config, N)
    <2> HIDE DEF Solution
    <2> QED
      BY <1>5, <1>6, Zenon
  <1> QED
    BY <1>1, <1>7, Zenon

\* There is a node to choose whenever one has enough bundles.
LEMMA NodeFact ==
  ASSUME NEW k, NEW c,
         \E n \in Nodes : Cardinality(NodeBundles[n] \ UsedBundles(c)) >= NumGpus[k]
  PROVE  /\ Node(k, c) \in Nodes
         /\ Cardinality(NodeBundles[Node(k, c)] \ UsedBundles(c)) >= NumGpus[k]
  <1> DEFINE available(n) == NodeBundles[n] \ UsedBundles(c)
             assigned(n)  == Cardinality(NodeBundles[n] \cap UsedBundles(c))
             enough       == {n \in Nodes : Cardinality(available(n)) >= NumGpus[k]}
             best(n) == \A m \in enough : \/ assigned(n) < assigned(m)
                                          \/ assigned(n) = assigned(m) /\ n <= m
             A == {assigned(n) : n \in enough}
  <1>1. enough \subseteq Nodes /\ enough # {} /\ Nodes \subseteq Nat
    <2>1. enough \subseteq Nodes /\ enough # {}
      BY Zenon
    <2>2. Nodes \subseteq Nat
      BY LayoutAssumption DEF Nodes
    <2> QED
      BY <2>1, <2>2, Zenon
  <1>2. \A n \in enough : assigned(n) \in Nat
    <2>1. ASSUME NEW n \in enough
          PROVE  assigned(n) \in Nat
      <3>1. IsFiniteSet(NodeBundles[n]) /\ NodeBundles[n] \cap UsedBundles(c) \subseteq NodeBundles[n]
        BY <1>1, LayoutAssumption, Zenon
      <3> QED
        BY <3>1, FS_Subset, FS_CardinalityType, Zenon
    <2> QED
      BY <2>1, Zenon
  <1> HIDE DEF assigned, enough
  <1>3. PICK a \in A : \A x \in A : ~(x < a)
    <2>1. A \in SUBSET Nat /\ A # {}
      BY <1>1, <1>2, Zenon
    <2> HIDE DEF A
    <2> QED
      BY <2>1, MinFact, Zenon
  <1> DEFINE B == {n \in enough : assigned(n) = a}
  <1>4. PICK n \in B : \A m \in B : ~(m < n)
    <2>1. B \in SUBSET Nat /\ B # {}
      BY <1>1
    <2> HIDE DEF B
    <2> QED
      BY <2>1, MinFact, Zenon
  <1>5. n \in enough /\ best(n)
    <2>1. SUFFICES ASSUME NEW m \in enough
                   PROVE  assigned(n) < assigned(m) \/ (assigned(n) = assigned(m) /\ n <= m)
      BY Zenon
    <2>2. assigned(n) = a /\ n \in Nat /\ m \in Nat /\ assigned(m) \in Nat /\ a \in Nat
      BY <1>1, <1>2
    <2>3. ~(assigned(m) < a)
      BY <1>3, Zenon
    <2>4. assigned(m) = a => ~(m < n)
      BY <1>4, Zenon
    <2> QED
      BY <2>2, <2>3, <2>4
  <1>6. Node(k, c) = CHOOSE x \in enough : best(x)
    BY Zenon DEF Node, enough, assigned
  <1> HIDE DEF best
  <1>7. Node(k, c) \in enough
    BY <1>5, <1>6, Zenon
  <1> QED
    BY <1>7, Zenon DEF enough

LEMMA SmallestFact ==
  ASSUME NEW S \in SUBSET Nat, IsFiniteSet(S), NEW k \in Nat \ {0}, Cardinality(S) >= k
  PROVE  Smallest(k, S) \subseteq S /\ Smallest(k, S) # {}
  <1>1. S # {}
    <2>1. Cardinality({}) = 0 /\ Cardinality(S) \in Nat
      BY FS_EmptySet, FS_CardinalityType
    <2>2. S = {} => Cardinality(S) = 0
      BY <2>1, Zenon
    <2> QED
      BY <2>1, <2>2
  <1>2. PICK b \in S : \A a \in S : ~(a < b)
    BY <1>1, MinFact, Zenon
  <1>3. {a \in S : a < b} = {}
    BY <1>2, Zenon
  <1>4. Cardinality({a \in S : a < b}) = 0
    BY <1>3, FS_EmptySet, Zenon
  <1>5. Cardinality({a \in S : a < b}) < k
    BY <1>4
  <1> QED
    BY <1>5, Zenon DEF Smallest

\* get_initial_config places every executor on free bundles of one node.
LEMMA InitialConfigIsConfig ==
  IsConfig(get_initial_config)
  <1> DEFINE N == Len(NumGpus)
             Placed(k) == IsConfig(initial_config[k]) /\ DOMAIN initial_config[k] = 0 .. k - 1
             S == {k \in Nat : k <= N => Placed(k)}
  <1>1. /\ N \in Nat
        /\ initial_config = [k \in 0 .. N |-> IF k = 0 THEN NoCommands
                                              ELSE Extended(k, initial_config[k - 1])]
    BY InitialConfigUnfolds, Zenon
  <1>2. 0 \in S
    <2>1. initial_config[0] = NoCommands
      BY <1>1
    <2>2. DOMAIN NoCommands = {} /\ NoCommands = [e \in DOMAIN NoCommands |-> NoCommands[e]]
      BY DEF NoCommands
    <2>3. 0 .. 0 - 1 = {}
      OBVIOUS
    <2>4. Placed(0)
      BY <2>1, <2>2, <2>3, Zenon DEF IsConfig
    <2> QED
      BY <2>4
  <1>3. ASSUME NEW m \in Nat, m \in S
        PROVE  m + 1 \in S
    <2> DEFINE k == m + 1
               c == initial_config[m]
               free == NodeBundles[Node(k, c)] \ UsedBundles(c)
               new == Smallest(NumGpus[k], free)
               next == initial_config[k]
    <2>1. SUFFICES ASSUME k <= N
                   PROVE  Placed(k)
      OBVIOUS
    <2>2. /\ k \in 1 .. N /\ k \in 0 .. N /\ k - 1 = m /\ m <= N /\ k # 0
          /\ 0 .. k - 1 = 0 .. m /\ m \in 0 .. m /\ 0 .. m = (0 .. m - 1) \cup {m} /\ m \notin 0 .. m - 1
      BY <1>1, <2>1
    <2>3. IsConfig(c) /\ DOMAIN c = 0 .. m - 1
      BY <1>3, <2>2, Zenon
    <2>4. next = Extended(k, c)
      BY <1>1, <2>2, Zenon
    <2>5. /\ DOMAIN next = 0 .. m /\ next = [e \in DOMAIN next |-> next[e]]
          /\ next[m] = new /\ \A e \in DOMAIN c : next[e] = c[e]
      <3>1. next = [e \in 0 .. m |-> IF e = m THEN new ELSE c[e]]
        BY <2>2, <2>4, Zenon DEF Extended
      <3> HIDE DEF next, new, c
      <3> QED
        BY <2>2, <2>3, <3>1
    <2>6. PICK n \in Nodes : n = Node(k, c) /\ Cardinality(free) >= NumGpus[k]
      <3>1. \E n \in Nodes : Cardinality(NodeBundles[n] \ UsedBundles(c)) >= NumGpus[k]
        BY <2>2, InitialAssumption, Zenon
      <3> HIDE DEF k, c
      <3> QED
        BY <3>1, NodeFact, Zenon
    <2>7. new \subseteq free /\ new # {}
      <3>1. NumGpus[k] \in Nat \ {0}
        <4>1. NumGpus \in Seq(Degrees) /\ Degrees \subseteq Nat \ {0}
          BY LayoutAssumption, Zenon
        <4>2. NumGpus[k] \in Degrees
          BY <2>2, <4>1
        <4> QED
          BY <4>1, <4>2, Zenon
      <3>2. free \in SUBSET Nat /\ IsFiniteSet(free)
        <4>1. NodeBundles[n] \in SUBSET Nat /\ IsFiniteSet(NodeBundles[n])
          BY LayoutAssumption DEF Nodes
        <4> HIDE DEF k, c
        <4> QED
          BY <2>6, <4>1, FS_Subset, Zenon
      <3> HIDE DEF k, free
      <3> QED
        BY <2>6, <3>1, <3>2, SmallestFact, Zenon
    <2>8. /\ new \subseteq NodeBundles[n]
          /\ \A e \in DOMAIN c : c[e] \cap new = {}
      <3> HIDE DEF k, c, new
      <3> QED
        BY <2>6, <2>7, Zenon DEF UsedBundles
    <2>9. 0 .. m \subseteq Executors
      BY <2>1, <1>1, LayoutAssumption
    <2> HIDE DEF next, new, c
    <2>10. \A e \in DOMAIN next : e \in DOMAIN c \/ e = m
      <3>1. DOMAIN next = DOMAIN c \cup {m}
        BY <2>2, <2>3, <2>5, Zenon
      <3> QED
        BY <3>1, Zenon
    <2>11. IsConfig(next)
      <3>1. \A e \in DOMAIN next : next[e] # {} /\ \E i \in Nodes : next[e] \subseteq NodeBundles[i]
        BY <2>3, <2>5, <2>7, <2>8, <2>10, Zenon DEF IsConfig
      <3>2. \A e, f \in DOMAIN next : e # f => next[e] \cap next[f] = {}
        BY <2>3, <2>5, <2>8, <2>10, Zenon DEF IsConfig
      <3> QED
        BY <2>5, <2>9, <3>1, <3>2, Zenon DEF IsConfig
    <2> QED
      BY <2>2, <2>5, <2>11, Zenon DEF next
  <1> HIDE DEF S
  <1>4. N \in S
    BY <1>1, <1>2, <1>3, NatInduction1, Zenon
  <1>5. Placed(N)
    BY <1>1, <1>4 DEF S
  <1> QED
    BY <1>5, Zenon DEF get_initial_config

-----------------------------------------------------------------------------
(* The steps of run_reconfigure_loop.                                      *)

\* The initial configuration leaves no bundle unused.
FullStart == UsedBundles(get_initial_config) = Bundles

LEMMA BundlesNonempty ==
  ASSUME NEW c, UsedBundles(c) = Bundles
  PROVE  DOMAIN c # {}
  <1>1. PICK n \in Nodes : TRUE
    BY LayoutAssumption, Zenon
  <1>2. PICK b : b \in NodeBundles[n]
    BY LayoutAssumption, Zenon
  <1>3. b \in UsedBundles(c)
    BY <1>2, Zenon DEF Bundles
  <1> QED
    BY <1>3, Zenon DEF UsedBundles

LEMMA InitialReconfigIInv ==
  ASSUME IInv, FullStart, InitialReconfig
  PROVE  IInv'
  <1>1. /\ phase = "startup" /\ config' = get_initial_config /\ phase' = "launching"
        /\ ExecuteDummy(ParallelCommand(config, get_initial_config))
        /\ UNCHANGED <<managerVars, launching, bundle_ids>>
    BY Zenon DEF InitialReconfig
  <1>2. DOMAIN config = {} /\ Present = DOMAIN config /\ launching = {}
    BY <1>1 DEF IInv, PhaseTracked
  <1>3. IsConfig(get_initial_config)
    BY InitialConfigIsConfig, Zenon
  <1>4. IsPlan(config, get_initial_config)
    BY <1>2, <1>3, Zenon DEF IsPlan, FullStart
  <1>5. IsGraph(ParallelCommand(config, get_initial_config), config, get_initial_config)
    BY <1>2, <1>3, ParallelIsGraph, Zenon DEF IsConfig
  <1>6. /\ NoSharedBundles' /\ IsConfig(config)' /\ ExecutorsTracked'
        /\ CommandsTracked' /\ Acyclic(parents)'
        /\ phase' \in {"startup", "launching", "sleep", "executing", "dead"} => TypeOK'
    BY <1>1, <1>2, <1>4, <1>5, InstallTracked
  <1>7. PhaseTracked'
    BY <1>1 DEF PhaseTracked, FullStart, UsedBundles
  <1>8. TypeOK'
    BY <1>1, <1>6, Zenon
  <1> QED
    BY <1>6, <1>7, <1>8, Zenon DEF IInv

LEMMA PlansArePlans ==
  ASSUME NEW c, IsConfig(c), UsedBundles(c) = Bundles, NEW new \in Plans(c),
         DOMAIN new \subseteq Executors
  PROVE  IsPlan(c, new)
  <1>1. CASE new = c
    BY <1>1, Zenon DEF IsPlan
  <1>2. CASE \E P \in MinimumMovement(c) : new = ConfigFor(c, P)
    <2>1. PICK P \in Layouts : new = ConfigFor(c, P)
      BY <1>2, Zenon DEF MinimumMovement
    <2> QED
      BY <2>1, BundlesNonempty, ConfigForIsPlan, Zenon
  <1> QED
    BY <1>1, <1>2, Zenon DEF Plans

\* Either the plan is skipped or its graph is installed; an executor goes on in both
\* cases.
LEMMA ReconfigIInv ==
  ASSUME IInv, Reconfig
  PROVE  IInv'
  <1>1. /\ phase = "sleep" /\ phase' = "executing"
        /\ UNCHANGED <<managerVars, launching, bundle_ids>>
    BY Zenon DEF Reconfig
  <1>2. PICK new \in Plans(config) :
          /\ DOMAIN new \subseteq Executors
          /\ \E stages \in StageOrders(config, new) :
              IF FullKill(config, SequentialCommand(config, new, stages))
              THEN ExecuteDummy(NoCommands) /\ UNCHANGED config
              ELSE ExecuteDummy(SequentialCommand(config, new, stages)) /\ config' = new
    BY Zenon DEF Reconfig
  <1>3. PICK stages \in StageOrders(config, new) :
          IF FullKill(config, SequentialCommand(config, new, stages))
          THEN ExecuteDummy(NoCommands) /\ UNCHANGED config
          ELSE ExecuteDummy(SequentialCommand(config, new, stages)) /\ config' = new
    BY <1>2, Zenon
  <1> DEFINE cmd == SequentialCommand(config, new, stages)
  <1>4. /\ IsConfig(config) /\ UsedBundles(config) = Bundles
        /\ Present = DOMAIN config /\ launching = {} /\ DOMAIN config # {}
    <2>1. IsConfig(config) /\ UsedBundles(config) = Bundles /\ Present = DOMAIN config /\ launching = {}
      BY <1>1 DEF IInv, PhaseTracked
    <2> QED
      BY <2>1, BundlesNonempty, Zenon
  <1>5. IsPlan(config, new)
    BY <1>2, <1>4, PlansArePlans, Zenon
  <1>6. Present' = Present
    BY <1>1, Zenon DEF Present, managerVars
  <1>7. ASSUME NEW to, IsPlan(config, to), NEW graph, IsGraph(graph, config, to),
               ExecuteDummy(graph), config' = to, Continued'
        PROVE  IInv'
    <2>1. /\ NoSharedBundles' /\ IsConfig(config)' /\ ExecutorsTracked'
          /\ CommandsTracked' /\ Acyclic(parents)'
          /\ phase' \in {"startup", "launching", "sleep", "executing", "dead"} => TypeOK'
      BY <1>1, <1>4, <1>7, InstallTracked
    <2>2. TypeOK'
      BY <1>1, <2>1, Zenon
    <2>3. UsedBundles(config)' = Bundles
      BY <1>7, Zenon DEF IsPlan, UsedBundles
    <2>4. PhaseTracked'
      BY <1>1, <1>7, <2>3 DEF PhaseTracked
    <2> QED
      BY <2>1, <2>2, <2>4, Zenon DEF IInv
  <1>8. CASE FullKill(config, cmd)
    <2>1. ExecuteDummy(NoCommands) /\ config' = config
      BY <1>3, <1>8, Zenon
    <2>2. IsPlan(config, config)
      BY <1>4, Zenon DEF IsPlan
    <2>3. IsGraph(NoCommands, config, config)
      <3>1. DOMAIN NoCommands = {} /\ Kills(config, config) = {} /\ Launches(config, config) = {}
        BY DEF NoCommands, Kills, Launches
      <3>2. [c \in {} |-> 0] \in [DOMAIN NoCommands -> Nat]
        BY <3>1
      <3>3. Acyclic(NoCommands)
        BY <3>1, <3>2, Zenon DEF Acyclic
      <3> QED
        BY <3>1, <3>3, Zenon DEF IsGraph
    <2>4. Continued'
      BY <1>4, <1>6, <2>1, Zenon DEF Continued
    <2> QED
      BY <1>7, <2>1, <2>2, <2>3, <2>4
  <1>9. CASE ~FullKill(config, cmd)
    <2>1. ExecuteDummy(cmd) /\ config' = new
      BY <1>3, <1>9, Zenon
    <2>2. IsGraph(cmd, config, new)
      BY <1>4, <1>5, SequentialIsGraph, Zenon
    <2>3. DOMAIN config \cap DOMAIN new # {} \/ \E k \in Kills(config, new) : cmd[k] # {Dummy}
      BY <1>4, <1>5, <1>9, SequentialContinues, Zenon
    <2> HIDE DEF cmd
    <2>4. CASE DOMAIN config \cap DOMAIN new # {}
      <3>1. Continued'
        BY <1>4, <1>6, <2>1, <2>4, Zenon DEF Continued
      <3> QED
        BY <1>5, <1>7, <2>1, <2>2, <3>1, Zenon
    <2>5. CASE \E k \in Kills(config, new) : cmd[k] # {Dummy}
      <3>1. PICK k \in Kills(config, new) : cmd[k] # {Dummy}
        BY <2>5, Zenon
      <3>2. k \in DOMAIN cmd /\ k \notin DOMAIN new
        BY <2>2, Zenon DEF IsGraph, Kills
      <3>3. cmd[k] # {} /\ cmd[k] \subseteq DOMAIN cmd
        BY <2>2, <3>1, <3>2, Zenon DEF IsGraph
      <3>4. DOMAIN cmd \subseteq Executors
        BY <1>4, <1>5, <2>2, Zenon DEF IsGraph, IsPlan, IsConfig, Kills, Launches
      <3>5. DOMAIN parents' = DOMAIN cmd /\ parents'[k] = cmd[k] \ {Dummy}
        BY <2>1, <3>2, Zenon DEF ExecuteDummy
      <3>6. parents'[k] # {}
        BY <3>3, <3>4, <3>5, DummyNew, Zenon
      <3>7. Continued'
        BY <2>1, <3>2, <3>5, <3>6, Zenon DEF Continued
      <3> QED
        BY <1>5, <1>7, <2>1, <2>2, <3>7, Zenon
    <2> QED
      BY <2>3, <2>4, <2>5, Zenon
  <1> QED
    BY <1>8, <1>9, Zenon

LEMMA ReconfigDoneIInv ==
  ASSUME IInv, ReconfigDone
  PROVE  IInv'
  <1> USE DEF IInv
  <1>1. /\ phase \in {"launching", "executing"} /\ started = {} /\ Executing = {} /\ phase' = "sleep"
        /\ status' = status /\ waiting_to_be_killed' = waiting_to_be_killed /\ killer' = killer
        /\ config' = config /\ parents' = parents /\ started' = started
        /\ launching' = launching /\ bundle_ids' = bundle_ids
    BY Zenon DEF ReconfigDone, managerVars
  <1>2. Present' = Present /\ launching = {}
    BY <1>1, Zenon DEF Present, Executing
  <1>3. \A c \in DOMAIN parents : Completed(c)
    BY <1>1, AllCompleted, Zenon
  <1>4. Present = DOMAIN config
    <2>1. ASSUME NEW e \in DOMAIN config, e \notin Present
          PROVE  FALSE
      <3>1. e \in DOMAIN parents
        BY <2>1, Zenon DEF CommandsTracked
      <3> QED
        BY <1>3, <2>1, <3>1, Zenon DEF Completed
    <2>2. ASSUME NEW e \in Present, e \notin DOMAIN config
          PROVE  FALSE
      <3>1. e \in DOMAIN parents
        BY <2>2, Zenon DEF CommandsTracked
      <3>2. killer[e] = "done"
        BY <1>3, <2>2, <3>1, Zenon DEF Completed
      <3>3. e \in Executors /\ status[e] # "ABSENT"
        BY Zenon DEF Present
      <3> QED
        BY <3>2, <3>3, Zenon DEF ExecutorsTracked, ExecutorTracked
    <2> QED
      BY <2>1, <2>2, Zenon
  <1>5. TypeOK'
    <2>1. ManagerTypeOK'
      BY <1>1, Zenon DEF TypeOK, ManagerTypeOK
    <2> QED
      BY <1>1, <2>1 DEF TypeOK
  <1>6. NoSharedBundles' /\ IsConfig(config)' /\ Acyclic(parents)'
    <2>1. NoSharedBundles'
      BY <1>1, <1>2, Zenon DEF NoSharedBundles
    <2>2. IsConfig(config)' /\ Acyclic(parents)'
      BY <1>1, Zenon
    <2> QED
      BY <2>1, <2>2, Zenon
  <1>7. ExecutorsTracked' /\ CommandsTracked'
    <2>1. ExecutorsTracked'
      BY <1>1, <1>2, Zenon DEF ExecutorsTracked, ExecutorTracked
    <2>2. \A c : (Completed(c)' <=> Completed(c)) /\ (Begun(c)' <=> Begun(c))
      BY <1>1, <1>2, Zenon DEF Completed, Begun
    <2>3. ASSUME NEW c \in DOMAIN parents
          PROVE  CommandTracked(c)'
      <3>1. CommandTracked(c)
        BY Zenon DEF CommandsTracked
      <3> QED
        BY <1>1, <1>2, <2>2, <3>1, Zenon DEF CommandTracked
    <2> QED
      BY <1>1, <1>2, <2>1, <2>3, Zenon DEF CommandsTracked
  <1>8. PhaseTracked'
    <2>1. UsedBundles(config) = Bundles
      BY <1>1 DEF PhaseTracked
    <2>2. UsedBundles(config)' = Bundles
      BY <1>1, <2>1, Zenon DEF UsedBundles
    <2> QED
      BY <1>1, <1>2, <1>4, <2>2 DEF PhaseTracked
  <1> QED
    BY <1>5, <1>6, <1>7, <1>8, Zenon

LEMMA NextIInv ==
  ASSUME IInv, FullStart, [Next]_vars
  PROVE  IInv'
  <1>1. CASE InitialReconfig
    BY <1>1, InitialReconfigIInv, Zenon
  <1>2. CASE Reconfig
    BY <1>2, ReconfigIInv, Zenon
  <1>3. CASE ReconfigDone
    BY <1>3, ReconfigDoneIInv, Zenon
  <1>4. ASSUME NEW e \in Executors,
               \/ BeginLaunch(e) \/ EndLaunch(e)
               \/ BeginKill(e) \/ ContinueKill(e) \/ EndKill(e)
               \/ EngineTakes(e) \/ EngineReturns(e)
        PROVE  IInv'
    BY <1>4, BeginLaunchIInv, EndLaunchIInv, BeginKillIInv, ContinueKillIInv, EndKillIInv,
       EngineIInv, Zenon
  <1>5. CASE UNCHANGED vars
    <2>1. /\ status' = status /\ waiting_to_be_killed' = waiting_to_be_killed /\ killer' = killer
          /\ UNCHANGED commandVars
      BY <1>5, Zenon DEF vars, managerVars
    <2>2. Present' = Present /\ ManagerTypeOK'
      BY <2>1, Zenon DEF Present, IInv, TypeOK, ManagerTypeOK
    <2>3. ExecutorsTracked'
      BY <2>1, <2>2, Zenon DEF commandVars, IInv, ExecutorsTracked, ExecutorTracked
    <2> QED
      BY <2>1, <2>2, <2>3, QuietStep, Zenon
  <1> QED
    BY <1>1, <1>2, <1>3, <1>4, <1>5, Zenon DEF Next

-----------------------------------------------------------------------------
(* The theorems.                                                           *)

LEMMA IInvHolds ==
  ASSUME FullStart
  PROVE  Spec => []IInv
  <1>1. Init => IInv
    BY InitIInv, Zenon
  <1>2. IInv /\ [Next]_vars => IInv'
    BY NextIInv, Zenon
  <1> QED
    BY <1>1, <1>2, PTL DEF Spec

\* If the initial layout uses every bundle, the variables of the resource manager,
\* the command graph and the registry keep their types.
THEOREM TypesKept ==
  ASSUME FullStart
  PROVE  Spec => []TypeOK
  <1>1. IInv => TypeOK
    BY Zenon DEF IInv
  <1> QED
    BY <1>1, IInvHolds, PTL

\* No bundle is held by two executors, from the construction of an executor to the
\* end of its shutdown (LaunchCommand.execute and KillCommand.execute), whatever the
\* planner chooses and in whatever order the tasks of a graph run, provided that the
\* initial layout uses every bundle.
THEOREM BundlesNeverShared ==
  ASSUME FullStart
  PROVE  Spec => []NoSharedBundles
  <1>1. IInv => NoSharedBundles
    BY Zenon DEF IInv
  <1> QED
    BY <1>1, IInvHolds, PTL

\* When the execution of a graph returns, the configuration it was built for is
\* deployed: the graph is acyclic and every command was reached.
THEOREM LayoutsDeployed ==
  ASSUME FullStart
  PROVE  Spec => []LayoutDeployed
  <1>1. ASSUME IInv
        PROVE  LayoutDeployed
    <2>1. ASSUME phase = "sleep"
          PROVE  /\ Present = DOMAIN config
                 /\ \A e \in Present : bundle_ids[e] = config[e]
      <3>1. Present = DOMAIN config
        BY <1>1, <2>1 DEF IInv, PhaseTracked
      <3>2. \A e \in Present : bundle_ids[e] = config[e]
        BY <1>1, <3>1, Zenon DEF IInv, ExecutorsTracked, ExecutorTracked, Present
      <3> QED
        BY <3>1, <3>2, Zenon
    <2> QED
      BY <2>1, Zenon DEF LayoutDeployed
  <1> QED
    BY <1>1, IInvHolds, PTL

\* After the start there is always an executor that nobody is killing: the plans
\* that would kill all of them at once are those reconfig skips.
THEOREM ServiceContinues ==
  ASSUME FullStart
  PROVE  Spec => []ServiceContinuity
  <1>1. ASSUME IInv
        PROVE  ServiceContinuity
    <2>1. SUFFICES ASSUME phase \in {"sleep", "executing"}
                   PROVE  \E e \in Present : e \notin waiting_to_be_killed
      BY Zenon DEF ServiceContinuity
    <2>2. \A e \in Executors : ExecutorTracked(e)
      BY <1>1, Zenon DEF IInv, ExecutorsTracked
    <2>3. \A e \in Present : e \in Executors
      BY Zenon DEF Present
    <2>4. \A e \in Present : killer[e] = "none" => e \notin waiting_to_be_killed
      BY <2>2, <2>3 DEF ExecutorTracked
    <2>5. \A e \in Present \cap DOMAIN config : killer[e] = "none"
      BY <2>2, <2>3, Zenon DEF ExecutorTracked
    <2>6. CASE phase = "sleep"
      <3>1. Present = DOMAIN config /\ UsedBundles(config) = Bundles
        BY <1>1, <2>6 DEF IInv, PhaseTracked
      <3>2. DOMAIN config # {}
        BY <3>1, BundlesNonempty, Zenon
      <3> QED
        BY <2>4, <2>5, <3>1, <3>2, Zenon
    <2>7. CASE phase = "executing"
      <3>1. Continued
        BY <1>1, <2>7, Zenon DEF IInv, PhaseTracked
      <3>2. ASSUME NEW k \in DOMAIN parents \ DOMAIN config, parents[k] # {}
            PROVE  k \in Present /\ killer[k] = "none"
        <4>1. CommandTracked(k)
          BY <1>1, Zenon DEF IInv, CommandsTracked
        <4>2. killer[k] = "none"
          BY <3>2, <4>1, Zenon DEF CommandTracked, Begun
        <4> QED
          BY <3>2, <4>1, <4>2 DEF CommandTracked
      <3> QED
        BY <2>4, <2>5, <3>1, <3>2, Zenon DEF Continued
    <2> QED
      BY <2>1, <2>6, <2>7, Zenon
  <1> QED
    BY <1>1, IInvHolds, PTL

\* No assertion of a command or of the registry fails: a command starts after its
\* parents, ids are new, and an executor to kill exists.
THEOREM CommandsNeverFail ==
  ASSUME FullStart
  PROVE  Spec => []NoFailedCommand
  <1>1. IInv => NoFailedCommand
    BY DEF IInv, PhaseTracked, NoFailedCommand
  <1> QED
    BY <1>1, IInvHolds, PTL

=============================================================================
