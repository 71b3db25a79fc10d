-------------------------- MODULE LoadControlProofs --------------------------
(***************************************************************************)
(* No mark of the load-control updater is lost, and when the updater rests *)
(* the caps fit the supply, for every set of requests, thresholds, demands *)
(* and supplies.                                                           *)
(***************************************************************************)
EXTENDS LoadControl, FiniteSetTheorems, WellFoundedInduction, TLAPS

-----------------------------------------------------------------------------
(* Sums.                                                                   *)

\* SumFunctionOnSet, unfolded: the elements are summed up in the order in which
\* CHOOSE picks them.
Some(s) == CHOOSE x \in s : TRUE
Terms(g, f, s) == IF s = {} THEN 0 ELSE f[Some(s)] + g[s \ {Some(s)}]
Iterates(g, f, S) == g = [s \in SUBSET S |-> Terms(g, f, s)]
Iteration(f, S) == CHOOSE g : Iterates(g, f, S)

LEMMA SumDef ==
  ASSUME NEW f, NEW S
  PROVE  SumFunctionOnSet(f, S) = Iteration(f, S)[S]
  BY Zenon DEF SumFunctionOnSet, FoldFunctionOnSet, MapThenFoldSet, Iteration, Iterates, Terms, Some

LEMMA SomeFact ==
  ASSUME NEW S, S # {}
  PROVE  Some(S) \in S
  BY Zenon DEF Some

\* Among some subsets of a finite set there is a smallest one.
LEMMA MinimalSubset ==
  ASSUME NEW S, IsFiniteSet(S), NEW Q, Q \subseteq SUBSET S, Q # {}
  PROVE  \E T \in Q : \A U \in Q : U \subseteq T => U = T
  <1> DEFINE R == StrictSubsetOrdering(S)
  <1>1. Q \subseteq FiniteSubsetsOf(S)
    BY FS_FiniteSubsetsOfFinite, Zenon
  <1>2. IsWellFoundedOn(R, FiniteSubsetsOf(S))
    BY FS_StrictSubsetOrderingWellFounded, Zenon
  <1>3. PICK T \in Q : \A U \in Q : ~(<<U, T>> \in R)
    <2> HIDE DEF R
    <2> QED
      BY <1>1, <1>2, WFMin, Zenon
  <1>4. ASSUME NEW U \in Q, U \subseteq T, U # T
        PROVE  <<U, T>> \in R
    <2>1. U \in SUBSET S /\ T \in SUBSET S
      BY Zenon
    <2> QED
      BY <1>4, <2>1 DEF StrictSubsetOrdering
  <1> HIDE DEF R
  <1>5. \A U \in Q : U \subseteq T => U = T
    BY <1>3, <1>4, Zenon
  <1> QED
    BY <1>5

\* Induction over the subsets of a finite set: what holds of a set whenever it
\* holds of its proper subsets holds of all of them.
LEMMA SubsetInduction ==
  ASSUME NEW S, IsFiniteSet(S), NEW P,
         \A T \in SUBSET S : (\A U \in SUBSET T : U # T => U \in P) => T \in P
  PROVE  \A T \in SUBSET S : T \in P
  <1> DEFINE Q == (SUBSET S) \ P
  <1>1. SUFFICES ASSUME Q # {}
                 PROVE  FALSE
    OBVIOUS
  <1>2. Q \subseteq SUBSET S
    OBVIOUS
  <1>3. PICK T \in Q : \A U \in Q : U \subseteq T => U = T
    <2> HIDE DEF Q
    <2> QED
      BY <1>1, <1>2, MinimalSubset
  <1>4. ASSUME NEW U \in SUBSET T, U # T
        PROVE  U \in P
    BY <1>3, <1>4
  <1> QED
    BY <1>3, <1>4, Zenon

\* The sums of two sets agree on what is part of both.
LEMMA IterationsAgree ==
  ASSUME NEW f, NEW A, NEW B, IsFiniteSet(A), NEW g, NEW h,
         Iterates(g, f, A), Iterates(h, f, B)
  PROVE  \A s \in SUBSET (A \cap B) : g[s] = h[s]
  <1> DEFINE P == {s \in SUBSET (A \cap B) : g[s] = h[s]}
  <1>1. IsFiniteSet(A \cap B)
    BY FS_Subset
  <1>2. ASSUME NEW T \in SUBSET (A \cap B), \A U \in SUBSET T : U # T => U \in P
        PROVE  T \in P
    <2>1. T \in SUBSET A /\ T \in SUBSET B
      OBVIOUS
    <2>2. g[T] = Terms(g, f, T) /\ h[T] = Terms(h, f, T)
      BY <2>1, Zenon DEF Iterates
    <2>3. T # {} => g[T \ {Some(T)}] = h[T \ {Some(T)}]
      <3>1. T # {} => T \ {Some(T)} \in SUBSET T /\ T \ {Some(T)} # T
        BY SomeFact
      <3> QED
        BY <1>2, <3>1
    <2>4. g[T] = h[T]
      BY <2>2, <2>3, Zenon DEF Terms
    <2> QED
      BY <2>4
  <1> HIDE DEF P
  <1>3. \A s \in SUBSET (A \cap B) : s \in P
    BY <1>1, <1>2, SubsetInduction, Zenon
  <1> QED
    BY <1>3 DEF P

LEMMA IterationExists ==
  ASSUME NEW f, NEW S, IsFiniteSet(S)
  PROVE  Iterates(Iteration(f, S), f, S)
  <1> DEFINE P == {T \in SUBSET S : Iterates(Iteration(f, T), f, T)}
             V(s) == Iteration(f, s)[s]
  <1>1. ASSUME NEW T \in SUBSET S, \A U \in SUBSET T : U # T => U \in P
        PROVE  T \in P
    <2> DEFINE g == [s \in SUBSET T |-> IF s = {} THEN 0 ELSE f[Some(s)] + V(s \ {Some(s)})]
    <2>1. ASSUME NEW u \in SUBSET T, u # T
          PROVE  g[u] = V(u)
      <3>1. Iterates(Iteration(f, u), f, u)
        BY <1>1, <2>1
      <3>2. V(u) = Terms(Iteration(f, u), f, u)
        <4>1. u \in SUBSET u
          OBVIOUS
        <4> QED
          BY <3>1, <4>1, Zenon DEF Iterates
      <3>3. ASSUME u # {}
            PROVE  Iteration(f, u)[u \ {Some(u)}] = V(u \ {Some(u)})
        <4> DEFINE w == u \ {Some(u)}
        <4>1. w \in SUBSET T /\ w # T /\ w \in SUBSET (u \cap w)
          BY <2>1
        <4>2. Iterates(Iteration(f, w), f, w)
          BY <1>1, <4>1
        <4>3. IsFiniteSet(u)
          BY FS_Subset
        <4> HIDE DEF w
        <4>4. \A s \in SUBSET (u \cap w) : Iteration(f, u)[s] = Iteration(f, w)[s]
          BY <3>1, <4>2, <4>3, IterationsAgree
        <4>5. Iteration(f, u)[w] = Iteration(f, w)[w]
          BY <4>1, <4>4, Zenon
        <4> QED
          BY <4>5, Zenon DEF w
      <3> QED
        BY <3>2, <3>3, Zenon DEF Terms
    <2>2. ASSUME NEW s \in SUBSET T
          PROVE  g[s] = Terms(g, f, s)
      <3>1. s # {} => g[s \ {Some(s)}] = V(s \ {Some(s)})
        <4>1. s # {} => s \ {Some(s)} \in SUBSET T /\ s \ {Some(s)} # T
          BY SomeFact
        <4> QED
          BY <2>1, <4>1, Zenon
      <3>2. g[s] = IF s = {} THEN 0 ELSE f[Some(s)] + V(s \ {Some(s)})
        OBVIOUS
      <3> HIDE DEF g
      <3> QED
        BY <3>1, <3>2, Zenon DEF Terms
    <2>3. g = [s \in SUBSET T |-> g[s]]
      BY Zenon
    <2> HIDE DEF g
    <2>4. Iterates(g, f, T)
      BY <2>2, <2>3, Zenon DEF Iterates
    <2>5. Iterates(Iteration(f, T), f, T)
      BY <2>4, Zenon DEF Iteration
    <2> QED
      BY <2>5
  <1> HIDE DEF P
  <1>2. \A T \in SUBSET S : T \in P
    BY <1>1, SubsetInduction, Zenon
  <1>3. S \in P
    BY <1>2
  <1> QED
    BY <1>3 DEF P

LEMMA SumUnfolds ==
  ASSUME NEW f, NEW S, IsFiniteSet(S)
  PROVE  /\ S = {} => SumFunctionOnSet(f, S) = 0
         /\ S # {} => SumFunctionOnSet(f, S) = f[Some(S)] + SumFunctionOnSet(f, S \ {Some(S)})
  <1> DEFINE w == S \ {Some(S)}
  <1>1. Iterates(Iteration(f, S), f, S)
    BY IterationExists, Zenon
  <1>2. IsFiniteSet(w) /\ w \in SUBSET (S \cap w)
    BY FS_Subset
  <1>3. Iterates(Iteration(f, w), f, w)
    BY <1>2, IterationExists, Zenon
  <1>4. Iteration(f, S)[w] = Iteration(f, w)[w]
    <2> HIDE DEF w
    <2>1. \A s \in SUBSET (S \cap w) : Iteration(f, S)[s] = Iteration(f, w)[s]
      BY <1>1, <1>3, IterationsAgree
    <2> QED
      BY <1>2, <2>1, Zenon
  <1>5. Iteration(f, S)[S] = Terms(Iteration(f, S), f, S)
    <2>1. S \in SUBSET S
      OBVIOUS
    <2> QED
      BY <1>1, <2>1, Zenon DEF Iterates
  <1> QED
    BY <1>4, <1>5, SumDef, Zenon DEF Terms

\* Any element may be taken first.
LEMMA SumRemove ==
  ASSUME NEW D, NEW f \in [D -> Nat], NEW S \in SUBSET D, IsFiniteSet(S)
  PROVE  /\ SumFunctionOnSet(f, S) \in Nat
         /\ \A x \in S : SumFunctionOnSet(f, S) = f[x] + SumFunctionOnSet(f, S \ {x})
  <1> DEFINE Sum(T) == SumFunctionOnSet(f, T)
             Good(T) == Sum(T) \in Nat /\ \A x \in T : Sum(T) = f[x] + Sum(T \ {x})
             P == {T \in SUBSET S : Good(T)}
  <1> HIDE DEF Sum
  <1>1. ASSUME NEW T \in SUBSET S, \A U \in SUBSET T : U # T => U \in P
        PROVE  T \in P
    <2>1. IsFiniteSet(T)
      BY FS_Subset
    <2>2. /\ T = {} => Sum(T) = 0
          /\ T # {} => Sum(T) = f[Some(T)] + Sum(T \ {Some(T)})
      BY <2>1, SumUnfolds, Zenon DEF Sum
    <2>3. \A x \in T : f[x] \in Nat
      OBVIOUS
    <2>4. \A x \in T : Good(T \ {x})
      <3>1. \A x \in T : T \ {x} \in SUBSET T /\ T \ {x} # T
        OBVIOUS
      <3> QED
        BY <1>1, <3>1, Zenon
    <2>5. CASE T = {}
      BY <2>2, <2>5
    <2>6. CASE T # {}
      <3> DEFINE p == Some(T)
      <3>1. p \in T
        BY <2>6, SomeFact, Zenon
      <3> HIDE DEF p
      <3>2. Sum(T) = f[p] + Sum(T \ {p}) /\ Sum(T \ {p}) \in Nat
        BY <2>2, <2>4, <2>6, <3>1, Zenon DEF p
      <3>3. Sum(T) \in Nat
        BY <2>3, <3>1, <3>2
      <3>4. ASSUME NEW x \in T, x # p
            PROVE  Sum(T) = f[x] + Sum(T \ {x})
        <4> DEFINE w == T \ {p, x}
        <4>1. (T \ {p}) \ {x} = w /\ (T \ {x}) \ {p} = w
          OBVIOUS
        <4>2. x \in T \ {p} /\ p \in T \ {x}
          BY <3>1, <3>4
        <4>3. Sum(T \ {p}) = f[x] + Sum(w) /\ Sum(T \ {x}) = f[p] + Sum(w)
          BY <2>4, <3>1, <4>1, <4>2, Zenon
        <4>4. Sum(w) \in Nat
          <5>1. w \in SUBSET T /\ w # T
            BY <3>1
          <5> QED
            BY <1>1, <5>1, Zenon
        <4> HIDE DEF w
        <4> QED
          BY <2>3, <3>1, <3>2, <4>3, <4>4
      <3> QED
        BY <3>2, <3>3, <3>4, Zenon
    <2> QED
      BY <2>5, <2>6, Zenon
  <1> HIDE DEF P
  <1>2. \A T \in SUBSET S : T \in P
    BY <1>1, SubsetInduction, Zenon
  <1>3. Good(S)
    BY <1>2 DEF P
  <1> QED
    BY <1>3 DEF Sum

LEMMA SumEmpty ==
  ASSUME NEW f
  PROVE  SumFunctionOnSet(f, {}) = 0
  BY FS_EmptySet, SumUnfolds, Zenon

\* Smaller terms over fewer elements have a smaller sum.
LEMMA SumMonotone ==
  ASSUME NEW D, NEW f \in [D -> Nat], NEW g \in [D -> Nat],
         NEW S \in SUBSET D, NEW T \in SUBSET S, IsFiniteSet(S),
         \A x \in T : f[x] <= g[x]
  PROVE  SumFunctionOnSet(f, T) <= SumFunctionOnSet(g, S)
  <1> DEFINE F(U) == SumFunctionOnSet(f, U)
             G(U) == SumFunctionOnSet(g, U)
             P == {U \in SUBSET S : F(U \cap T) <= G(U)}
  <1> HIDE DEF F, G
  <1>0. \A U \in SUBSET S : /\ IsFiniteSet(U) /\ G(U) \in Nat /\ F(U \cap T) \in Nat /\ IsFiniteSet(U \cap T)
                            /\ \A x \in U : G(U) = g[x] + G(U \ {x})
                            /\ \A x \in U \cap T : F(U \cap T) = f[x] + F((U \cap T) \ {x})
    <2> SUFFICES ASSUME NEW U \in SUBSET S
                 PROVE  /\ IsFiniteSet(U) /\ G(U) \in Nat /\ F(U \cap T) \in Nat /\ IsFiniteSet(U \cap T)
                        /\ \A x \in U : G(U) = g[x] + G(U \ {x})
                        /\ \A x \in U \cap T : F(U \cap T) = f[x] + F((U \cap T) \ {x})
      BY Zenon
    <2>1. IsFiniteSet(U) /\ IsFiniteSet(U \cap T) /\ U \in SUBSET D /\ U \cap T \in SUBSET D
      BY FS_Subset
    <2>2. G(U) \in Nat /\ \A x \in U : G(U) = g[x] + G(U \ {x})
      BY <2>1, SumRemove DEF G
    <2> DEFINE W == U \cap T
    <2>3. F(W) \in Nat /\ \A x \in W : F(W) = f[x] + F(W \ {x})
      <3>1. IsFiniteSet(W) /\ W \in SUBSET D
        BY <2>1, Zenon
      <3> HIDE DEF W
      <3> QED
        BY <3>1, SumRemove DEF F
    <2> QED
      BY <2>1, <2>2, <2>3, Zenon
  <1>1. ASSUME NEW U \in SUBSET S, \A V \in SUBSET U : V # U => V \in P
        PROVE  U \in P
    <2>1. CASE U = {}
      <3>1. U \cap T = {} /\ F({}) = 0 /\ G({}) = 0
        BY <2>1, SumEmpty DEF F, G
      <3> QED
        BY <2>1, <3>1
    <2>2. CASE U # {}
      <3>1. PICK x : x \in U
        BY <2>2, Zenon
      <3> DEFINE V == U \ {x}
      <3>2. V \in P /\ V \in SUBSET S
        BY <1>1, <3>1
      <3>3. F(V \cap T) <= G(V) /\ F(V \cap T) \in Nat /\ G(V) \in Nat /\ G(U) = g[x] + G(V)
        BY <1>0, <3>1, <3>2, Zenon
      <3>4. f[x] \in Nat /\ g[x] \in Nat
        BY <3>1
      <3>5. CASE x \in T
        <4>1. F(U \cap T) = f[x] + F(V \cap T)
          <5>1. (U \cap T) \ {x} = V \cap T /\ x \in U \cap T
            BY <3>1, <3>5
          <5> QED
            BY <1>0, <5>1, Zenon
        <4>2. f[x] <= g[x]
          BY <3>5
        <4>3. F(U \cap T) <= G(U)
          <5> HIDE DEF V
          <5> QED
            BY <3>3, <3>4, <4>1, <4>2
        <4> QED
          BY <4>3
      <3>6. CASE x \notin T
        <4>1. U \cap T = V \cap T
          BY <3>6
        <4>2. F(U \cap T) <= G(U)
          <5>1. F(U \cap T) = F(V \cap T)
            BY <4>1, Zenon
          <5> HIDE DEF V
          <5> QED
            BY <3>3, <3>4, <5>1
        <4> QED
          BY <4>2
      <3> QED
        BY <3>5, <3>6, Zenon
    <2> QED
      BY <2>1, <2>2, Zenon
  <1> HIDE DEF P
  <1>2. \A U \in SUBSET S : U \in P
    BY <1>1, SubsetInduction, Zenon
  <1>3. F(S \cap T) <= G(S) /\ S \cap T = T
    BY <1>2 DEF P
  <1> QED
    BY <1>3, Zenon DEF F, G

-----------------------------------------------------------------------------
\* A mark of any thread leaves the updater runnable: the notify happens under
\* the lock that also protects the test of _pending.
LEMMA MarkWakes ==
    ASSUME mark_should_update, MarkWakesUpdater
    PROVE  MarkWakesUpdater'
<1>1. CASE stop
    BY <1>1, Zenon DEF mark_should_update, MarkWakesUpdater, monitorVars
<1>2. CASE ~stop
    <2>1. Woken # "waiting"
        BY DEF Woken
    <2> QED
        BY <1>2, <2>1 DEF mark_should_update, MarkWakesUpdater
<1> QED
    BY <1>1, <1>2

\* The updater goes to sleep on its condition only where it has just seen that
\* nothing is pending.
LEMMA UpdaterKeepsMarks ==
    ASSUME Updater, MarkWakesUpdater
    PROVE  MarkWakesUpdater'
<1>1. CASE WorkerTop
    BY <1>1, Zenon DEF WorkerTop, MarkWakesUpdater
<1>2. CASE DebounceTimeout \/ DebounceDone \/ SleepOver
    BY <1>2, Zenon DEF DebounceTimeout, DebounceDone, SleepOver, MarkWakesUpdater
<1>3. CASE ListAdmitted \/ ListDeferred
    BY <1>3, Zenon DEF ListAdmitted, ListDeferred, MarkWakesUpdater
<1>4. CASE SortByProgress
    BY <1>4 DEF SortByProgress, Raise, MarkWakesUpdater
<1>5. CASE SuffixStep \/ SuffixDone
    BY <1>5, Zenon DEF SuffixStep, SuffixDone, MarkWakesUpdater
<1>6. CASE AssignLook
    BY <1>6 DEF AssignLook, MarkWakesUpdater
<1>7. CASE AssignCap
    BY <1>7 DEF AssignCap, SetCap, Raise, MarkWakesUpdater
<1>8. CASE AssignDone
    BY <1>8 DEF AssignDone, MarkWakesUpdater
<1> QED
    BY <1>1, <1>2, <1>3, <1>4, <1>5, <1>6, <1>7, <1>8, Zenon DEF Updater

\* Spec implies that the updater never sleeps on its condition while a mark is
\* pending, whatever the engine's loop and the estimate worker do meanwhile
\* (mark_should_update, shutdown and _worker_loop of
\* async_max_confidence_threshold_updater.py).
THEOREM MarksNeverLost == Spec => []MarkWakesUpdater
<1>1. Init => MarkWakesUpdater
    BY DEF Init, MarkWakesUpdater
<1>2. MarkWakesUpdater /\ [Next]_vars => MarkWakesUpdater'
    <2> SUFFICES ASSUME MarkWakesUpdater, [Next]_vars
                 PROVE  MarkWakesUpdater'
        OBVIOUS
    <2>1. CASE Updater
        BY <2>1, UpdaterKeepsMarks
    <2>2. CASE EngineMarks \/ EstimatorMarks
        BY <2>2, MarkWakes DEF EngineMarks, EstimatorMarks
    <2>3. CASE Shutdown
        BY <2>3 DEF Shutdown, Woken, MarkWakesUpdater
    <2>4. CASE UpdateThroughputSupply
        BY <2>4 DEF UpdateThroughputSupply, monitorVars, MarkWakesUpdater
    <2>5. CASE \E r \in Requests :
                  \/ AddRequest(r) \/ AdmitPop(r) \/ AdmitInsert(r)
                  \/ FreeState(r) \/ DropState(r) \/ DeleteRequest(r)
                  \/ StepDecrements(r) \/ RefreshEstimate(r)
        <3>1. UNCHANGED monitorVars
            BY <2>5 DEF AddRequest, AdmitPop, AdmitInsert, FreeState, DropState, DeleteState,
                        DeleteRequest, StepDecrements, RefreshEstimate
        <3> QED
            BY <3>1 DEF monitorVars, MarkWakesUpdater
    <2>6. CASE UNCHANGED vars
        BY <2>6, Zenon DEF vars, monitorVars, MarkWakesUpdater
    <2> QED
        BY <2>1, <2>2, <2>3, <2>4, <2>5, <2>6, Zenon DEF Next
<1> QED
    BY <1>1, <1>2, PTL DEF Spec

-----------------------------------------------------------------------------
(* Types.                                                                  *)

\* Positions of the updater in its list, and what the engine's loop has at hand
\* between two steps of an operation.
Positioned ==
    /\ order \in Seq(Requests)
    /\ \A j, k \in 1 .. Len(order) : order[j] = order[k] => j = k
    /\ worker = "suffix" => i <= Len(order)
    /\ worker \in {"assign", "decide"} => i >= 1
    /\ worker = "decide" => i <= Len(order)
    /\ \A r \in Requests :
          engine \in {<<"admit", r>>, <<"free", r>>, <<"drop", r>>} =>
              r \in requests \ (admitted \cup deferred)

Typed == TypeOK /\ Positioned

\* A nonempty set of naturals has a smallest element.
LEMMA MinFact ==
  ASSUME NEW S \in SUBSET Nat, S # {}
  PROVE  Min(S) \in S
  <1> DEFINE R == OpToRel(<, Nat)
  <1>1. IsWellFoundedOn(R, Nat)
    BY NatLessThanWellFounded DEF OpToRel
  <1>2. \A y, z \in Nat : y < z => <<y, z>> \in R
    BY DEF OpToRel
  <1> HIDE DEF R
  <1>3. PICK x \in S : \A y \in S : ~(<<y, x>> \in R)
    BY <1>1, WFMin, Zenon
  <1>4. x \in Nat /\ \A y \in S : y \in Nat /\ ~(y < x)
    BY <1>2, <1>3, Zenon
  <1>5. \A y \in S : x <= y
    BY <1>4
  <1> QED
    BY <1>5, Zenon DEF Min

\* The threshold chosen for a request.
LEMMA ThresholdFact ==
  ASSUME NEW r
  PROVE  /\ Threshold(r) \in 1 .. Lowest
         /\ \/ Threshold(r) = Lowest
            \/ current + DemandOf(r, Threshold(r)) + suffix[i] <= budget
  <1> DEFINE fits == {c \in 1 .. Lowest : current + DemandOf(r, c) + suffix[i] <= budget}
  <1>1. Lowest \in 1 .. Lowest
    BY LoadControlAssumption DEF Lowest
  <1>2. fits \in SUBSET Nat
    BY LoadControlAssumption DEF Lowest
  <1>3. Threshold(r) = IF fits = {} THEN Lowest ELSE Min(fits)
    BY Zenon DEF Threshold
  <1>4. fits # {} => Min(fits) \in fits
    <2> HIDE DEF fits
    <2> QED
      BY <1>2, MinFact, Zenon
  <1> QED
    BY <1>1, <1>3, <1>4, Zenon

LEMMA OneMore ==
  ASSUME NEW n \in Nat, NEW m, m = n + 1
  PROVE  1 .. m - 1 = 1 .. n
  OBVIOUS

LEMMA DecrementFact ==
  ASSUME NEW n \in Nat
  PROVE  /\ n <= n
         /\ (IF n > 0 THEN n - 1 ELSE 0) \in Nat
         /\ (IF n > 0 THEN n - 1 ELSE 0) <= n
  OBVIOUS

LEMMA DemandFact ==
  ASSUME TypeOK, NEW r \in Requests, NEW c \in 1 .. Lowest
  PROVE  DemandOf(r, c) \in Nat /\ demand[r][c] \in Nat
  <1>1. demand \in [Requests -> [1 .. Lowest -> Nat]]
    BY DEF TypeOK
  <1>2. demand[r][c] \in Nat
    BY <1>1, Zenon
  <1> QED
    BY <1>2 DEF DemandOf

\* The orders of a set are the sequences of its elements.
LEMMA OrderFact ==
  ASSUME NEW S, IsFiniteSet(S), NEW s \in Bijection(1 .. Cardinality(S), S)
  PROVE  /\ s \in Seq(S) /\ Len(s) = Cardinality(S) /\ Len(s) \in Nat /\ DOMAIN s = 1 .. Len(s)
         /\ \A j, k \in 1 .. Len(s) : s[j] = s[k] => j = k
         /\ Range(s) = S
  <1>1. Cardinality(S) \in Nat
    BY FS_CardinalityType, Zenon
  <1>2. s \in Injection(1 .. Cardinality(S), S) /\ s \in Surjection(1 .. Cardinality(S), S)
    BY Zenon DEF Bijection
  <1>3. s \in [1 .. Cardinality(S) -> S] /\ \A x \in S : \E k \in 1 .. Cardinality(S) : s[k] = x
    BY <1>2, Zenon DEF Surjection
  <1>4. \A j, k \in 1 .. Cardinality(S) : s[j] = s[k] => j = k
    BY <1>2, <1>3 DEF Injection, IsInjective
  <1>5. s \in Seq(S) /\ Len(s) = Cardinality(S) /\ DOMAIN s = 1 .. Len(s)
    BY <1>1, <1>3
  <1>6. Range(s) = S
    BY <1>3 DEF Range
  <1> QED
    BY <1>1, <1>4, <1>5, <1>6, Zenon

LEMMA WorkerTyped ==
  ASSUME Typed, WorkerTop \/ DebounceTimeout \/ DebounceDone \/ SleepOver
  PROVE  Typed'
  <1>1. /\ worker' \in Positions /\ pending' \in BOOLEAN
        /\ worker' \notin {"suffix", "assign", "decide"}
    BY Zenon DEF Typed, TypeOK, WorkerTop, DebounceTimeout, DebounceDone, SleepOver, Positions
  <1>2. UNCHANGED <<stop, requestVars, threadVars, localVars, floor>>
    BY DEF WorkerTop, DebounceTimeout, DebounceDone, SleepOver
  <1>3. TypeOK'
    BY <1>1, <1>2 DEF Typed, TypeOK, requestVars, threadVars, localVars
  <1>4. Positioned'
    BY <1>1, <1>2 DEF Typed, Positioned, requestVars, threadVars, localVars
  <1> QED
    BY <1>3, <1>4 DEF Typed

LEMMA ListTyped ==
  ASSUME Typed, ListAdmitted \/ ListDeferred
  PROVE  Typed'
  <1>1. worker' \in {"list_deferred", "sort"} /\ seen' \subseteq Requests
    BY DEF Typed, TypeOK, ListAdmitted, ListDeferred
  <1>2. UNCHANGED <<pending, stop, requestVars, threadVars, order, i, suffix, budget, current, floor>>
    BY DEF ListAdmitted, ListDeferred
  <1>3. TypeOK'
    BY <1>1, <1>2 DEF Typed, TypeOK, requestVars, threadVars, Positions
  <1>4. Positioned'
    BY <1>1, <1>2 DEF Typed, Positioned, requestVars, threadVars
  <1> QED
    BY <1>3, <1>4 DEF Typed

LEMMA RaiseTyped ==
  ASSUME Typed, Raise \/ (worker' = "sleep" /\ Return),
         UNCHANGED <<pending, stop, requests, admitted, deferred, demand, throughput_supply, threadVars>>
  PROVE  Typed'
  <1>1. /\ worker' \in {"top", "sleep"} /\ seen' = {} /\ order' = <<>> /\ i' = 0 /\ suffix' = <<>>
        /\ budget' = 0 /\ current' = 0 /\ floor' = floor /\ cap' = cap
    BY DEF Raise, Return
  <1>2. /\ Range(order)' = {} /\ suffix' \in [DOMAIN order' -> Nat] /\ i' \in 0 .. Len(order') + 1
        /\ order' \in Seq(Requests) /\ Len(order') = 0
    BY <1>1 DEF Range
  <1>3. TypeOK'
    BY <1>1, <1>2 DEF Typed, TypeOK, threadVars, Positions
  <1>4. Positioned'
    BY <1>1, <1>2 DEF Typed, Positioned, threadVars
  <1> QED
    BY <1>3, <1>4 DEF Typed

LEMMA SortTyped ==
  ASSUME Typed, SortByProgress
  PROVE  Typed'
  <1>1. UNCHANGED <<pending, stop, requests, admitted, deferred, demand, throughput_supply, threadVars>>
    BY DEF SortByProgress
  <1>2. CASE Raise
    BY <1>1, <1>2, RaiseTyped
  <1>3. CASE ~Raise
    <2>1. PICK s \in Bijection(1 .. Cardinality(seen), seen) :
            /\ order' = s /\ suffix' = [k \in DOMAIN s |-> 0] /\ i' = Len(s) /\ floor' = 1
            /\ worker' = "suffix" /\ seen' = {} /\ UNCHANGED <<budget, current, cap>>
      BY <1>3, Zenon DEF SortByProgress
    <2>2. IsFiniteSet(seen) /\ seen \subseteq Requests
      BY FS_Subset, LoadControlAssumption DEF Typed, TypeOK
    <2>3. /\ s \in Seq(seen) /\ Len(s) \in Nat /\ DOMAIN s = 1 .. Len(s) /\ Range(s) = seen
          /\ \A j, k \in 1 .. Len(s) : s[j] = s[k] => j = k
      BY <2>1, <2>2, OrderFact, Zenon
    <2>4. /\ order' \in Seq(Requests) /\ Range(order)' \subseteq Requests
          /\ suffix' \in [DOMAIN order' -> Nat] /\ i' \in 0 .. Len(order') + 1 /\ i' <= Len(order')
      <3>1. Range(order)' = Range(s)
        BY <2>1, Zenon DEF Range
      <3> QED
        BY <2>1, <2>2, <2>3, <3>1
    <2>5. floor' \in 1 .. Lowest
      BY <2>1, LoadControlAssumption DEF Lowest
    <2>6. TypeOK'
      BY <1>1, <2>1, <2>4, <2>5 DEF Typed, TypeOK, threadVars, Positions
    <2>7. Positioned'
      BY <1>1, <2>1, <2>3, <2>4 DEF Typed, Positioned, threadVars
    <2> QED
      BY <2>6, <2>7 DEF Typed
  <1> QED
    BY <1>2, <1>3, Zenon

LEMMA SuffixTyped ==
  ASSUME Typed, SuffixStep \/ SuffixDone
  PROVE  Typed'
  <1>1. /\ worker = "suffix" /\ i \in 0 .. Len(order) + 1 /\ i <= Len(order)
        /\ order \in Seq(Requests) /\ Len(order) \in Nat /\ DOMAIN order = 1 .. Len(order)
        /\ suffix \in [DOMAIN order -> Nat] /\ throughput_supply \in Nat
    BY DEF Typed, TypeOK, Positioned, SuffixStep, SuffixDone
  <1>2. UNCHANGED <<pending, stop, requestVars, threadVars, seen, order, floor>>
    BY DEF SuffixStep, SuffixDone
  <1>3. CASE SuffixStep
    <2>1. /\ i > 1 /\ i' = i - 1 /\ UNCHANGED <<worker, budget, current>>
          /\ suffix' = [suffix EXCEPT ![i - 1] = suffix[i] + DemandOf(order[i], Lowest)]
      BY <1>3 DEF SuffixStep
    <2>2. DemandOf(order[i], Lowest) \in Nat
      <3>1. order[i] \in Requests /\ Lowest \in 1 .. Lowest
        BY <1>1, <2>1, LoadControlAssumption DEF Lowest
      <3> QED
        BY <3>1, DemandFact DEF Typed
    <2>3. suffix' \in [DOMAIN order -> Nat] /\ i' \in 0 .. Len(order) + 1 /\ i' <= Len(order)
      BY <1>1, <2>1, <2>2
    <2>4. TypeOK'
      BY <1>2, <2>1, <2>3 DEF Typed, TypeOK, requestVars, threadVars
    <2>5. Positioned'
      BY <1>1, <1>2, <2>1, <2>3 DEF Typed, Positioned, requestVars, threadVars
    <2> QED
      BY <2>4, <2>5 DEF Typed
  <1>4. CASE SuffixDone
    <2>1. worker' = "assign" /\ i' = 1 /\ budget' = throughput_supply /\ current' = 0 /\ suffix' = suffix
      BY <1>4 DEF SuffixDone
    <2>2. i' \in 0 .. Len(order) + 1
      BY <1>1, <2>1
    <2>3. TypeOK'
      BY <1>1, <1>2, <2>1, <2>2 DEF Typed, TypeOK, requestVars, threadVars, Positions
    <2>4. Positioned'
      BY <1>2, <2>1 DEF Typed, Positioned, requestVars, threadVars
    <2> QED
      BY <2>3, <2>4 DEF Typed
  <1> QED
    BY <1>3, <1>4, Zenon

LEMMA LookTyped ==
  ASSUME Typed, AssignLook
  PROVE  Typed'
  <1>1. /\ worker = "assign" /\ i \in 0 .. Len(order) + 1 /\ i <= Len(order) /\ i >= 1
        /\ Len(order) \in Nat
    BY DEF Typed, TypeOK, Positioned, AssignLook
  <1>2. UNCHANGED <<pending, stop, requestVars, threadVars, seen, order, suffix, budget, current, floor>>
    BY DEF AssignLook
  <1>3. \/ worker' = "decide" /\ i' = i
        \/ worker' = "assign" /\ i' = i + 1
    BY <1>1 DEF AssignLook
  <1>4. i' \in 0 .. Len(order) + 1 /\ i' >= 1 /\ (worker' = "decide" => i' <= Len(order))
    BY <1>1, <1>3
  <1>5. TypeOK'
    BY <1>2, <1>3, <1>4 DEF Typed, TypeOK, requestVars, threadVars, Positions
  <1>6. Positioned'
    BY <1>2, <1>3, <1>4 DEF Typed, Positioned, requestVars, threadVars
  <1> QED
    BY <1>5, <1>6 DEF Typed

LEMMA SetCapTyped ==
  ASSUME Typed, worker = "decide", NEW c \in 1 .. Lowest, SetCap(order[i], c),
         UNCHANGED <<pending, stop, requests, admitted, deferred, demand, throughput_supply, threadVars>>
  PROVE  Typed'
  <1>0. /\ i \in 0 .. Len(order) + 1 /\ i <= Len(order) /\ i >= 1
        /\ order \in Seq(Requests) /\ Len(order) \in Nat
        /\ cap \in [Requests -> 1 .. Lowest] /\ current \in Nat /\ floor \in 1 .. Lowest
    <2>1. /\ i \in 0 .. Len(order) + 1 /\ cap \in [Requests -> 1 .. Lowest]
          /\ current \in Nat /\ floor \in 1 .. Lowest
      BY DEF Typed, TypeOK
    <2>2. i <= Len(order) /\ i >= 1 /\ order \in Seq(Requests)
      BY DEF Typed, Positioned
    <2> QED
      BY <2>1, <2>2
  <1>1. order[i] \in Requests
    BY <1>0
  <1>2. /\ worker' = "assign" /\ i' = i + 1 /\ current' = current + DemandOf(order[i], c)
        /\ cap' = (IF HasState(order[i]) THEN [cap EXCEPT ![order[i]] = c] ELSE cap)
        /\ floor' = (IF c > floor THEN c ELSE floor)
        /\ UNCHANGED <<seen, order, suffix, budget>>
    BY DEF SetCap
  <1>3. DemandOf(order[i], c) \in Nat
    BY <1>1, DemandFact DEF Typed
  <1>4. /\ i' \in 0 .. Len(order) + 1 /\ i' >= 1 /\ current' \in Nat /\ floor' \in 1 .. Lowest
        /\ cap' \in [Requests -> 1 .. Lowest]
    BY <1>0, <1>1, <1>2, <1>3, SMTT(20)
  <1>5. TypeOK'
    BY <1>2, <1>4, Zenon DEF Typed, TypeOK, threadVars, Positions
  <1>6. Positioned'
    BY <1>2, <1>4 DEF Typed, Positioned, threadVars
  <1> QED
    BY <1>5, <1>6 DEF Typed

LEMMA AssignTyped ==
  ASSUME Typed, AssignLook \/ AssignCap \/ AssignDone
  PROVE  Typed'
  <1>1. CASE AssignLook
    BY <1>1, LookTyped
  <1>2. CASE AssignDone
    <2>1. /\ worker' = "sleep" /\ Return
          /\ UNCHANGED <<pending, stop, requests, admitted, deferred, demand, throughput_supply, threadVars>>
      BY <1>2 DEF AssignDone
    <2> QED
      BY <2>1, RaiseTyped
  <1>3. CASE AssignCap
    <2>1. /\ worker = "decide"
          /\ UNCHANGED <<pending, stop, requests, admitted, deferred, demand, throughput_supply, threadVars>>
      BY <1>3 DEF AssignCap
    <2>2. Lowest \in 1 .. Lowest
      BY LoadControlAssumption DEF Lowest
    <2>3. CASE Raise
      BY <2>1, <2>3, RaiseTyped
    <2>4. CASE \E c \in 1 .. Lowest : SetCap(order[i], c)
      BY <2>1, <2>4, SetCapTyped
    <2> QED
      BY <1>3, <2>2, <2>3, <2>4, ThresholdFact, Zenon DEF AssignCap
  <1> QED
    BY <1>1, <1>2, <1>3, Zenon

\* What the other threads leave alone: the locals of the updater.
LEMMA OutsideTyped ==
  ASSUME Typed, UNCHANGED <<localVars, floor>>,
         worker' = worker \/ worker' = Woken,
         requests' \subseteq Requests, admitted' \cap deferred' = {},
         admitted' \cup deferred' \subseteq requests',
         demand' \in [Requests -> [1 .. Lowest -> Nat]],
         cap' \in [Requests -> 1 .. Lowest],
         throughput_supply' \in Nat,
         engine' \in {<<"idle">>, <<"mark">>, <<"dropped">>} \cup ({"admit", "free", "drop"} \X Requests),
         estimator' \in {"idle", "mark"}, pending' \in BOOLEAN, stop' \in BOOLEAN,
         \A r \in Requests :
             engine' \in {<<"admit", r>>, <<"free", r>>, <<"drop", r>>} =>
                 r \in requests' \ (admitted' \cup deferred')
  PROVE  Typed'
  <1>1. /\ worker' \in Positions
        /\ worker' \in {"suffix", "assign", "decide"} => worker' = worker
    BY Zenon DEF Typed, TypeOK, Woken, Positions
  <1>2. TypeOK'
    BY <1>1, Zenon DEF Typed, TypeOK, localVars
  <1>3. Positioned'
    BY <1>1 DEF Typed, Positioned, localVars
  <1> QED
    BY <1>2, <1>3 DEF Typed

\* The parts of the state that the engine's loop works with.
LEMMA EngineParts ==
  ASSUME Typed
  PROVE  /\ requests \subseteq Requests /\ admitted \cap deferred = {}
         /\ admitted \cup deferred \subseteq requests
         /\ demand \in [Requests -> [1 .. Lowest -> Nat]]
         /\ cap \in [Requests -> 1 .. Lowest] /\ throughput_supply \in Nat
         /\ engine \in {<<"idle">>, <<"mark">>, <<"dropped">>} \cup ({"admit", "free", "drop"} \X Requests)
         /\ estimator \in {"idle", "mark"} /\ pending \in BOOLEAN /\ stop \in BOOLEAN
         /\ floor \in 1 .. Lowest /\ 1 \in 1 .. Lowest /\ NoDemand \in [1 .. Lowest -> Nat]
         /\ \A r \in Requests :
               engine \in {<<"admit", r>>, <<"free", r>>, <<"drop", r>>} =>
                   r \in requests \ (admitted \cup deferred)
  <1>1. 1 \in 1 .. Lowest /\ NoDemand \in [1 .. Lowest -> Nat]
    BY LoadControlAssumption DEF Lowest, NoDemand
  <1> QED
    BY <1>1 DEF Typed, TypeOK, Positioned

\* The engine's loop between two operations has no request at hand.
LEMMA NothingAtHand ==
  ASSUME NEW r, NEW e \in {<<"idle">>, <<"mark">>, <<"dropped">>}
  PROVE  e \notin {<<"admit", r>>, <<"free", r>>, <<"drop", r>>}
  OBVIOUS

LEMMA MarkTyped ==
  ASSUME Typed, EngineMarks \/ EstimatorMarks \/ Shutdown \/ UpdateThroughputSupply
  PROVE  Typed'
  <1>1. /\ UNCHANGED <<localVars, floor>> /\ worker' \in {worker, Woken}
        /\ UNCHANGED <<requests, admitted, deferred, demand, cap>>
        /\ pending' \in BOOLEAN /\ stop' \in BOOLEAN
        /\ estimator' \in {"idle", "mark"}
        /\ engine' = engine \/ engine' \in {<<"idle">>, <<"mark">>}
        /\ throughput_supply' \in Nat
    BY LoadControlAssumption, EngineParts, Zenon
       DEF EngineMarks, EstimatorMarks, Shutdown, UpdateThroughputSupply, mark_should_update,
           monitorVars, requestVars, threadVars
  <1>2. \A r \in Requests :
             engine' \in {<<"admit", r>>, <<"free", r>>, <<"drop", r>>} =>
                 r \in requests' \ (admitted' \cup deferred')
    BY <1>1, EngineParts, NothingAtHand, Zenon
  <1>3. engine' \in {<<"idle">>, <<"mark">>, <<"dropped">>} \cup ({"admit", "free", "drop"} \X Requests)
    BY <1>1, EngineParts
  <1> QED
    BY <1>1, <1>2, <1>3, EngineParts, OutsideTyped

LEMMA AddTyped ==
  ASSUME Typed, NEW r \in Requests, AddRequest(r)
  PROVE  Typed'
  <1>1. PICK d \in Demands : demand' = [demand EXCEPT ![r] = d]
    BY Zenon DEF AddRequest
  <1>2. d \in [1 .. Lowest -> Nat]
    BY LoadControlAssumption, Zenon DEF Lowest
  <1>3. /\ engine = <<"idle">> /\ r \notin requests
        /\ requests' = requests \cup {r} /\ deferred' = deferred \cup {r}
        /\ cap' = [cap EXCEPT ![r] = floor]
        /\ UNCHANGED <<admitted, throughput_supply, engine, estimator, pending, stop, worker, localVars, floor>>
    BY DEF AddRequest, threadVars, monitorVars
  <1>4. demand' \in [Requests -> [1 .. Lowest -> Nat]] /\ cap' \in [Requests -> 1 .. Lowest]
    BY <1>1, <1>2, <1>3, EngineParts
  <1>5. /\ requests' \subseteq Requests /\ admitted' \cap deferred' = {}
        /\ admitted' \cup deferred' \subseteq requests'
    BY <1>3, EngineParts
  <1>6. \A q \in Requests :
            engine' \in {<<"admit", q>>, <<"free", q>>, <<"drop", q>>} =>
                q \in requests' \ (admitted' \cup deferred')
    BY <1>3, NothingAtHand
  <1> QED
    BY <1>3, <1>4, <1>5, <1>6, EngineParts, OutsideTyped

LEMMA AdmitTyped ==
  ASSUME Typed, NEW r \in Requests, AdmitPop(r) \/ AdmitInsert(r)
  PROVE  Typed'
  <1>1. UNCHANGED <<requests, demand, cap, throughput_supply, estimator, pending, stop, worker, localVars, floor>>
    BY DEF AdmitPop, AdmitInsert, monitorVars
  <1>2. CASE AdmitPop(r)
    <2>1. r \in deferred /\ deferred' = deferred \ {r} /\ admitted' = admitted /\ engine' = <<"admit", r>>
      BY <1>2 DEF AdmitPop
    <2>2. \A q \in Requests :
              engine' \in {<<"admit", q>>, <<"free", q>>, <<"drop", q>>} =>
                  q \in requests' \ (admitted' \cup deferred')
      BY <1>1, <2>1, EngineParts
    <2>3. engine' \in {<<"idle">>, <<"mark">>, <<"dropped">>} \cup ({"admit", "free", "drop"} \X Requests)
      BY <2>1
    <2>4. /\ requests' \subseteq Requests /\ admitted' \cap deferred' = {}
          /\ admitted' \cup deferred' \subseteq requests'
      BY <1>1, <2>1, EngineParts, Zenon
    <2> QED
      BY <1>1, <2>2, <2>3, <2>4, EngineParts, OutsideTyped
  <1>3. CASE AdmitInsert(r)
    <2>1. engine = <<"admit", r>> /\ admitted' = admitted \cup {r} /\ deferred' = deferred /\ engine' = <<"mark">>
      BY <1>3 DEF AdmitInsert
    <2>2. \A q \in Requests :
              engine' \in {<<"admit", q>>, <<"free", q>>, <<"drop", q>>} =>
                  q \in requests' \ (admitted' \cup deferred')
      BY <2>1, NothingAtHand
    <2>3. r \in requests \ (admitted \cup deferred)
      BY <2>1, EngineParts
    <2>4. /\ requests' \subseteq Requests /\ admitted' \cap deferred' = {}
          /\ admitted' \cup deferred' \subseteq requests'
      BY <1>1, <2>1, <2>3, EngineParts
    <2>5. engine' \in {<<"idle">>, <<"mark">>, <<"dropped">>} \cup ({"admit", "free", "drop"} \X Requests)
      BY <2>1
    <2> QED
      BY <1>1, <2>2, <2>4, <2>5, EngineParts, OutsideTyped, Zenon
  <1> QED
    BY <1>2, <1>3, Zenon

LEMMA DeleteTyped ==
  ASSUME Typed, NEW r \in Requests, FreeState(r) \/ DropState(r)
  PROVE  Typed'
  <1>1. /\ DeleteState(r) /\ r \in admitted \cup deferred
        /\ engine' \in {<<"free", r>>, <<"drop", r>>}
    BY DEF FreeState, DropState
  <1>2. /\ admitted' = admitted \ {r} /\ deferred' = deferred \ {r}
        /\ demand' = [demand EXCEPT ![r] = NoDemand] /\ cap' = [cap EXCEPT ![r] = 1]
        /\ UNCHANGED <<requests, throughput_supply, estimator, pending, stop, worker, localVars, floor>>
    BY <1>1 DEF DeleteState, monitorVars
  <1>3. demand' \in [Requests -> [1 .. Lowest -> Nat]] /\ cap' \in [Requests -> 1 .. Lowest]
    BY <1>2, EngineParts, SMTT(20)
  <1>4. engine' \in {<<"idle">>, <<"mark">>, <<"dropped">>} \cup ({"admit", "free", "drop"} \X Requests)
    BY <1>1
  <1>5. /\ requests' \subseteq Requests /\ admitted' \cap deferred' = {}
        /\ admitted' \cup deferred' \subseteq requests'
        /\ r \in requests' \ (admitted' \cup deferred')
    BY <1>1, <1>2, EngineParts, Zenon
  <1>6. \A q \in Requests :
            engine' \in {<<"admit", q>>, <<"free", q>>, <<"drop", q>>} =>
                q \in requests' \ (admitted' \cup deferred')
    BY <1>1, <1>5
  <1> QED
    BY <1>2, <1>3, <1>4, <1>5, <1>6, EngineParts, OutsideTyped, Zenon

LEMMA DeleteRequestTyped ==
  ASSUME Typed, NEW r \in Requests, DeleteRequest(r)
  PROVE  Typed'
  <1>1. /\ engine \in {<<"free", r>>, <<"drop", r>>} /\ requests' = requests \ {r}
        /\ engine' \in {<<"mark">>, <<"dropped">>}
        /\ UNCHANGED <<admitted, deferred, demand, cap, throughput_supply, estimator, pending, stop,
                       worker, localVars, floor>>
    BY DEF DeleteRequest, monitorVars
  <1>2. \A q \in Requests :
            engine' \in {<<"admit", q>>, <<"free", q>>, <<"drop", q>>} =>
                q \in requests' \ (admitted' \cup deferred')
    BY <1>1, NothingAtHand
  <1>3. r \notin admitted \cup deferred
    BY <1>1, EngineParts
  <1>4. /\ requests' \subseteq Requests /\ admitted' \cap deferred' = {}
        /\ admitted' \cup deferred' \subseteq requests'
    BY <1>1, <1>3, EngineParts
  <1>5. engine' \in {<<"idle">>, <<"mark">>, <<"dropped">>} \cup ({"admit", "free", "drop"} \X Requests)
    BY <1>1
  <1> QED
    BY <1>1, <1>2, <1>4, <1>5, EngineParts, OutsideTyped

LEMMA EstimatesTyped ==
  ASSUME Typed, NEW r \in Requests, StepDecrements(r) \/ RefreshEstimate(r)
  PROVE  Typed'
  <1>1. /\ UNCHANGED <<requests, admitted, deferred, cap, throughput_supply, engine, pending, stop,
                       worker, localVars, floor>>
        /\ estimator' \in {estimator, "mark"}
    BY DEF StepDecrements, RefreshEstimate, threadVars, monitorVars
  <1>2. PICK d \in [1 .. Lowest -> Nat] : demand' = [demand EXCEPT ![r] = d]
    <2>1. CASE RefreshEstimate(r)
      BY <2>1, LoadControlAssumption, Zenon DEF RefreshEstimate, Lowest
    <2>2. CASE StepDecrements(r)
      <3> DEFINE d == [c \in 1 .. Lowest |-> IF demand[r][c] > 0 THEN demand[r][c] - 1 ELSE 0]
      <3>1. demand[r] \in [1 .. Lowest -> Nat]
        BY EngineParts
      <3>2. d \in [1 .. Lowest -> Nat]
        <4>1. \A c \in 1 .. Lowest : demand[r][c] \in Nat
          BY <3>1, Zenon
        <4> QED
          BY <4>1, DecrementFact, Zenon
      <3>3. demand' = [demand EXCEPT ![r] = d]
        BY <2>2, Zenon DEF StepDecrements
      <3> HIDE DEF d
      <3> QED
        BY <3>2, <3>3, Zenon
    <2> QED
      BY <2>1, <2>2, Zenon
  <1>3. demand' \in [Requests -> [1 .. Lowest -> Nat]]
    BY <1>2, EngineParts, Zenon
  <1>4. estimator' \in {"idle", "mark"}
    BY <1>1, EngineParts
  <1> QED
    BY <1>1, <1>3, <1>4, EngineParts, OutsideTyped

LEMMA TypedInit == Init => Typed
  <1> SUFFICES ASSUME Init
               PROVE  Typed
    OBVIOUS
  <1>1. 1 \in 1 .. Lowest /\ NoDemand \in [1 .. Lowest -> Nat] /\ throughput_supply \in Nat
    BY LoadControlAssumption DEF Init, Lowest, NoDemand
  <1>2. /\ order \in Seq(Requests) /\ Len(order) = 0 /\ Range(order) = {}
        /\ suffix \in [DOMAIN order -> Nat] /\ i \in 0 .. Len(order) + 1
    BY DEF Init, Range
  <1>3. TypeOK
    BY <1>1, <1>2, Zenon DEF Init, TypeOK, Positions
  <1>4. Positioned
    BY <1>2, NothingAtHand DEF Init, Positioned
  <1> QED
    BY <1>3, <1>4 DEF Typed

LEMMA TypedNext ==
  ASSUME Typed, [Next]_vars
  PROVE  Typed'
  <1>1. CASE Updater
    BY <1>1, WorkerTyped, ListTyped, SortTyped, SuffixTyped, AssignTyped, Zenon DEF Updater
  <1>2. CASE EngineMarks \/ EstimatorMarks \/ Shutdown \/ UpdateThroughputSupply
    BY <1>2, MarkTyped
  <1>3. ASSUME NEW r \in Requests,
               \/ AddRequest(r) \/ AdmitPop(r) \/ AdmitInsert(r)
               \/ FreeState(r) \/ DropState(r) \/ DeleteRequest(r)
               \/ StepDecrements(r) \/ RefreshEstimate(r)
        PROVE  Typed'
    BY <1>3, AddTyped, AdmitTyped, DeleteTyped, DeleteRequestTyped, EstimatesTyped, Zenon
  <1>4. CASE UNCHANGED vars
    <2>1. TypeOK'
      BY <1>4 DEF Typed, TypeOK, vars, requestVars, threadVars, monitorVars, localVars
    <2>2. Positioned'
      BY <1>4 DEF Typed, Positioned, vars, requestVars, threadVars, monitorVars, localVars
    <2> QED
      BY <2>1, <2>2 DEF Typed
  <1> QED
    BY <1>1, <1>2, <1>3, <1>4, Zenon DEF Next

\* Spec implies that every variable of the load control keeps its type: the updater
\* never indexes beyond its list of requests, every request that has a state is
\* among the scheduler's requests, and none is admitted and deferred at a time
\* (update_request_max_confidence_thresholds, _admit_request and _free_request of
\* tediserve_scheduler.py).
THEOREM LoadControlTyped == Spec => []TypeOK
<1>1. Typed /\ [Next]_vars => Typed'
    BY TypedNext
<1>2. Typed => TypeOK
    BY DEF Typed
<1> QED
    BY <1>1, <1>2, TypedInit, PTL DEF Spec

-----------------------------------------------------------------------------
(* The caps and the supply.                                                *)

\* Nothing has changed since the updater last took up its marks.
Clean == engine = <<"idle">> /\ estimator = "idle" /\ ~pending /\ ~stop

\* Demands at the lowest threshold and at the caps; requests from a position of
\* the updater's list on and before it.
Low == [r \in Requests |-> demand[r][Lowest]]
AtCap == [r \in Requests |-> demand[r][cap[r]]]
From(k) == {order[j] : j \in k .. Len(order)}
Before(k) == {order[j] : j \in 1 .. k - 1}

\* An update knows the admitted requests, and all it knows is still there.
Listed ==
    /\ worker \in {"list_deferred", "sort"} =>
          admitted \subseteq seen /\ seen \subseteq admitted \cup deferred
    /\ worker \in {"suffix", "assign", "decide"} =>
          admitted \subseteq Range(order) /\ Range(order) \subseteq admitted \cup deferred

\* The suffix sums cover the lowest demands of the requests to come.
Reserved ==
    worker \in {"suffix", "assign", "decide"} =>
        \A k \in 1 .. Len(order) :
            (worker = "suffix" => k >= i) => SumFunctionOnSet(Low, From(k + 1)) <= suffix[k]

\* The requests before position i are accounted for, and the rest fits at the
\* lowest threshold, unless all of them have been given the lowest one.
Assigned ==
    worker \in {"assign", "decide"} =>
        /\ budget = throughput_supply
        /\ SumFunctionOnSet(AtCap, Before(i)) <= current
        /\ \/ current + SumFunctionOnSet(Low, From(i)) <= budget
           \/ \A j \in 1 .. i - 1 : cap[order[j]] = Lowest

Within ==
    \/ SumFunctionOnSet(AtCap, admitted) <= throughput_supply
    \/ \A r \in admitted : cap[r] = Lowest

Tracked == Listed /\ Reserved /\ Assigned /\ (worker \in {"top", "sleep", "waiting"} => Within)

CapsTracked == Clean => Tracked

\* Demands are functions into the naturals, and sets of requests are finite.
LEMMA SumTypes ==
  ASSUME Typed
  PROVE  /\ Low \in [Requests -> Nat] /\ AtCap \in [Requests -> Nat]
         /\ \A S \in SUBSET Requests : IsFiniteSet(S)
         /\ \A S \in SUBSET Requests : SumFunctionOnSet(Low, S) \in Nat
         /\ \A S \in SUBSET Requests : SumFunctionOnSet(AtCap, S) \in Nat
         /\ order \in Seq(Requests) /\ Len(order) \in Nat
         /\ \A k \in Nat \ {0} : From(k) \in SUBSET Requests
         /\ \A k \in 0 .. Len(order) + 1 : Before(k) \in SUBSET Requests
  <1>1. /\ demand \in [Requests -> [1 .. Lowest -> Nat]] /\ cap \in [Requests -> 1 .. Lowest]
        /\ order \in Seq(Requests) /\ Lowest \in 1 .. Lowest
    BY LoadControlAssumption DEF Typed, TypeOK, Positioned, Lowest
  <1>2. \A r \in Requests : demand[r][Lowest] \in Nat /\ demand[r][cap[r]] \in Nat
    BY <1>1
  <1>3. Low \in [Requests -> Nat] /\ AtCap \in [Requests -> Nat]
    BY <1>2, Zenon DEF Low, AtCap
  <1>4. \A S \in SUBSET Requests : IsFiniteSet(S)
    BY FS_Subset, LoadControlAssumption
  <1>5. \A S \in SUBSET Requests : SumFunctionOnSet(Low, S) \in Nat
    BY <1>3, <1>4, SumRemove, Zenon
  <1>6. \A S \in SUBSET Requests : SumFunctionOnSet(AtCap, S) \in Nat
    BY <1>3, <1>4, SumRemove, Zenon
  <1>7. \A k \in Nat \ {0} : From(k) \in SUBSET Requests
    <2>1. \A k \in Nat \ {0} : \A j \in k .. Len(order) : order[j] \in Requests
      BY <1>1
    <2> QED
      BY <2>1, Zenon DEF From
  <1>8. \A k \in 0 .. Len(order) + 1 : Before(k) \in SUBSET Requests
    <2>1. \A k \in 0 .. Len(order) + 1 : \A j \in 1 .. k - 1 : order[j] \in Requests
      BY <1>1
    <2> QED
      BY <2>1, Zenon DEF Before
  <1>9. Len(order) \in Nat
    BY <1>1
  <1> QED
    BY <1>1, <1>3, <1>4, <1>5, <1>6, <1>7, <1>8, <1>9, Zenon

\* One position further in the list.
LEMMA OneFurther ==
  ASSUME Typed, NEW k \in 1 .. Len(order)
  PROVE  /\ order[k] \in Requests
         /\ From(k) = From(k + 1) \cup {order[k]} /\ order[k] \notin From(k + 1)
         /\ Before(k + 1) = Before(k) \cup {order[k]} /\ order[k] \notin Before(k)
         /\ SumFunctionOnSet(Low, From(k)) = Low[order[k]] + SumFunctionOnSet(Low, From(k + 1))
         /\ Low[order[k]] = demand[order[k]][Lowest] /\ Low[order[k]] \in Nat
  <1>1. /\ order \in Seq(Requests) /\ Len(order) \in Nat
        /\ \A j, l \in 1 .. Len(order) : order[j] = order[l] => j = l
    BY DEF Typed, Positioned
  <1>2. order[k] \in Requests
    BY <1>1
  <1>3. From(k) = From(k + 1) \cup {order[k]}
    <2>1. k .. Len(order) = ((k + 1) .. Len(order)) \cup {k}
      BY <1>1
    <2> QED
      BY <2>1, Zenon DEF From
  <1>4. order[k] \notin From(k + 1)
    <2>1. \A j \in (k + 1) .. Len(order) : j \in 1 .. Len(order) /\ j # k
      BY <1>1
    <2> QED
      BY <1>1, <2>1, Zenon DEF From
  <1>5. Before(k + 1) = Before(k) \cup {order[k]}
    <2>1. 1 .. (k + 1) - 1 = (1 .. k - 1) \cup {k}
      BY <1>1
    <2> QED
      BY <2>1, Zenon DEF Before
  <1>6. order[k] \notin Before(k)
    <2>1. \A j \in 1 .. k - 1 : j \in 1 .. Len(order) /\ j # k
      BY <1>1
    <2> QED
      BY <1>1, <2>1, Zenon DEF Before
  <1>7. SumFunctionOnSet(Low, From(k)) = Low[order[k]] + SumFunctionOnSet(Low, From(k + 1))
    <2> DEFINE S == From(k)
               x == order[k]
    <2>1. S \in SUBSET Requests /\ Low \in [Requests -> Nat] /\ IsFiniteSet(S)
      <3>1. k \in Nat \ {0}
        BY <1>1
      <3> QED
        BY <3>1, SumTypes, Zenon
    <2> DEFINE w == From(k + 1)
    <2>2. x \in S /\ S \ {x} = w
      <3>1. S = w \cup {x} /\ x \notin w
        BY <1>3, <1>4, Zenon
      <3> HIDE DEF S, x, w
      <3> QED
        BY <3>1
    <2> HIDE DEF S, x, w
    <2>3. SumFunctionOnSet(Low, S) = Low[x] + SumFunctionOnSet(Low, S \ {x})
      BY <2>1, <2>2, SumRemove
    <2>4. SumFunctionOnSet(Low, S) = Low[x] + SumFunctionOnSet(Low, w)
      BY <2>2, <2>3, Zenon
    <2> QED
      BY <2>4, Zenon DEF S, x, w
  <1>8. Low[order[k]] = demand[order[k]][Lowest] /\ Low[order[k]] \in Nat
    <2>1. Low \in [Requests -> Nat]
      BY SumTypes
    <2> QED
      BY <1>2, <2>1, Zenon DEF Low
  <1> QED
    BY <1>2, <1>3, <1>4, <1>5, <1>6, <1>7, <1>8, Zenon

\* The requests at and before a position are among those of the list.
LEMMA PositionsFact ==
  ASSUME Typed
  PROVE  /\ Range(order) \in SUBSET Requests
         /\ \A k \in Nat \ {0} : From(k) \in SUBSET Range(order)
         /\ \A k \in 0 .. Len(order) + 1 : Before(k) \in SUBSET Range(order)
         /\ From(1) = Range(order) /\ Before(Len(order) + 1) = Range(order)
         /\ From(Len(order) + 1) = {} /\ Before(1) = {}
         /\ \A k \in 1 .. Len(order) : suffix[k] \in Nat
  <1>1. /\ order \in Seq(Requests) /\ Len(order) \in Nat /\ DOMAIN order = 1 .. Len(order)
        /\ Range(order) \subseteq Requests /\ suffix \in [DOMAIN order -> Nat]
    BY DEF Typed, TypeOK, Positioned
  <1>2. \A k \in Nat \ {0} : From(k) \in SUBSET Range(order)
    <2>1. \A k \in Nat \ {0} : \A j \in k .. Len(order) : j \in DOMAIN order
      BY <1>1
    <2> QED
      BY <2>1, Zenon DEF From, Range
  <1>3. \A k \in 0 .. Len(order) + 1 : Before(k) \in SUBSET Range(order)
    <2>1. \A k \in 0 .. Len(order) + 1 : \A j \in 1 .. k - 1 : j \in DOMAIN order
      BY <1>1
    <2> QED
      BY <2>1, Zenon DEF Before, Range
  <1>4. From(1) = Range(order)
    BY <1>1, Zenon DEF From, Range
  <1>5. Before(Len(order) + 1) = Range(order)
    <2>1. 1 .. (Len(order) + 1) - 1 = DOMAIN order
      BY <1>1
    <2> QED
      BY <2>1, Zenon DEF Before, Range
  <1>6. From(Len(order) + 1) = {} /\ Before(1) = {}
    <2>1. (Len(order) + 1) .. Len(order) = {} /\ 1 .. 1 - 1 = {}
      BY <1>1
    <2> QED
      BY <2>1, Zenon DEF From, Before
  <1>7. \A k \in 1 .. Len(order) : suffix[k] \in Nat
    BY <1>1
  <1> QED
    BY <1>1, <1>2, <1>3, <1>4, <1>5, <1>6, <1>7, Zenon

\* Estimates that only decrease, and requests that are only added, while nothing else
\* changes that an update depends on, leave it as good as before.
LEMMA DecreaseTracked ==
  ASSUME Typed, Typed', Tracked,
         UNCHANGED <<worker, admitted, throughput_supply, localVars>>,
         deferred \subseteq deferred',
         \A r \in admitted \cup Range(order) :
             cap'[r] = cap[r] /\ \A c \in 1 .. Lowest : demand'[r][c] <= demand[r][c]
  PROVE  Tracked'
  <1>1. UNCHANGED <<seen, order, i, suffix, budget, current>>
    BY DEF localVars
  <1>2. /\ \A k : From(k)' = From(k)
        /\ \A k : Before(k)' = Before(k)
        /\ Range(order)' = Range(order)
    BY <1>1, Zenon DEF From, Before, Range
  <1>3. /\ cap \in [Requests -> 1 .. Lowest] /\ Lowest \in 1 .. Lowest
        /\ admitted \in SUBSET Requests /\ Range(order) \in SUBSET Requests
    <2>1. Lowest \in 1 .. Lowest
      BY LoadControlAssumption DEF Lowest
    <2> QED
      BY <2>1, EngineParts, PositionsFact
  <1>4. Low' \in [Requests -> Nat] /\ AtCap' \in [Requests -> Nat]
    <2>1. demand' \in [Requests -> [1 .. Lowest -> Nat]] /\ cap' \in [Requests -> 1 .. Lowest]
      BY Zenon DEF Typed, TypeOK
    <2>2. \A r \in Requests : demand'[r][Lowest] \in Nat /\ demand'[r][cap'[r]] \in Nat
      BY <1>3, <2>1
    <2> QED
      BY <2>2, Zenon DEF Low, AtCap
  <1>5. \A S \in SUBSET (admitted \cup Range(order)) :
           /\ SumFunctionOnSet(Low, S) \in Nat /\ SumFunctionOnSet(Low', S) \in Nat
           /\ SumFunctionOnSet(AtCap, S) \in Nat /\ SumFunctionOnSet(AtCap', S) \in Nat
    <2>1. \A S \in SUBSET (admitted \cup Range(order)) : S \in SUBSET Requests
      BY <1>3, Zenon
    <2>2. Low \in [Requests -> Nat] /\ AtCap \in [Requests -> Nat] /\ \A S \in SUBSET Requests : IsFiniteSet(S)
      BY SumTypes, Zenon
    <2> QED
      BY <1>4, <2>1, <2>2, SumRemove, Zenon
  <1>6. \A S \in SUBSET (admitted \cup Range(order)) :
           /\ SumFunctionOnSet(Low', S) <= SumFunctionOnSet(Low, S)
           /\ SumFunctionOnSet(AtCap', S) <= SumFunctionOnSet(AtCap, S)
    <2> SUFFICES ASSUME NEW S \in SUBSET (admitted \cup Range(order))
                 PROVE  /\ SumFunctionOnSet(Low', S) <= SumFunctionOnSet(Low, S)
                        /\ SumFunctionOnSet(AtCap', S) <= SumFunctionOnSet(AtCap, S)
      OBVIOUS
    <2>1. S \in SUBSET Requests /\ IsFiniteSet(S) /\ S \in SUBSET S
      BY <1>3, SumTypes
    <2>2. Low \in [Requests -> Nat] /\ AtCap \in [Requests -> Nat]
      BY SumTypes, Zenon
    <2>3. \A r \in S : Low'[r] <= Low[r]
      BY <1>3, <2>1 DEF Low
    <2>4. \A r \in S : AtCap'[r] <= AtCap[r]
      <3> SUFFICES ASSUME NEW r \in S
                   PROVE  AtCap'[r] <= AtCap[r]
        OBVIOUS
      <3>1. r \in Requests /\ cap[r] \in 1 .. Lowest /\ cap'[r] = cap[r]
        BY <1>3, <2>1
      <3>2. AtCap[r] = demand[r][cap[r]] /\ AtCap'[r] = demand'[r][cap[r]]
        BY <3>1, Zenon DEF AtCap
      <3> QED
        BY <3>1, <3>2, Zenon
    <2>5. SumFunctionOnSet(Low', S) <= SumFunctionOnSet(Low, S)
      BY <1>4, <2>1, <2>2, <2>3, SumMonotone
    <2>6. SumFunctionOnSet(AtCap', S) <= SumFunctionOnSet(AtCap, S)
      BY <1>4, <2>1, <2>2, <2>4, SumMonotone
    <2> QED
      BY <2>5, <2>6
  <1>7. Listed'
    BY <1>1, <1>2 DEF Tracked, Listed
  <1>8. Reserved'
    <2> SUFFICES ASSUME worker \in {"suffix", "assign", "decide"},
                        NEW k \in 1 .. Len(order), worker = "suffix" => k >= i
                 PROVE  SumFunctionOnSet(Low', From(k + 1)) <= suffix[k]
      BY <1>1, <1>2 DEF Reserved
    <2> DEFINE S == From(k + 1)
    <2>1. S \in SUBSET (admitted \cup Range(order))
      <3>1. k + 1 \in Nat \ {0}
        BY SumTypes
      <3> QED
        BY <3>1, PositionsFact, Zenon
    <2>2. SumFunctionOnSet(Low, S) <= suffix[k] /\ suffix[k] \in Nat
      BY PositionsFact DEF Tracked, Reserved
    <2> HIDE DEF S
    <2>3. SumFunctionOnSet(Low', S) <= SumFunctionOnSet(Low, S)
      BY <1>6, <2>1, Zenon
    <2>4. SumFunctionOnSet(Low, S) \in Nat /\ SumFunctionOnSet(Low', S) \in Nat
      BY <1>5, <2>1, Zenon
    <2>5. SumFunctionOnSet(Low', S) <= suffix[k]
      BY <2>2, <2>3, <2>4
    <2> QED
      BY <2>5 DEF S
  <1>9. Assigned'
    <2> SUFFICES ASSUME worker \in {"assign", "decide"}
                 PROVE  /\ budget = throughput_supply
                        /\ SumFunctionOnSet(AtCap', Before(i)) <= current
                        /\ \/ current + SumFunctionOnSet(Low', From(i)) <= budget
                           \/ \A j \in 1 .. i - 1 : cap'[order[j]] = Lowest
      BY <1>1, <1>2, SMTT(20) DEF Assigned
    <2> DEFINE S == Before(i)
               T == From(i)
    <2>1. i \in 0 .. Len(order) + 1 /\ i \in Nat \ {0} /\ current \in Nat /\ budget \in Nat
      BY SumTypes DEF Typed, TypeOK, Positioned
    <2>2. S \in SUBSET (admitted \cup Range(order)) /\ T \in SUBSET (admitted \cup Range(order))
      BY <2>1, PositionsFact, Zenon
    <2>3. /\ budget = throughput_supply /\ SumFunctionOnSet(AtCap, S) <= current
          /\ \/ current + SumFunctionOnSet(Low, T) <= budget
             \/ \A j \in 1 .. i - 1 : cap[order[j]] = Lowest
      BY DEF Tracked, Assigned
    <2>4. (\A j \in 1 .. i - 1 : cap[order[j]] = Lowest) => \A j \in 1 .. i - 1 : cap'[order[j]] = Lowest
      <3>1. \A j \in 1 .. i - 1 : order[j] \in S
        BY Zenon DEF Before
      <3> QED
        BY <2>2, <3>1
    <2> HIDE DEF S, T
    <2>5. /\ SumFunctionOnSet(AtCap', S) <= SumFunctionOnSet(AtCap, S)
          /\ SumFunctionOnSet(Low', T) <= SumFunctionOnSet(Low, T)
          /\ SumFunctionOnSet(AtCap', S) \in Nat /\ SumFunctionOnSet(AtCap, S) \in Nat
          /\ SumFunctionOnSet(Low', T) \in Nat /\ SumFunctionOnSet(Low, T) \in Nat
      BY <1>6, <1>5, <2>2, Zenon
    <2>6. SumFunctionOnSet(AtCap', S) <= current
      BY <2>1, <2>3, <2>5
    <2>7. current + SumFunctionOnSet(Low, T) <= budget => current + SumFunctionOnSet(Low', T) <= budget
      BY <2>1, <2>5
    <2> QED
      BY <2>3, <2>4, <2>6, <2>7, Zenon DEF S, T
  <1>10. Within => Within'
    <2>1. admitted \in SUBSET (admitted \cup Range(order)) /\ throughput_supply \in Nat
      BY DEF Typed, TypeOK
    <2>2. /\ SumFunctionOnSet(AtCap', admitted) <= SumFunctionOnSet(AtCap, admitted)
          /\ SumFunctionOnSet(AtCap', admitted) \in Nat /\ SumFunctionOnSet(AtCap, admitted) \in Nat
      BY <1>6, <1>5, <2>1, Zenon
    <2>3. SumFunctionOnSet(AtCap, admitted) <= throughput_supply =>
             SumFunctionOnSet(AtCap', admitted) <= throughput_supply
      BY <2>1, <2>2
    <2> QED
      BY <2>3 DEF Within
  <1> QED
    BY <1>7, <1>8, <1>9, <1>10 DEF Tracked

LEMMA ListTracked ==
  ASSUME Typed, Tracked, ListAdmitted \/ ListDeferred
  PROVE  Tracked'
  <1>1. \/ worker' = "list_deferred" /\ seen' = admitted
        \/ worker = "list_deferred" /\ worker' = "sort" /\ seen' = seen \cup deferred
    BY DEF ListAdmitted, ListDeferred
  <1>2. UNCHANGED <<admitted, deferred>>
    BY DEF ListAdmitted, ListDeferred, requestVars
  <1>3. Listed'
    BY <1>1, <1>2 DEF Tracked, Listed
  <1>4. Reserved' /\ Assigned' /\ worker' \notin {"top", "sleep", "waiting"}
    BY <1>1 DEF Reserved, Assigned
  <1> QED
    BY <1>3, <1>4 DEF Tracked

LEMMA SortTracked ==
  ASSUME Typed, Tracked, SortByProgress
  PROVE  Tracked'
  <1>1. worker = "sort" /\ seen \subseteq requests /\ admitted \subseteq seen /\ seen \subseteq admitted \cup deferred
    BY EngineParts DEF SortByProgress, Tracked, Listed
  <1>2. PICK s \in Bijection(1 .. Cardinality(seen), seen) :
           /\ order' = s /\ suffix' = [k \in DOMAIN s |-> 0] /\ i' = Len(s) /\ worker' = "suffix"
           /\ UNCHANGED <<admitted, deferred>>
    BY <1>1, Zenon DEF SortByProgress
  <1>3. IsFiniteSet(seen)
    BY SumTypes DEF Typed, TypeOK
  <1>4. Len(s) \in Nat /\ DOMAIN s = 1 .. Len(s) /\ Range(s) = seen
    BY <1>2, <1>3, OrderFact, Zenon
  <1>5. Listed'
    <2>1. Range(order)' = Range(s)
      BY <1>2, Zenon DEF Range
    <2> QED
      BY <1>1, <1>2, <1>4, <2>1 DEF Listed
  <1>6. Reserved'
    <2> SUFFICES ASSUME NEW k \in 1 .. Len(s), k >= Len(s)
                 PROVE  SumFunctionOnSet(Low', From(k + 1)') <= suffix'[k]
      BY <1>2 DEF Reserved
    <2>1. (k + 1) .. Len(s) = {}
      BY <1>4
    <2>2. From(k + 1)' = {}
      BY <1>2, <2>1, Zenon DEF From
    <2>3. suffix'[k] = 0
      BY <1>2, <1>4, Zenon
    <2>4. SumFunctionOnSet(Low', From(k + 1)') = 0
      BY <2>2, SumEmpty, Zenon
    <2> QED
      BY <2>3, <2>4
  <1>7. Assigned' /\ worker' \notin {"top", "sleep", "waiting"}
    BY <1>2 DEF Assigned
  <1> QED
    BY <1>5, <1>6, <1>7 DEF Tracked

\* Nothing in an update's list has gone, so the demands it reads are the real ones.
LEMMA RealDemand ==
  ASSUME Typed, Tracked, worker \in {"suffix", "assign", "decide"}, NEW k \in 1 .. Len(order)
  PROVE  /\ order[k] \in Requests /\ order[k] \in requests /\ order[k] \in admitted \cup deferred
         /\ \A c \in 1 .. Lowest : DemandOf(order[k], c) = demand[order[k]][c] /\ demand[order[k]][c] \in Nat
  <1>1. order[k] \in Range(order) /\ order[k] \in Requests
    <2>1. k \in DOMAIN order
      BY SumTypes
    <2>2. order[k] \in Range(order)
      BY <2>1, Zenon DEF Range
    <2> QED
      BY <2>2, PositionsFact, Zenon
  <1>2. order[k] \in admitted \cup deferred
    BY <1>1 DEF Tracked, Listed
  <1>3. order[k] \in requests
    BY <1>2, EngineParts
  <1>4. \A c \in 1 .. Lowest : DemandOf(order[k], c) = demand[order[k]][c]
    BY <1>2, <1>3, Zenon DEF DemandOf
  <1>5. \A c \in 1 .. Lowest : demand[order[k]][c] \in Nat
    BY <1>1, DemandFact DEF Typed
  <1> QED
    BY <1>1, <1>2, <1>3, <1>4, <1>5, Zenon

LEMMA SuffixTracked ==
  ASSUME Typed, Tracked, SuffixStep
  PROVE  Tracked'
  <1>1. /\ worker = "suffix" /\ worker' = "suffix" /\ i > 1 /\ i' = i - 1
        /\ suffix' = [suffix EXCEPT ![i - 1] = suffix[i] + DemandOf(order[i], Lowest)]
        /\ UNCHANGED <<admitted, deferred, demand, order>>
    BY DEF SuffixStep, requestVars
  <1>2. /\ i \in 1 .. Len(order) /\ i - 1 \in 1 .. Len(order) /\ Lowest \in 1 .. Lowest /\ Len(order) \in Nat
        /\ suffix \in [1 .. Len(order) -> Nat]
    <2>1. Lowest \in 1 .. Lowest
      BY LoadControlAssumption DEF Lowest
    <2>2. Len(order) \in Nat /\ DOMAIN order = 1 .. Len(order)
      BY SumTypes
    <2>3. i \in 0 .. Len(order) + 1 /\ suffix \in [DOMAIN order -> Nat] /\ i <= Len(order)
      BY <1>1 DEF Typed, TypeOK, Positioned
    <2> QED
      BY <1>1, <2>1, <2>2, <2>3
  <1>3. Low' = Low /\ \A k : From(k)' = From(k)
    BY <1>1, Zenon DEF Low, From
  <1>4. Listed'
    BY <1>1 DEF Tracked, Listed, Range
  <1>5. ASSUME NEW k \in 1 .. Len(order), k >= i - 1
        PROVE  SumFunctionOnSet(Low, From(k + 1)) <= suffix'[k]
    <2>1. CASE k >= i
      <3>1. suffix'[k] = suffix[k]
        BY <1>1, <1>2, <2>1
      <3>2. SumFunctionOnSet(Low, From(k + 1)) <= suffix[k]
        BY <1>1, <2>1 DEF Tracked, Reserved
      <3> QED
        BY <3>1, <3>2, Zenon
    <2>2. CASE k = i - 1
      <3>1. suffix'[k] = suffix[i] + DemandOf(order[i], Lowest) /\ k + 1 = i /\ suffix[i] \in Nat
        BY <1>1, <1>2, <2>2
      <3>2. SumFunctionOnSet(Low, From(i + 1)) <= suffix[i]
        BY <1>1, <1>2 DEF Tracked, Reserved
      <3>3. /\ SumFunctionOnSet(Low, From(i)) = Low[order[i]] + SumFunctionOnSet(Low, From(i + 1))
            /\ Low[order[i]] = demand[order[i]][Lowest] /\ Low[order[i]] \in Nat
        BY <1>2, OneFurther, Zenon
      <3>4. DemandOf(order[i], Lowest) = Low[order[i]]
        BY <1>1, <1>2, <3>3, RealDemand
      <3>5. SumFunctionOnSet(Low, From(i + 1)) \in Nat
        <4>1. i + 1 \in Nat \ {0}
          BY <1>2, SMTT(20)
        <4> QED
          BY <4>1, SumTypes, Zenon
      <3>6. SumFunctionOnSet(Low, From(i)) <= suffix'[k]
        <4> DEFINE a == SumFunctionOnSet(Low, From(i))
                   b == SumFunctionOnSet(Low, From(i + 1))
                   l == Low[order[i]]
                   x == suffix[i]
                   y == suffix'[k]
        <4>1. a = l + b /\ b <= x /\ b \in Nat /\ l \in Nat /\ x \in Nat
          BY <3>1, <3>2, <3>3, <3>5, Zenon
        <4>2. y = x + l
          BY <3>1, <3>4, Zenon
        <4> HIDE DEF a, b, l, x, y
        <4>3. a <= y
          BY <4>1, <4>2
        <4> QED
          BY <4>3, Zenon DEF a, y
      <3> QED
        BY <3>1, <3>6, Zenon
    <2> QED
      BY <1>2, <1>5, <2>1, <2>2
  <1>6. Reserved'
    BY <1>1, <1>3, <1>5 DEF Reserved
  <1>7. Assigned' /\ worker' \notin {"top", "sleep", "waiting"}
    BY <1>1 DEF Assigned
  <1> QED
    BY <1>4, <1>6, <1>7 DEF Tracked

LEMMA SuffixDoneTracked ==
  ASSUME Typed, Tracked, SuffixDone
  PROVE  Tracked'
  <1>1. /\ worker = "suffix" /\ worker' = "assign" /\ i <= 1 /\ i' = 1 /\ current' = 0
        /\ budget' = throughput_supply
        /\ UNCHANGED <<admitted, deferred, demand, cap, throughput_supply, order, suffix>>
    BY DEF SuffixDone, requestVars
  <1>2. Low' = Low /\ AtCap' = AtCap /\ (\A k : From(k)' = From(k)) /\ Before(1)' = Before(1)
    BY <1>1, Zenon DEF Low, AtCap, From, Before
  <1>3. Listed'
    BY <1>1 DEF Tracked, Listed, Range
  <1>4. Reserved'
    <2>1. \A k \in 1 .. Len(order) : k >= i
      <3>1. i \in Int
        BY SumTypes DEF Typed, TypeOK
      <3> QED
        BY <1>1, <3>1
    <2> QED
      BY <1>1, <1>2, <2>1 DEF Tracked, Reserved
  <1>5. Assigned'
    <2>1. SumFunctionOnSet(AtCap', Before(1)') = 0
      BY <1>2, PositionsFact, SumEmpty, Zenon
    <2>2. 1 .. 1 - 1 = {} /\ 0 <= 0
      OBVIOUS
    <2> QED
      BY <1>1, <2>1, <2>2, Zenon DEF Assigned
  <1> QED
    BY <1>1, <1>3, <1>4, <1>5 DEF Tracked

LEMMA LookTracked ==
  ASSUME Typed, Tracked, AssignLook
  PROVE  Tracked'
  <1>1. /\ worker = "assign" /\ i <= Len(order)
        /\ UNCHANGED <<admitted, deferred, demand, cap, throughput_supply, order, suffix, budget, current>>
    BY DEF AssignLook, requestVars
  <1>2. i \in 1 .. Len(order)
    BY <1>1, SumTypes DEF Typed, TypeOK, Positioned
  <1>3. worker' = "decide" /\ i' = i
    <2>1. order[i] \in admitted \cup deferred
      BY <1>1, <1>2, RealDemand
    <2> QED
      BY <2>1 DEF AssignLook
  <1>4. Low' = Low /\ AtCap' = AtCap /\ (\A k : From(k)' = From(k)) /\ \A k : Before(k)' = Before(k)
    BY <1>1, Zenon DEF Low, AtCap, From, Before
  <1>5. Listed'
    BY <1>1, <1>3 DEF Tracked, Listed, Range
  <1>6. Reserved'
    BY <1>1, <1>3, <1>4 DEF Tracked, Reserved
  <1>7. Assigned'
    <2>1. From(i)' = From(i) /\ Before(i)' = Before(i)
      BY <1>1, <1>3, ZenonT(30) DEF From, Before
    <2> QED
      BY <1>1, <1>3, <1>4, <2>1 DEF Tracked, Assigned
  <1> QED
    BY <1>3, <1>5, <1>6, <1>7 DEF Tracked

\* A cap is set: either the request and the lowest demands of those after it fit, or
\* it is the lowest cap.
LEMMA SetCapTracked ==
  ASSUME Typed, Tracked, worker = "decide", NEW c \in 1 .. Lowest, SetCap(order[i], c),
         c = Lowest \/ current + DemandOf(order[i], c) + suffix[i] <= budget,
         UNCHANGED <<requests, admitted, deferred, demand, throughput_supply>>
  PROVE  Tracked'
  <1> DEFINE r == order[i]
             D == demand[r][c]
             S == Before(i)
             T == From(i)
             U == From(i + 1)
             low == SumFunctionOnSet(Low, U)
  <1>1. /\ i \in 1 .. Len(order) /\ i \in 0 .. Len(order) + 1 /\ i + 1 \in Nat \ {0} /\ Len(order) \in Nat
        /\ i \in Nat /\ current \in Nat /\ budget \in Nat
    <2>1. i \in 0 .. Len(order) + 1 /\ current \in Nat /\ budget \in Nat
      BY DEF Typed, TypeOK
    <2>2. i <= Len(order) /\ i >= 1 /\ Len(order) \in Nat
      BY SumTypes DEF Typed, Positioned
    <2> QED
      BY <2>1, <2>2
  <1>2. /\ r \in Requests /\ r \in admitted \cup deferred /\ D \in Nat /\ DemandOf(r, c) = D
    BY <1>1, RealDemand, Zenon
  <1>3. /\ worker' = "assign" /\ i' = i + 1 /\ current' = current + D
        /\ cap' = [cap EXCEPT ![r] = c] /\ UNCHANGED <<order, suffix, budget>>
    BY <1>2, Zenon DEF SetCap, HasState
  <1>4. /\ Low' = Low /\ \A k : From(k)' = From(k)
    BY <1>3, Zenon DEF Low, From
  <1>5. /\ Before(i)' = S \cup {r} /\ r \notin S /\ From(i)' = U
        /\ SumFunctionOnSet(Low, T) = Low[r] + low /\ Low[r] = demand[r][Lowest] /\ Low[r] \in Nat
    <2>1. /\ Before(i + 1) = S \cup {r} /\ r \notin S
          /\ SumFunctionOnSet(Low, T) = Low[r] + low /\ Low[r] = demand[r][Lowest] /\ Low[r] \in Nat
      BY <1>1, OneFurther, Zenon
    <2>2. Before(i)' = Before(i + 1) /\ From(i)' = U
      BY <1>3, Zenon DEF Before, From
    <2> QED
      BY <2>1, <2>2, Zenon
  <1>6. SumFunctionOnSet(AtCap', S \cup {r}) <= current + D
    <2>1. cap \in [Requests -> 1 .. Lowest] /\ AtCap \in [Requests -> Nat] /\ S \in SUBSET Requests
          /\ demand \in [Requests -> [1 .. Lowest -> Nat]]
      BY <1>1, SumTypes, EngineParts, Zenon
    <2>2. AtCap' = [x \in Requests |-> IF x = r THEN D ELSE AtCap[x]]
      <3>1. AtCap' = [x \in Requests |-> demand[x][cap'[x]]]
        BY Zenon DEF AtCap
      <3>2. \A x \in Requests : cap'[x] = IF x = r THEN c ELSE cap[x]
        BY <1>3, <2>1, Zenon
      <3>3. \A x \in Requests : AtCap[x] = demand[x][cap[x]]
        BY Zenon DEF AtCap
      <3> QED
        BY <3>1, <3>2, <3>3, ZenonT(30)
    <2> DEFINE f == AtCap'
               V == S \cup {r}
    <2>3. f \in [Requests -> Nat] /\ f[r] = D /\ \A x \in S : f[x] = AtCap[x]
      <3> HIDE DEF r, D, S
      <3> QED
        BY <1>2, <1>5, <2>1, <2>2
    <2>4. V \in SUBSET Requests /\ IsFiniteSet(V) /\ IsFiniteSet(S) /\ r \in V /\ V \ {r} = S
      <3>1. V \in SUBSET Requests /\ r \in V /\ V \ {r} = S
        <4> HIDE DEF r, S
        <4> QED
          BY <1>2, <1>5, <2>1, ZenonT(30)
      <3> QED
        BY <2>1, <3>1, SumTypes, Zenon
    <2>5. \A x \in S : f[x] <= AtCap[x]
      <3>1. \A x \in S : AtCap[x] \in Nat
        BY <2>1, Zenon
      <3> HIDE DEF f, S
      <3> QED
        BY <2>3, <3>1
    <2> HIDE DEF f, V, S, r, D
    <2>6. SumFunctionOnSet(f, V) = D + SumFunctionOnSet(f, S) /\ SumFunctionOnSet(f, S) \in Nat
      <3>1. SumFunctionOnSet(f, V) = f[r] + SumFunctionOnSet(f, V \ {r})
        BY <2>3, <2>4, SumRemove
      <3>2. SumFunctionOnSet(f, S) \in Nat
        BY <2>1, <2>3, <2>4, SumRemove, Zenon
      <3> QED
        BY <2>3, <2>4, <3>1, <3>2, Zenon
    <2>7. SumFunctionOnSet(f, S) <= SumFunctionOnSet(AtCap, S)
      <3>1. S \in SUBSET S
        OBVIOUS
      <3> QED
        BY <2>1, <2>3, <2>4, <2>5, <3>1, SumMonotone, Zenon
    <2>8. SumFunctionOnSet(AtCap, S) <= current /\ SumFunctionOnSet(AtCap, S) \in Nat
      BY <2>1, SumTypes, Zenon DEF Tracked, Assigned, S
    <2>9. SumFunctionOnSet(f, V) <= current + D
      BY <1>1, <1>2, <2>6, <2>7, <2>8
    <2> QED
      BY <2>9, Zenon DEF f, V
  <1>7. low \in Nat /\ suffix[i] \in Nat /\ low <= suffix[i]
    <2>1. U \in SUBSET Requests /\ suffix[i] \in Nat
      BY <1>1, SumTypes, PositionsFact, Zenon
    <2>2. low <= suffix[i]
      BY <1>1 DEF Tracked, Reserved
    <2> QED
      BY <2>1, <2>2, SumTypes, Zenon
  <1>8. \/ current + D + low <= budget
        \/ \A j \in 1 .. i : cap'[order[j]] = Lowest
    <2> HIDE DEF low, D
    <2>1. CASE current + D + suffix[i] <= budget
      BY <1>1, <1>2, <1>7, <2>1
    <2>2. CASE c = Lowest /\ current + SumFunctionOnSet(Low, T) <= budget
      <3>1. SumFunctionOnSet(Low, T) = D + low
        BY <1>5, <2>2 DEF D
      <3> QED
        BY <1>1, <1>2, <1>7, <2>2, <3>1, SMTT(20)
    <2>3. CASE c = Lowest /\ \A j \in 1 .. i - 1 : cap[order[j]] = Lowest
      <3> SUFFICES ASSUME NEW j \in 1 .. i
                   PROVE  cap'[order[j]] = Lowest
        BY Zenon
      <3>1. cap \in [Requests -> 1 .. Lowest]
        BY EngineParts
      <3>2. CASE j = i
        BY <1>2, <1>3, <2>3, <3>1, <3>2
      <3>3. CASE j # i
        <4>1. j \in 1 .. i - 1 /\ j \in 1 .. Len(order)
          BY <1>1, <3>3, SMTT(20)
        <4>2. order[j] # r /\ order[j] \in Requests
          BY <1>1, <3>3, <4>1, RealDemand DEF Typed, Positioned
        <4> QED
          BY <1>3, <2>3, <3>1, <4>1, <4>2
      <3> QED
        BY <3>2, <3>3, Zenon
    <2>4. \/ current + SumFunctionOnSet(Low, T) <= budget
          \/ \A j \in 1 .. i - 1 : cap[order[j]] = Lowest
      BY Zenon DEF Tracked, Assigned
    <2> QED
      BY <1>2, <2>1, <2>2, <2>3, <2>4, Zenon
  <1>9. Assigned'
    <2>1. budget = throughput_supply
      BY Zenon DEF Tracked, Assigned
    <2>2. SumFunctionOnSet(AtCap', Before(i)') <= current'
      BY <1>3, <1>5, <1>6, ZenonT(30)
    <2>3. 1 .. i' - 1 = 1 .. i
      <3>1. i \in Nat /\ i' = i + 1
        BY <1>1, <1>3, Zenon
      <3> QED
        BY <3>1, OneMore, Zenon
    <2>4. \/ current' + SumFunctionOnSet(Low', From(i)') <= budget'
          \/ \A j \in 1 .. i' - 1 : cap'[order'[j]] = Lowest
      <3>1. current' + SumFunctionOnSet(Low', From(i)') = current + D + low
        BY <1>3, <1>4, <1>5, ZenonT(30)
      <3> HIDE DEF r, D, S, T, U, low
      <3> QED
        BY <1>3, <1>8, <2>3, <3>1, Zenon
    <2> QED
      BY <1>3, <2>1, <2>2, <2>4, ZenonT(30) DEF Assigned
  <1>10. Listed'
    BY <1>3, Zenon DEF Tracked, Listed, Range
  <1>11. Reserved'
    BY <1>3, <1>4 DEF Tracked, Reserved
  <1> QED
    BY <1>3, <1>9, <1>10, <1>11 DEF Tracked

\* Nothing has gone, so the update does not fail.
LEMMA AssignCapTracked ==
  ASSUME Typed, Tracked, AssignCap
  PROVE  Tracked'
  <1>1. worker = "decide" /\ UNCHANGED <<requests, admitted, deferred, demand, throughput_supply>>
    BY DEF AssignCap
  <1>2. i \in 1 .. Len(order)
    <2>1. i \in 0 .. Len(order) + 1 /\ i <= Len(order) /\ i >= 1
      BY <1>1 DEF Typed, TypeOK, Positioned
    <2> QED
      BY <2>1, SumTypes
  <1>3. order[i] \in requests
    BY <1>1, <1>2, RealDemand, SMTT(20)
  <1>4. Lowest \in 1 .. Lowest
    BY LoadControlAssumption DEF Lowest
  <1>5. CASE SetCap(order[i], Lowest)
    BY <1>1, <1>4, <1>5, SetCapTracked
  <1>6. CASE SetCap(order[i], Threshold(order[i]))
    BY <1>1, <1>6, SetCapTracked, ThresholdFact
  <1> QED
    BY <1>3, <1>5, <1>6, Zenon DEF AssignCap

\* At the end of the list the demands at the caps are within the budget, or all caps
\* are the lowest.
LEMMA AssignDoneTracked ==
  ASSUME Typed, Tracked, AssignDone
  PROVE  Tracked'
  <1>1. /\ worker = "assign" /\ worker' = "sleep" /\ i > Len(order)
        /\ UNCHANGED <<admitted, demand, cap, throughput_supply>>
    BY DEF AssignDone, Return
  <1>2. i = Len(order) + 1 /\ Len(order) \in Nat
    BY <1>1, SumTypes DEF Typed, TypeOK
  <1>3. /\ current \in Nat /\ budget \in Nat /\ budget = throughput_supply
        /\ SumFunctionOnSet(AtCap, Range(order)) <= current
        /\ \/ current + 0 <= budget
           \/ \A j \in 1 .. i - 1 : cap[order[j]] = Lowest
    <2>1. Before(i) = Range(order) /\ From(i) = {}
      BY <1>2, PositionsFact, Zenon
    <2>2. SumFunctionOnSet(Low, From(i)) = 0
      BY <2>1, SumEmpty, Zenon
    <2>3. current \in Nat /\ budget \in Nat
      BY DEF Typed, TypeOK
    <2> QED
      BY <1>1, <2>1, <2>2, <2>3 DEF Tracked, Assigned
  <1>4. /\ admitted \in SUBSET Range(order) /\ Range(order) \in SUBSET Requests
        /\ IsFiniteSet(Range(order)) /\ AtCap \in [Requests -> Nat] /\ admitted \in SUBSET Requests
    <2>1. admitted \in SUBSET Range(order)
      BY <1>1 DEF Tracked, Listed
    <2>2. Range(order) \in SUBSET Requests
      BY PositionsFact, Zenon
    <2> QED
      BY <2>1, <2>2, SumTypes, Zenon
  <1>5. SumFunctionOnSet(AtCap, admitted) <= SumFunctionOnSet(AtCap, Range(order))
    <2>1. \A x \in admitted : AtCap[x] <= AtCap[x]
      BY <1>4
    <2> QED
      BY <1>4, <2>1, SumMonotone
  <1>6. SumFunctionOnSet(AtCap, admitted) \in Nat /\ SumFunctionOnSet(AtCap, Range(order)) \in Nat
    BY <1>4, SumTypes, Zenon
  <1>7. Within
    <2>1. CASE current + 0 <= budget
      <3>1. SumFunctionOnSet(AtCap, admitted) <= throughput_supply
        BY <1>3, <1>5, <1>6, <2>1
      <3> QED
        BY <3>1, Zenon DEF Within
    <2>2. CASE \A j \in 1 .. i - 1 : cap[order[j]] = Lowest
      <3>1. \A r \in admitted : \E j \in 1 .. i - 1 : r = order[j]
        <4>1. DOMAIN order = 1 .. i - 1
          BY <1>2, SumTypes
        <4> QED
          BY <1>4, <4>1, Zenon DEF Range
      <3> QED
        BY <2>2, <3>1, Zenon DEF Within
    <2> QED
      BY <1>3, <2>1, <2>2, Zenon
  <1>8. Within'
    <2>1. AtCap' = AtCap
      BY <1>1, Zenon DEF AtCap
    <2> QED
      BY <1>1, <1>7, <2>1, Zenon DEF Within
  <1>9. Listed' /\ Reserved' /\ Assigned'
    BY <1>1 DEF Listed, Reserved, Assigned
  <1> QED
    BY <1>8, <1>9 DEF Tracked

\* The updater between two updates.
LEMMA WorkerTracked ==
  ASSUME CapsTracked, WorkerTop \/ DebounceTimeout \/ DebounceDone \/ SleepOver
  PROVE  CapsTracked'
  <1>1. UNCHANGED <<stop, requestVars, threadVars>>
    BY DEF WorkerTop, DebounceTimeout, DebounceDone, SleepOver
  <1>2. worker' \in {"exited", "debounce", "debounced", "list", "waiting", "top"}
    BY DEF WorkerTop, DebounceTimeout, DebounceDone, SleepOver
  <1>3. worker' \in {"waiting", "top"} => worker \in {"top", "sleep"} /\ pending' = pending
    BY DEF WorkerTop, DebounceTimeout, DebounceDone, SleepOver
  <1>4. Listed' /\ Reserved' /\ Assigned'
    BY <1>2 DEF Listed, Reserved, Assigned
  <1>5. ASSUME Clean', worker' \in {"waiting", "top"}
        PROVE  Within'
    <2>1. Clean
      BY <1>1, <1>3, <1>5 DEF Clean, threadVars
    <2>2. Within
      BY <1>3, <1>5, <2>1 DEF CapsTracked, Tracked
    <2>3. AtCap' = AtCap
      BY <1>1, Zenon DEF AtCap, requestVars
    <2> QED
      BY <1>1, <2>2, <2>3 DEF Within, requestVars
  <1> QED
    BY <1>2, <1>4, <1>5 DEF CapsTracked, Tracked

LEMMA UpdaterTracked ==
  ASSUME Typed, CapsTracked, Updater
  PROVE  CapsTracked'
  <1>1. CASE WorkerTop \/ DebounceTimeout \/ DebounceDone \/ SleepOver
    BY <1>1, WorkerTracked
  <1>2. ASSUME \/ ListAdmitted \/ ListDeferred \/ SortByProgress
               \/ SuffixStep \/ SuffixDone \/ AssignLook \/ AssignCap \/ AssignDone
        PROVE  CapsTracked'
    <2>1. UNCHANGED <<pending, stop, threadVars>>
      BY <1>2 DEF ListAdmitted, ListDeferred, SortByProgress, SuffixStep, SuffixDone, AssignLook,
                  AssignCap, AssignDone
    <2>2. Clean' => Clean
      BY <2>1 DEF Clean, threadVars
    <2>3. Tracked => Tracked'
      BY <1>2, ListTracked, SortTracked, SuffixTracked, SuffixDoneTracked, LookTracked,
         AssignCapTracked, AssignDoneTracked, Zenon
    <2> QED
      BY <2>2, <2>3, ZenonT(30) DEF CapsTracked
  <1> QED
    BY <1>1, <1>2, Zenon DEF Updater

\* Whoever changes an input of the updater leaves a mark, made or still to be made;
\* decrements only lower demands, and a new request is unknown to a running update.
LEMMA OthersTracked ==
  ASSUME Typed, Typed', CapsTracked, NEW r \in Requests,
         \/ AddRequest(r) \/ AdmitPop(r) \/ AdmitInsert(r)
         \/ FreeState(r) \/ DropState(r) \/ DeleteRequest(r)
         \/ StepDecrements(r) \/ RefreshEstimate(r)
  PROVE  CapsTracked'
  <1>1. CASE AdmitPop(r) \/ AdmitInsert(r) \/ FreeState(r) \/ DropState(r) \/ DeleteRequest(r)
    <2>1. engine' \in {<<"admit", r>>, <<"mark">>, <<"free", r>>, <<"drop", r>>, <<"dropped">>}
      BY <1>1 DEF AdmitPop, AdmitInsert, FreeState, DropState, DeleteRequest
    <2>2. engine' # <<"idle">>
      BY <2>1
    <2> QED
      BY <2>2, Zenon DEF CapsTracked, Clean
  <1>2. CASE RefreshEstimate(r)
    <2>1. estimator' # "idle"
      BY <1>2 DEF RefreshEstimate
    <2> QED
      BY <2>1, Zenon DEF CapsTracked, Clean
  <1>3. CASE AddRequest(r)
    <2>1. /\ r \notin requests /\ r \notin Range(order) /\ deferred' = deferred \cup {r}
          /\ cap' = [cap EXCEPT ![r] = floor]
          /\ UNCHANGED <<admitted, throughput_supply, threadVars, monitorVars, localVars>>
          /\ \E d : demand' = [demand EXCEPT ![r] = d]
      BY <1>3, Zenon DEF AddRequest
    <2>2. UNCHANGED worker /\ (Clean' => Clean)
      BY <2>1 DEF Clean, threadVars, monitorVars
    <2>3. r \notin admitted \cup Range(order)
      BY <2>1, EngineParts
    <2>4. \A x \in admitted \cup Range(order) :
             cap'[x] = cap[x] /\ \A c \in 1 .. Lowest : demand'[x][c] <= demand[x][c]
      <3> SUFFICES ASSUME NEW x \in admitted \cup Range(order)
                   PROVE  cap'[x] = cap[x] /\ \A c \in 1 .. Lowest : demand'[x][c] <= demand[x][c]
        BY Zenon
      <3>1. x \in Requests /\ x # r
        BY <2>3, EngineParts, PositionsFact
      <3>2. cap'[x] = cap[x] /\ demand'[x] = demand[x]
        BY <2>1, <3>1, EngineParts
      <3>3. \A c \in 1 .. Lowest : demand[x][c] \in Nat
        BY <3>1, DemandFact, Zenon DEF Typed
      <3>4. \A c \in 1 .. Lowest : demand[x][c] <= demand[x][c]
        BY <3>3, DecrementFact, Zenon
      <3> QED
        BY <3>2, <3>4, ZenonT(30)
    <2> QED
      BY <2>1, <2>2, <2>4, DecreaseTracked DEF CapsTracked
  <1>4. CASE StepDecrements(r)
    <2>1. /\ demand' = [demand EXCEPT ![r] = [c \in 1 .. Lowest |->
                            IF demand[r][c] > 0 THEN demand[r][c] - 1 ELSE 0]]
          /\ UNCHANGED <<admitted, deferred, cap, throughput_supply, threadVars, monitorVars, localVars>>
      BY <1>4 DEF StepDecrements
    <2>2. UNCHANGED worker /\ (Clean' => Clean)
      BY <2>1 DEF Clean, threadVars, monitorVars
    <2>3. ASSUME NEW x \in Requests, NEW c \in 1 .. Lowest
          PROVE  demand'[x][c] <= demand[x][c]
      <3>1. demand[x][c] \in Nat
        BY DemandFact, Zenon DEF Typed
      <3>2. demand'[x][c] = demand[x][c] \/ demand'[x][c] = IF demand[x][c] > 0 THEN demand[x][c] - 1 ELSE 0
        <4>1. CASE x = r
          BY <2>1, <4>1, EngineParts, Zenon
        <4>2. CASE x # r
          BY <2>1, <4>2, EngineParts, Zenon
        <4> QED
          BY <4>1, <4>2, Zenon
      <3> QED
        BY <3>1, <3>2, DecrementFact, ZenonT(30)
    <2>4. \A x \in admitted \cup Range(order) :
             cap'[x] = cap[x] /\ \A c \in 1 .. Lowest : demand'[x][c] <= demand[x][c]
      <3>1. admitted \cup Range(order) \in SUBSET Requests
        BY EngineParts, PositionsFact
      <3> QED
        BY <2>1, <2>3, <3>1, Zenon
    <2> QED
      BY <2>1, <2>2, <2>4, DecreaseTracked, SMTT(20) DEF CapsTracked
  <1> QED
    BY <1>1, <1>2, <1>3, <1>4, Zenon

\* Spec implies that whenever the updater has come to rest the demand of the admitted
\* requests at their caps is within the supply, or every cap is the lowest, however
\* the engine's loop and the estimate worker have interfered with its updates
\* (update_request_max_confidence_thresholds of tediserve_scheduler.py and _worker_loop
\* of async_max_confidence_threshold_updater.py).
THEOREM CapsFitSupply == Spec => []CapsWithinSupply
<1>1. Init => Typed /\ CapsTracked
    <2>1. Init => Tracked
        <3> SUFFICES ASSUME Init
                     PROVE  Tracked
            OBVIOUS
        <3>1. worker = "top" /\ admitted = {}
            BY DEF Init
        <3>2. Within
            BY <3>1, Zenon DEF Within
        <3> QED
            BY <3>1, <3>2 DEF Tracked, Listed, Reserved, Assigned
    <2> QED
        BY <2>1, TypedInit, SMTT(20) DEF CapsTracked
<1>2. Typed /\ CapsTracked /\ [Next]_vars => Typed' /\ CapsTracked'
    <2> SUFFICES ASSUME Typed, CapsTracked, [Next]_vars
                 PROVE  Typed' /\ CapsTracked'
        OBVIOUS
    <2>1. Typed'
        BY TypedNext
    <2> SUFFICES CapsTracked'
        BY <2>1
    <2>2. CASE Updater
        BY <2>2, UpdaterTracked
    <2>3. CASE EngineMarks \/ EstimatorMarks \/ Shutdown
        <3>1. ~Clean'
            BY <2>3 DEF Clean, EngineMarks, EstimatorMarks, Shutdown, mark_should_update, monitorVars
        <3> QED
            BY <3>1, Zenon DEF CapsTracked
    <2>4. CASE UpdateThroughputSupply
        <3>1. ~Clean'
            BY <2>4 DEF Clean, UpdateThroughputSupply
        <3> QED
            BY <3>1, Zenon DEF CapsTracked
    <2>5. ASSUME NEW r \in Requests,
                 \/ AddRequest(r) \/ AdmitPop(r) \/ AdmitInsert(r)
                 \/ FreeState(r) \/ DropState(r) \/ DeleteRequest(r)
                 \/ StepDecrements(r) \/ RefreshEstimate(r)
          PROVE  CapsTracked'
        BY <2>1, <2>5, OthersTracked
    <2>6. CASE UNCHANGED vars
        <3>1. /\ UNCHANGED <<worker, engine, estimator, pending, stop>>
              /\ UNCHANGED <<admitted, deferred, throughput_supply, localVars, cap, demand>>
            BY <2>6, Zenon DEF vars, requestVars, threadVars, monitorVars
        <3>2. \A r \in admitted \cup Range(order) :
                 cap'[r] = cap[r] /\ \A c \in 1 .. Lowest : demand'[r][c] <= demand[r][c]
            <4>1. admitted \cup Range(order) \in SUBSET Requests
                BY EngineParts, PositionsFact
            <4>2. \A r \in Requests : \A c \in 1 .. Lowest : demand[r][c] \in Nat
                BY DemandFact DEF Typed
            <4> QED
                BY <3>1, <4>1, <4>2
        <3> QED
            BY <2>1, <3>1, <3>2, DecreaseTracked DEF CapsTracked, Clean
    <2> QED
        BY <2>1, <2>2, <2>3, <2>4, <2>5, <2>6, Zenon DEF Next
<1>3. Typed /\ CapsTracked /\ MarkWakesUpdater => CapsWithinSupply
    <2> SUFFICES ASSUME CapsTracked, MarkWakesUpdater, Settled
                 PROVE  \/ SumFunctionOnSet([r \in Requests |-> demand[r][cap[r]]], admitted) <= throughput_supply
                        \/ \A r \in admitted : cap[r] = Lowest
        BY Zenon DEF CapsWithinSupply
    <2>1. Clean /\ worker = "waiting"
        BY DEF Settled, MarkWakesUpdater, Clean
    <2> QED
        BY <2>1 DEF CapsTracked, Tracked, Within, AtCap
<1>4. Spec => [](Typed /\ CapsTracked)
    BY <1>1, <1>2, PTL DEF Spec
<1> QED
    BY <1>3, <1>4, MarksNeverLost, PTL
=============================================================================
