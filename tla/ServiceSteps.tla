--------------------------- MODULE ServiceSteps ----------------------------
(* EngineCore and RequestService, first part: what every action of the     *)
(* engine does to the life of the requests.                                *)
EXTENDS EngineService, TLAPS

-----------------------------------------------------------------------------
(* What the scheduler's operations on its deque of deferred requests do to  *)
(* the set of its elements.                                                 *)

LEMMA RangeAppend ==
  ASSUME NEW T, NEW s \in Seq(T), NEW x \in T
  PROVE  Range(Append(s, x)) = Range(s) \cup {x}
  <1>1. /\ Append(s, x) \in Seq(T)
        /\ DOMAIN s = 1 .. Len(s) /\ DOMAIN Append(s, x) = 1 .. Len(s) + 1
        /\ \A i \in 1 .. Len(s) : Append(s, x)[i] = s[i]
        /\ Append(s, x)[Len(s) + 1] = x
        /\ Len(s) \in Nat
    OBVIOUS
  <1>2. \A i \in 1 .. Len(s) + 1 : i \in 1 .. Len(s) \/ i = Len(s) + 1
    BY <1>1
  <1>3. \A i \in 1 .. Len(s) : i \in 1 .. Len(s) + 1
    BY <1>1
  <1>4. Len(s) + 1 \in 1 .. Len(s) + 1
    BY <1>1
  <1> QED
    BY <1>1, <1>2, <1>3, <1>4, Zenon DEF Range

LEMMA AppendInjective ==
  ASSUME NEW T, NEW s \in Seq(T), NEW x \in T, IsInjective(s), x \notin Range(s)
  PROVE  IsInjective(Append(s, x))
  <1>1. \A i \in DOMAIN s : s[i] # x
    BY Zenon DEF Range
  <1> QED
    BY <1>1 DEF IsInjective

LEMMA TailInjective ==
  ASSUME NEW T, NEW s \in Seq(T), s # <<>>, IsInjective(s)
  PROVE  /\ Head(s) \in Range(s)
         /\ Range(Tail(s)) = Range(s) \ {Head(s)}
         /\ IsInjective(Tail(s))
  <1>1. /\ Len(s) \in Nat /\ Len(s) >= 1 /\ Head(s) = s[1]
        /\ DOMAIN s = 1 .. Len(s) /\ DOMAIN Tail(s) = 1 .. Len(s) - 1
        /\ \A i \in 1 .. Len(s) - 1 : Tail(s)[i] = s[i + 1]
    OBVIOUS
  <1>2. \A i \in 1 .. Len(s) - 1 : i + 1 \in 1 .. Len(s) /\ i + 1 # 1
    BY <1>1
  <1>3. \A i \in 1 .. Len(s) : i = 1 \/ (i - 1 \in 1 .. Len(s) - 1 /\ (i - 1) + 1 = i)
    BY <1>1
  <1>4. 1 \in 1 .. Len(s)
    BY <1>1
  <1>5. \A i, j \in 1 .. Len(s) - 1 : i + 1 = j + 1 => i = j
    BY <1>1
  <1>6. Range(Tail(s)) \subseteq Range(s) \ {Head(s)}
    BY <1>1, <1>2, <1>4 DEF Range, IsInjective
  <1>7. Range(s) \ {Head(s)} \subseteq Range(Tail(s))
    <2> SUFFICES ASSUME NEW k \in 1 .. Len(s), s[k] # Head(s)
                 PROVE  s[k] \in Range(Tail(s))
      BY <1>1, Zenon DEF Range
    <2>1. k - 1 \in 1 .. Len(s) - 1 /\ (k - 1) + 1 = k
      BY <1>1, <1>3
    <2>2. Tail(s)[k - 1] = s[k]
      BY <1>1, <2>1, Zenon
    <2> QED
      BY <1>1, <2>1, <2>2, Zenon DEF Range
  <1>8. IsInjective(Tail(s))
    BY <1>1, <1>2, <1>5 DEF IsInjective
  <1> QED
    BY <1>1, <1>4, <1>6, <1>7, <1>8, Zenon DEF Range

LEMMA RestOfSequence ==
  ASSUME NEW T, NEW s \in Seq(T), NEW i \in 1 .. Len(s)
  PROVE  /\ SubSeq(s, i + 1, Len(s)) \in Seq(T)
         /\ Len(SubSeq(s, i + 1, Len(s))) = Len(s) - i
         /\ \A k \in 1 .. Len(s) - i : SubSeq(s, i + 1, Len(s))[k] = s[k + i]
  <1> DEFINE m == i + 1
             n == Len(s)
  <1>1. m \in Int /\ n \in Int /\ i \in Int /\ i <= n /\ \A k \in m .. n : s[k] \in T
    OBVIOUS
  <1>2. IF m <= n THEN n - m + 1 = n - i ELSE 0 = n - i
    BY <1>1
  <1>3. n - m + 1 = n - i /\ \A k \in 1 .. n - i : m + k - 1 = k + i
    BY <1>1
  <1> HIDE DEF m, n
  <1>4. /\ SubSeq(s, m, n) \in Seq(T)
        /\ Len(SubSeq(s, m, n)) = IF m <= n THEN n - m + 1 ELSE 0
        /\ \A k \in 1 .. n - m + 1 : SubSeq(s, m, n)[k] = s[m + k - 1]
    BY <1>1
  <1> QED
    BY <1>2, <1>3, <1>4, Zenon DEF m, n

\* t is the concatenation of a and b, element by element.
Joins(t, a, b) ==
  /\ DOMAIN t = 1 .. Len(a) + Len(b)
  /\ \A k \in 1 .. Len(a) : t[k] = a[k]
  /\ \A k \in 1 .. Len(b) : t[k + Len(a)] = b[k]

LEMMA ConcatJoins ==
  ASSUME NEW T, NEW a \in Seq(T), NEW b \in Seq(T)
  PROVE  Joins(a \o b, a, b)
  BY DEF Joins

\* t is s without its element i, of a sequence of length n.
Without(s, n, i, t) ==
  /\ DOMAIN t = 1 .. n - 1
  /\ \A k \in 1 .. i - 1 : t[k] = s[k]
  /\ \A k \in 1 .. n - i : t[k + (i - 1)] = s[k + i]

LEMMA RemoveAt ==
  ASSUME NEW s, NEW n \in Nat, NEW i \in 1 .. n, DOMAIN s = 1 .. n, IsInjective(s),
         NEW t, Without(s, n, i, t)
  PROVE  /\ s[i] \in Range(s)
         /\ Range(t) = Range(s) \ {s[i]}
         /\ IsInjective(t)
  <1> USE DEF Without
  <1>6. \A k \in 1 .. n - 1 :
          \/ k \in 1 .. i - 1 /\ t[k] = s[k]
          \/ k \in i .. n - 1 /\ t[k] = s[k + 1]
    <2> SUFFICES ASSUME NEW k \in i .. n - 1 PROVE t[k] = s[k + 1]
      OBVIOUS
    <2>1. k - (i - 1) \in 1 .. n - i /\ (k - (i - 1)) + (i - 1) = k /\ (k - (i - 1)) + i = k + 1
      OBVIOUS
    <2>2. t[(k - (i - 1)) + (i - 1)] = s[(k - (i - 1)) + i]
      BY <2>1, Zenon
    <2> QED
      BY <2>1, <2>2, Zenon
  <1>7. \A k \in 1 .. i - 1 : k \in 1 .. n - 1 /\ k \in 1 .. n /\ k # i
    OBVIOUS
  <1>8. \A k \in i .. n - 1 : k + 1 \in 1 .. n /\ k + 1 # i
    OBVIOUS
  <1>9. Range(t) \subseteq Range(s) \ {s[i]}
    <2> SUFFICES ASSUME NEW k \in 1 .. n - 1
                 PROVE  t[k] \in Range(s) /\ t[k] # s[i]
      BY Zenon DEF Range
    <2>1. \E m \in 1 .. n : m # i /\ t[k] = s[m]
      BY <1>6, <1>7, <1>8, Zenon
    <2> QED
      BY <2>1, Zenon DEF Range, IsInjective
  <1>10. Range(s) \ {s[i]} \subseteq Range(t)
    <2> SUFFICES ASSUME NEW k \in 1 .. n, k # i PROVE s[k] \in Range(t)
      BY Zenon DEF Range
    <2>1. CASE k < i
      <3>1. k \in 1 .. n - 1 /\ ~(k \in i .. n - 1)
        BY <2>1
      <3>2. t[k] = s[k]
        BY <1>6, <3>1, Zenon
      <3> QED
        BY <3>1, <3>2, Zenon DEF Range
    <2>2. CASE ~(k < i)
      <3>1. k - 1 \in 1 .. n - 1 /\ ~(k - 1 \in 1 .. i - 1) /\ (k - 1) + 1 = k
        BY <2>2
      <3>2. t[k - 1] = s[k]
        BY <1>6, <3>1
      <3> QED
        BY <3>1, <3>2, Zenon DEF Range
    <2> QED
      BY <2>1, <2>2, Zenon
  <1>11. IsInjective(t)
    <2> SUFFICES ASSUME NEW k \in 1 .. n - 1, NEW m \in 1 .. n - 1, t[k] = t[m]
                 PROVE  k = m
      BY Zenon DEF IsInjective
    <2> DEFINE From(x, y) == (x \in 1 .. i - 1 /\ y = x) \/ (x \in i .. n - 1 /\ y = x + 1)
    <2>1. PICK k1 \in 1 .. n : From(k, k1) /\ t[k] = s[k1]
      BY <1>6, <1>7, <1>8, Zenon
    <2>2. PICK m1 \in 1 .. n : From(m, m1) /\ t[m] = s[m1]
      BY <1>6, <1>7, <1>8, Zenon
    <2>3. k1 = m1
      BY <2>1, <2>2, Zenon DEF IsInjective
    <2> QED
      BY <2>1, <2>2, <2>3
  <1> QED
    BY <1>9, <1>10, <1>11, Zenon DEF Range

\* Taking the i-th element out of a sequence, as _drop_deferred_request does.
LEMMA RemoveInjective ==
  ASSUME NEW T, NEW s \in Seq(T), NEW i \in 1 .. Len(s), IsInjective(s)
  PROVE  LET t == SubSeq(s, 1, i - 1) \o SubSeq(s, i + 1, Len(s))
         IN  /\ s[i] \in Range(s)
             /\ Range(t) = Range(s) \ {s[i]}
             /\ IsInjective(t)
  <1> DEFINE a == SubSeq(s, 1, i - 1)
             b == SubSeq(s, i + 1, Len(s))
  <1>1. Len(s) \in Nat /\ DOMAIN s = 1 .. Len(s)
    OBVIOUS
  <1>2. a \in Seq(T) /\ Len(a) = i - 1 /\ \A k \in 1 .. i - 1 : a[k] = s[k]
    BY <1>1
  <1>3. b \in Seq(T) /\ Len(b) = Len(s) - i /\ \A k \in 1 .. Len(s) - i : b[k] = s[k + i]
    BY RestOfSequence, Zenon
  <1> HIDE DEF a, b
  <1>4. Joins(a \o b, a, b)
    <2>1. a \in Seq(T)
      BY <1>2, Zenon
    <2>2. b \in Seq(T)
      BY <1>3, Zenon
    <2> QED
      BY <2>1, <2>2, ConcatJoins, Zenon
  <1>5. (i - 1) + (Len(s) - i) = Len(s) - 1
    BY <1>1
  <1>6. Without(s, Len(s), i, a \o b)
    BY <1>2, <1>3, <1>4, <1>5, Zenon DEF Without, Joins
  <1>7. /\ s[i] \in Range(s)
        /\ Range(a \o b) = Range(s) \ {s[i]}
        /\ IsInjective(a \o b)
    BY <1>1, <1>6, RemoveAt, Zenon
  <1> QED
    BY <1>7, Zenon DEF a, b

-----------------------------------------------------------------------------
(* The ADD messages in a queue.                                            *)

LEMMA FirstMessage ==
  ASSUME NEW q \in Seq(Messages), q # <<>>
  PROVE  Head(q).req \in Requests
  <1>1. Head(q) \in Messages
    OBVIOUS
  <1> QED
    BY <1>1 DEF Messages

LEMMA AddsOfAppend ==
  ASSUME NEW q \in Seq(Messages), NEW m \in Messages, OneAddEach(q),
         m.type = "ADD" => m.req \notin Adds(q)
  PROVE  /\ Adds(Append(q, m)) = IF m.type = "ADD" THEN Adds(q) \cup {m.req} ELSE Adds(q)
         /\ OneAddEach(Append(q, m))
  <1> DEFINE p == Append(q, m)
             n == Len(q)
  <1>1. /\ n \in Nat /\ DOMAIN q = 1 .. n /\ DOMAIN p = 1 .. n + 1
        /\ p[n + 1] = m /\ \A i \in 1 .. n : p[i] = q[i]
    OBVIOUS
  <1>2. /\ \A i \in 1 .. n + 1 : i \in 1 .. n \/ i = n + 1
        /\ \A i \in 1 .. n : i \in 1 .. n + 1
        /\ n + 1 \in 1 .. n + 1
    BY <1>1
  <1>3. m.req \in Requests
    BY DEF Messages
  <1> HIDE DEF p, n
  <1>4. ASSUME NEW r \in Requests
        PROVE  r \in Adds(p) <=> r \in Adds(q) \/ (m.type = "ADD" /\ r = m.req)
    <2>1. ASSUME r \in Adds(p) PROVE r \in Adds(q) \/ (m.type = "ADD" /\ r = m.req)
      <3>1. PICK i \in 1 .. n + 1 : p[i].type = "ADD" /\ p[i].req = r
        BY <1>1, <2>1, Zenon DEF Adds
      <3>2. CASE i \in 1 .. n
        BY <1>1, <3>1, <3>2, Zenon DEF Adds
      <3>3. CASE i = n + 1
        BY <1>1, <3>1, <3>3, Zenon
      <3> QED
        BY <1>2, <3>2, <3>3, Zenon
    <2>2. ASSUME r \in Adds(q) PROVE r \in Adds(p)
      <3>1. PICK i \in 1 .. n : q[i].type = "ADD" /\ q[i].req = r
        BY <1>1, <2>2, Zenon DEF Adds
      <3>2. i \in DOMAIN p /\ p[i] = q[i]
        BY <1>1, <1>2, Zenon
      <3> QED
        BY <3>1, <3>2, Zenon DEF Adds
    <2>3. ASSUME m.type = "ADD", r = m.req PROVE r \in Adds(p)
      BY <1>1, <1>2, <2>3, Zenon DEF Adds
    <2> QED
      BY <2>1, <2>2, <2>3, Zenon
  <1>5. OneAddEach(p)
    <2> SUFFICES ASSUME NEW i \in 1 .. n + 1, NEW j \in 1 .. n + 1,
                        p[i].type = "ADD", p[j].type = "ADD", p[i].req = p[j].req
                 PROVE  i = j
      BY <1>1, Zenon DEF OneAddEach
    <2>1. CASE i \in 1 .. n /\ j \in 1 .. n
      BY <1>1, <2>1, Zenon DEF OneAddEach
    <2>2. CASE i \in 1 .. n /\ j = n + 1
      BY <1>1, <1>3, <2>2, Zenon DEF Adds
    <2>3. CASE j \in 1 .. n /\ i = n + 1
      BY <1>1, <1>3, <2>3, Zenon DEF Adds
    <2> QED
      BY <1>2, <2>1, <2>2, <2>3, Zenon
  <1>6. Adds(p) \subseteq Requests /\ Adds(q) \subseteq Requests
    BY Zenon DEF Adds
  <1>7. Adds(p) = IF m.type = "ADD" THEN Adds(q) \cup {m.req} ELSE Adds(q)
    BY <1>3, <1>4, <1>6, Zenon
  <1> QED
    BY <1>5, <1>7, Zenon DEF p

LEMMA AddsOfTail ==
  ASSUME NEW q \in Seq(Messages), q # <<>>, OneAddEach(q)
  PROVE  /\ Head(q).type = "ADD" => Head(q).req \in Adds(q)
         /\ Adds(Tail(q)) = IF Head(q).type = "ADD" THEN Adds(q) \ {Head(q).req} ELSE Adds(q)
         /\ OneAddEach(Tail(q))
  <1> DEFINE p == Tail(q)
             n == Len(q)
             m == Head(q)
  <1>1. /\ n \in Nat \ {0} /\ DOMAIN q = 1 .. n /\ DOMAIN p = 1 .. n - 1
        /\ q[1] = m /\ \A i \in 1 .. n - 1 : p[i] = q[i + 1]
    OBVIOUS
  <1>2. /\ \A i \in 1 .. n : i = 1 \/ (i - 1 \in 1 .. n - 1 /\ (i - 1) + 1 = i)
        /\ \A i \in 1 .. n - 1 : i + 1 \in 1 .. n /\ i + 1 # 1
        /\ \A i, j \in 1 .. n - 1 : i + 1 = j + 1 => i = j
        /\ 1 \in 1 .. n
    BY <1>1
  <1>3. m.req \in Requests
    BY FirstMessage, Zenon
  <1> HIDE DEF p, n, m
  <1>4. m.type = "ADD" => m.req \in Adds(q)
    BY <1>1, <1>2, <1>3, Zenon DEF Adds
  <1>5. ASSUME NEW r \in Requests
        PROVE  r \in Adds(p) <=> r \in Adds(q) /\ ~(m.type = "ADD" /\ r = m.req)
    <2>1. ASSUME r \in Adds(p) PROVE r \in Adds(q) /\ ~(m.type = "ADD" /\ r = m.req)
      <3>1. PICK i \in 1 .. n - 1 : p[i].type = "ADD" /\ p[i].req = r
        BY <1>1, <2>1, Zenon DEF Adds
      <3>2. i + 1 \in DOMAIN q /\ i + 1 # 1 /\ q[i + 1].type = "ADD" /\ q[i + 1].req = r
        BY <1>1, <1>2, <3>1, Zenon
      <3> QED
        BY <1>1, <1>2, <3>2, Zenon DEF Adds, OneAddEach
    <2>2. ASSUME r \in Adds(q), ~(m.type = "ADD" /\ r = m.req) PROVE r \in Adds(p)
      <3>1. PICK i \in 1 .. n : q[i].type = "ADD" /\ q[i].req = r
        BY <1>1, <2>2, Zenon DEF Adds
      <3>2. i # 1
        BY <1>1, <2>2, <3>1, Zenon
      <3>3. i - 1 \in 1 .. n - 1 /\ p[i - 1] = q[i]
        BY <1>1, <1>2, <3>2, Zenon
      <3> QED
        BY <1>1, <3>1, <3>3, Zenon DEF Adds
    <2> QED
      BY <2>1, <2>2, Zenon
  <1>6. OneAddEach(p)
    <2> SUFFICES ASSUME NEW i \in 1 .. n - 1, NEW j \in 1 .. n - 1,
                        p[i].type = "ADD", p[j].type = "ADD", p[i].req = p[j].req
                 PROVE  i = j
      BY <1>1, Zenon DEF OneAddEach
    <2>1. i + 1 \in DOMAIN q /\ j + 1 \in DOMAIN q /\ q[i + 1] = p[i] /\ q[j + 1] = p[j]
      BY <1>1, <1>2, Zenon
    <2>2. i + 1 = j + 1
      BY <2>1, Zenon DEF OneAddEach
    <2> QED
      BY <1>2, <2>2, Zenon
  <1>7. Adds(p) \subseteq Requests /\ Adds(q) \subseteq Requests
    BY Zenon DEF Adds
  <1>8. Adds(p) = IF m.type = "ADD" THEN Adds(q) \ {m.req} ELSE Adds(q)
    BY <1>5, <1>7, Zenon
  <1> QED
    BY <1>4, <1>6, <1>8, Zenon DEF p, m

-----------------------------------------------------------------------------
(* Steps that leave the life of every request alone.                       *)

LEMMA AdmittedStarted ==
  ASSUME TypeOK, InOnePlace
  PROVE  request_states \subseteq Started /\ Started \cap requests = request_states
  BY Zenon DEF InOnePlace, Started, TypeOK, SchedulerTypeOK, QueueTypeOK

\* What PhaseOf and Started depend on.
LivesUnchanged ==
  /\ UNCHANGED <<queueVars, unmasked>>
  /\ Adds(input_queue') = Adds(input_queue)
  /\ OneAddEach(input_queue) => OneAddEach(input_queue')
  /\ \A r \in Requests : client'[r] = "new" <=> client[r] = "new"

LEMMA UnchangedLives ==
  ASSUME TypeOK, LifeCycle, LivesUnchanged
  PROVE  /\ InOnePlace' /\ ProgressOfStarted' /\ Started' = Started
         /\ UNCHANGED Service!vars
  <1>1. /\ UNCHANGED <<requests, request_states, deferred_requests,
                       dropped_deferred_requests, unmasked>>
        /\ Adds(input_queue)' = Adds(input_queue)
        /\ OneAddEach(input_queue) => OneAddEach(input_queue)'
        /\ \A r \in Requests : client'[r] = "new" <=> client[r] = "new"
    BY Zenon DEF LivesUnchanged, queueVars
  <1>2. Started' = Started
    BY <1>1, Zenon DEF Started
  <1>3. InOnePlace'
    BY <1>1, Zenon DEF LifeCycle, InOnePlace, TypeOK, SchedulerTypeOK, QueueTypeOK, Adds
  <1>4. ProgressOfStarted'
    BY <1>1, <1>2, Zenon DEF LifeCycle, ProgressOfStarted
  <1>5. \A r \in Requests : PhaseOf(r)' = PhaseOf(r)
    BY <1>1, Zenon DEF PhaseOf
  <1>6. Phase' = Phase
    BY <1>5, Zenon DEF Phase
  <1> QED
    BY <1>1, <1>2, <1>3, <1>4, <1>6, Zenon DEF Service!vars

LEMMA BatchesFrame ==
  ASSUME BatchesOfStarted, Started \subseteq Started',
         UNCHANGED <<in_output, new_reqs, running_reqs, scheduler_outputs>>
  PROVE  BatchesOfStarted'
  BY Zenon DEF BatchesOfStarted

\* Everything that is placed somewhere, or about to be, has been admitted.
LEMMA PlacedStarted ==
  ASSUME TypeOK, PlacementConsistent, InOnePlace, NEW r \in Requests, NEW e \in Executors,
         r \in req_ids[e] \cup pending_request_additions[e]
  PROVE  r \in Started
  <1>1. pending_executor_id[r] # None
    <2>1. e # None
      BY RequestsAssumption, Zenon
    <2>2. CASE r \in req_ids[e]
      <3>1. executor_id[r] = e
        BY <2>2, Zenon DEF PlacementConsistent
      <3>2. pending_executor_id[r] = executor_id[r]
        BY <2>1, <3>1, Zenon DEF PlacementConsistent
      <3> QED
        BY <2>1, <3>1, <3>2, Zenon
    <2>3. CASE r \in pending_request_additions[e]
      <3>1. pending_executor_id[r] = e
        BY <2>3, Zenon DEF PlacementConsistent
      <3> QED
        BY <2>1, <3>1, Zenon
    <2> QED
      BY <2>2, <2>3, Zenon
  <1> QED
    BY <1>1, AdmittedStarted, Zenon DEF PlacementConsistent

LEMMA ScheduleBatches ==
  ASSUME TypeOK, PlacementConsistent, ScheduleLocalsConsistent, LifeCycle, Schedule, Started' = Started
  PROVE  BatchesOfStarted'
  <1> USE DEF LifeCycle
  <1>1. UNCHANGED scheduler_outputs
    BY Zenon DEF Schedule, loopVars
  <1>2. CASE UpdateExecutors \/ Stage1NextExecutor \/ Stage1ExecutorDone \/ Stage1Done \/ Stage2Done
    <2>1. UNCHANGED <<in_output, new_reqs, running_reqs>>
      BY <1>2, Zenon DEF UpdateExecutors, Stage1NextExecutor, Stage1ExecutorDone, Stage1Done,
                         Stage2Done, localVars
    <2> QED
      BY <1>1, <2>1, BatchesFrame, Zenon
  <1>3. CASE Stage0
    <2>1. /\ UNCHANGED <<new_reqs, running_reqs>>
          /\ \/ UNCHANGED in_output
             \/ \E S \in SUBSET Executors :
                   in_output' = UNION {pending_request_additions[e] : e \in S}
      BY <1>3, Zenon DEF Stage0
    <2>2. \A S \in SUBSET Executors : UNION {pending_request_additions[e] : e \in S} \subseteq Started
      BY PlacedStarted, Zenon DEF TypeOK, SchedulerTypeOK, PlacementTypeOK
    <2> QED
      BY <1>1, <2>1, <2>2, Zenon DEF BatchesOfStarted
  <1>4. ASSUME NEW r \in Requests, Stage1Request(r) PROVE BatchesOfStarted'
    <2>1. /\ r \in cur_reqs /\ cur # None /\ in_output' = in_output \cup {r}
          /\ UNCHANGED <<new_reqs, running_reqs>>
      BY <1>4, Zenon DEF Stage1Request
    <2>2. cur \in Executors /\ r \in req_ids[cur]
      BY <2>1, Zenon DEF ScheduleLocalsConsistent, TypeOK, SchedulerTypeOK, LocalTypeOK, ExecutorOrNone
    <2>3. r \in Started
      BY <2>2, PlacedStarted, Zenon
    <2> QED
      BY <1>1, <2>1, <2>3, Zenon DEF BatchesOfStarted
  <1>5. ASSUME NEW r \in Requests, Stage2Request(r) PROVE BatchesOfStarted'
    <2>1. /\ r \in request_states /\ in_output' \subseteq in_output \cup {r}
          /\ UNCHANGED <<new_reqs, running_reqs>>
      BY <1>5, Zenon DEF Stage2Request, FirstUnscheduled
    <2>2. r \in Started
      BY <2>1, AdmittedStarted, Zenon
    <2> QED
      BY <1>1, <2>1, <2>2, Zenon DEF BatchesOfStarted
  <1>6. ASSUME NEW r \in Requests, Stage5Request(r) PROVE BatchesOfStarted'
    <2>1. r \in in_output /\ in_output' = in_output \ {r}
      BY <1>6, Zenon DEF Stage5Request
    <2>2. \A e \in Executors : /\ new_reqs'[e] \subseteq new_reqs[e] \cup {r}
                              /\ running_reqs'[e] \subseteq running_reqs[e] \cup {r}
      BY <1>6, Zenon DEF Stage5Request, Stage5Move, Stage5Keep, TypeOK, SchedulerTypeOK, LocalTypeOK
    <2> QED
      BY <1>1, <2>1, <2>2, Zenon DEF BatchesOfStarted
  <1> QED
    BY <1>2, <1>3, <1>4, <1>5, <1>6, Zenon DEF Schedule

LEMMA StepBatches ==
  ASSUME TypeOK, LifeCycle, EngineStep \/ FlushStep, Started' = Started
  PROVE  BatchesOfStarted'
  <1> USE DEF LifeCycle
  <1>1. CASE EngineStep
    <2>1. /\ UNCHANGED <<in_output, new_reqs, running_reqs>>
             \/ (in_output' = {} /\ new_reqs' = NoRequests /\ running_reqs' = NoRequests)
          /\ scheduler_outputs' = [e \in Executors |->
                IF e \in Scheduled THEN SchedulerOutput(e) ELSE scheduler_outputs[e]]
      BY <1>1, Zenon DEF EngineStep, Stage6, ResetLocals, localVars
    <2>2. ASSUME NEW e \in Executors, scheduler_outputs'[e] # NoBatch
          PROVE  /\ scheduler_outputs'[e].new \subseteq Started
                 /\ scheduler_outputs'[e].cached \subseteq Started
      BY <2>1, <2>2 DEF BatchesOfStarted, SchedulerOutput
    <2> QED
      BY <2>1, <2>2, Zenon DEF BatchesOfStarted, NoRequests
  <1>2. CASE FlushStep
    <2>1. /\ UNCHANGED <<in_output, new_reqs, running_reqs>>
             \/ (in_output' = {} /\ new_reqs' = NoRequests /\ running_reqs' = NoRequests)
          /\ \/ UNCHANGED scheduler_outputs
             \/ \E e \in Executors : scheduler_outputs' = [scheduler_outputs EXCEPT ![e] = EmptyBatch]
      BY <1>2, Zenon DEF FlushStep, Stage6, ResetLocals, localVars, FlushTargets, TypeOK,
                         SchedulerTypeOK, PlacementTypeOK
    <2>2. EmptyBatch.new = {} /\ EmptyBatch.cached = {}
      BY DEF EmptyBatch
    <2>3. ASSUME NEW e \in Executors, scheduler_outputs'[e] # NoBatch
          PROVE  /\ scheduler_outputs'[e].new \subseteq Started
                 /\ scheduler_outputs'[e].cached \subseteq Started
      BY <2>1, <2>2, <2>3, Zenon DEF BatchesOfStarted, TypeOK, EngineTypeOK
    <2> QED
      BY <2>1, <2>3, Zenon DEF BatchesOfStarted, NoRequests
  <1> QED
    BY <1>1, <1>2, Zenon

-----------------------------------------------------------------------------
(* Steps in the life of a request.                                         *)

\* A step that does not concern request q.
SameLife(q) ==
  /\ client'[q] = "new" <=> client[q] = "new"
  /\ q \in Adds(input_queue)' <=> q \in Adds(input_queue)
  /\ q \in request_states' <=> q \in request_states
  /\ q \in Range(deferred_requests)' <=> q \in Range(deferred_requests)
  /\ q \in dropped_deferred_requests' <=> q \in dropped_deferred_requests
  /\ unmasked'[q] = unmasked[q]

LEMMA SamePhase ==
  ASSUME NEW q \in Requests, SameLife(q)
  PROVE  PhaseOf(q)' = PhaseOf(q) /\ (q \in Started' <=> q \in Started)
  BY Zenon DEF SameLife, PhaseOf, Started

LEMMA PhaseMoves ==
  ASSUME NEW r \in Requests, NEW p, PhaseOf(r)' = p,
         \A q \in Requests : q # r => PhaseOf(q)' = PhaseOf(q)
  PROVE  Phase' = [Phase EXCEPT ![r] = p]
  BY Zenon DEF Phase

LEMMA ProgressFrame ==
  ASSUME TypeOK, ProgressOfStarted, Started \subseteq Started', UNCHANGED unmasked,
         request_states' \subseteq Requests,
         \A r \in request_states' : r \in request_states \/ r \notin Started
  PROVE  ProgressOfStarted'
  <1>1. \A r \in Requests : 0 < output_length[r] /\ output_length[r] \in Nat
    BY BlocksAssumption
  <1>2. \A r \in Requests : unmasked[r] = 0 => unmasked[r] < output_length[r]
    BY <1>1, Zenon
  <1> QED
    BY <1>2, Zenon DEF ProgressOfStarted

LEMMA SameCardinality ==
  ASSUME NEW S
  PROVE  Service!Cardinality(S) = Cardinality(S)
  BY Zenon DEF Service!Cardinality, Cardinality

LEMMA SameRoom ==
  ASSUME TypeOK, InOnePlace
  PROVE  Service!HasRoom <=> HasRoom(request_states)
  <1>1. \A r \in Requests : PhaseOf(r) = "admitted" <=> r \in request_states
    BY Zenon DEF PhaseOf, InOnePlace
  <1>2. Service!InPhase("admitted") = request_states
    BY <1>1, Zenon DEF Service!InPhase, Phase, TypeOK, SchedulerTypeOK, QueueTypeOK
  <1> QED
    BY <1>2, SameCardinality DEF Service!HasRoom, HasRoom

LEMMA SendAddLife ==
  ASSUME TypeOK, LifeCycle, NEW r \in Requests, SendAdd(r)
  PROVE  LifeCycle' /\ Service!Submit(r)
  <1> USE DEF LifeCycle
  <1> DEFINE m == [type |-> "ADD", req |-> r]
  <1>1. /\ UNCHANGED <<requests, request_states, deferred_requests, dropped_deferred_requests,
                       unmasked, in_output, new_reqs, running_reqs, scheduler_outputs>>
        /\ client[r] = "new" /\ client' = [client EXCEPT ![r] = "sent"]
        /\ input_queue' = Append(input_queue, m)
    BY Zenon DEF SendAdd, schedulerVars, queueVars, localVars
  <1>2. m \in Messages /\ m.type = "ADD" /\ m.req = r
    BY DEF Messages
  <1> HIDE DEF m
  <1>3. /\ r \notin Adds(input_queue) /\ r \notin requests \cup dropped_deferred_requests
        /\ r \notin Range(deferred_requests)
    BY <1>1, Zenon DEF InOnePlace
  <1>4. Adds(input_queue)' = Adds(input_queue) \cup {r} /\ OneAddEach(input_queue)'
    BY <1>1, <1>2, <1>3, AddsOfAppend, Zenon DEF InOnePlace, TypeOK, EngineTypeOK
  <1>5. \A q \in Requests : client'[q] = IF q = r THEN "sent" ELSE client[q]
    BY <1>1, Zenon DEF TypeOK, EngineTypeOK
  <1>6. Started' = Started
    BY <1>1, <1>3, <1>4, <1>5, Zenon DEF Started
  <1>7. InOnePlace'
    <2>1. \A q \in Requests : client[q] # "new" => client'[q] # "new"
      BY <1>5, Zenon
    <2>2. client'[r] # "new"
      BY <1>5, Zenon
    <2>3. Adds(input_queue) \subseteq Requests
      BY Zenon DEF Adds
    <2> QED
      BY <1>1, <1>3, <1>4, <2>1, <2>2, <2>3, Zenon
         DEF InOnePlace, TypeOK, SchedulerTypeOK, QueueTypeOK
  <1>8. ProgressOfStarted' /\ BatchesOfStarted'
    BY <1>1, <1>6, BatchesFrame, Zenon DEF ProgressOfStarted
  <1>9. /\ PhaseOf(r) = "new" /\ PhaseOf(r)' = "submitted"
        /\ \A q \in Requests : q # r => PhaseOf(q)' = PhaseOf(q)
    <2>1. PhaseOf(r) = "new"
      BY <1>1, Zenon DEF PhaseOf
    <2>2. client'[r] # "new" /\ r \in Adds(input_queue)'
      BY <1>4, <1>5, Zenon
    <2>3. PhaseOf(r)' = "submitted"
      BY <2>2, Zenon DEF PhaseOf
    <2>4. ASSUME NEW q \in Requests, q # r PROVE PhaseOf(q)' = PhaseOf(q)
      <3>1. client'[q] = client[q] /\ (q \in Adds(input_queue)' <=> q \in Adds(input_queue))
        BY <1>4, <1>5, <2>4, Zenon
      <3> QED
        BY <1>1, <3>1, Zenon DEF PhaseOf
    <2> QED
      BY <2>1, <2>3, <2>4, Zenon
  <1>10. Phase[r] = "new" /\ Phase' = [Phase EXCEPT ![r] = "submitted"]
    BY <1>9, PhaseMoves, Zenon DEF Phase
  <1> QED
    BY <1>1, <1>7, <1>8, <1>10, Zenon DEF Service!Submit

LEMMA HandleAddLife ==
  ASSUME TypeOK, LifeCycle, HandleAdd
  PROVE  LifeCycle' /\ \E r \in Requests : Service!Admit(r) \/ Service!Wait(r)
  <1> USE DEF LifeCycle
  <1>0. PICK r \in Requests : r = Head(input_queue).req
    BY FirstMessage, Zenon DEF HandleAdd, TypeOK, EngineTypeOK
  <1>1. /\ input_queue # <<>> /\ Head(input_queue).type = "ADD"
        /\ input_queue' = Tail(input_queue) /\ AddRequest(r)
        /\ UNCHANGED <<client, unmasked, in_output, new_reqs, running_reqs, scheduler_outputs>>
    BY <1>0, Zenon DEF HandleAdd, localVars
  <1>2. /\ r \in Requests /\ r \in Adds(input_queue)
        /\ Adds(input_queue)' = Adds(input_queue) \ {r} /\ OneAddEach(input_queue)'
    BY <1>0, <1>1, AddsOfTail, Zenon DEF InOnePlace, TypeOK, EngineTypeOK
  <1>3. /\ r \notin requests /\ r \notin dropped_deferred_requests /\ client[r] # "new"
        /\ r \notin request_states /\ r \notin Range(deferred_requests)
        /\ Adds(input_queue) \subseteq Requests
    BY <1>2, Zenon DEF InOnePlace, Adds
  <1>4. requests' = requests \cup {r} /\ UNCHANGED dropped_deferred_requests
    BY <1>1, Zenon DEF AddRequest
  <1>5. PhaseOf(r) = "submitted" /\ r \notin Started
    BY <1>2, <1>3, Zenon DEF PhaseOf, Started
  <1>6. Phase[r] = "submitted"
    BY <1>2, <1>5, Zenon DEF Phase
  <1>7. CASE HasRoom(request_states)
    <2>1. request_states' = request_states \cup {r} /\ UNCHANGED deferred_requests
      BY <1>1, <1>7, Zenon DEF AddRequest
    <2>2. \A q \in Requests : q # r => SameLife(q)
      BY <1>1, <1>2, <1>4, <2>1, Zenon DEF SameLife
    <2>3. PhaseOf(r)' = "admitted" /\ r \in Started'
      BY <1>1, <1>2, <1>3, <1>4, <2>1, Zenon DEF PhaseOf, Started
    <2>4. Started \subseteq Started'
      BY <1>5, <2>2, SamePhase, Zenon DEF Started
    <2>5. InOnePlace'
      BY <1>1, <1>2, <1>3, <1>4, <2>1, Zenon DEF InOnePlace
    <2>7. ProgressOfStarted' /\ BatchesOfStarted'
      <3>1. request_states' \subseteq Requests
        BY <1>2, <2>1, Zenon DEF TypeOK, SchedulerTypeOK, QueueTypeOK
      <3>2. \A q \in request_states' : q \in request_states \/ q \notin Started
        BY <1>5, <2>1, Zenon
      <3> QED
        BY <1>1, <2>4, <3>1, <3>2, ProgressFrame, BatchesFrame, Zenon
    <2>8. Phase' = [Phase EXCEPT ![r] = "admitted"]
      BY <1>2, <2>2, <2>3, SamePhase, PhaseMoves, Zenon
    <2>9. Service!Admit(r)
      BY <1>1, <1>6, <1>7, <2>1, <2>8, SameRoom, Zenon DEF Service!Admit
    <2> QED
      BY <1>2, <2>5, <2>7, <2>9, Zenon
  <1>8. CASE ~HasRoom(request_states)
    <2>1. deferred_requests' = Append(deferred_requests, r) /\ UNCHANGED request_states
      BY <1>1, <1>8, Zenon DEF AddRequest
    <2>2. deferred_requests \in Seq(Requests)
      BY Zenon DEF TypeOK, SchedulerTypeOK, QueueTypeOK
    <2>3. Range(deferred_requests)' = Range(deferred_requests) \cup {r}
      <3>1. Range(Append(deferred_requests, r)) = Range(deferred_requests) \cup {r}
        BY <1>0, <2>2, RangeAppend
      <3> QED
        BY <2>1, <3>1, Zenon
    <2>4. IsInjective(deferred_requests)'
      BY <1>2, <1>3, <2>1, <2>2, AppendInjective, Zenon DEF InOnePlace
    <2>5. \A q \in Requests : q # r => SameLife(q)
      BY <1>1, <1>2, <1>4, <2>1, <2>3, Zenon DEF SameLife
    <2>6. PhaseOf(r)' = "waiting" /\ r \notin Started'
      BY <1>1, <1>2, <1>3, <1>4, <2>1, <2>3, Zenon DEF PhaseOf, Started
    <2>7. Started' = Started
      BY <1>5, <2>5, <2>6, SamePhase, Zenon DEF Started
    <2>8. InOnePlace'
      BY <1>1, <1>2, <1>3, <1>4, <2>1, <2>3, <2>4, ZenonT(30) DEF InOnePlace
    <2>9. ProgressOfStarted' /\ BatchesOfStarted'
      BY <1>1, <2>1, <2>7, BatchesFrame, Zenon DEF ProgressOfStarted
    <2>10. Phase' = [Phase EXCEPT ![r] = "waiting"]
      BY <1>2, <2>5, <2>6, SamePhase, PhaseMoves, Zenon
    <2>11. Service!Wait(r)
      BY <1>1, <1>6, <1>8, <2>1, <2>10, SameRoom, Zenon DEF Service!Wait
    <2> QED
      BY <1>2, <2>8, <2>9, <2>11, Zenon
  <1> QED
    BY <1>7, <1>8, Zenon

LEMMA DropLife ==
  ASSUME TypeOK, LifeCycle, NEW i \in DOMAIN deferred_requests, DropDeferred(i),
         UNCHANGED <<client, unmasked, in_output, new_reqs, running_reqs, scheduler_outputs>>,
         Adds(input_queue)' = Adds(input_queue), OneAddEach(input_queue)'
  PROVE  LifeCycle' /\ Service!Drop(i)
  <1> USE DEF LifeCycle
  <1>1. deferred_requests \in Seq(Requests) /\ DOMAIN deferred_requests = 1 .. Len(deferred_requests)
    <2>1. deferred_requests \in Seq(Requests)
      BY Zenon DEF TypeOK, SchedulerTypeOK, QueueTypeOK
    <2> QED
      BY <2>1
  <1>2. PICK r \in Requests : r = deferred_requests[i]
    BY <1>1
  <1>3. /\ requests' = requests \ {r} /\ UNCHANGED request_states
        /\ dropped_deferred_requests' = dropped_deferred_requests \cup {r}
        /\ deferred_requests' = SubSeq(deferred_requests, 1, i - 1) \o
                                SubSeq(deferred_requests, i + 1, Len(deferred_requests))
    BY <1>2, Zenon DEF DropDeferred
  <1>4. /\ r \in Range(deferred_requests)
        /\ Range(deferred_requests)' = Range(deferred_requests) \ {r}
        /\ IsInjective(deferred_requests)'
    <2>1. IsInjective(deferred_requests)
      BY Zenon DEF InOnePlace
    <2> QED
      BY <1>1, <1>2, <1>3, <2>1, RemoveInjective
  <1>5. /\ r \in requests /\ r \notin request_states /\ r \notin Adds(input_queue)
        /\ client[r] # "new"
    BY <1>4, Zenon DEF InOnePlace
  <1>6. \A q \in Requests : q # r => SameLife(q)
    BY <1>3, <1>4, Zenon DEF SameLife
  <1>7. PhaseOf(r)' = "dropped" /\ r \notin Started /\ r \notin Started'
    BY <1>2, <1>3, <1>4, <1>5, Zenon DEF PhaseOf, Started
  <1>8. Started' = Started
    BY <1>6, <1>7, SamePhase, Zenon DEF Started
  <1>9. InOnePlace'
    BY <1>3, <1>4, <1>5, Zenon DEF InOnePlace
  <1>10. ProgressOfStarted' /\ BatchesOfStarted'
    BY <1>3, <1>8, BatchesFrame, Zenon DEF ProgressOfStarted
  <1>11. Phase' = [Phase EXCEPT ![r] = "dropped"]
    BY <1>2, <1>6, <1>7, SamePhase, PhaseMoves, Zenon
  <1>12. Service!Drop(i)
    BY <1>2, <1>3, <1>11, Zenon DEF Service!Drop
  <1> QED
    BY <1>9, <1>10, <1>12, Zenon

LEMMA AdmitDeferredLife ==
  ASSUME TypeOK, LifeCycle, AdmitDeferred, UNCHANGED loopVars
  PROVE  LifeCycle' /\ Service!AdmitOldest
  <1> USE DEF LifeCycle
  <1>1. deferred_requests \in Seq(Requests) /\ deferred_requests # <<>>
    BY Zenon DEF AdmitDeferred, TypeOK, SchedulerTypeOK, QueueTypeOK
  <1>2. PICK r \in Requests : r = Head(deferred_requests)
    <2>1. Head(deferred_requests) \in Requests
      BY <1>1
    <2> QED
      BY <2>1, Zenon
  <1>3. /\ HasRoom(request_states) /\ request_states' = request_states \cup {r}
        /\ deferred_requests' = Tail(deferred_requests)
        /\ UNCHANGED <<requests, dropped_deferred_requests, client, input_queue, unmasked,
                       in_output, new_reqs, running_reqs, scheduler_outputs>>
    BY <1>2, Zenon DEF AdmitDeferred, loopVars, localVars
  <1>4. /\ r \in Range(deferred_requests)
        /\ Range(deferred_requests)' = Range(deferred_requests) \ {r}
        /\ IsInjective(deferred_requests)'
    <2>1. IsInjective(deferred_requests)
      BY Zenon DEF InOnePlace
    <2> QED
      BY <1>1, <1>2, <1>3, <2>1, TailInjective, Zenon
  <1>5. /\ r \in requests /\ r \notin request_states /\ r \notin Adds(input_queue)
        /\ client[r] # "new" /\ r \notin dropped_deferred_requests
        /\ UNCHANGED Adds(input_queue) /\ OneAddEach(input_queue)'
    BY <1>3, <1>4, Zenon DEF InOnePlace
  <1>6. \A q \in Requests : q # r => SameLife(q)
    BY <1>3, <1>4, <1>5, Zenon DEF SameLife
  <1>7. PhaseOf(r)' = "admitted" /\ r \notin Started /\ r \in Started'
    BY <1>2, <1>3, <1>4, <1>5, Zenon DEF PhaseOf, Started
  <1>8. Started \subseteq Started'
    BY <1>6, <1>7, SamePhase, Zenon DEF Started
  <1>9. InOnePlace'
    BY <1>3, <1>4, <1>5, Zenon DEF InOnePlace
  <1>11. ProgressOfStarted' /\ BatchesOfStarted'
    <2>1. request_states' \subseteq Requests
      BY <1>2, <1>3, Zenon DEF TypeOK, SchedulerTypeOK, QueueTypeOK
    <2>2. \A q \in request_states' : q \in request_states \/ q \notin Started
      BY <1>3, <1>7, Zenon
    <2> QED
      BY <1>3, <1>8, <2>1, <2>2, ProgressFrame, BatchesFrame, Zenon
  <1>12. Phase' = [Phase EXCEPT ![r] = "admitted"]
    BY <1>2, <1>6, <1>7, SamePhase, PhaseMoves, Zenon
  <1>13. Service!AdmitOldest
    BY <1>1, <1>2, <1>3, <1>12, SameRoom, Zenon DEF Service!AdmitOldest
  <1> QED
    BY <1>9, <1>11, <1>13, Zenon

LEMMA AbortLife ==
  ASSUME TypeOK, LifeCycle, NEW r \in request_states, FreeRequests({r}),
         UNCHANGED <<deferred_requests, dropped_deferred_requests, client, unmasked,
                     in_output, new_reqs, running_reqs, scheduler_outputs>>,
         Adds(input_queue)' = Adds(input_queue), OneAddEach(input_queue)'
  PROVE  LifeCycle' /\ Service!Abort(r)
  <1> USE DEF LifeCycle
  <1>1. requests' = requests \ {r} /\ request_states' = request_states \ {r}
    BY Zenon DEF FreeRequests
  <1>2. /\ r \in Requests /\ client[r] # "new" /\ r \notin Adds(input_queue)
        /\ r \notin Range(deferred_requests) /\ r \notin dropped_deferred_requests
        /\ unmasked[r] # output_length[r]
    <2>1. r \in Requests
      BY Zenon DEF TypeOK, SchedulerTypeOK, QueueTypeOK
    <2>2. unmasked[r] < output_length[r] /\ unmasked[r] \in Nat /\ output_length[r] \in Nat
      BY <2>1, BlocksAssumption, Zenon DEF ProgressOfStarted, TypeOK, SchedulerTypeOK
    <2>3. unmasked[r] # output_length[r]
      BY <2>2
    <2> QED
      BY <2>1, <2>3, Zenon DEF InOnePlace
  <1>3. \A q \in Requests : q # r => SameLife(q)
    BY <1>1, Zenon DEF SameLife
  <1>4. PhaseOf(r) = "admitted" /\ PhaseOf(r)' = "gone" /\ r \in Started /\ r \in Started'
    BY <1>1, <1>2, Zenon DEF PhaseOf, Started
  <1>5. Started' = Started
    BY <1>3, <1>4, SamePhase, Zenon DEF Started
  <1>6. InOnePlace'
    BY <1>1, <1>2, Zenon DEF InOnePlace
  <1>8. ProgressOfStarted' /\ BatchesOfStarted'
    BY <1>1, <1>5, BatchesFrame, Zenon DEF ProgressOfStarted
  <1>9. Phase[r] = "admitted" /\ Phase' = [Phase EXCEPT ![r] = "gone"]
    BY <1>2, <1>3, <1>4, SamePhase, PhaseMoves, Zenon DEF Phase
  <1> QED
    BY <1>6, <1>8, <1>9, Zenon DEF Service!Abort

-----------------------------------------------------------------------------
(* A step never unmasks tokens beyond the output: it stops at the end of   *)
(* the current block, and the output is a whole number of blocks.          *)

LEMMA Division ==
  ASSUME NEW B \in Int, B > 0, NEW u \in Int
  PROVE  /\ u = B * (u \div B) + (u % B)
         /\ u \div B \in Int /\ u % B \in 0 .. B - 1
  OBVIOUS

LEMMA Multiples ==
  ASSUME NEW B \in Nat, NEW a \in Int, NEW b \in Int, a <= b
  PROVE  B * a <= B * b
  OBVIOUS

LEMMA BlockEnd ==
  ASSUME NEW B \in Nat \ {0}, NEW L \in Nat, L % B = 0, NEW u \in Nat, u < L,
         NEW n \in Nat, n <= B - (u % B)
  PROVE  u + n <= L
  <1> DEFINE q == u \div B
             k == L \div B
  <1>1. q \in Int /\ k \in Int /\ u = B * q + (u % B) /\ L = B * k + (L % B) /\ u % B \in 0 .. B - 1
    <2>1. B \in Int /\ B > 0 /\ u \in Int /\ L \in Int
      OBVIOUS
    <2> QED
      BY <2>1, Division
  <1>2. L = B * k /\ B * q \in Int /\ B * k \in Int
    BY <1>1
  <1> HIDE DEF q, k
  <1>3. q + 1 <= k
    <2> SUFFICES ASSUME k <= q PROVE FALSE
      BY <1>1
    <2>1. B * k <= B * q
      BY <1>1, Multiples
    <2> QED
      BY <1>1, <1>2, <2>1
  <1>4. B * (q + 1) <= B * k
    BY <1>1, <1>3, Multiples
  <1>5. B * (q + 1) = B * q + B
    BY <1>1
  <1> QED
    BY <1>1, <1>2, <1>4, <1>5

LEMMA StepWithinOutput ==
  ASSUME TypeOK, LifeCycle, NEW live \in SUBSET request_states, NEW n \in StepResults(live),
         NEW r \in live
  PROVE  /\ n[r] \in 1 .. denoise_block_size
         /\ unmasked[r] + n[r] <= output_length[r] /\ unmasked[r] + n[r] \in Nat
         /\ unmasked[r] + n[r] # output_length[r] => unmasked[r] + n[r] < output_length[r]
  <1>1. r \in Requests
    BY Zenon DEF TypeOK, SchedulerTypeOK, QueueTypeOK
  <1>2. /\ n[r] \in 1 .. denoise_block_size
        /\ n[r] <= denoise_block_size - (unmasked[r] % denoise_block_size)
    BY Zenon DEF StepResults
  <1>3. /\ denoise_block_size \in Nat \ {0} /\ output_length[r] \in Nat
        /\ output_length[r] % denoise_block_size = 0
        /\ unmasked[r] \in Nat /\ unmasked[r] < output_length[r]
    BY <1>1, BlocksAssumption, Zenon
       DEF TypeOK, SchedulerTypeOK, LifeCycle, ProgressOfStarted
  <1>4. n[r] \in Nat
    BY <1>2, <1>3
  <1>5. unmasked[r] + n[r] <= output_length[r]
    BY <1>2, <1>3, <1>4, BlockEnd, Zenon
  <1> QED
    BY <1>2, <1>3, <1>4, <1>5

LEMMA ProcessOutputLife ==
  ASSUME TypeOK, LifeCycle, OutputsOfBatches, ProcessOutput
  PROVE  /\ LifeCycle'
         /\ \/ \E S \in SUBSET Requests :
                 \E n \in [S -> 1 .. denoise_block_size] : Service!Step(S, n)
            \/ UNCHANGED Service!vars
  <1> USE DEF LifeCycle
  <1>1. PICK e \in executor_output_queue :
          /\ \E next : UpdateFromOutput(e, scheduler_outputs[e], next)
          /\ scheduler_outputs' = [scheduler_outputs EXCEPT ![e] = NoBatch]
    BY Zenon DEF ProcessOutput
  <1>2. PICK next : UpdateFromOutput(e, scheduler_outputs[e], next)
    BY <1>1, Zenon
  <1>3. /\ UNCHANGED <<client, input_queue, deferred_requests, in_output, new_reqs, running_reqs>>
        /\ UNCHANGED Adds(input_queue) /\ OneAddEach(input_queue)'
        /\ UNCHANGED Range(deferred_requests) /\ IsInjective(deferred_requests)'
    <2>1. UNCHANGED <<client, input_queue, deferred_requests, in_output, new_reqs, running_reqs>>
      BY <1>2, Zenon DEF ProcessOutput, UpdateFromOutput, localVars
    <2> QED
      BY <2>1, Zenon DEF InOnePlace
  <1>4. ASSUME Started \subseteq Started' PROVE BatchesOfStarted'
    <2>1. ASSUME NEW f \in Executors
          PROVE  scheduler_outputs'[f] # NoBatch => scheduler_outputs'[f] = scheduler_outputs[f]
      BY <1>1, Zenon DEF TypeOK, EngineTypeOK
    <2> QED
      BY <1>3, <1>4, <2>1, Zenon DEF BatchesOfStarted
  <1>5. PICK S \in SUBSET Requests :
          S = (scheduler_outputs[e].new \cup scheduler_outputs[e].cached) \cap requests
    BY Zenon DEF TypeOK, SchedulerTypeOK, QueueTypeOK
  <1>6. S \in SUBSET request_states
    <2>1. e \in Executors /\ scheduler_outputs[e] # NoBatch
      BY <1>1, Zenon DEF OutputsOfBatches, TypeOK, EngineTypeOK
    <2>2. S \subseteq Started \cap requests
      BY <1>5, <2>1, Zenon DEF BatchesOfStarted
    <2> QED
      BY <2>2, AdmittedStarted, Zenon
  <1>7. PICK n \in StepResults(S), D \in SUBSET S :
          /\ D = {r \in S : unmasked[r] + n[r] = output_length[r]}
          /\ \/ UNCHANGED <<requests, request_states, dropped_deferred_requests, unmasked>>
             \/ /\ unmasked' = [r \in Requests |->
                       IF r \in S THEN unmasked[r] + n[r] ELSE unmasked[r]]
                /\ dropped_deferred_requests' = {}
                /\ requests' = requests \ D /\ request_states' = request_states \ D
    <2>1. PICK n \in StepResults(S) :
          \/ UNCHANGED <<requests, request_states, dropped_deferred_requests, unmasked>>
          \/ /\ unmasked' = [r \in Requests |->
                    IF r \in S THEN unmasked[r] + n[r] ELSE unmasked[r]]
             /\ dropped_deferred_requests' = {}
             /\ FreeRequests({r \in S : unmasked[r] + n[r] = output_length[r]})
      BY <1>2, <1>5, ZenonT(30) DEF UpdateFromOutput
    <2>2. PICK D \in SUBSET S : D = {r \in S : unmasked[r] + n[r] = output_length[r]}
      BY Zenon
    <2> QED
      BY <2>1, <2>2, Zenon DEF FreeRequests
  <1>8. CASE UNCHANGED <<requests, request_states, dropped_deferred_requests, unmasked>>
    <2>1. LivesUnchanged
      BY <1>3, <1>8, Zenon DEF LivesUnchanged, queueVars
    <2>2. /\ InOnePlace' /\ ProgressOfStarted' /\ Started' = Started
          /\ UNCHANGED Service!vars
      BY <2>1, UnchangedLives, Zenon
    <2> QED
      BY <1>4, <2>2, Zenon
  <1>9. CASE /\ unmasked' = [r \in Requests |->
                  IF r \in S THEN unmasked[r] + n[r] ELSE unmasked[r]]
             /\ dropped_deferred_requests' = {}
             /\ requests' = requests \ D /\ request_states' = request_states \ D
    <2>1. Started \subseteq Started' /\ \A r \in Requests : r \notin Started' => r \notin Started /\ r \notin S
      <3>1. S \subseteq Started
        BY <1>6, AdmittedStarted, Zenon
      <3>2. Started \subseteq Started'
        BY <1>3, <1>9, Zenon DEF Started
      <3> QED
        BY <3>1, <3>2, Zenon
    <2>2. InOnePlace'
      <3>1. D \subseteq request_states /\ D \cap Range(deferred_requests) = {}
        BY <1>6, Zenon DEF InOnePlace
      <3> QED
        BY <1>3, <1>9, <3>1, Zenon DEF InOnePlace
    <2>4. ASSUME NEW r \in S
          PROVE  /\ unmasked'[r] = unmasked[r] + n[r] /\ unmasked'[r] <= output_length[r]
                 /\ r \in D <=> unmasked'[r] = output_length[r]
                 /\ r \notin D => unmasked'[r] < output_length[r]
      <3>1. unmasked'[r] = unmasked[r] + n[r]
        BY <1>5, <1>9, Zenon
      <3>2. /\ unmasked[r] + n[r] <= output_length[r]
            /\ unmasked[r] + n[r] # output_length[r] => unmasked[r] + n[r] < output_length[r]
        BY <1>6, StepWithinOutput, Zenon
      <3> QED
        BY <1>7, <3>1, <3>2, Zenon
    <2>5. \A r \in Requests : r \notin S => unmasked'[r] = unmasked[r]
      BY <1>9, Zenon
    <2>6. ProgressOfStarted'
      BY <1>9, <2>1, <2>4, <2>5, Zenon DEF ProgressOfStarted
    <2>7. \A r \in S : Phase[r] = "admitted"
      BY <1>6, Zenon DEF Phase, PhaseOf, InOnePlace
    <2>8. ASSUME NEW r \in Requests
          PROVE  PhaseOf(r)' = IF r \in S /\ unmasked[r] + n[r] = output_length[r] THEN "answered"
                               ELSE IF PhaseOf(r) = "dropped" THEN "gone" ELSE PhaseOf(r)
      <3>1. CASE r \in S
        <4>1. /\ client'[r] # "new" /\ r \notin Adds(input_queue)'
              /\ r \notin Range(deferred_requests)' /\ r \notin dropped_deferred_requests'
              /\ PhaseOf(r) = "admitted"
          BY <1>3, <1>6, <1>9, <3>1, Zenon DEF InOnePlace, PhaseOf
        <4>2. CASE r \in D
          <5>1. r \notin request_states' /\ unmasked'[r] = output_length[r]
            BY <1>9, <2>4, <3>1, <4>2, Zenon
          <5>2. PhaseOf(r)' = "answered"
            BY <4>1, <5>1, Zenon DEF PhaseOf
          <5> QED
            BY <1>7, <3>1, <4>2, <5>2, Zenon
        <4>3. CASE r \notin D
          <5>1. r \in request_states'
            BY <1>6, <1>9, <3>1, <4>3, Zenon
          <5>2. PhaseOf(r)' = "admitted"
            BY <4>1, <5>1, Zenon DEF PhaseOf
          <5> QED
            BY <1>7, <3>1, <4>1, <4>3, <5>2, Zenon
        <4> QED
          BY <4>2, <4>3, Zenon
      <3>2. CASE r \notin S /\ r \in dropped_deferred_requests
        <4>1. /\ client[r] # "new" /\ r \notin Adds(input_queue) /\ r \notin request_states
              /\ r \notin Range(deferred_requests) /\ r \notin Started
          BY <3>2, Zenon DEF InOnePlace, Started
        <4>2. unmasked[r] = 0 /\ output_length[r] \in Nat \ {0}
          BY <4>1, BlocksAssumption, Zenon DEF ProgressOfStarted
        <4>3. unmasked'[r] # output_length[r]
          BY <2>5, <3>2, <4>2
        <4>4. PhaseOf(r) = "dropped"
          BY <3>2, <4>1, Zenon DEF PhaseOf
        <4>5. PhaseOf(r)' = "gone"
          BY <1>3, <1>9, <4>1, <4>3, Zenon DEF PhaseOf
        <4> QED
          BY <3>2, <4>4, <4>5, Zenon
      <3>3. CASE r \notin S /\ r \notin dropped_deferred_requests
        <4>1. SameLife(r)
          BY <1>3, <1>7, <1>9, <2>5, <3>3, Zenon DEF SameLife
        <4>2. PhaseOf(r) # "dropped"
          BY <3>3, Zenon DEF PhaseOf
        <4> QED
          BY <3>3, <4>1, <4>2, SamePhase, Zenon
      <3> QED
        BY <3>1, <3>2, <3>3, Zenon
    <2>9. Phase' = [r \in Requests |->
                      IF r \in S /\ unmasked[r] + n[r] = output_length[r] THEN "answered"
                      ELSE IF Phase[r] = "dropped" THEN "gone" ELSE Phase[r]]
      BY <2>8, Zenon DEF Phase
    <2>10. n \in [S -> 1 .. denoise_block_size]
      BY Zenon DEF StepResults
    <2>11. \A r \in S : unmasked[r] + n[r] <= output_length[r]
      BY <2>4, Zenon
    <2>12. Service!Step(S, n)
      BY <1>3, <1>9, <2>7, <2>9, <2>11, Zenon DEF Service!Step
    <2> QED
      BY <1>4, <2>1, <2>2, <2>6, <2>10, <2>12, Zenon
  <1> QED
    BY <1>7, <1>8, <1>9, Zenon

-----------------------------------------------------------------------------
(* The invariant and the simulation, action by action.                     *)

LEMMA InputLife ==
  ASSUME TypeOK, LifeCycle, HandleAbort
  PROVE  /\ LifeCycle'
         /\ \/ \E r \in Requests : Service!Abort(r)
            \/ \E i \in DOMAIN deferred_requests : Service!Drop(i)
            \/ UNCHANGED Service!vars
  <1>1. /\ FinishRequest(Head(input_queue).req) /\ input_queue' = Tail(input_queue)
        /\ input_queue # <<>> /\ Head(input_queue).type = "ABORT"
        /\ UNCHANGED <<client, scheduler_outputs>>
    BY Zenon DEF HandleAbort
  <1>2. PICK r \in Requests : r = Head(input_queue).req
    BY <1>1, FirstMessage, Zenon DEF TypeOK, EngineTypeOK
  <1>3. FinishRequest(r)
    BY <1>1, <1>2, Zenon
  <1>4. UNCHANGED <<unmasked, in_output, new_reqs, running_reqs>>
    BY <1>3, Zenon DEF FinishRequest, localVars
  <1>5. Adds(input_queue)' = Adds(input_queue) /\ OneAddEach(input_queue)'
    <2>1. Head(input_queue).type # "ADD"
      BY <1>1, Zenon
    <2> QED
      BY <1>1, <2>1, AddsOfTail, Zenon DEF LifeCycle, InOnePlace, TypeOK, EngineTypeOK
  <1>6. CASE UNCHANGED queueVars
    <2>1. LivesUnchanged
      BY <1>1, <1>4, <1>5, <1>6, Zenon DEF LivesUnchanged
    <2>2. Started \subseteq Started'
      BY <2>1, UnchangedLives, Zenon
    <2>3. BatchesOfStarted'
      BY <1>1, <1>4, <2>2, BatchesFrame, Zenon DEF LifeCycle
    <2> QED
      BY <2>1, <2>3, UnchangedLives, Zenon DEF LifeCycle
  <1>7. CASE r \in request_states /\ IsRunning(r)
    <2>1. FreeRequests({r}) /\ UNCHANGED <<deferred_requests, dropped_deferred_requests>>
      BY <1>3, <1>7, Zenon DEF FinishRequest
    <2> QED
      BY <1>1, <1>2, <1>4, <1>5, <1>7, <2>1, AbortLife, Zenon
  <1>8. CASE \E i \in DOMAIN deferred_requests : DropDeferred(i)
    BY <1>1, <1>4, <1>5, <1>8, DropLife, Zenon
  <1> QED
    BY <1>3, <1>6, <1>7, <1>8, Zenon DEF FinishRequest

LEMMA AdmitLife ==
  ASSUME TypeOK, LifeCycle, Admit
  PROVE  /\ LifeCycle'
         /\ \/ Service!AdmitOldest
            \/ \E i \in DOMAIN deferred_requests : Service!Drop(i)
            \/ UNCHANGED Service!vars
  <1>1. /\ UNCHANGED loopVars
        /\ UNCHANGED <<client, input_queue, scheduler_outputs, unmasked, in_output, new_reqs,
                       running_reqs>>
    BY Zenon DEF Admit, ExpireDeferred, ExpireDone, AdmitDeferred, AdmitReturn, loopVars, localVars
  <1>2. Adds(input_queue)' = Adds(input_queue) /\ OneAddEach(input_queue)'
    BY <1>1, Zenon DEF LifeCycle, InOnePlace
  <1>3. CASE ExpireDeferred
    <2>1. PICK i \in DOMAIN deferred_requests : DropDeferred(i)
      BY <1>3, Zenon DEF ExpireDeferred
    <2> QED
      BY <1>1, <1>2, <2>1, DropLife, Zenon
  <1>4. CASE AdmitDeferred
    BY <1>1, <1>4, AdmitDeferredLife, Zenon
  <1>5. CASE ExpireDone \/ AdmitReturn
    <2>1. LivesUnchanged
      BY <1>1, <1>2, <1>5, Zenon DEF LivesUnchanged, ExpireDone, AdmitReturn
    <2>2. Started \subseteq Started'
      BY <2>1, UnchangedLives, Zenon
    <2>3. BatchesOfStarted'
      BY <1>1, <2>2, BatchesFrame, Zenon DEF LifeCycle
    <2> QED
      BY <2>1, <2>3, UnchangedLives, Zenon DEF LifeCycle
  <1> QED
    BY <1>3, <1>4, <1>5, Zenon DEF Admit

\* The steps that change the batches at most.
LEMMA QuietLife ==
  ASSUME TypeOK, LifeCycle, LivesUnchanged, Started' = Started => BatchesOfStarted'
  PROVE  LifeCycle' /\ UNCHANGED Service!vars
  BY UnchangedLives, Zenon DEF LifeCycle

LEMMA BusyLoopLife ==
  ASSUME TypeOK, PlacementConsistent, ScheduleLocalsConsistent, OutputsOfBatches, LifeCycle, BusyLoop
  PROVE  LifeCycle' /\ (Service!Next \/ UNCHANGED Service!vars)
  <1>1. CASE HandleAdd
    BY <1>1, HandleAddLife, Zenon DEF Service!Next
  <1>2. CASE HandleAbort
    BY <1>2, InputLife, Zenon DEF Service!Next
  <1>3. CASE Admit
    BY <1>3, AdmitLife, Zenon DEF Service!Next
  <1>4. CASE ProcessOutput
    BY <1>4, ProcessOutputLife, Zenon DEF Service!Next
  <1>5. CASE Schedule \/ EngineStep \/ FlushStep
    <2>2. UNCHANGED <<queueVars, unmasked, client, input_queue>>
      BY <1>5, Zenon DEF Schedule, UpdateExecutors, Stage0, Stage1NextExecutor, Stage1Request,
                         Stage1ExecutorDone, Stage1Done, Stage2Request, Stage2Done, Stage5Request,
                         EngineStep, FlushStep, Stage6, loopVars
    <2>3. LivesUnchanged
      BY <2>2, Zenon DEF LivesUnchanged
    <2> QED
      BY <1>5, <2>3, QuietLife, ScheduleBatches, StepBatches, Zenon
  <1>6. CASE InputDone \/ StepDone \/ AwaitOutput \/ OutputSleepDone \/ DrainDone
    <2>1. /\ UNCHANGED <<queueVars, unmasked, client, input_queue>>
          /\ UNCHANGED <<in_output, new_reqs, running_reqs, scheduler_outputs>>
      BY <1>6, Zenon DEF InputDone, StepDone, AwaitOutput, OutputSleepDone, DrainDone, loopVars,
                         localVars
    <2>2. LivesUnchanged
      BY <2>1, Zenon DEF LivesUnchanged
    <2> QED
      BY <2>1, <2>2, QuietLife, BatchesFrame, Zenon DEF LifeCycle
  <1> QED
    BY <1>1, <1>2, <1>3, <1>4, <1>5, <1>6, Zenon DEF BusyLoop

LEMMA OtherTasksLife ==
  ASSUME TypeOK, LifeCycle,
         \/ \E r \in Requests : SendAdd(r) \/ SendAbort(r)
         \/ \E e \in Executors : \/ ExecuteModel(e) \/ ModelDone(e) \/ ModelRaises(e)
                                 \/ Launch(e) \/ StartKill(e) \/ ContinueKill(e)
         \/ UNCHANGED vars
  PROVE  LifeCycle' /\ (Service!Next \/ UNCHANGED Service!vars)
  <1>1. ASSUME NEW r \in Requests, SendAdd(r)
        PROVE  LifeCycle' /\ (Service!Next \/ UNCHANGED Service!vars)
    BY <1>1, SendAddLife, Zenon DEF Service!Next
  <1>2. ASSUME NEW r \in Requests, SendAbort(r)
        PROVE  LifeCycle' /\ (Service!Next \/ UNCHANGED Service!vars)
    <2> DEFINE m == [type |-> "ABORT", req |-> r]
    <2>1. /\ UNCHANGED <<queueVars, unmasked, in_output, new_reqs, running_reqs, scheduler_outputs>>
          /\ client[r] = "sent" /\ client' = [client EXCEPT ![r] = "aborted"]
          /\ input_queue' = Append(input_queue, m)
      BY <1>2, Zenon DEF SendAbort, schedulerVars, localVars
    <2>2. m \in Messages /\ m.type # "ADD"
      BY DEF Messages
    <2> HIDE DEF m
    <2>3. OneAddEach(input_queue) =>
             OneAddEach(input_queue') /\ Adds(input_queue') = Adds(input_queue)
      BY <2>1, <2>2, AddsOfAppend, Zenon DEF TypeOK, EngineTypeOK
    <2>4. \A q \in Requests : client'[q] = "new" <=> client[q] = "new"
      BY <2>1, Zenon DEF TypeOK, EngineTypeOK
    <2>5. LivesUnchanged
      BY <2>1, <2>3, <2>4, Zenon DEF LivesUnchanged, LifeCycle, InOnePlace
    <2> QED
      BY <2>1, <2>5, QuietLife, BatchesFrame, Zenon DEF LifeCycle
  <1>3. CASE \/ \E e \in Executors : \/ ExecuteModel(e) \/ ModelDone(e) \/ ModelRaises(e)
                                     \/ Launch(e) \/ StartKill(e) \/ ContinueKill(e)
             \/ UNCHANGED vars
    <2>1. /\ UNCHANGED <<queueVars, unmasked, client, input_queue>>
          /\ UNCHANGED <<in_output, new_reqs, running_reqs, scheduler_outputs>>
      BY <1>3, Zenon DEF ExecuteModel, ModelDone, ModelRaises, Launch, StartKill, ContinueKill,
                         vars, schedulerVars, loopVars, localVars
    <2>2. LivesUnchanged
      BY <2>1, Zenon DEF LivesUnchanged
    <2> QED
      BY <2>1, <2>2, QuietLife, BatchesFrame, Zenon DEF LifeCycle
  <1> QED
    BY <1>1, <1>2, <1>3, Zenon

LEMMA NextOutputsOfBatches ==
  ASSUME TypeOK, OutputsOfBatches, [Next]_vars
  PROVE  OutputsOfBatches'
  <1>1. CASE EngineStep
    <2>1. ASSUME NEW e \in Executors PROVE SchedulerOutput(e) # NoBatch
      BY DEF SchedulerOutput, NoBatch
    <2> QED
      BY <1>1, <2>1, Zenon DEF EngineStep, OutputsOfBatches, TypeOK, EngineTypeOK
  <1>2. CASE FlushStep
    <2>1. EmptyBatch # NoBatch
      BY DEF EmptyBatch, NoBatch
    <2> QED
      BY <1>2, <2>1, Zenon DEF FlushStep, OutputsOfBatches, TypeOK, EngineTypeOK
  <1>3. CASE ProcessOutput
    BY <1>3, Zenon DEF ProcessOutput, OutputsOfBatches, TypeOK, EngineTypeOK
  <1>4. ASSUME NEW e \in Executors, ModelDone(e) PROVE OutputsOfBatches'
    BY <1>4, Zenon DEF ModelDone, Executing, background_tasks, OutputsOfBatches
  <1>5. CASE UNCHANGED <<scheduler_outputs, executor_output_queue>>
    BY <1>5, Zenon DEF OutputsOfBatches
  <1>6. ASSUME BusyLoop, ~EngineStep, ~FlushStep, ~ProcessOutput
        PROVE  UNCHANGED <<scheduler_outputs, executor_output_queue>>
    BY <1>6, Zenon DEF BusyLoop, HandleAdd, HandleAbort, InputDone, Admit, Schedule, StepDone,
                       AwaitOutput, OutputSleepDone, DrainDone, loopVars
  <1>7. ASSUME \/ \E r \in Requests : SendAdd(r) \/ SendAbort(r)
               \/ \E e \in Executors : \/ ExecuteModel(e) \/ ModelRaises(e)
                                       \/ Launch(e) \/ StartKill(e) \/ ContinueKill(e)
               \/ UNCHANGED vars
        PROVE  UNCHANGED <<scheduler_outputs, executor_output_queue>>
    BY <1>7, Zenon DEF SendAdd, SendAbort, ExecuteModel, ModelRaises, Launch, StartKill,
                       ContinueKill, vars, loopVars
  <1> QED
    BY <1>1, <1>2, <1>3, <1>4, <1>5, <1>6, <1>7, Zenon DEF Next

LEMMA NextLife ==
  ASSUME TypeOK, PlacementConsistent, ScheduleLocalsConsistent, OutputsOfBatches, LifeCycle, [Next]_vars
  PROVE  LifeCycle' /\ (Service!Next \/ UNCHANGED Service!vars)
  BY BusyLoopLife, OtherTasksLife, Zenon DEF Next

LEMMA InitLife == Init => LifeCycle /\ OutputsOfBatches /\ Service!Init
  <1> SUFFICES ASSUME Init PROVE LifeCycle /\ OutputsOfBatches /\ Service!Init
    BY Zenon
  <1>1. /\ requests = {} /\ request_states = {} /\ deferred_requests = <<>>
        /\ dropped_deferred_requests = {} /\ in_output = {} /\ input_queue = <<>>
        /\ new_reqs = NoRequests /\ running_reqs = NoRequests /\ executor_output_queue = {}
        /\ client = [r \in Requests |-> "new"] /\ unmasked = [r \in Requests |-> 0]
        /\ scheduler_outputs = [e \in Executors |-> NoBatch]
    BY Zenon DEF Init, SchedulerInit, LocalsInit
  <1>2. DOMAIN input_queue = {} /\ DOMAIN deferred_requests = {}
    <2>1. DOMAIN <<>> = {}
      OBVIOUS
    <2> QED
      BY <1>1, <2>1, Zenon
  <1>3. /\ Adds(input_queue) = {} /\ OneAddEach(input_queue)
        /\ Range(deferred_requests) = {} /\ IsInjective(deferred_requests)
    BY <1>2, Zenon DEF Adds, OneAddEach, Range, IsInjective
  <1>4. InOnePlace
    BY <1>1, <1>3, Zenon DEF InOnePlace
  <1>5. ProgressOfStarted
    <2>1. \A r \in Requests : 0 <= output_length[r]
      BY BlocksAssumption
    <2> QED
      BY <1>1, <2>1, Zenon DEF ProgressOfStarted
  <1>6. BatchesOfStarted /\ OutputsOfBatches
    BY <1>1, Zenon DEF BatchesOfStarted, NoRequests, OutputsOfBatches
  <1>8. Phase = [r \in Requests |-> "new"]
    BY <1>1, Zenon DEF Phase, PhaseOf
  <1> QED
    BY <1>1, <1>4, <1>5, <1>6, <1>8, Zenon DEF LifeCycle, Service!Init

=============================================================================
