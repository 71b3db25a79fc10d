---------------------------- MODULE LoadControl ----------------------------
(***************************************************************************)
(* Load control: a background thread caps the confidence threshold of      *)
(* every request so that the demand of all requests fits the throughput    *)
(* of the executors                                                        *)
(* (update_request_max_confidence_thresholds in                            *)
(* vllm/v1/core/sched/tediserve_scheduler.py, run by                       *)
(* vllm/v1/core/sched/async_max_confidence_threshold_updater.py).          *)
(*                                                                         *)
(* Three threads share the scheduler's dictionaries without a lock: the    *)
(* engine's loop adds, admits and removes requests and changes the supply, *)
(* the step-estimate worker replaces estimates, and the updater reads them *)
(* all while it computes.  Whoever changes an input marks the updater      *)
(* afterwards; only the marks are protected by a lock.                     *)
(*                                                                         *)
(* Thresholds are their indices 1 .. NumThresholds, the highest confidence *)
(* first.  demand[r][c] stands for _get_request_tput_demand(r, c).         *)
(***************************************************************************)
EXTENDS Integers, Sequences, FiniteSetsExt, Functions

CONSTANTS
    Requests,
    NumThresholds,   \* len(candidate_confidence_thresholds)
    Demands,         \* the possible demands of a request, by threshold
    Supplies         \* the possible values of throughput_supply

ASSUME LoadControlAssumption ==
    /\ IsFiniteSet(Requests)
    /\ NumThresholds \in Nat \ {0}
    /\ Demands \subseteq [1 .. NumThresholds -> Nat]
    /\ Supplies \subseteq Nat

VARIABLES
    requests,           \* keys of self.requests
    admitted,           \* keys of self.request_states
    deferred,           \* keys of self.deferred_request_states
    demand,
    cap,                \* max_confidence_threshold_idx of each request
    throughput_supply,
    engine,             \* what the engine's loop is in the middle of
    estimator           \* "mark" when the estimate worker has yet to mark

VARIABLES
    pending, stop,      \* _pending, _shutdown
    worker,             \* position of the updater thread
    seen,               \* ids listed so far by the running update
    order,              \* reqs_by_progress
    i,                  \* position in order
    suffix,             \* cum_min_tput_suffix
    budget,             \* total_throughput_budget
    current,            \* current_tput_demand
    floor               \* MIN_MAX_CONFIDENCE_THRESHOLD_IDX

requestVars == <<requests, admitted, deferred, demand, cap, throughput_supply>>
threadVars == <<engine, estimator>>
monitorVars == <<pending, stop, worker>>
localVars == <<seen, order, i, suffix, budget, current>>

vars == <<requestVars, threadVars, monitorVars, localVars, floor>>

Lowest == NumThresholds
NoDemand == [c \in 1 .. Lowest |-> 0]

Init ==
    /\ requests = {} /\ admitted = {} /\ deferred = {}
    /\ demand = [r \in Requests |-> NoDemand]
    /\ cap = [r \in Requests |-> 1]
    /\ throughput_supply \in Supplies
    /\ engine = <<"idle">>
    /\ estimator = "idle"
    /\ pending = FALSE /\ stop = FALSE /\ worker = "top"
    /\ seen = {} /\ order = <<>> /\ i = 0 /\ suffix = <<>>
    /\ budget = 0 /\ current = 0
    /\ floor = 1

-----------------------------------------------------------------------------
(* The monitor of the updater.                                             *)

\* The effect of notify: a waiting updater becomes runnable.
Woken == IF worker = "waiting" THEN "top"
         ELSE IF worker = "debounce" THEN "debounced" ELSE worker

\* Faulty variant: no notify.
MarkShouldUpdateSilently ==
    IF stop THEN UNCHANGED monitorVars
    ELSE pending' = TRUE /\ UNCHANGED <<stop, worker>>

mark_should_update ==
    IF stop THEN UNCHANGED monitorVars
    ELSE pending' = TRUE /\ worker' = Woken /\ UNCHANGED stop

\* Faulty variant: no notify_all.
ShutdownSilently ==
    /\ ~stop
    /\ engine = <<"idle">>
    /\ stop' = TRUE
    /\ UNCHANGED <<pending, worker, requestVars, threadVars, localVars, floor>>

Shutdown ==
    /\ ~stop
    /\ engine = <<"idle">>
    /\ stop' = TRUE
    /\ worker' = Woken
    /\ UNCHANGED <<pending, requestVars, threadVars, localVars, floor>>

\* The top of _worker_loop.
WorkerTop ==
    /\ worker = "top"
    /\ IF stop THEN worker' = "exited" /\ UNCHANGED pending
       ELSE IF pending THEN worker' = "debounce" /\ pending' = FALSE
       ELSE worker' = "waiting" /\ UNCHANGED pending
    /\ UNCHANGED <<stop, requestVars, threadVars, localVars, floor>>

DebounceTimeout ==
    /\ worker = "debounce"
    /\ worker' = "debounced"
    /\ UNCHANGED <<pending, stop, requestVars, threadVars, localVars, floor>>

\* Faulty variant: back to the top, for another wait, when marks have arrived.
DebounceAgain ==
    /\ worker = "debounced"
    /\ worker' = IF stop THEN "exited" ELSE IF pending THEN "top" ELSE "list"
    /\ UNCHANGED <<pending, stop, requestVars, threadVars, localVars, floor>>

\* Marks made while debouncing are served by the update that follows.
DebounceDone ==
    /\ worker = "debounced"
    /\ IF stop THEN worker' = "exited" /\ UNCHANGED pending
       ELSE worker' = "list" /\ pending' = FALSE
    /\ UNCHANGED <<stop, requestVars, threadVars, localVars, floor>>

SleepOver ==
    /\ worker = "sleep"
    /\ worker' = "top"
    /\ UNCHANGED <<pending, stop, requestVars, threadVars, localVars, floor>>

-----------------------------------------------------------------------------
(* update_request_max_confidence_thresholds.                               *)

\* The update returns: its locals are gone.
Return ==
    /\ seen' = {} /\ order' = <<>> /\ i' = 0 /\ suffix' = <<>>
    /\ budget' = 0 /\ current' = 0
    /\ UNCHANGED <<floor, cap>>

\* A request disappeared under the update: the exception is logged.
Raise == worker' = "top" /\ Return

ListAdmitted ==
    /\ worker = "list"
    /\ seen' = admitted
    /\ worker' = "list_deferred"
    /\ UNCHANGED <<pending, stop, requestVars, threadVars, order, i, suffix, budget,
                   current, floor>>

ListDeferred ==
    /\ worker = "list_deferred"
    /\ seen' = seen \cup deferred
    /\ worker' = "sort"
    /\ UNCHANGED <<pending, stop, requestVars, threadVars, order, i, suffix, budget,
                   current, floor>>

\* Progress changes all the time: any order is possible.
SortByProgress ==
    /\ worker = "sort"
    /\ IF ~(seen \subseteq requests) THEN Raise
       ELSE \E s \in Bijection(1 .. Cardinality(seen), seen) :
            /\ order' = s
            /\ suffix' = [k \in DOMAIN s |-> 0]
            /\ i' = Len(s)
            /\ floor' = 1
            /\ worker' = "suffix"
            /\ seen' = {}
            /\ UNCHANGED <<budget, current, cap>>
    /\ UNCHANGED <<pending, stop, requests, admitted, deferred, demand, throughput_supply,
                   threadVars>>

\* _get_request_tput_demand: 0 for a request that is gone.
DemandOf(r, c) ==
    IF r \in requests /\ r \in admitted \cup deferred THEN demand[r][c] ELSE 0

\* suffix[i] is the demand at the lowest threshold of the requests after i.
SuffixStep ==
    /\ worker = "suffix"
    /\ i > 1
    /\ suffix' = [suffix EXCEPT ![i - 1] = suffix[i] + DemandOf(order[i], Lowest)]
    /\ i' = i - 1
    /\ UNCHANGED <<pending, stop, worker, requestVars, threadVars, seen, order, budget,
                   current, floor>>

SuffixDone ==
    /\ worker = "suffix"
    /\ i <= 1
    /\ budget' = throughput_supply
    /\ current' = 0
    /\ i' = 1
    /\ worker' = "assign"
    /\ UNCHANGED <<pending, stop, requestVars, threadVars, seen, order, suffix, floor>>

\* Faulty variant: the demand of the requests still to come is left out.
ThresholdIgnoringRest(r) ==
    LET fits == {c \in 1 .. Lowest : current + DemandOf(r, c) <= budget}
    IN  IF fits = {} THEN Lowest ELSE Min(fits)

\* The first threshold with which r and the lowest demands of the requests after
\* it fit the budget, the lowest one if there is none.
Threshold(r) ==
    LET fits == {c \in 1 .. Lowest : current + DemandOf(r, c) + suffix[i] <= budget}
    IN  IF fits = {} THEN Lowest ELSE Min(fits)

\* The state of r exists: in a dictionary, or on its way from one to the other.
HasState(r) == r \in admitted \cup deferred \/ engine = <<"admit", r>>

\* The cap is written into the state that AssignLook has found; nobody reads
\* it if the request is gone by now.
SetCap(r, c) ==
    /\ cap' = IF HasState(r) THEN [cap EXCEPT ![r] = c] ELSE cap
    /\ floor' = IF c > floor THEN c ELSE floor
    /\ current' = current + DemandOf(r, c)
    /\ i' = i + 1
    /\ worker' = "assign"
    /\ UNCHANGED <<seen, order, suffix, budget>>

\* The start of a round of the loop: a request without a state is skipped.
AssignLook ==
    /\ worker = "assign"
    /\ i <= Len(order)
    /\ IF order[i] \in admitted \cup deferred
       THEN worker' = "decide" /\ UNCHANGED i
       ELSE i' = i + 1 /\ UNCHANGED worker
    /\ UNCHANGED <<pending, stop, requestVars, threadVars, seen, order, suffix, budget,
                   current, floor>>

\* The rest of the round.  is_possible_to_meet_slo raises if the request has
\* left self.requests meanwhile; a request that misses its deadline anyway, or
\* whose state has gone, gets the lowest threshold.
AssignCap ==
    /\ worker = "decide"
    /\ LET r == order[i]
       IN  \/ r \notin requests /\ Raise
           \/ SetCap(r, Lowest)
           \/ SetCap(r, Threshold(r))
    /\ UNCHANGED <<pending, stop, requests, admitted, deferred, demand, throughput_supply,
                   threadVars>>

AssignDone ==
    /\ worker = "assign"
    /\ i > Len(order)
    /\ worker' = "sleep"
    /\ Return
    /\ UNCHANGED <<pending, stop, requests, admitted, deferred, demand, throughput_supply,
                   threadVars>>

Updater ==
    \/ WorkerTop \/ DebounceTimeout \/ DebounceDone \/ SleepOver
    \/ ListAdmitted \/ ListDeferred \/ SortByProgress
    \/ SuffixStep \/ SuffixDone \/ AssignLook \/ AssignCap \/ AssignDone

-----------------------------------------------------------------------------
(* The engine's loop.                                                      *)

\* add_request: the cap of the new state is the lowest one of the last update.
\* Ids are unique: one that the running update knows is not used again.
AddRequest(r) ==
    /\ engine = <<"idle">>
    /\ r \notin requests \cup seen \cup Range(order)
    /\ ~stop
    /\ requests' = requests \cup {r}
    /\ deferred' = deferred \cup {r}
    /\ cap' = [cap EXCEPT ![r] = floor]
    /\ \E d \in Demands : demand' = [demand EXCEPT ![r] = d]
    /\ UNCHANGED <<admitted, throughput_supply, threadVars, monitorVars, localVars, floor>>

\* Faulty variant: the state stays in the first dictionary.
AdmitGet(r) ==
    /\ engine = <<"idle">>
    /\ r \in deferred
    /\ engine' = <<"admit", r>>
    /\ UNCHANGED <<requestVars, estimator, monitorVars, localVars, floor>>

\* _admit_request: the state leaves one dictionary, enters the other, and the
\* updater is marked.
AdmitPop(r) ==
    /\ engine = <<"idle">>
    /\ r \in deferred
    /\ deferred' = deferred \ {r}
    /\ engine' = <<"admit", r>>
    /\ UNCHANGED <<requests, admitted, demand, cap, throughput_supply, estimator,
                   monitorVars, localVars, floor>>

AdmitInsert(r) ==
    /\ engine = <<"admit", r>>
    /\ admitted' = admitted \cup {r}
    /\ engine' = <<"mark">>
    /\ UNCHANGED <<requests, deferred, demand, cap, throughput_supply, estimator,
                   monitorVars, localVars, floor>>

DeleteState(r) ==
    /\ admitted' = admitted \ {r}
    /\ deferred' = deferred \ {r}
    /\ demand' = [demand EXCEPT ![r] = NoDemand]
    /\ cap' = [cap EXCEPT ![r] = 1]
    /\ UNCHANGED <<requests, throughput_supply, estimator, monitorVars, localVars, floor>>

\* _free_request of an admitted request: the state is deleted, then the request.
FreeState(r) ==
    /\ engine = <<"idle">>
    /\ r \in admitted
    /\ engine' = <<"free", r>>
    /\ DeleteState(r)

\* _drop_deferred_requests: the same for one deferred request after the other,
\* then one mark.
DropState(r) ==
    /\ engine \in {<<"idle">>, <<"dropped">>}
    /\ r \in deferred
    /\ engine' = <<"drop", r>>
    /\ DeleteState(r)

DeleteRequest(r) ==
    /\ engine \in {<<"free", r>>, <<"drop", r>>}
    /\ requests' = requests \ {r}
    /\ engine' = IF engine[1] = "drop" THEN <<"dropped">> ELSE <<"mark">>
    /\ UNCHANGED <<admitted, deferred, demand, cap, throughput_supply, estimator,
                   monitorVars, localVars, floor>>

\* update_throughput_supply, when executors come or go.
UpdateThroughputSupply ==
    /\ engine = <<"idle">>
    /\ throughput_supply' \in Supplies
    /\ engine' = <<"mark">>
    /\ UNCHANGED <<requests, admitted, deferred, demand, cap, estimator, monitorVars,
                   localVars, floor>>

\* mark_should_update at the end of these operations.
EngineMarks ==
    /\ engine \in {<<"mark">>, <<"dropped">>}
    /\ mark_should_update
    /\ engine' = <<"idle">>
    /\ UNCHANGED <<requestVars, estimator, localVars, floor>>

\* A finished step decrements the estimates, which does not mark.
StepDecrements(r) ==
    /\ engine = <<"idle">>
    /\ r \in admitted
    /\ demand' = [demand EXCEPT ![r] = [c \in 1 .. Lowest |->
                      IF demand[r][c] > 0 THEN demand[r][c] - 1 ELSE 0]]
    /\ UNCHANGED <<requests, admitted, deferred, cap, throughput_supply, threadVars,
                   monitorVars, localVars, floor>>

(* The step-estimate worker: new estimates, then a mark.                   *)
RefreshEstimate(r) ==
    /\ estimator = "idle"
    /\ r \in admitted \cup deferred
    /\ \E d \in Demands : demand' = [demand EXCEPT ![r] = d]
    /\ estimator' = "mark"
    /\ UNCHANGED <<requests, admitted, deferred, cap, throughput_supply, engine,
                   monitorVars, localVars, floor>>

EstimatorMarks ==
    /\ estimator = "mark"
    /\ mark_should_update
    /\ estimator' = "idle"
    /\ UNCHANGED <<requestVars, engine, localVars, floor>>

Next ==
    \/ Updater
    \/ Shutdown
    \/ UpdateThroughputSupply
    \/ EngineMarks
    \/ EstimatorMarks
    \/ \E r \in Requests :
        \/ AddRequest(r) \/ AdmitPop(r) \/ AdmitInsert(r)
        \/ FreeState(r) \/ DropState(r) \/ DeleteRequest(r)
        \/ StepDecrements(r) \/ RefreshEstimate(r)

Spec == Init /\ [][Next]_vars

\* The threads are scheduled, a debounce times out and a sleep ends.
FairSpec == Spec /\ WF_vars(Updater) /\ WF_vars(EngineMarks) /\ WF_vars(EstimatorMarks)

-----------------------------------------------------------------------------
Positions == {"top", "waiting", "debounce", "debounced", "list", "list_deferred",
              "sort", "suffix", "assign", "decide", "sleep", "exited"}

TypeOK ==
    /\ requests \subseteq Requests
    /\ admitted \cap deferred = {}
    /\ admitted \cup deferred \subseteq requests
    /\ demand \in [Requests -> [1 .. Lowest -> Nat]]
    /\ cap \in [Requests -> 1 .. Lowest]
    /\ throughput_supply \in Nat /\ budget \in Nat /\ current \in Nat
    /\ engine \in {<<"idle">>, <<"mark">>, <<"dropped">>}
                 \cup ({"admit", "free", "drop"} \X Requests)
    /\ estimator \in {"idle", "mark"}
    /\ pending \in BOOLEAN /\ stop \in BOOLEAN
    /\ worker \in Positions
    /\ seen \subseteq Requests
    /\ Range(order) \subseteq Requests
    /\ i \in 0 .. Len(order) + 1
    /\ suffix \in [DOMAIN order -> Nat]
    /\ floor \in 1 .. Lowest

\* Nothing is left to do: no change is unmarked, no mark is unserved.
Settled ==
    worker = "waiting" /\ engine = <<"idle">> /\ estimator = "idle" /\ ~stop

\* When the updater has come to rest, the demand of the admitted requests at
\* their caps is within the supply, or every one of them is capped at the lowest
\* threshold.  Removals, admissions, new estimates and new executors may have
\* interrupted any of the updates, some of which failed.
CapsWithinSupply ==
    Settled =>
        \/ SumFunctionOnSet([r \in Requests |-> demand[r][cap[r]]], admitted) <= throughput_supply
        \/ \A r \in admitted : cap[r] = Lowest

\* A mark is never lost: as long as it is pending the updater does not sleep on
\* its condition.
MarkWakesUpdater == pending => worker # "waiting"

\* Every mark is followed by the start of an update, unless the updater is shut
\* down.
MarksServed == pending ~> (worker = "list" \/ stop)

\* After a shutdown the updater thread ends, whatever it was doing.
ShutdownStops == stop ~> worker = "exited"

=============================================================================
