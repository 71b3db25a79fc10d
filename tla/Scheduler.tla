------------------------------ MODULE Scheduler ------------------------------
(***************************************************************************)
(* TeDiServeScheduler (vllm/v1/core/sched/tediserve_scheduler.py): which   *)
(* requests are admitted, where each of them is placed, and what each idle *)
(* executor is told to run next.                                           *)
(*                                                                         *)
(* schedule(), update_from_output() and finish_requests() run without a    *)
(* suspension point of the asyncio loop, so no other task observes their   *)
(* intermediate states.  Their loops are nevertheless steps of their own   *)
(* here, chained by pc, because the outcome of one iteration (a request    *)
(* moved, a batch grown) is the input of the next.                         *)
(*                                                                         *)
(* A Python exception that escapes these methods ends the engine: failure  *)
(* records which check failed and pc becomes "dead".                       *)
(***************************************************************************)
EXTENDS ExecutorsManager, Integers, Sequences, Functions

CONSTANTS
    Requests,          \* request ids
    None,              \* Python's None
    num_tokens,        \* request -> prompt plus output length
    TotalTokens,       \* set of requests -> sum of their num_tokens
    max_num_scheduled_tokens,
    StepLatency,       \* executor -> batch size -> profiled step latency
    arrival_time,      \* request -> arrival time at the front end
    Caching,           \* cache_prefix or cache_suffix
    denoise_block_size,
    output_length,     \* request -> number of tokens to unmask
    kv_capacity,       \* executor -> number of tokens its KV cache can hold
    max_num_unfinished_requests,  \* a number, or None
    enable_dropping

ASSUME RequestsAssumption ==
    /\ IsFiniteSet(Requests)
    /\ None \notin Executors
    /\ num_tokens \in [Requests -> Nat \ {0}]
    /\ arrival_time \in [Requests -> Nat]
    /\ max_num_scheduled_tokens \in Nat
    /\ Caching \in BOOLEAN
    /\ enable_dropping \in BOOLEAN
    /\ kv_capacity \in [Executors -> Nat]
    /\ max_num_unfinished_requests \in Nat \cup {None}

\* Latencies are profiled for every batch size within the token budget.
ASSUME LatencyAssumption ==
    \A e \in Executors, n \in 0 .. max_num_scheduled_tokens : StepLatency[e][n] \in Nat

\* Request.__init__ asserts that the output is a whole number of blocks.
ASSUME BlocksAssumption ==
    /\ denoise_block_size \in Nat \ {0}
    /\ output_length \in [Requests -> Nat \ {0}]
    /\ \A r \in Requests : output_length[r] % denoise_block_size = 0

\* TotalTokens is the sum over a set, stated by what determines a sum: its
\* value on singletons and its additivity on disjoint sets.
ASSUME TotalTokensAssumption ==
    /\ TotalTokens \in [SUBSET Requests -> Nat]
    /\ \A r \in Requests : TotalTokens[{r}] = num_tokens[r]
    /\ \A S, T \in SUBSET Requests :
          S \cap T = {} => TotalTokens[S \cup T] = TotalTokens[S] + TotalTokens[T]

VARIABLES
    pc,                         \* where the busy loop is
    caller,                     \* where _admit_deferred_requests returns to
    failure,                    \* "none", or the check that raised
    requests,                   \* keys of Scheduler.requests
    request_states,             \* keys of request_states: admitted requests
    deferred_requests,          \* the deque of requests over the limit
    dropped_deferred_requests,  \* dropped, answer to the client not yet sent
    executor_states,            \* keys of executor_states
    req_ids,                    \* executor -> ExecutorState.req_ids
    pending_request_additions,  \* executor -> requests to add when it is idle
    executor_id,                \* request -> RequestState.executor_id
    pending_executor_id,        \* request -> RequestState.pending_executor_id
    free_req_ids,               \* executor -> requests its worker must forget
    kv_blocks,                  \* executor -> requests owning KV blocks there
    unmasked,                   \* request -> num_unmasked_tokens
    \* locals of schedule()
    idle_executors, idle_not_accepting, schedulable, old_executor,
    in_output,                  \* requests_in_scheduler_output still to finalize
    todo,                       \* stage 1: executors not yet processed
    cur, cur_reqs,              \* stage 1: current executor, its requests left
    new_reqs, running_reqs      \* scheduled_new_reqs, scheduled_running_reqs

controlVars == <<pc, caller, failure>>
queueVars == <<requests, request_states, deferred_requests,
               dropped_deferred_requests>>
placementVars == <<executor_states, req_ids, pending_request_additions,
                   executor_id, pending_executor_id>>
storeVars == <<free_req_ids, kv_blocks>>
localVars == <<idle_executors, idle_not_accepting, schedulable, old_executor,
               in_output, todo, cur, cur_reqs, new_reqs, running_reqs>>

schedulerVars == <<controlVars, queueVars, placementVars, storeVars, unmasked,
                   localVars>>

NoRequests == [e \in Executors |-> {}]
Nowhere == [r \in Requests |-> None]
ExecutorOrNone == Executors \cup {None}

Failures == {"none", "request not running", "no executor left",
             "pending request is running", "no KV blocks",
             "running request on a busy executor", "not drained",
             "worker misses a cached request", "overlapping step",
             "executor gone"}

PC == {"input", "input_wait", "expire", "admit", "update_executors", "init",
       "stage1", "stage2", "stage5", "step_sleep", "output", "output_wait",
       "output_sleep", "drain", "dead"}

ControlTypeOK ==
    /\ pc \in PC
    /\ caller \in {"input", "update_executors"}
    /\ failure \in Failures

QueueTypeOK ==
    /\ requests \in SUBSET Requests
    /\ request_states \in SUBSET Requests
    /\ deferred_requests \in Seq(Requests)
    /\ dropped_deferred_requests \in SUBSET Requests

PlacementTypeOK ==
    /\ executor_states \in SUBSET Executors
    /\ req_ids \in [Executors -> SUBSET Requests]
    /\ pending_request_additions \in [Executors -> SUBSET Requests]
    /\ executor_id \in [Requests -> ExecutorOrNone]
    /\ pending_executor_id \in [Requests -> ExecutorOrNone]

StoreTypeOK ==
    /\ free_req_ids \in [Executors -> SUBSET Requests]
    /\ kv_blocks \in [Executors -> SUBSET Requests]

LocalTypeOK ==
    /\ idle_executors \in SUBSET Executors
    /\ idle_not_accepting \in SUBSET Executors
    /\ schedulable \in SUBSET Executors
    /\ old_executor \in [Requests -> ExecutorOrNone]
    /\ in_output \in SUBSET Requests
    /\ todo \in SUBSET Executors
    /\ cur \in ExecutorOrNone
    /\ cur_reqs \in SUBSET Requests
    /\ new_reqs \in [Executors -> SUBSET Requests]
    /\ running_reqs \in [Executors -> SUBSET Requests]

SchedulerTypeOK ==
    /\ ControlTypeOK
    /\ QueueTypeOK
    /\ PlacementTypeOK
    /\ StoreTypeOK
    /\ unmasked \in [Requests -> Nat]
    /\ LocalTypeOK

LocalsInit ==
    /\ idle_executors = {} /\ idle_not_accepting = {}
    /\ schedulable = {} /\ old_executor = Nowhere
    /\ in_output = {} /\ todo = {} /\ cur = None /\ cur_reqs = {}
    /\ new_reqs = NoRequests /\ running_reqs = NoRequests

SchedulerInit ==
    /\ pc = "input" /\ caller = "input" /\ failure = "none"
    /\ requests = {} /\ request_states = {}
    /\ deferred_requests = <<>> /\ dropped_deferred_requests = {}
    /\ executor_states = {}
    /\ req_ids = NoRequests /\ pending_request_additions = NoRequests
    /\ executor_id = Nowhere /\ pending_executor_id = Nowhere
    /\ free_req_ids = NoRequests /\ kv_blocks = NoRequests
    /\ unmasked = [r \in Requests |-> 0]
    /\ LocalsInit

Goto(label) == pc' = label /\ UNCHANGED <<caller, failure>>
Call(return) == pc' = "expire" /\ caller' = return /\ UNCHANGED failure

\* An exception leaves the method: nothing it did so far is observed any more.
Fail(check) == pc' = "dead" /\ failure' = check /\ UNCHANGED caller

-----------------------------------------------------------------------------
(* Admission.                                                              *)

\* Faulty variant: off by one.
HasRoomOffByOne(states) ==
    \/ max_num_unfinished_requests = None
    \/ Cardinality(states) <= max_num_unfinished_requests

HasRoom(states) ==
    \/ max_num_unfinished_requests = None
    \/ Cardinality(states) < max_num_unfinished_requests

\* add_request: admit, or defer when max_num_unfinished_requests is reached.
AddRequest(r) ==
    /\ requests' = requests \cup {r}
    /\ IF HasRoom(request_states)
       THEN /\ request_states' = request_states \cup {r}
            /\ UNCHANGED deferred_requests
       ELSE /\ deferred_requests' = Append(deferred_requests, r)
            /\ UNCHANGED request_states
    /\ UNCHANGED dropped_deferred_requests

\* _drop_deferred_request, for the request at position i of the deque.
DropDeferred(i) ==
    /\ requests' = requests \ {deferred_requests[i]}
    /\ dropped_deferred_requests' =
          dropped_deferred_requests \cup {deferred_requests[i]}
    /\ deferred_requests' = SubSeq(deferred_requests, 1, i - 1) \o
                            SubSeq(deferred_requests, i + 1, Len(deferred_requests))
    /\ UNCHANGED request_states

\* _admit_deferred_requests, first part: the deferred requests whose SLO time
\* is used up are dropped if dropping is enabled.  Time is not modelled, so
\* any of them may have expired.
ExpireDeferred ==
    /\ pc = "expire"
    /\ enable_dropping
    /\ \E i \in DOMAIN deferred_requests : DropDeferred(i)
    /\ UNCHANGED <<controlVars, placementVars, storeVars, unmasked, localVars>>

ExpireDone ==
    /\ pc = "expire"
    /\ Goto("admit")
    /\ UNCHANGED <<queueVars, placementVars, storeVars, unmasked, localVars>>

\* Faulty variant: deferred requests are admitted from the right.
AdmitNewest ==
    /\ pc = "admit"
    /\ deferred_requests # <<>>
    /\ HasRoom(request_states)
    /\ request_states' = request_states \cup {deferred_requests[Len(deferred_requests)]}
    /\ deferred_requests' = SubSeq(deferred_requests, 1, Len(deferred_requests) - 1)
    /\ UNCHANGED <<requests, dropped_deferred_requests>>
    /\ UNCHANGED <<controlVars, placementVars, storeVars, unmasked, localVars>>

\* _admit_deferred_requests, second part: admit from the left while there is
\* room.
AdmitDeferred ==
    /\ pc = "admit"
    /\ deferred_requests # <<>>
    /\ HasRoom(request_states)
    /\ request_states' = request_states \cup {Head(deferred_requests)}
    /\ deferred_requests' = Tail(deferred_requests)
    /\ UNCHANGED <<requests, dropped_deferred_requests>>
    /\ UNCHANGED <<controlVars, placementVars, storeVars, unmasked, localVars>>

AdmitReturn ==
    /\ pc = "admit"
    /\ deferred_requests = <<>> \/ ~HasRoom(request_states)
    /\ Goto(caller)
    /\ UNCHANGED <<queueVars, placementVars, storeVars, unmasked, localVars>>

-----------------------------------------------------------------------------
(* Freeing finished and aborted requests.                                  *)

\* RequestState.is_running; refresh_status derives it from executor_id.
IsRunning(r) == executor_id[r] # None

IsUnscheduled(r) == executor_id[r] = None /\ pending_executor_id[r] = None

\* Faulty variants: only known executors keep an entry; the worker is not told.
ReqIdsToForgetKnown(S) ==
    [e \in executor_states |-> free_req_ids[e] \cup {r \in S : executor_id[r] = e}]
ReqIdsToForgetNone(S) == free_req_ids

\* _free_request_on_executor: the workers will be told to forget the requests.
ReqIdsToForget(S) ==
    [e \in Executors |-> free_req_ids[e] \cup {r \in S : executor_id[r] = e}]

\* Faulty variant: no block is given back.
BlocksKept(S) == kv_blocks

\* _free_blocks, for the requests of S on the executors they run on.
BlocksWithout(S) ==
    [e \in Executors |-> kv_blocks[e] \ {r \in S : executor_id[r] = e}]

\* _free_request for every request of S, all of them running: the executor
\* forgets them, its KV blocks are freed and its worker will be told.
FreeRequests(S) ==
    /\ requests' = requests \ S
    /\ request_states' = request_states \ S
    /\ req_ids' = [e \in Executors |-> req_ids[e] \ S]
    /\ free_req_ids' = ReqIdsToForget(S)
    /\ kv_blocks' = BlocksWithout(S)
    /\ executor_id' = [r \in Requests |-> IF r \in S THEN None ELSE executor_id[r]]
    /\ pending_executor_id' =
            [r \in Requests |-> IF r \in S THEN None ELSE pending_executor_id[r]]
    /\ UNCHANGED <<executor_states, pending_request_additions>>

\* finish_requests for one id.  A deferred request is dropped; an unknown one
\* is ignored; an admitted one is freed, which asserts that it is running.
\* Deferred requests are then admitted.
FinishRequest(r) ==
    IF r \in request_states
    THEN IF IsRunning(r)
         THEN /\ FreeRequests({r})
              /\ Call("input")
              /\ UNCHANGED <<deferred_requests, dropped_deferred_requests>>
              /\ UNCHANGED <<unmasked, localVars>>
         ELSE /\ Fail("request not running")
              /\ UNCHANGED <<queueVars, placementVars, storeVars, unmasked, localVars>>
    ELSE /\ IF r \in Range(deferred_requests)
            THEN \E i \in DOMAIN deferred_requests :
                    deferred_requests[i] = r /\ DropDeferred(i)
            ELSE UNCHANGED queueVars
         /\ Call("input")
         /\ UNCHANGED <<placementVars, storeVars, unmasked, localVars>>

-----------------------------------------------------------------------------
(* schedule(), prologue and stage 0.                                       *)

\* Faulty variant: requests waiting to join a removed executor keep waiting.
PendingKept(removed) == pending_executor_id

\* remove_executor: the requests that run or will run there become unscheduled.
PendingWithout(removed) ==
    [r \in Requests |->
        IF pending_executor_id[r] \in removed THEN None ELSE pending_executor_id[r]]

\* update_executors: new executors get an ExecutorState; the ones that left
\* the registry or are KILLING lose theirs, and their requests become
\* unscheduled.  remove_executor takes the max tp degree of what is left.
UpdateExecutors ==
    LET alive   == {e \in Present : status[e] # "KILLING"}
        removed == (executor_states \cup Present) \ alive
        Survivors(f) == [e \in Executors |-> IF e \in removed THEN {} ELSE f[e]]
        unplaced == [r \in Requests |->
                       IF executor_id[r] \in removed THEN None ELSE executor_id[r]]
    IN  /\ pc = "update_executors"
        /\ IF alive = {} /\ removed # {}
           THEN /\ Fail("no executor left")
                /\ UNCHANGED <<placementVars, storeVars, localVars>>
           ELSE /\ executor_states' = alive
                /\ req_ids' = Survivors(req_ids)
                /\ pending_request_additions' = Survivors(pending_request_additions)
                /\ free_req_ids' = Survivors(free_req_ids)
                /\ kv_blocks' = Survivors(kv_blocks)
                /\ executor_id' = unplaced
                /\ pending_executor_id' = PendingWithout(removed)
                /\ old_executor' = unplaced
                /\ Goto("init")
                /\ UNCHANGED <<idle_executors, idle_not_accepting, schedulable,
                               in_output, todo, cur, cur_reqs, new_reqs, running_reqs>>
        /\ UNCHANGED <<managerVars, queueVars, unmasked>>

\* "init" and "stage 0": the idle executors are taken for scheduling and the
\* requests that wait to join them are committed.
Stage0 ==
    LET idle       == {e \in Executors : status[e] = "IDLE"}
        restricted == {e \in Executors : status[e] = "IDLE_NOT_ACCEPTING"}
        considered == idle \cup restricted
        committed  == UNION {pending_request_additions[e] : e \in considered}
    IN  /\ pc = "init"
        /\ IF considered = {}
           THEN /\ Goto("step_sleep")
                /\ old_executor' = Nowhere
                /\ UNCHANGED <<status, req_ids, pending_request_additions, executor_id,
                               idle_executors, idle_not_accepting, schedulable,
                               in_output, todo>>
           ELSE IF \E r \in committed : IsRunning(r)
           THEN /\ Fail("pending request is running")
                /\ UNCHANGED <<status, req_ids, pending_request_additions, executor_id,
                               idle_executors, idle_not_accepting, schedulable,
                               old_executor, in_output, todo>>
           ELSE /\ status' = [e \in Executors |->
                       IF e \in considered THEN "CONSIDERED" ELSE status[e]]
                /\ idle_executors' = idle
                /\ idle_not_accepting' = restricted
                /\ schedulable' = executor_states \ considered
                /\ req_ids' = [e \in Executors |-> IF e \in considered
                       THEN req_ids[e] \cup pending_request_additions[e] ELSE req_ids[e]]
                /\ pending_request_additions' = [e \in Executors |->
                       IF e \in considered THEN {} ELSE pending_request_additions[e]]
                /\ executor_id' = [r \in Requests |->
                       IF r \in committed THEN pending_executor_id[r] ELSE executor_id[r]]
                /\ in_output' = committed
                /\ todo' = considered
                /\ Goto("stage1")
                /\ UNCHANGED old_executor
        /\ UNCHANGED <<waiting_to_be_killed, killer, queueVars, executor_states,
                       pending_executor_id, storeVars, unmasked, cur, cur_reqs,
                       new_reqs, running_reqs>>

-----------------------------------------------------------------------------
(* find_best_executor.                                                     *)

\* ExecutorState.get_projected_batch_size.
ProjectedBatchSize(e) == TotalTokens[req_ids[e] \cup pending_request_additions[e]]

\* Faulty variant: requests that are still to join the executor are not counted.
FitsIgnoringPending(e, r) ==
    TotalTokens[req_ids[e]] + num_tokens[r] <= max_num_scheduled_tokens

Fits(e, r) == ProjectedBatchSize(e) + num_tokens[r] <= max_num_scheduled_tokens

\* The step latency of executor e once r has joined it.
LatencyWith(e, r) == StepLatency[e][ProjectedBatchSize(e) + num_tokens[r]]

LeastLoaded == {b \in schedulable :
                   \A c \in schedulable : ProjectedBatchSize(b) <= ProjectedBatchSize(c)}

\* With a current executor: "one shot", only the least loaded candidate counts,
\* and it must be strictly faster than staying.
IsBetter(b, r) ==
    /\ Fits(b, r)
    /\ LatencyWith(b, r) < StepLatency[cur][ProjectedBatchSize(cur)]

\* Without one: the fastest of the candidates that fit, ties going to the least
\* loaded.
BestPlacements(r) ==
    LET fitting == {b \in schedulable : Fits(b, r)}
    IN  {b \in fitting : \A c \in fitting :
            \/ LatencyWith(b, r) < LatencyWith(c, r)
            \/ /\ LatencyWith(b, r) = LatencyWith(c, r)
               /\ ProjectedBatchSize(b) <= ProjectedBatchSize(c)}

-----------------------------------------------------------------------------
(* schedule(), stage 1: the requests on the idle executors, executors by   *)
(* increasing batch size.  An executor processed becomes schedulable.      *)

\* Request.is_start_of_new_block and can_migrate.
StartOfNewBlock(r) == unmasked[r] % denoise_block_size = 0

\* Faulty variant: block boundaries do not matter.
CanMigrateAlways(r) == TRUE

CanMigrate(r) == ~Caching \/ StartOfNewBlock(r)

\* add_request on an idle executor, set_executor and set_pending_executor.
PlaceNow(r, from, to) ==
    /\ req_ids' = [e \in Executors |->
            IF e = to THEN req_ids[e] \cup {r}
            ELSE IF e = from THEN req_ids[e] \ {r} ELSE req_ids[e]]
    /\ executor_id' = [executor_id EXCEPT ![r] = to]
    /\ pending_executor_id' = [pending_executor_id EXCEPT ![r] = to]
    /\ UNCHANGED <<executor_states, pending_request_additions>>

\* mark_pending_request_addition on a busy executor and set_pending_executor.
PlaceLater(r, from, to) ==
    /\ req_ids' = [e \in Executors |-> IF e = from THEN req_ids[e] \ {r} ELSE req_ids[e]]
    /\ pending_request_additions' = [pending_request_additions EXCEPT ![to] = @ \cup {r}]
    /\ executor_id' = [executor_id EXCEPT ![r] = None]
    /\ pending_executor_id' = [pending_executor_id EXCEPT ![r] = to]
    /\ UNCHANGED executor_states

\* Faulty variant: a busy executor is treated like an idle one.
PlaceAtOnce(r, from, to) == PlaceNow(r, from, to)

Place(r, from, to) ==
    IF to \in idle_executors THEN PlaceNow(r, from, to) ELSE PlaceLater(r, from, to)

\* Faulty variant: remove_pending_executor is forgotten.
UnplaceKeepsPending(r) ==
    /\ req_ids' = [req_ids EXCEPT ![cur] = @ \ {r}]
    /\ executor_id' = [executor_id EXCEPT ![r] = None]
    /\ UNCHANGED <<executor_states, pending_request_additions, pending_executor_id>>

\* remove_request, remove_executor, remove_pending_executor.
Unplace(r) ==
    /\ req_ids' = [req_ids EXCEPT ![cur] = @ \ {r}]
    /\ executor_id' = [executor_id EXCEPT ![r] = None]
    /\ pending_executor_id' = [pending_executor_id EXCEPT ![r] = None]
    /\ UNCHANGED <<executor_states, pending_request_additions>>

\* Faulty variant: executors already processed are looked at again.
Stage1AnyExecutor ==
    /\ pc = "stage1" /\ cur = None
    /\ \E e \in idle_executors \cup idle_not_accepting :
          cur' = e /\ cur_reqs' = req_ids[e]
    /\ UNCHANGED <<managerVars, controlVars, queueVars, placementVars, storeVars,
                   unmasked, idle_executors, idle_not_accepting, schedulable,
                   old_executor, in_output, todo, new_reqs, running_reqs>>

Stage1NextExecutor ==
    /\ pc = "stage1" /\ cur = None
    /\ \E e \in todo :
          /\ \A f \in todo : TotalTokens[req_ids[e]] <= TotalTokens[req_ids[f]]
          /\ cur' = e
          /\ cur_reqs' = req_ids[e]
    /\ UNCHANGED <<managerVars, controlVars, queueVars, placementVars, storeVars,
                   unmasked, idle_executors, idle_not_accepting, schedulable,
                   old_executor, in_output, todo, new_reqs, running_reqs>>

\* One iteration of the loop over the current executor's requests.  Whatever is
\* decided, the request takes part in the scheduler output of this step.
Stage1Request(r) ==
    /\ pc = "stage1" /\ cur # None /\ r \in cur_reqs
    /\ \/ /\ ~CanMigrate(r)
          /\ UNCHANGED placementVars
       \/ /\ CanMigrate(r) /\ cur \in idle_not_accepting
          /\ Unplace(r)
       \/ /\ CanMigrate(r) /\ cur \notin idle_not_accepting
          /\ \E b \in LeastLoaded : IsBetter(b, r) /\ Place(r, cur, b)
       \/ /\ CanMigrate(r) /\ cur \notin idle_not_accepting
          /\ LeastLoaded = {} \/ \E b \in LeastLoaded : ~IsBetter(b, r)
          /\ UNCHANGED placementVars
    /\ cur_reqs' = cur_reqs \ {r}
    /\ in_output' = in_output \cup {r}
    /\ UNCHANGED <<managerVars, controlVars, queueVars, storeVars, unmasked,
                   idle_executors, idle_not_accepting, schedulable, old_executor,
                   todo, cur, new_reqs, running_reqs>>

Stage1ExecutorDone ==
    /\ pc = "stage1" /\ cur # None /\ cur_reqs = {}
    /\ schedulable' = schedulable \cup ({cur} \cap idle_executors)
    /\ todo' = todo \ {cur}
    /\ cur' = None
    /\ UNCHANGED <<managerVars, controlVars, queueVars, placementVars, storeVars,
                   unmasked, idle_executors, idle_not_accepting, old_executor,
                   in_output, cur_reqs, new_reqs, running_reqs>>

Stage1Done ==
    /\ pc = "stage1" /\ todo = {}
    /\ Goto("stage2")
    /\ UNCHANGED <<managerVars, queueVars, placementVars, storeVars, unmasked, localVars>>

-----------------------------------------------------------------------------
(* schedule(), stage 2: the unscheduled requests in order of arrival, until *)
(* the first one that fits nowhere.                                         *)

FirstUnscheduled ==
    LET unscheduled == {r \in request_states : IsUnscheduled(r)}
    IN  {r \in unscheduled :
            \A q \in unscheduled : arrival_time[r] <= arrival_time[q]}

Stage2Request(r) ==
    /\ pc = "stage2"
    /\ r \in FirstUnscheduled
    /\ \E b \in BestPlacements(r) :
          /\ Place(r, None, b)
          /\ in_output' = IF b \in idle_executors THEN in_output \cup {r} ELSE in_output
    /\ UNCHANGED <<managerVars, controlVars, queueVars, storeVars, unmasked,
                   idle_executors, idle_not_accepting, schedulable, old_executor,
                   todo, cur, cur_reqs, new_reqs, running_reqs>>

Stage2Done ==
    /\ pc = "stage2"
    /\ FirstUnscheduled = {} \/ \E r \in FirstUnscheduled : BestPlacements(r) = {}
    /\ Goto("stage5")
    /\ UNCHANGED <<managerVars, queueVars, placementVars, storeVars, unmasked, localVars>>

-----------------------------------------------------------------------------
(* schedule(), stage 5: the decisions become frees, allocations and batch   *)
(* entries, request by request in the order of a Python set.                *)

\* Faulty variant: a migrated request leaves its blocks behind.
BlocksLeftOn(r, old) == kv_blocks

\* _free_blocks for a request that leaves its old executor, if it has one.
BlocksFreedOn(r, old) ==
    [e \in Executors |-> IF e = old THEN kv_blocks[e] \ {r} ELSE kv_blocks[e]]

\* remove_request: _free_request_on_executor(request, old, False, False).
\* add_new_request: allocate_slots for all of the request's tokens.
Stage5Move(r, old, new) ==
    LET freed == BlocksFreedOn(r, old)
    IN  IF /\ new # None /\ Caching
           /\ TotalTokens[freed[new] \cup {r}] > kv_capacity[new]
        THEN /\ Fail("no KV blocks")
             /\ UNCHANGED <<storeVars, new_reqs, running_reqs>>
        ELSE /\ free_req_ids' = [e \in Executors |->
                    IF e = old THEN free_req_ids[e] \cup {r} ELSE free_req_ids[e]]
             /\ kv_blocks' = [e \in Executors |->
                    IF e = new /\ Caching THEN freed[e] \cup {r} ELSE freed[e]]
             /\ new_reqs' = [e \in Executors |->
                    IF e = new THEN new_reqs[e] \cup {r} ELSE new_reqs[e]]
             /\ UNCHANGED <<controlVars, running_reqs>>

\* Unchanged executor: nothing for a future placement, add_running_request
\* otherwise.
Stage5Keep(r) ==
    /\ IF executor_id[r] = None
       THEN UNCHANGED <<controlVars, running_reqs>>
       ELSE IF executor_id[r] \notin idle_executors \cup idle_not_accepting
       THEN /\ Fail("running request on a busy executor")
            /\ UNCHANGED running_reqs
       ELSE /\ running_reqs' = [running_reqs EXCEPT ![executor_id[r]] = @ \cup {r}]
            /\ UNCHANGED controlVars
    /\ UNCHANGED <<storeVars, new_reqs>>

Stage5Request(r) ==
    /\ pc = "stage5" /\ r \in in_output
    /\ IF old_executor[r] # executor_id[r]
       THEN Stage5Move(r, old_executor[r], executor_id[r])
       ELSE Stage5Keep(r)
    /\ in_output' = in_output \ {r}
    /\ UNCHANGED <<managerVars, queueVars, placementVars, unmasked,
                   idle_executors, idle_not_accepting, schedulable, old_executor,
                   todo, cur, cur_reqs>>

-----------------------------------------------------------------------------
(* schedule(), stage 6.                                                    *)

Batches == [new : SUBSET Requests, cached : SUBSET Requests, free : SUBSET Requests]
EmptyBatch == [new |-> {}, cached |-> {}, free |-> {}]

\* The executors that get a SchedulerOutput: a batch to run, or only requests
\* to forget.
Scheduled ==
    {e \in idle_executors \cup idle_not_accepting :
        new_reqs[e] \cup running_reqs[e] \cup free_req_ids[e] # {}}

\* Faulty variant: the batch shares the set that _update_after_schedule empties.
SchedulerOutputCleared(e) ==
    [new |-> new_reqs[e], cached |-> running_reqs[e], free |-> {}]

SchedulerOutput(e) ==
    [new |-> new_reqs[e], cached |-> running_reqs[e], free |-> free_req_ids[e]]

ResetLocals ==
    /\ idle_executors' = {} /\ idle_not_accepting' = {}
    /\ schedulable' = {} /\ old_executor' = Nowhere
    /\ in_output' = {} /\ todo' = {} /\ cur' = None /\ cur_reqs' = {}
    /\ new_reqs' = NoRequests /\ running_reqs' = NoRequests

\* The remaining idle executors go back to IDLE, and their killers are
\* notified.  One that accepts no requests must be drained by now.
Stage6 ==
    LET resting == (idle_executors \cup idle_not_accepting) \ Scheduled
    IN  /\ pc = "stage5" /\ in_output = {}
        /\ IF \E e \in resting \cap idle_not_accepting :
                 req_ids[e] \cup pending_request_additions[e] # {}
           THEN /\ Fail("not drained")
                /\ UNCHANGED <<status, killer, free_req_ids, localVars>>
           ELSE /\ status' = [e \in Executors |->
                       IF e \in Scheduled THEN "SCHEDULED"
                       ELSE IF e \in resting THEN "IDLE" ELSE status[e]]
                /\ killer' = Notified(resting)
                /\ free_req_ids' = [e \in Executors |->
                       IF e \in Scheduled THEN {} ELSE free_req_ids[e]]
                /\ ResetLocals
                /\ Goto("step_sleep")
        /\ UNCHANGED <<waiting_to_be_killed, queueVars, placementVars, kv_blocks, unmasked>>


\* _make_drop_flush_scheduler_output: nothing to run, but dropped requests to
\* report.  The output is addressed to the first key of executor_states; which
\* executor was registered first is not modelled.
FlushTargets ==
    IF Scheduled = {} /\ dropped_deferred_requests # {} THEN executor_states ELSE {}

-----------------------------------------------------------------------------
(* update_from_output and has_requests.                                    *)

\* Faulty variant: unmasking does not stop at the end of the block.
StepResultsBeyondBlock(live) == [live -> 1 .. denoise_block_size]

\* The model unmasks at least one token of every request that ran, and none
\* beyond the request's current block.
StepResults(live) ==
    {n \in [live -> 1 .. denoise_block_size] :
        \A r \in live : n[r] <= denoise_block_size - (unmasked[r] % denoise_block_size)}

\* Requests aborted while the model ran are skipped; finished ones are freed.
\* The executor becomes idle again, or refuses new requests while it is drained
\* for its killer.
\* A shutdown under way holds the executor's condition, and the executor is no
\* longer in the registry when it lets go of it: set_idle then dies of a KeyError.
UpdateFromOutput(e, batch, next) ==
    LET live == (batch.new \cup batch.cached) \cap requests
    IN  \E n \in StepResults(live) :
        LET done == {r \in live : unmasked[r] + n[r] = output_length[r]}
            stray == \E r \in done : ~IsRunning(r)
        IN  /\ IF stray \/ killer[e] \in {"shutdown", "done"}
               THEN /\ Fail(IF stray THEN "request not running" ELSE "executor gone")
                    /\ UNCHANGED <<requests, request_states, dropped_deferred_requests,
                                   unmasked, placementVars, storeVars, status, killer>>
               ELSE /\ unmasked' = [r \in Requests |->
                           IF r \in live THEN unmasked[r] + n[r] ELSE unmasked[r]]
                    /\ dropped_deferred_requests' = {}
                    /\ FreeRequests(done)
                    /\ Goto(next)
                    /\ status' = [status EXCEPT ![e] =
                           IF /\ Caching /\ e \in waiting_to_be_killed
                              /\ (req_ids[e] \ done) \cup pending_request_additions[e] # {}
                           THEN "IDLE_NOT_ACCEPTING" ELSE "IDLE"]
                    /\ killer' = Notified({e})
            /\ UNCHANGED <<waiting_to_be_killed, deferred_requests, localVars>>

\* has_unfinished_requests() or has_finished_requests().
HasRequests ==
    \/ request_states # {}
    \/ dropped_deferred_requests # {}
    \/ \E e \in Executors : free_req_ids[e] # {}

=============================================================================
