----------------------------- MODULE EngineCore -----------------------------
(***************************************************************************)
(* The engine process (vllm/v1/engine/core.py): one asyncio loop that runs *)
(*   - run_busy_loop: input queue, schedule(), executor output queue;      *)
(*   - one execute_model task per batch handed to an executor;             *)
(*   - the kill_executor and launch_executor coroutines of a               *)
(*     reconfiguration (module ExecutorsManager);                          *)
(*   - process_input_sockets_async, which feeds the input queue.           *)
(* Tasks switch only where a coroutine suspends.  The busy loop suspends   *)
(* at its two sleep(0) calls and when it waits on an empty queue; the      *)
(* other tasks take their steps there.                                     *)
(*                                                                         *)
(* The worker side of a step (GPUModelRunner._update_states) is modelled   *)
(* by the set of requests each executor's worker has cached.               *)
(***************************************************************************)
EXTENDS Scheduler

CONSTANTS
    Aborters,    \* the requests whose client may disconnect
    Killable,    \* the executors a reconfiguration may kill
    Faulty       \* the executors whose model execution may raise

ASSUME AbortersAssumption == Aborters \subseteq Requests
ASSUME KillableAssumption == Killable \subseteq Executors /\ Initial # {}
ASSUME FaultyAssumption == Faulty \subseteq Executors

VARIABLES
    client,                 \* request -> what its client has sent so far
    input_queue,            \* EngineCore.input_queue
    scheduler_outputs,      \* executor -> batch of its background task, or None
    ready_tasks,            \* execute_model tasks created but not yet started
    executor_output_queue,  \* executors whose model output is ready
    failed_tasks,           \* execute_model tasks that ended with an exception
    worker_requests         \* executor -> requests cached by its worker

loopVars == <<client, input_queue, scheduler_outputs, ready_tasks,
              executor_output_queue, failed_tasks, worker_requests>>

vars == <<managerVars, schedulerVars, loopVars>>

NoBatch == [none |-> TRUE]
Messages == [type : {"ADD", "ABORT"}, req : Requests]

EngineTypeOK ==
    /\ client \in [Requests -> {"new", "sent", "aborted"}]
    /\ input_queue \in Seq(Messages)
    /\ scheduler_outputs \in [Executors -> Batches \cup {NoBatch}]
    /\ ready_tasks \in SUBSET Executors
    /\ executor_output_queue \in SUBSET Executors
    /\ failed_tasks \in SUBSET Executors
    /\ worker_requests \in [Executors -> SUBSET Requests]

\* Every variable stays in its type.
TypeOK == ManagerTypeOK /\ SchedulerTypeOK /\ EngineTypeOK

Init ==
    /\ ManagerInit
    /\ SchedulerInit
    /\ client = [r \in Requests |-> "new"]
    /\ input_queue = <<>>
    /\ scheduler_outputs = [e \in Executors |-> NoBatch]
    /\ ready_tasks = {}
    /\ executor_output_queue = {}
    /\ failed_tasks = {}
    /\ worker_requests = NoRequests

\* Where the busy loop lets other tasks run.
Suspended == pc \in {"input_wait", "step_sleep", "output_wait", "output_sleep"}

\* sleep(0) puts the busy loop at the end of the ready queue: the tasks that
\* were runnable before run first.
ReadyTasksRan == ready_tasks = {} /\ \A e \in Executors : killer[e] # "notified"

background_tasks == {e \in Executors : scheduler_outputs[e] # NoBatch}

\* The tasks that wait for their model's output.
Executing == background_tasks \ (ready_tasks \cup executor_output_queue \cup failed_tasks)

-----------------------------------------------------------------------------
(* Clients, through process_input_sockets_async.                           *)

SendAdd(r) ==
    /\ Suspended
    /\ client[r] = "new"
    /\ client' = [client EXCEPT ![r] = "sent"]
    /\ input_queue' = Append(input_queue, [type |-> "ADD", req |-> r])
    /\ UNCHANGED <<managerVars, schedulerVars, scheduler_outputs, ready_tasks,
                   executor_output_queue, failed_tasks, worker_requests>>

SendAbort(r) ==
    /\ Suspended
    /\ r \in Aborters
    /\ client[r] = "sent"
    /\ client' = [client EXCEPT ![r] = "aborted"]
    /\ input_queue' = Append(input_queue, [type |-> "ABORT", req |-> r])
    /\ UNCHANGED <<managerVars, schedulerVars, scheduler_outputs, ready_tasks,
                   executor_output_queue, failed_tasks, worker_requests>>

-----------------------------------------------------------------------------
(* run_busy_loop: _process_input_queue.                                    *)

HandleAdd ==
    /\ pc \in {"input", "input_wait"}
    /\ input_queue # <<>> /\ Head(input_queue).type = "ADD"
    /\ AddRequest(Head(input_queue).req)
    /\ Goto("input")
    /\ input_queue' = Tail(input_queue)
    /\ UNCHANGED <<managerVars, placementVars, storeVars, unmasked, localVars>>
    /\ UNCHANGED <<client, scheduler_outputs, ready_tasks, executor_output_queue,
                   failed_tasks, worker_requests>>

HandleAbort ==
    /\ pc \in {"input", "input_wait"}
    /\ input_queue # <<>> /\ Head(input_queue).type = "ABORT"
    /\ FinishRequest(Head(input_queue).req)
    /\ input_queue' = Tail(input_queue)
    /\ UNCHANGED <<managerVars, client, scheduler_outputs, ready_tasks,
                   executor_output_queue, failed_tasks, worker_requests>>

InputDone ==
    /\ pc = "input" /\ input_queue = <<>>
    /\ IF HasRequests THEN Call("update_executors") ELSE Goto("input_wait")
    /\ UNCHANGED <<managerVars, queueVars, placementVars, storeVars, unmasked,
                   localVars, loopVars>>

-----------------------------------------------------------------------------
(* run_busy_loop: _process_engine_step.                                    *)

Schedule ==
    /\ \/ UpdateExecutors
       \/ Stage0
       \/ Stage1NextExecutor
       \/ \E r \in Requests : Stage1Request(r)
       \/ Stage1ExecutorDone
       \/ Stage1Done
       \/ \E r \in Requests : Stage2Request(r)
       \/ Stage2Done
       \/ \E r \in Requests : Stage5Request(r)
    /\ UNCHANGED loopVars

Admit ==
    /\ ExpireDeferred \/ ExpireDone \/ AdmitDeferred \/ AdmitReturn
    /\ UNCHANGED <<managerVars, loopVars>>

\* schedule() returns and an execute_model task is created for every output.
EngineStep ==
    /\ Stage6
    /\ FlushTargets = {}
    /\ scheduler_outputs' = [e \in Executors |->
           IF e \in Scheduled THEN SchedulerOutput(e) ELSE scheduler_outputs[e]]
    /\ ready_tasks' = ready_tasks \cup Scheduled
    /\ UNCHANGED <<client, input_queue, executor_output_queue, failed_tasks,
                   worker_requests>>

\* The same with the drop-flush output.  A task for an executor whose previous
\* task is still under way overwrites the batch that task will be matched with;
\* the model stops there.
FlushStep ==
    /\ \E e \in FlushTargets :
          IF scheduler_outputs[e] # NoBatch
          THEN /\ pc = "stage5" /\ in_output = {}
               /\ Fail("overlapping step")
               /\ UNCHANGED <<managerVars, queueVars, placementVars, storeVars, unmasked,
                              localVars, scheduler_outputs, ready_tasks>>
          ELSE /\ Stage6
               /\ scheduler_outputs' = [scheduler_outputs EXCEPT ![e] = EmptyBatch]
               /\ ready_tasks' = ready_tasks \cup {e}
    /\ UNCHANGED <<client, input_queue, executor_output_queue, failed_tasks,
                   worker_requests>>

\* Faulty variant: no sleep(0) after the tasks are created.
StepDoneAtOnce ==
    /\ pc = "step_sleep"
    /\ Goto("output")
    /\ UNCHANGED <<managerVars, queueVars, placementVars, storeVars, unmasked,
                   localVars, loopVars>>

StepDone ==
    /\ pc = "step_sleep" /\ ReadyTasksRan
    /\ Goto("output")
    /\ UNCHANGED <<managerVars, queueVars, placementVars, storeVars, unmasked,
                   localVars, loopVars>>

-----------------------------------------------------------------------------
(* run_busy_loop: _process_executor_output_queue.                          *)

AwaitOutput ==
    /\ pc = "output"
    /\ IF background_tasks = {} THEN Goto("drain") ELSE Goto("output_wait")
    /\ UNCHANGED <<managerVars, queueVars, placementVars, storeVars, unmasked,
                   localVars, loopVars>>

\* The first output is followed by sleep(0); the rest is drained without one.
ProcessOutput ==
    /\ pc \in {"output_wait", "drain"}
    /\ \E e \in executor_output_queue :
          /\ UpdateFromOutput(e, scheduler_outputs[e],
                              IF pc = "drain" THEN "drain" ELSE "output_sleep")
          /\ executor_output_queue' = executor_output_queue \ {e}
          /\ scheduler_outputs' = [scheduler_outputs EXCEPT ![e] = NoBatch]
    /\ UNCHANGED <<client, input_queue, ready_tasks, failed_tasks, worker_requests>>

OutputSleepDone ==
    /\ pc = "output_sleep" /\ ReadyTasksRan
    /\ Goto("drain")
    /\ UNCHANGED <<managerVars, queueVars, placementVars, storeVars, unmasked,
                   localVars, loopVars>>

DrainDone ==
    /\ pc = "drain" /\ executor_output_queue = {}
    /\ Goto("input")
    /\ UNCHANGED <<managerVars, queueVars, placementVars, storeVars, unmasked,
                   localVars, loopVars>>

-----------------------------------------------------------------------------
(* execute_model.                                                          *)

\* _update_states: before it runs the model, the worker applies the batch to its
\* own request cache: it forgets the freed requests, adds the new ones and looks
\* the cached ones up.
UpdateStates(e, batch) ==
    LET kept == worker_requests[e] \ batch.free
    IN  /\ worker_requests' = [worker_requests EXCEPT ![e] = kept \cup batch.new]
        /\ IF batch.cached \subseteq kept
           THEN UNCHANGED controlVars
           ELSE Fail("worker misses a cached request")

\* The task starts: set_executing, and the batch goes to the worker.
ExecuteModel(e) ==
    /\ Suspended /\ e \in ready_tasks
    /\ UpdateStates(e, scheduler_outputs[e])
    /\ status' = [status EXCEPT ![e] = "EXECUTING"]
    /\ ready_tasks' = ready_tasks \ {e}
    /\ UNCHANGED <<waiting_to_be_killed, killer, queueVars, placementVars, storeVars,
                   unmasked, localVars, client, input_queue, scheduler_outputs,
                   executor_output_queue, failed_tasks>>

\* The model output arrives.  The status word is the registry's: without it the
\* task dies of a KeyError and no output is queued.
ModelDone(e) ==
    /\ Suspended
    /\ status[e] # "ABSENT"
    /\ e \in Executing
    /\ status' = [status EXCEPT ![e] = "OUTPUT_READY"]
    /\ executor_output_queue' = executor_output_queue \cup {e}
    /\ UNCHANGED <<waiting_to_be_killed, killer, schedulerVars, client, input_queue,
                   scheduler_outputs, ready_tasks, failed_tasks, worker_requests>>

\* Executing the model raises.  The handler of execute_model calls make_stats
\* without its argument, so it raises in turn; the task ends, nobody awaits it,
\* no output is queued and the entry in background_tasks stays.
ModelRaises(e) ==
    /\ Suspended
    /\ e \in Faulty \cap Executing
    /\ failed_tasks' = failed_tasks \cup {e}
    /\ UNCHANGED <<managerVars, schedulerVars, client, input_queue, scheduler_outputs,
                   ready_tasks, executor_output_queue, worker_requests>>

-----------------------------------------------------------------------------
(* Reconfiguration, run by run_reconfigure_loop.                           *)

Launch(e) ==
    /\ Suspended
    /\ LaunchExecutor(e)
    /\ UNCHANGED <<schedulerVars, loopVars>>

\* A reconfiguration never stops the last executor: ServiceContinuity of module
\* Reconfiguration.
StartKill(e) ==
    /\ Suspended
    /\ e \in Killable
    /\ Present \ (waiting_to_be_killed \cup {e}) # {}
    /\ KillExecutor(e)
    /\ UNCHANGED <<schedulerVars, loopVars>>

\* A task created for e starts before the result of a shutdown that begins now
\* is seen: both go through the loop's ready queue, in this order.
ContinueKill(e) ==
    /\ Suspended
    /\ KillerWakes(e) \/ (e \notin ready_tasks /\ ShutdownDone(e))
    /\ UNCHANGED <<schedulerVars, loopVars>>

BusyLoop ==
    \/ HandleAdd \/ HandleAbort \/ InputDone
    \/ Admit \/ Schedule \/ EngineStep \/ FlushStep \/ StepDone
    \/ AwaitOutput \/ ProcessOutput \/ OutputSleepDone \/ DrainDone

Next ==
    \/ BusyLoop
    \/ \E r \in Requests : SendAdd(r) \/ SendAbort(r)
    \/ \E e \in Executors :
          \/ ExecuteModel(e) \/ ModelDone(e) \/ ModelRaises(e)
          \/ Launch(e) \/ StartKill(e) \/ ContinueKill(e)

Spec == Init /\ [][Next]_vars

\* The event loop runs every runnable task, a model step takes finite time and
\* a shutdown returns.  Nothing is assumed of clients and reconfigurations.
Fairness ==
    /\ WF_vars(BusyLoop)
    /\ \A e \in Executors :
          WF_vars(ExecuteModel(e)) /\ WF_vars(ModelDone(e)) /\ WF_vars(ContinueKill(e))

FairSpec == Spec /\ Fairness

-----------------------------------------------------------------------------
(* Safety.                                                                 *)

\* schedule() is under way: its decisions are not all carried out yet.  (When a
\* check fails in the middle of it, pc = "dead", they never will be.)
Scheduling == pc \in {"init", "stage1", "stage2", "stage5"}

\* The requests of the batch that executor e has been handed.
InFlight(e) ==
    IF scheduler_outputs[e] = NoBatch THEN {}
    ELSE scheduler_outputs[e].new \cup scheduler_outputs[e].cached

\* The sleep(0) at the end of _process_engine_step is enough: every task created
\* there has started, with the batch it was created for, before the busy loop
\* looks at an output or a request again.
TasksStarted ==
    /\ pc \notin {"step_sleep", "dead"} => ready_tasks = {}
    /\ \A e \in ready_tasks : scheduler_outputs[e] \in Batches

\* The two sides of the bookkeeping agree after every single update made by
\* schedule, update_from_output, finish_requests and update_executors: a request
\* is in req_ids of exactly the executor its RequestState names, waits in
\* pending_request_additions of exactly its pending executor, is never in two
\* places, and only admitted requests on known executors are placed at all.
PlacementConsistent ==
    /\ \A e \in Executors, r \in Requests :
          /\ r \in req_ids[e] <=> executor_id[r] = e
          /\ r \in pending_request_additions[e] <=>
                executor_id[r] = None /\ pending_executor_id[r] = e
    /\ \A r \in Requests :
          /\ executor_id[r] # None => pending_executor_id[r] = executor_id[r]
          /\ pending_executor_id[r] # None => r \in request_states
    /\ \A e \in Executors \ executor_states :
          req_ids[e] = {} /\ pending_request_additions[e] = {}

\* The locals of schedule() are in step with that bookkeeping: the requests still
\* to be looked at in stage 1 are on the current executor, and no executor is at
\* once a candidate to move requests to and one to move requests from.
ScheduleLocalsConsistent ==
    /\ pc # "stage1" => cur = None
    /\ cur # None => cur \in todo /\ cur_reqs \subseteq req_ids[cur]
    /\ todo \cap schedulable = {}
    /\ todo \cup schedulable \subseteq executor_states
    /\ pc \notin {"stage1", "stage2", "stage5", "dead"} => todo = {} /\ schedulable = {}
    /\ pc = "init" => executor_states = {e \in Present : status[e] # "KILLING"}

\* No executor is ever promised more tokens than a batch may hold, counting the
\* requests that will join it when it becomes idle: find_best_executor checks
\* the budget long before the pending additions are committed in stage 0.
WithinTokenBudget ==
    \A e \in Executors : ProjectedBatchSize(e) <= max_num_scheduled_tokens

\* While a batch is under way its requests stay on the executor that runs it,
\* so no request is run by two executors at once and update_from_output finds
\* every live request of the batch still running there.
InFlightStaysPut ==
    \A e \in Executors : InFlight(e) \cap requests \subseteq req_ids[e]

\* kill_executor never shuts an executor down, and update_executors never
\* forgets one, that has been handed a batch whose output is still to come.
NoKillInFlight ==
    \A e \in Executors :
        status[e] \in {"KILLING", "ABSENT"} => scheduler_outputs[e] = NoBatch

\* Between two schedules, in an engine that is alive, the worker's request cache is
\* what the scheduler thinks it is: the requests placed there plus the ones it will
\* be told to forget.  So a cached request is always known to the worker, and none
\* is leaked.
WorkerInSync ==
    ~Scheduling /\ pc # "dead" => \A e \in executor_states \ ready_tasks :
        worker_requests[e] = req_ids[e] \cup free_req_ids[e]

\* KV blocks are owned by the requests placed on an executor and by no others:
\* a migrated, finished or aborted request leaves none behind, and every batch
\* runs with its blocks allocated.
KVBlocksOwned ==
    ~Scheduling /\ pc # "dead" => \A e \in Executors :
        kv_blocks[e] = IF Caching THEN req_ids[e] ELSE {}

\* A request unmasks exactly its output: steps that stop at block boundaries add
\* up to output_length, and check_stop frees the request in the very step that
\* reaches it.
OutputNeverOverrun ==
    \A r \in Requests :
        /\ unmasked[r] <= output_length[r]
        /\ r \in requests => unmasked[r] < output_length[r]

\* None of the assertions and lookups on the way of a step can fail.
NoFailure == failure = "none"

\* The admission limit of max_num_unfinished_requests holds, and a request is
\* deferred, admitted or answered, never two of these.
AdmissionLimited ==
    /\ max_num_unfinished_requests # None =>
          Cardinality(request_states) <= max_num_unfinished_requests
    /\ Range(deferred_requests) \cap request_states = {}
    /\ requests = request_states \cup Range(deferred_requests)
    /\ dropped_deferred_requests \cap requests = {}

\* With caching, a request that is in the middle of a denoising block leaves its
\* executor only when it is freed or when the executor itself is gone.
MidBlockStays ==
    [][\A r \in Requests :
          Caching /\ executor_id[r] # None /\ ~StartOfNewBlock(r)
            /\ executor_id'[r] # executor_id[r]
          => r \notin requests' \/ executor_id[r] \notin executor_states']_vars

\* KV blocks are given out only on an executor without a batch under way.  An
\* abort frees the blocks of a request whose batch still runs; that batch cannot
\* see another request's data in them.
BlocksGivenOutIdle ==
    [][\A e \in Executors :
          kv_blocks'[e] \subseteq kv_blocks[e] \/ scheduler_outputs[e] = NoBatch]_vars

-----------------------------------------------------------------------------
(* Liveness.                                                               *)

\* Every request the engine has taken in is answered: the migrations of stage 1
\* cannot keep it off the executors for ever, and killing an executor only
\* delays it.
RequestsAnswered == \A r \in Requests : r \in requests ~> r \notin requests

\* A kill completes, whatever the executor was doing when it was asked for.  The
\* one thing that can hold it up is a busy loop that waits for input: it does not
\* collect the output of a last batch that only told the worker what to forget.
KillsComplete ==
    \A e \in Executors :
        killer[e] = "waiting" ~>
            killer[e] = "done" \/ (pc = "input_wait" /\ scheduler_outputs[e] # NoBatch)


-----------------------------------------------------------------------------
(* What the repository says of the code and the code does not keep.        *)

\* finish_requests (vllm/v1/core/sched/interface.py) may be called for any request
\* in the scheduler's queue; _free_request asserts that the request is running.
AbortsSucceed == failure # "request not running"

\* background_tasks maps an executor to the one task that runs on it.
OneTaskPerExecutor == failure # "overlapping step"

\* An error of the model ends the engine, and clients are told: run_engine_core
\* calls _send_engine_dead for every exception that reaches it.
ModelErrorReported == failed_tasks # {} ~> pc = "dead"

=============================================================================
