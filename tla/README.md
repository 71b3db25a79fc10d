# TLA+ verification of TeDiServe

TeDiServe serves diffusion language models on a cluster of model executors. One
engine process takes requests from clients, decides on which executor each
request runs its next denoising step, and changes the set of executors while
requests are running. API servers stand between the clients and the engine. This
directory models the control of all of these and states what must hold of it.

Paths below are relative to `src/`.

## The parts of the system

| part | source | state and operations | modelled by |
| --- | --- | --- | --- |
| scheduler | `vllm/v1/core/sched/tediserve_scheduler.py` | admission, deferral and dropping of requests; `schedule` (placement, migration, batches); `update_from_output`; `finish_requests`; `update_executors` | `Scheduler` |
| executors manager | `vllm/v1/executor/executors_manager.py`, `vllm/executor/executor_base.py` | registry, status word, `launch_executor`, `kill_executor` with a condition variable | `ExecutorsManager` |
| engine core | `vllm/v1/engine/core.py` | one asyncio loop: busy loop, `execute_model` tasks, input queue, executor output queue, reconfiguration loop | `EngineCore` |
| request | `vllm/v1/request.py` | denoising progress block by block | `Scheduler` (number of unmasked tokens) |
| worker request cache | `vllm/v1/worker/gpu_model_runner.py` `_update_states` | requests cached by the worker | `EngineCore` (`worker_requests`, `UpdateStates`) |
| KV cache | `vllm/v1/core/kv_cache_manager.py`, `block_pool.py`, ... | blocks of each request | `Scheduler` (owner and capacity only) |
| load control | `tediserve_scheduler.py` 1016-1126, `async_max_confidence_threshold_updater.py` | caps on confidence thresholds, computed by a thread | `LoadControl` |
| step estimates | `tediserve_scheduler.py` 751-908, `step_estimator/` | queue of requests, worker thread or drain, count-down, dirty thresholds | `StepEstimates` |
| resource manager, commands | `vllm/v1/resource_manager/resource_manager.py`, `vllm/v1/engine/reconfig_commands.py` | layouts, staged command graphs and their execution | `Reconfiguration` |
| planner | `reconfig_planner/milp_reconfig_planner.py` | two mixed-integer programs for Gurobi | `Reconfiguration`: the second by its constraints and objective, the first as an arbitrary choice |
| workload monitor | `workload_monitor.py` | sliding-window statistics | not modelled |
| front end | `async_llm.py`, `core_client.py`, `output_processor.py`, `detokenizer.py`, the socket tasks of `core.py` | `generate()`, `output_handler`, collectors, sockets | `FrontEnd` |
| model execution | workers, kernels | numerical code | not modelled |

Everything in the engine process runs on one asyncio loop, so tasks switch only
where a coroutine suspends. The busy loop suspends at two `sleep(0)` calls and
when it waits on an empty queue; `schedule`, `update_from_output` and
`finish_requests` run without suspension. `EngineCore` encodes exactly this: the
other tasks (`ExecuteModel`, `ModelDone`, `Launch`, `StartKill`, `ContinueKill`,
the clients) take steps only in `Suspended` states, and the loop resumes after a
`sleep(0)` only when the tasks that were runnable before have run
(`ReadyTasksRan`; the ready queue of asyncio is first in, first out).

## Modules

**`ExecutorsManager`.** `status[e]` is the executor's status word, `"ABSENT"` when
it is not registered. `kill_executor` is a task that may wait; `killer[e]` records
where it is: waiting on the condition, notified, shutting down, done. A notified
killer re-evaluates `is_idle()` (`KillerWakes`) and waits again when it has been
overtaken.

**`Scheduler`.** The state of `TeDiServeScheduler` and, as variables of their own,
the locals of `schedule()` (`idle_executors`, `todo`, `cur`, `in_output`, ...):
the loops of stages 1, 2 and 5 are one step per request, so that the invariants
are checked after every single bookkeeping update. `pc` is the position of the
busy loop; `Fail(check)` records that an assertion or a lookup of the code failed
and stops the engine. Correspondence:

| code | model |
| --- | --- |
| `_admit_request`, `add_request` | `HasRoom`, `AddRequest` |
| `_drop_deferred_requests`, `_admit_deferred_requests` | `ExpireDeferred`, `ExpireDone`, `AdmitDeferred`, `AdmitReturn` |
| `finish_requests`, `_free_request`, `_free_request_on_executor`, `_free_blocks` | `FinishRequest`, `FreeRequests`, `ReqIdsToForget`, `BlocksWithout` |
| `update_executors` | `UpdateExecutors` |
| `schedule`, stage 0: statuses, committed additions | `Stage0` |
| stage 1: look at the requests of idle executors | `Stage1NextExecutor`, `Stage1Request`, `Stage1ExecutorDone`, `Stage1Done` |
| `find_best_executor` | `Fits`, `LeastLoaded`, `IsBetter`, `BestPlacements` |
| stage 2: place unscheduled requests by arrival | `Stage2Request`, `Stage2Done` |
| stage 5: KV blocks, new and running requests | `Stage5Move`, `Stage5Keep`, `Stage5Request` |
| stage 6, `_update_after_schedule` | `SchedulerOutput`, `Stage6` |
| `_make_drop_flush_scheduler_output` | `FlushTargets` |
| `update_from_output` | `StepResults`, `UpdateFromOutput` |

Abstractions: a batch is the three sets new, cached and free; tokens are counted
per request by `num_tokens` and summed by `TotalTokens`, a constant function
characterised by an assumption (the code's running sum); latency profiles are the
constant `StepLatency`; a step unmasks any positive number of tokens of the
current block; a deadline may have passed at any time. Ties in the code's sorts
are broken either way.

**`EngineCore`** composes both with the loop, the model tasks, the clients and the
workers' request caches. Launches and kills may start at any suspension, but one
executor that is not to be killed always remains: this is `ServiceContinuity` of
`Reconfiguration`. The model of an executor in `Faulty` may raise (`ModelRaises`):
the task ends and its executor stays EXECUTING.

**`RequestService`** is the abstract specification: the life of a request as its
client sees it, without executors, batches or messages. **`EngineService`** is the
refinement mapping from `EngineCore`: the phase of a request is read off the input
queue, `request_states`, `deferred_requests`, the dropped requests and the
request's token count; `waiting` is `deferred_requests`, `progress` is `unmasked`.
An abort of a deferred request maps to `Drop`, the results of one executor to
`Step`; everything else the engine does is a stuttering step.

**`FrontEnd`** puts the API servers in front of `RequestService`, which it uses as
the engine (`Engine == INSTANCE RequestService`). A server has a task that reads
the output socket, the `output_handler` and one `generate()` per request; each is
one action from one `await` to the next. A token stream is its length. The engine
may die at any moment (`EngineDies`), a request may be found invalid before it is
sent (`Call`), and processing an output may raise (`HandlerRaises`). What the
`output_handler` leaves for the waiting calls is an `EngineDeadError`, a
`ValueError` or another error, and `generate()` aborts its request only for the
last of these (`GetRaises`). The ADD and ABORT messages of the servers reach the engine
through `process_input_sockets_async`, which takes one message of every socket.

**`StepEstimates`** models the loop and the estimate worker, which share one lock
(`pending` and the estimates) but read and write tokens and statistics of a
request, and delete requests, outside it: these accesses are steps of their own.
With `sync_step_prediction` the loop itself empties the queue in `schedule`; which
of the two modes runs is chosen in `Init`. The predictor is exact: it returns the
steps left according to the statistics it is given. A wait of the worker ends
with `notify`.

**`Reconfiguration`** extends `ExecutorsManager` with the resource manager. A
configuration maps executor ids to sets of bundles (GPUs). `Plans` is what the
planner may return: the current configuration, or for some number of executors
of each degree a layout that keeps the most executors. `ParallelCommand` and
`SequentialCommand` are the command graphs, as the set of parents of each
command; `Stages` are the connected components that `build_stages` finds.
Commands are tasks: `BeginLaunch`, `EndLaunch`, `BeginKill`, `ContinueKill`,
`EndKill`, each followed by `NotifyChildren`. The engine is reduced to executors
that become busy and idle again.

**`LoadControl`** models three threads that share the scheduler's dictionaries
without a lock. The updater's position is `worker`; `update_request_max_confidence_thresholds`
is one step per dictionary it lists, per element of the suffix sums and two per
request of the greedy loop (finding the state, writing the cap), because the
engine may delete the request between any two of them. The engine's operations
are split where the updater can see the middle: `_admit_request` between `pop` and
insertion, `_free_request` and `_drop_deferred_request` between the two deletions,
and all of them before the mark. `demand[r][c]` stands for the throughput demand
that the estimates imply.

**`EngineCoreProofs`**, **`EngineTracking`**, **`EngineSafety`**, **`ServiceSteps`**,
**`ServiceProofs`**, **`ReconfigurationProofs`**, **`LoadControlProofs`** and
**`StepEstimatesProofs`** hold the theorems, and the modules whose names begin with
`MC` the instances.

Definitions marked "Faulty variant" are deliberately wrong versions of the
definition that follows them. Nothing uses them; substituting one shows that a
property depends on the detail it gets wrong.

## Runs

Deadlock is checked in `layouts`, `unused_bundles` and `load_control`. The other
systems may be quiet: an engine without requests, a front end whose calls have
ended, estimates of requests that are all complete.

| run | instance | shows |
| --- | --- | --- |
| `reconfig_cached` | 3 requests (one of two blocks), 3 executors, two of them initial, one killable, one whose model may raise, caching | types, bookkeeping, token budget, no kill of an executor that runs a batch, worker caches and KV blocks in step, output length, no failed assertion, requests stay put inside a block |
| `reconfig_uncached` | 3 requests of one block, 2 executors, the initial one killable, limit 2, no caching, fair | batches and assertions when every request may migrate at every step; every request is answered, every kill completes |
| `admission` | 3 requests, 2 executors, one killable, limit 1, dropping, one client that may disconnect, fair | the engine implements `RequestService`; the limit; aborts leave nothing behind and give no block away that a batch still uses; dropped requests are reported even if nothing is left to run |
| `layouts` | 4 GPUs on one node, two initial executors of 2, degrees 1, 2, 4, ids up to 8 | GPUs are never shared, no command fails, an executor is always in service, every plan is carried out completely |
| `load_control` | 2 requests, 2 thresholds, 2 supplies, fair | when the updater rests, the caps fit the supply; no mark is lost, every mark leads to an update, a shutdown ends the thread |
| `step_estimates` | 2 requests of four and three steps, refresh after two tokens, both modes, fair | estimates are at most one step too low, no due refresh and no wake-up is lost, thresholds follow the estimates with `sync_step_prediction` |
| `front_end` | 1 server, 2 requests (a stream of deltas, and one with the final output only), limit 1, chunks of one, fair | no token is lost between engine and caller, answers are complete, aborts are exact, every call ends |

Three requests are enough for two to share an executor while a third moves; three
executors for a migration target beside a killed and a newly launched one. The
latencies of the executors cross, so that the best executor depends on the load
and requests really migrate. The token budget is 3 with requests of 1 and 2
tokens: full batches and requests that fit nowhere occur. Blocks have two tokens,
so a step may end inside a block.

Executor ids grow with every launch, so `MaxId` bounds the number of
reconfigurations: two full changes of layout, after which a killed executor's GPUs
have been used again. Four GPUs are the fewest with two stages, and with a stage
of two kills for one launch and of one kill for two launches. With two requests
one is assigned its cap while the other, still to come, needs its share; two
thresholds are the highest and the lowest. With the larger supply one of two
requests gets the highest threshold, with the smaller one not even the lowest
thresholds fit.

With two requests of the front end one waits or is dropped while the other runs,
and a message of two outputs takes two chunks. Four steps with a refresh after two
tokens let a request be queued again while the worker still has an older
batch of it.

`KillsComplete` excepts one situation that the code really has: when the last
requests finish, the loop waits for input while an executor's free-only output
is ready, and the kill of that executor waits for the next client.

`AbortsExact` excepts one situation as well: a `ValueError` raised while an output is
processed reaches every waiting call of that server, and `generate()` takes it for a
bad request and sends no abort. The call is then `abandoned`, and the engine goes on
with a request nobody waits for. The property says that this happens only at a
server whose `output_handler` has ended, which refuses all later calls.

`NoFailure` includes the assertion on KV allocation. It holds with a cache of two
full batches per executor; placement looks only at the token budget, and with a
cache of one full batch a migration may find too few blocks.

`RequestsAnswered` is checked without dropping only. With dropping, three requests
and a kill it does not hold: the drop flush meets a busy executor (the defect of
`flush_overlap`), the engine stops at a failed assertion, and the requests that are
left are never answered. It is checked without model errors as well: the requests
of a batch whose model raised stay where they are (`model_error`).

Fairness (`FairSpec`): weak fairness of the busy loop, of every model task and of
every kill task: the event loop runs each runnable task, a model step takes finite
time, a shutdown returns. Nothing is assumed of clients or of reconfigurations.
In `LoadControl`, weak fairness of the updater thread (its waits have timeouts or
are notified) and of the two marks that end an operation already begun. In
`StepEstimates`, of the worker, of what the loop has begun and of the drain,
which `schedule` repeats while there are requests. In `FrontEnd`, of the
tasks of the servers and of the socket tasks, and of the engine's progress with
each admitted request, which is `RequestsAnswered` of `EngineCore`; a
caller goes on reading its stream, at its own pace, unless it disconnects. Nothing
is assumed of new calls, disconnects or failures.

### Where the code does not do what it says

| run | what happens |
| --- | --- |
| `abort_admitted` | an abort of an admitted request that is not on an executor fails the assertion of `_free_request` and ends the loop; `interface.py` says `finish_requests` handles aborts of any request in the queue |
| `flush_overlap` | the drop-flush output goes to the first executor even if it runs a batch; its task and batch are overwritten in maps that hold one task per executor |
| `model_error` | the model raises; the handler calls `make_stats()` without its argument, so the call marked "exception-free" raises too; nobody awaits the task, no ENGINE_CORE_DEAD is sent, and the clients wait |
| `input_sockets` | two API servers: `gather` waits for a message of every socket, although the comment says "Wait until any socket is ready"; a request of one server waits until the other sends something |
| `unused_bundles` | two initial executors of 1 GPU on 4 GPUs: a plan that uses the rest has a stage with launches only, which is not linked to the dummy command; it and all later stages are not executed, although the plan is recorded as the configuration |

## Proofs

The theorems hold for every set of requests and executors, every token budget,
latency, KV capacity and admission limit, and for launches, kills, model errors,
aborts and drops at any time, unless a hypothesis is named. Assumptions on the
constants are the named `ASSUME`s of the modules: finite sets, `None` is no
executor, positive sizes, additivity of `TotalTokens`, and for `Reconfiguration`
what the code checks at start (`InitialAssumption`: the resource manager raises if
the initial configuration does not fit the GPUs) and how nodes and bundles are
divided (`LayoutAssumption`). There is one lemma per action and part of an
invariant; the inductive invariants were model-checked before they were proved.

### The engine

`EngineCoreProofs`:

- `TypeCorrect`: `Spec => [](TypeOK /\ TasksStarted)`, and `TasksAlwaysStarted`. `TypeOK`
  alone is not inductive: `ExecuteModel` reads the batch of a created task, which
  must exist.
- `PlacementStaysConsistent`: `PlacementConsistent` and `ScheduleLocalsConsistent`.
- `TokenBudgetKept`: `WithinTokenBudget`.

The last two rest on one inductive invariant, `Bookkeeping`, the conjunction of the
three. The locals are needed because stage 1 removes a request from `cur`
relying on `cur_reqs` being on it; the placement is needed for the budget,
because a committed pending addition moves between two sets whose union is what
counts; and the budget of an executor changes only through `Place`, whose guard
`Fits` is the code's test, and through sets that shrink.

`ServiceProofs`, first part, from `Invariant` (types, `Bookkeeping`,
`OutputsOfBatches`, `LifeCycle`):

- `EngineImplementsService`: `Spec => ImplementsService`, the refinement (its safety;
  `RequestService` has no fairness).
- `OutputExact`: `OutputNeverOverrun`. `AdmissionKept`: `AdmissionLimited`.
- `LocalsStayConsistent`: `ScheduleLocalsConsistent`. `MidBlockKept`: the action
  property `MidBlockStays`.

`LifeCycle` says that a request is in one place at a time (in one ADD message,
deferred, admitted, or dropped and not reported), only requests that have been
admitted have progress, and batches contain only such requests. The last is needed
because results are applied to whatever a batch names, long after it was put
together: without it a step could give tokens to a request that is deferred.
`ServiceSteps` shows, action by action, that `LifeCycle` is preserved and which step
of `RequestService` results.

`ServiceProofs`, second part, from `Safety`, which adds to `Invariant`:

- `Tracked` (`EngineTracking`), of an engine that is alive: who kills whom and when
  (`KillsTracked`); a batch is about to run, running, or its executor is gone
  (`TasksTracked`); what the locals of `schedule()` know in each stage
  (`LocalsTracked`); and KV blocks and worker caches follow the executor that really
  holds a request, which between stages 0 and 5 is the *old* one, with the
  requests still to be forgotten on top (`StoresTracked`). Without the old executor
  the stores seem wrong for as long as a migration is decided and not carried out.
- `InFlightStaysPut`.
- `Causes` (`EngineSafety`): for each check that may fail, what it takes.

It gives `BatchesStayPut` (`InFlightStaysPut`), `WorkersInSync` (`WorkerInSync`),
`BlocksOwned` (`KVBlocksOwned`), `BlocksGivenOutBetweenBatches` (the action property
`BlocksGivenOutIdle`) and `NoRequestKilled` without further hypotheses, and:

- `FailuresExplained`: five of the checks never fail, whatever the configuration;
  a request to be freed that is not running takes an abort, an overlapping step
  or a lost executor takes a drop, a lack of blocks a small KV cache.
- `NothingFails`: `NoFailure`, if no request is dropped or aborted and, with caching,
  every KV cache holds two full batches (`AmpleBlocks`). Aborts are excluded because
  of what `abort_admitted` shows, drops because of `flush_overlap`.
- `NoBatchKilled`: `NoKillInFlight`, if no request is dropped.

`NoDrops` is the default: `max_num_unfinished_requests` is `None`, or else nothing
may be dropped or withdrawn while deferred. With drops, the batch that only reports
them may go to an executor under shutdown; `NoRequestKilled` says that a batch with
requests in it does not. `WorkerInSync` and `KVBlocksOwned` are stated of an engine
whose loop has not ended at a failed check: a check that fails in the middle of an
operation leaves it half done. "executor gone" is the `KeyError` of
`update_from_output` for an executor that was removed while it had such a batch.

### Reconfiguration

`ReconfigurationProofs` proves `TypesKept` (`TypeOK`), `BundlesNeverShared`
(`NoSharedBundles`), `LayoutsDeployed` (`LayoutDeployed`), `ServiceContinues`
(`ServiceContinuity`) and `CommandsNeverFail` (`NoFailedCommand`), for any nodes, bundles and degrees,
whatever the planner chooses and in whatever order tasks run. All have the
hypothesis `FullStart`: the initial configuration uses every bundle. Without it a
plan may have a stage that is never executed (`unused_bundles`) and
`LayoutDeployed` is false. The inductive invariant `IInv` relates the registry, the kill
tasks and the recorded configuration (`ExecutorsTracked`); says that a command
which has not begun waits for commands that have not completed, and a launch
for every kill that still holds a bundle of it (`CommandsTracked`); and that in each
phase some executor is left, or a kill that has to wait for a launch
(`PhaseTracked`). That a finished graph has reached every command is an induction
along the graph, in the form of a least counterexample: the graphs have a rank,
taken from the order of the stages (`Acyclic`), so of the commands that are not
completed one would wait for none.

### Load control

`LoadControlProofs`:

- `MarksNeverLost`: `MarkWakesUpdater`. It is inductive by itself: the updater sleeps
  only where it has just seen that nothing is pending, and a mark makes a sleeping
  updater runnable.
- `LoadControlTyped`: `TypeOK`, with `Typed`, which adds what the position of the
  updater says of its lists and indices.
- `CapsFitSupply`: `CapsWithinSupply`. The invariant `CapsTracked` follows the greedy
  pass: as long as nothing has changed under it, the demand at the caps already
  assigned, plus what the rest needs at the lowest threshold, is within the
  supply, or every request met so far is at the lowest. A change in between makes
  this false and leaves a mark, or an operation that is about to mark; so an updater
  at rest has made its last pass undisturbed.

The demand is a sum over a set, so the module begins with the laws of such sums
(`SumEmpty`, `SumRemove`, `SumMonotone`), proved from the definition of
`SumFunctionOnSet`. The induction on the set is made on the well-founded order of
its subsets: a least counterexample is chosen and refuted.

### Step estimates

`StepEstimatesProofs` proves `EstimatesSound` (`EstimateNotLow`), `RefreshesKept`
(`NoRefreshLost`) and `ThresholdsKept` (`ThresholdFollows`) for any number of requests
and steps, any refresh interval and both modes. The inductive invariant `IInv` adds
to these types, what each thread holds at each position (`LoopState`,
`WorkerState`), that statistics in the worker's hands are never ahead of the
request (`Past`), that the mark of the next refresh fits the tokens it was computed
from (`NextRefresh`), and how a threshold relates to the estimate while one of the
two is being replaced (`Thresholds`).

### Only model-checked

Liveness, because the prover does not handle fairness: `RequestsAnswered`,
`KillsComplete` and the other temporal properties of the runs. `FrontEnd`
(`TypeOK`, `NothingLost`, `AnswersComplete`, `AbortsExact`): they count tokens over
sequences of messages, each a sequence of outputs, and have no inductive form here
yet.

## Not modelled

- The rest of the vLLM tree under `src/`: model definitions, kernels, quantisation,
  attention back ends, the entry points and tokenizers, the V0 engine. It is by far
  the largest part of the lines; it is numerical code, I/O and conversion without
  protocol state, or is not used by TeDiServe (encoder cache, speculative decoding,
  structured output, data parallelism).
- The planner's first program, which Gurobi solves, and the workload monitor that
  feeds it: their result is an arbitrary choice in `Plans`, so nothing checked here
  depends on them. Ray placement groups, ports and profiling.
- The learned step predictor and the search for the best threshold below the cap:
  floating-point data. In asynchronous mode a mark that falls between the choice of
  a threshold and `clear_confidence_threshold_dirty` is lost until the next refresh;
  `ThresholdFollows` is therefore stated for `sync_step_prediction`. A threshold that
  was chosen under an older cap stays in use until the request is marked for another
  reason; nothing in the code says otherwise, and no property is about it.
- Which token positions a step unmasks; block identities and reference counts of
  the KV cache.
- In the front end: parallel sampling (`n > 1`), pooling, utility calls, an engine
  process that is killed without a notice, and a request id that is used again
  after an abort.
- `Reconfiguration` and `EngineCore` are not composed: each assumes of the other what
  is checked there (`ServiceContinuity`; executors that become busy and idle).
