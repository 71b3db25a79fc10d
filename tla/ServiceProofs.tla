--------------------------- MODULE ServiceProofs ---------------------------
(* EngineCore implements RequestService and is safe, for every number of   *)
(* requests and executors and every admission limit.                       *)
EXTENDS ServiceSteps, EngineCoreProofs, EngineSafety, FiniteSetTheorems

Invariant == TypeOK /\ TasksStarted /\ Bookkeeping /\ OutputsOfBatches /\ LifeCycle

LEMMA InvariantHolds == Spec => []Invariant
  <1>1. Init => Invariant
    BY InitTypeOK, InitBookkeeping, InitLife, Zenon DEF Init, TasksStarted, Invariant
  <1>2. Invariant /\ [Next]_vars => Invariant'
    BY NextTypeOK, NextTasksStarted, NextBookkeeping, NextOutputsOfBatches, NextLife, Zenon
       DEF Invariant, Bookkeeping
  <1> QED
    BY <1>1, <1>2, PTL DEF Spec

\* The engine implements RequestService for any number of requests and executors,
\* any admission limit, and any interleaving of clients, aborts, model errors,
\* launches and kills: what its clients see is the service, and nothing else.
THEOREM EngineImplementsService == Spec => ImplementsService
  <1>1. Init => Service!Init
    BY InitLife, Zenon
  <1>2. Invariant /\ [Next]_vars => [Service!Next]_(Service!vars)
    BY NextLife, Zenon DEF Invariant, Bookkeeping
  <1> QED
    BY <1>1, <1>2, InvariantHolds, PTL DEF Spec, ImplementsService, Service!Spec

\* No step unmasks more than the output of a request, and a request leaves the
\* scheduler in the step that completes it: steps stop at the end of the current
\* block, and the output is a whole number of blocks.
THEOREM OutputExact == Spec => []OutputNeverOverrun
  <1>1. Invariant => OutputNeverOverrun
    <2> SUFFICES ASSUME Invariant, NEW r \in Requests
                 PROVE  /\ unmasked[r] <= output_length[r]
                        /\ r \in requests => unmasked[r] < output_length[r]
      BY Zenon DEF OutputNeverOverrun
    <2> USE DEF Invariant, LifeCycle
    <2>1. unmasked[r] <= output_length[r]
      BY Zenon DEF ProgressOfStarted
    <2>2. CASE r \in request_states
      BY <2>1, <2>2, Zenon DEF ProgressOfStarted
    <2>3. CASE r \in Range(deferred_requests)
      <3>1. unmasked[r] = 0
        BY <2>3, Zenon DEF ProgressOfStarted, Started
      <3>2. unmasked[r] < output_length[r]
        BY <3>1, BlocksAssumption
      <3> QED
        BY <2>1, <3>2, Zenon
    <2> QED
      BY <2>1, <2>2, <2>3, Zenon DEF InOnePlace
  <1> QED
    BY <1>1, InvariantHolds, PTL

-----------------------------------------------------------------------------
(* The admission limit.                                                    *)

WithinLimit ==
    max_num_unfinished_requests # None =>
        Cardinality(request_states) <= max_num_unfinished_requests

LEMMA LimitShrinks ==
  ASSUME TypeOK, WithinLimit, request_states' \subseteq request_states
  PROVE  WithinLimit'
  <1>1. IsFiniteSet(request_states)
    BY RequestsAssumption, FS_Subset, Zenon DEF TypeOK, SchedulerTypeOK, QueueTypeOK
  <1>2. /\ Cardinality(request_states') <= Cardinality(request_states)
        /\ Cardinality(request_states) \in Nat /\ Cardinality(request_states') \in Nat
    BY <1>1, FS_Subset, FS_CardinalityType, Zenon
  <1>3. CASE max_num_unfinished_requests = None
    BY <1>3, Zenon DEF WithinLimit
  <1>4. CASE max_num_unfinished_requests # None
    <2>1. max_num_unfinished_requests \in Nat
      BY <1>4, RequestsAssumption, Zenon
    <2>2. Cardinality(request_states) <= max_num_unfinished_requests
      BY <1>4, Zenon DEF WithinLimit
    <2>3. Cardinality(request_states') <= max_num_unfinished_requests
      BY <1>2, <2>1, <2>2
    <2> QED
      BY <2>3, Zenon DEF WithinLimit
  <1> QED
    BY <1>3, <1>4, Zenon

LEMMA LimitGrows ==
  ASSUME TypeOK, HasRoom(request_states), NEW r \in Requests,
         request_states' = request_states \cup {r}, r \notin request_states
  PROVE  WithinLimit'
  <1>1. IsFiniteSet(request_states)
    BY RequestsAssumption, FS_Subset, Zenon DEF TypeOK, SchedulerTypeOK, QueueTypeOK
  <1>2. /\ Cardinality(request_states') = Cardinality(request_states) + 1
        /\ Cardinality(request_states) \in Nat
    BY <1>1, FS_AddElement, FS_CardinalityType, Zenon
  <1>3. CASE max_num_unfinished_requests = None
    BY <1>3, Zenon DEF WithinLimit
  <1>4. CASE max_num_unfinished_requests # None
    <2>1. max_num_unfinished_requests \in Nat
      BY <1>4, RequestsAssumption, Zenon
    <2>2. Cardinality(request_states) < max_num_unfinished_requests
      BY <1>4, Zenon DEF HasRoom
    <2>3. Cardinality(request_states') <= max_num_unfinished_requests
      BY <1>2, <2>1, <2>2, SMTT(20)
    <2> QED
      BY <2>3, Zenon DEF WithinLimit
  <1> QED
    BY <1>3, <1>4, Zenon

\* The steps that admit requests find room for them; all others only remove some.
LEMMA NextWithinLimit ==
  ASSUME TypeOK, LifeCycle, WithinLimit, [Next]_vars
  PROVE  WithinLimit'
  <1>1. CASE HandleAdd
    <2>1. PICK r \in Requests : r = Head(input_queue).req
      BY <1>1, FirstMessage, Zenon DEF HandleAdd, TypeOK, EngineTypeOK
    <2>2. \/ UNCHANGED request_states
          \/ HasRoom(request_states) /\ request_states' = request_states \cup {r}
      BY <1>1, <2>1, Zenon DEF HandleAdd, AddRequest
    <2>3. r \notin request_states
      BY <1>1, <2>1, AddsOfTail, Zenon DEF HandleAdd, LifeCycle, InOnePlace, TypeOK, EngineTypeOK
    <2> QED
      BY <2>1, <2>2, <2>3, LimitGrows, LimitShrinks, Zenon
  <1>2. CASE Admit
    <2>1. CASE AdmitDeferred
      <3>1. deferred_requests \in Seq(Requests) /\ deferred_requests # <<>>
        BY <2>1, Zenon DEF AdmitDeferred, TypeOK, SchedulerTypeOK, QueueTypeOK
      <3>2. PICK r \in Requests : r = Head(deferred_requests)
        <4>1. Head(deferred_requests) \in Requests
          BY <3>1
        <4> QED
          BY <4>1, Zenon
      <3>3. r \in Range(deferred_requests)
        BY <3>1, <3>2, TailInjective, Zenon DEF LifeCycle, InOnePlace
      <3>4. r \notin request_states
        BY <3>3, Zenon DEF LifeCycle, InOnePlace
      <3> QED
        BY <2>1, <3>2, <3>4, LimitGrows, Zenon DEF AdmitDeferred
    <2>2. CASE ExpireDeferred \/ ExpireDone \/ AdmitReturn
      <3>1. UNCHANGED request_states
        BY <2>2, Zenon DEF ExpireDeferred, DropDeferred, ExpireDone, AdmitReturn, queueVars
      <3> QED
        BY <3>1, LimitShrinks, Zenon
    <2> QED
      BY <1>2, <2>1, <2>2, Zenon DEF Admit
  <1>3. ASSUME ~HandleAdd, ~Admit
        PROVE  request_states' \subseteq request_states
    <2>1. CASE HandleAbort
      BY <2>1, Zenon DEF HandleAbort, FinishRequest, FreeRequests, DropDeferred, queueVars
    <2>2. CASE ProcessOutput
      <3>1. UNCHANGED request_states \/ \E S : FreeRequests(S)
        BY <2>2, ZenonT(30) DEF ProcessOutput, UpdateFromOutput
      <3> QED
        BY <3>1, Zenon DEF FreeRequests
    <2>3. CASE InputDone \/ Schedule \/ EngineStep \/ FlushStep \/ StepDone \/ AwaitOutput
                 \/ OutputSleepDone \/ DrainDone
      BY <2>3, Zenon DEF InputDone, Schedule, UpdateExecutors, Stage0, Stage1NextExecutor,
         Stage1Request, Stage1ExecutorDone, Stage1Done, Stage2Request, Stage2Done, Stage5Request,
         EngineStep, FlushStep, Stage6, StepDone, AwaitOutput, OutputSleepDone, DrainDone, queueVars
    <2>4. CASE \/ \E r \in Requests : SendAdd(r) \/ SendAbort(r)
               \/ \E e \in Executors : \/ ExecuteModel(e) \/ ModelDone(e) \/ ModelRaises(e)
                                       \/ Launch(e) \/ StartKill(e) \/ ContinueKill(e)
               \/ UNCHANGED vars
      BY <2>4, Zenon DEF SendAdd, SendAbort, ExecuteModel, ModelDone, ModelRaises, Launch,
         StartKill, ContinueKill, vars, schedulerVars, queueVars
    <2> QED
      BY <1>3, <2>1, <2>2, <2>3, <2>4, Zenon DEF Next, BusyLoop
  <1> QED
    BY <1>1, <1>2, <1>3, LimitShrinks, Zenon

LEMMA InitWithinLimit == Init => WithinLimit
  <1> SUFFICES ASSUME Init PROVE WithinLimit
    BY Zenon
  <1>1. Cardinality(request_states) = 0
    BY FS_EmptySet, Zenon DEF Init, SchedulerInit
  <1>2. max_num_unfinished_requests # None => 0 <= max_num_unfinished_requests
    BY RequestsAssumption
  <1> QED
    BY <1>1, <1>2, Zenon DEF WithinLimit

\* add_request and _admit_deferred_requests keep the number of admitted requests
\* within max_num_unfinished_requests, and every request the scheduler knows is
\* either admitted or deferred.
THEOREM AdmissionKept == Spec => []AdmissionLimited
  <1>1. Invariant /\ WithinLimit => AdmissionLimited
    BY Zenon DEF Invariant, LifeCycle, InOnePlace, WithinLimit, AdmissionLimited
  <1>2. Invariant /\ WithinLimit /\ [Next]_vars => WithinLimit'
    BY NextWithinLimit, Zenon DEF Invariant
  <1> QED
    BY <1>1, <1>2, InitWithinLimit, InvariantHolds, PTL DEF Spec

-----------------------------------------------------------------------------
(* Executors, batches, workers and KV blocks.                              *)

\* Invariant says what is where; Tracked, while the engine is alive, what the
\* executors and their workers make of it; Causes, what it takes to end it.
Safety == Invariant /\ (pc # "dead" => Tracked) /\ InFlightStaysPut /\ Causes

LEMMA InitSafety ==
  ASSUME Init, Invariant
  PROVE  Safety
  <1>1. InFlightStaysPut
    BY Zenon DEF Init, InFlightStaysPut, InFlight
  <1> QED
    BY <1>1, InitTracked, InitCauses, Zenon DEF Safety

LEMMA NextSafety ==
  ASSUME Safety, Invariant', [Next]_vars
  PROVE  Safety'
  <1>1. /\ TypeOK /\ TasksStarted /\ PlacementConsistent /\ ScheduleLocalsConsistent
        /\ WithinTokenBudget /\ OutputsOfBatches /\ LifeCycle
        /\ TypeOK' /\ PlacementConsistent' /\ WithinTokenBudget'
    BY Zenon DEF Safety, Invariant, Bookkeeping
  <1>2. (pc # "dead" => Tracked) /\ InFlightStaysPut /\ Causes
    BY Zenon DEF Safety
  <1>3. pc' # "dead" => Tracked'
    <2>1. CASE pc = "dead"
      <3>1. UNCHANGED pc
        BY <1>1, <2>1, DeadStays, Zenon DEF vars, schedulerVars, controlVars
      <3> QED
        BY <2>1, <3>1, Zenon
    <2>2. CASE pc # "dead"
      BY <1>1, <1>2, <2>2, NextTracked, Zenon
    <2> QED
      BY <2>1, <2>2, Zenon
  <1>4. InFlightStaysPut'
    BY <1>1, <1>2, NextStaysPut, Zenon
  <1>5. AbortsOfAborters' /\ DropFree'
    BY <1>1, <1>2, NextAborts, NextDropFree, Zenon DEF Causes
  <1>6. BatchesRun' /\ OldBudget'
    BY <1>1, <1>2, NextBatchesRun, NextOldBudget, Zenon DEF Causes
  <1>7. FailureCauses'
    BY <1>1, <1>2, NextFailureCauses, Zenon
  <1> QED
    BY <1>3, <1>4, <1>5, <1>6, <1>7, Zenon DEF Safety, Causes

LEMMA SafetyHolds == Spec => []Safety
  <1>1. Init /\ Invariant => Safety
    BY InitSafety, Zenon
  <1>2. Safety /\ Invariant' /\ [Next]_vars => Safety'
    BY NextSafety, Zenon
  <1> QED
    BY <1>1, <1>2, InvariantHolds, PTL DEF Spec

\* Between two schedules the stores follow the placements.
LEMMA HeldBetweenSchedules ==
  ASSUME TypeOK, PlacementConsistent, LocalsTracked, ~Scheduling, NEW e \in Executors
  PROVE  Held(e) = req_ids[e] /\ new_reqs[e] = {}
  <1>1. in_output = {} /\ new_reqs = NoRequests
    BY Zenon DEF LocalsTracked, Scheduling
  <1>2. \A r \in Requests : r \in req_ids[e] <=> executor_id[r] = e
    BY Zenon DEF PlacementConsistent
  <1>3. req_ids[e] \in SUBSET Requests
    BY Zenon DEF TypeOK, SchedulerTypeOK, PlacementTypeOK
  <1> QED
    BY <1>1, <1>2, <1>3, Zenon DEF Held, Holder, NoRequests

\* The locals of schedule() stay in step with the bookkeeping through all its
\* stages, for any number of executors and whatever is killed or launched between.
THEOREM LocalsStayConsistent == Spec => []ScheduleLocalsConsistent
  <1>1. Invariant => ScheduleLocalsConsistent
    BY Zenon DEF Invariant, Bookkeeping
  <1> QED
    BY <1>1, InvariantHolds, PTL

\* The requests of a batch stay on the executor that runs it until its output has
\* been processed: no request is run by two executors at once.
THEOREM BatchesStayPut == Spec => []InFlightStaysPut
  <1>1. Safety => InFlightStaysPut
    BY Zenon DEF Safety
  <1> QED
    BY <1>1, SafetyHolds, PTL

\* Between two schedules each worker's request cache is what the scheduler thinks
\* it is, across migrations, aborts, kills and batches that only free requests.
THEOREM WorkersInSync == Spec => []WorkerInSync
  <1>1. Safety => WorkerInSync
    <2> SUFFICES ASSUME Safety, ~Scheduling, pc # "dead", NEW e \in executor_states \ ready_tasks
                 PROVE  worker_requests[e] = req_ids[e] \cup free_req_ids[e]
      BY Zenon DEF WorkerInSync
    <2>1. TypeOK /\ PlacementConsistent /\ Tracked
      BY Zenon DEF Safety, Invariant, Bookkeeping
    <2>2. e \in Executors
      BY <2>1, Zenon DEF TypeOK, SchedulerTypeOK, PlacementTypeOK
    <2>3. worker_requests[e] = (Held(e) \ new_reqs[e]) \cup free_req_ids[e]
      BY <2>1, <2>2, Zenon DEF Tracked, StoresTracked, StoreTracked
    <2>4. Held(e) = req_ids[e] /\ new_reqs[e] = {}
      BY <2>1, <2>2, HeldBetweenSchedules, Zenon DEF Tracked
    <2> QED
      BY <2>3, <2>4, Zenon
  <1> QED
    BY <1>1, SafetyHolds, PTL

\* Between two schedules the KV blocks of an executor belong to the requests placed
\* there and to no others: none is leaked and none is missing.
THEOREM BlocksOwned == Spec => []KVBlocksOwned
  <1>1. Safety => KVBlocksOwned
    <2> SUFFICES ASSUME Safety, ~Scheduling, pc # "dead", NEW e \in Executors
                 PROVE  kv_blocks[e] = IF Caching THEN req_ids[e] ELSE {}
      BY Zenon DEF KVBlocksOwned
    <2>1. TypeOK /\ PlacementConsistent /\ Tracked
      BY Zenon DEF Safety, Invariant, Bookkeeping
    <2>2. kv_blocks[e] = IF Caching THEN Held(e) ELSE {}
      BY <2>1, Zenon DEF Tracked, StoresTracked, StoreTracked
    <2>3. Held(e) = req_ids[e]
      BY <2>1, HeldBetweenSchedules, Zenon DEF Tracked
    <2> QED
      BY <2>2, <2>3, Zenon
  <1> QED
    BY <1>1, SafetyHolds, PTL

\* With caching, stage 1 never moves a request in the middle of a block: such a
\* request leaves its executor only when it is freed or the executor is gone.
THEOREM MidBlockKept == Spec => MidBlockStays
  <1> DEFINE Stays == \A r \in Requests :
               Caching /\ executor_id[r] # None /\ ~StartOfNewBlock(r)
                 /\ executor_id'[r] # executor_id[r]
               => r \notin requests' \/ executor_id[r] \notin executor_states'
  <1>1. Invariant /\ [Next]_vars => [Stays]_vars
    <2> SUFFICES ASSUME TypeOK, Next
                 PROVE  Stays
      BY Zenon DEF Invariant
    <2> QED
      BY MidBlockStep, Zenon
  <1> QED
    BY <1>1, InvariantHolds, PTL DEF Spec, MidBlockStays

\* KV blocks are given out only on executors without a batch under way.
THEOREM BlocksGivenOutBetweenBatches == Spec => BlocksGivenOutIdle
  <1> DEFINE Idle == \A e \in Executors :
               kv_blocks'[e] \subseteq kv_blocks[e] \/ scheduler_outputs[e] = NoBatch
  <1>1. Safety /\ [Next]_vars => [Idle]_vars
    <2> SUFFICES ASSUME Safety, Next
                 PROVE  Idle
      BY Zenon
    <2>1. TypeOK /\ TasksStarted /\ (pc # "dead" => Tracked)
      BY Zenon DEF Safety, Invariant
    <2> QED
      BY <2>1, BlocksStep, Zenon
  <1> QED
    BY <1>1, SafetyHolds, PTL DEF Spec, BlocksGivenOutIdle

-----------------------------------------------------------------------------
(* The checks on the way of a step.                                        *)

\* Whatever the configuration, five of the checks never fail: update_executors
\* always finds an executor, stage 0 commits no running request, stage 5 runs
\* nothing on a busy executor, stage 6 finds restricted executors drained and the
\* workers know their cached requests.  A request to be freed that is not running
\* takes an abort, an overlapping step or a lost executor takes a drop, and a lack
\* of blocks a KV cache smaller than two batches.
THEOREM FailuresExplained == Spec => []FailureCauses
  <1>1. Safety => FailureCauses
    BY Zenon DEF Safety, Causes
  <1> QED
    BY <1>1, SafetyHolds, PTL

\* In an engine that drops no request, aborts none and has blocks for two batches,
\* no assertion and no lookup on the way of a step fails.
THEOREM NothingFails ==
  ASSUME NoDrops, Aborters = {}, ~Caching \/ AmpleBlocks
  PROVE  Spec => []NoFailure
  <1>1. Safety => NoFailure
    <2> SUFFICES ASSUME Safety
                 PROVE  failure = "none"
      BY Zenon DEF NoFailure
    <2>1. failure \in Failures /\ FailureCauses
      BY Zenon DEF Safety, Invariant, Causes, TypeOK, SchedulerTypeOK, ControlTypeOK
    <2>2. failure # "request not running"
      BY <2>1, Zenon DEF FailureCauses
    <2>3. failure \notin {"overlapping step", "executor gone"}
      BY <2>1, Zenon DEF FailureCauses
    <2>4. failure # "no KV blocks"
      BY <2>1, Zenon DEF FailureCauses
    <2> QED
      BY <2>1, <2>2, <2>3, <2>4, Zenon DEF FailureCauses, Failures
  <1> QED
    BY <1>1, SafetyHolds, PTL

\* Unless requests are dropped, no executor is shut down or forgotten that has been
\* handed a batch: kill_executor waits for IDLE, which only the output brings back.
THEOREM NoBatchKilled ==
  ASSUME NoDrops
  PROVE  Spec => []NoKillInFlight
  <1>1. Safety => NoKillInFlight
    <2> SUFFICES ASSUME Safety, NEW e \in Executors, scheduler_outputs[e] # NoBatch
                 PROVE  status[e] \notin {"KILLING", "ABSENT"}
      BY Zenon DEF NoKillInFlight
    <2>1. status[e] \in {"SCHEDULED", "EXECUTING", "OUTPUT_READY"}
      BY Zenon DEF Safety, Causes, BatchesRun
    <2> QED
      BY <2>1
  <1> QED
    BY <1>1, SafetyHolds, PTL

\* With drops, the batch that only reports them may go to an executor that is being
\* shut down; a batch with requests in it never does.
THEOREM NoRequestKilled ==
  Spec => [](pc # "dead" => \A e \in Executors :
                InFlight(e) # {} => status[e] \notin {"KILLING", "ABSENT"})
  <1>1. Safety => (pc # "dead" => \A e \in Executors :
                      InFlight(e) # {} => status[e] \notin {"KILLING", "ABSENT"})
    <2> SUFFICES ASSUME Safety, pc # "dead", NEW e \in Executors, InFlight(e) # {}
                 PROVE  status[e] \notin {"KILLING", "ABSENT"}
      BY Zenon
    <2>1. status[e] \in {"SCHEDULED", "EXECUTING", "OUTPUT_READY"}
      BY Zenon DEF Safety, Tracked, TasksTracked, TaskTracked
    <2> QED
      BY <2>1
  <1> QED
    BY <1>1, SafetyHolds, PTL

=============================================================================
