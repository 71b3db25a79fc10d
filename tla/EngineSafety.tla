---------------------------- MODULE EngineSafety ----------------------------
(* What follows from Tracked in a step of EngineCore: batches stay where    *)
(* they run, KV blocks are handed out between batches, and what it takes    *)
(* for one of the checks on the way of a step to fail.                      *)
EXTENDS EngineTracking

-----------------------------------------------------------------------------
(* Batches and placements.                                                 *)

\* A step that hands out no batch, admits no request and leaves a request of a
\* batch where it is unless it is freed.
LEMMA StaysPutFrame ==
  ASSUME InFlightStaysPut,
         \A e \in Executors :
            /\ InFlight(e)' \subseteq InFlight(e)
            /\ InFlight(e) \cap requests' \cap req_ids[e] \subseteq req_ids'[e],
         requests' \subseteq requests
  PROVE  InFlightStaysPut'
  BY Zenon DEF InFlightStaysPut

LEMMA StaysPutUnchanged ==
  ASSUME InFlightStaysPut, UNCHANGED <<requests, req_ids, scheduler_outputs>>
  PROVE  InFlightStaysPut'
  BY Zenon DEF InFlightStaysPut, InFlight

\* A request that arrives is in no batch: batches are of admitted requests.
LEMMA StaysPutAdd ==
  ASSUME TypeOK, LifeCycle, InFlightStaysPut, HandleAdd
  PROVE  InFlightStaysPut'
  <1> DEFINE r == Head(input_queue).req
  <1>1. /\ requests' = requests \cup {r} /\ UNCHANGED <<req_ids, scheduler_outputs>>
        /\ input_queue # <<>> /\ Head(input_queue).type = "ADD"
    BY Zenon DEF HandleAdd, AddRequest, placementVars
  <1>2. input_queue \in Seq(Messages)
    BY Zenon DEF TypeOK, EngineTypeOK
  <1>3. 1 \in DOMAIN input_queue /\ Head(input_queue) = input_queue[1] /\ input_queue[1] \in Messages
    BY <1>1, <1>2
  <1>4. r \in Adds(input_queue)
    BY <1>1, <1>3, Zenon DEF Adds, Messages
  <1>5. r \notin Started
    BY <1>4, Zenon DEF Started
  <1> HIDE DEF r
  <1>6. \A e \in Executors : r \notin InFlight(e)
    BY <1>5, Zenon DEF LifeCycle, BatchesOfStarted, InFlight
  <1>7. \A e \in Executors : InFlight(e)' = InFlight(e)
    BY <1>1, Zenon DEF InFlight
  <1> QED
    BY <1>1, <1>6, <1>7, Zenon DEF InFlightStaysPut

LEMMA StaysPutFree ==
  ASSUME TypeOK, InFlightStaysPut, NEW done, FreeRequests(done),
         \A e \in Executors : InFlight(e)' \subseteq InFlight(e)
  PROVE  InFlightStaysPut'
  <1>1. requests' = requests \ done /\ \A e \in Executors : req_ids'[e] = req_ids[e] \ done
    BY Zenon DEF FreeRequests
  <1>2. \A e \in Executors : InFlight(e) \cap requests' \cap req_ids[e] \subseteq req_ids'[e]
    BY <1>1, Zenon
  <1> QED
    BY <1>1, <1>2, StaysPutFrame, Zenon

LEMMA StaysPutAbort ==
  ASSUME TypeOK, InFlightStaysPut, HandleAbort
  PROVE  InFlightStaysPut'
  <1>1. UNCHANGED scheduler_outputs /\ FinishRequest(Head(input_queue).req)
    BY Zenon DEF HandleAbort
  <1>2. \A e \in Executors : InFlight(e)' = InFlight(e)
    BY <1>1, Zenon DEF InFlight
  <1>3. \/ \E done : FreeRequests(done)
        \/ requests' \subseteq requests /\ UNCHANGED req_ids
    BY <1>1, Zenon DEF FinishRequest, DropDeferred, queueVars, placementVars
  <1> QED
    BY <1>2, <1>3, StaysPutFree, StaysPutFrame, Zenon

LEMMA StaysPutOutput ==
  ASSUME TypeOK, InFlightStaysPut, ProcessOutput
  PROVE  InFlightStaysPut'
  <1>1. PICK e \in executor_output_queue :
          /\ \E next : UpdateFromOutput(e, scheduler_outputs[e], next)
          /\ scheduler_outputs' = [scheduler_outputs EXCEPT ![e] = NoBatch]
    BY Zenon DEF ProcessOutput
  <1>2. \A f \in Executors : InFlight(f)' \subseteq InFlight(f)
    BY <1>1, Zenon DEF InFlight, TypeOK, EngineTypeOK
  <1>3. (\E done : FreeRequests(done)) \/ UNCHANGED <<requests, req_ids>>
    BY <1>1, Zenon DEF UpdateFromOutput, placementVars
  <1> QED
    BY <1>2, <1>3, StaysPutFree, StaysPutFrame, Zenon

LEMMA PlaceReqIds ==
  ASSUME NEW r, NEW from, NEW to, Place(r, from, to)
  PROVE  \A e \in Executors : e # from => req_ids[e] \subseteq req_ids'[e]
  <1>1. CASE PlaceNow(r, from, to)
    BY <1>1, Zenon DEF PlaceNow
  <1>2. CASE PlaceLater(r, from, to)
    BY <1>2, Zenon DEF PlaceLater
  <1> QED
    BY <1>1, <1>2, Zenon DEF Place

LEMMA StaysPutSchedule ==
  ASSUME TypeOK, TasksStarted, PlacementConsistent, ScheduleLocalsConsistent, Tracked,
         InFlightStaysPut, Schedule
  PROVE  InFlightStaysPut'
  <1>1. UNCHANGED <<requests, scheduler_outputs>>
    BY Zenon DEF Schedule, UpdateExecutors, Stage0, Stage1NextExecutor, Stage1Request,
                 Stage1ExecutorDone, Stage1Done, Stage2Request, Stage2Done, Stage5Request,
                 queueVars, loopVars
  <1>2. \A e \in Executors : InFlight(e)' = InFlight(e)
    BY <1>1, Zenon DEF InFlight
  <1>3. CASE UNCHANGED req_ids
    BY <1>1, <1>3, StaysPutUnchanged, Zenon
  <1>4. CASE UpdateExecutors /\ pc' # "dead"
    <2>1. \A e \in Executors : req_ids'[e] = IF e \in Removed THEN {} ELSE req_ids[e]
      BY <1>4, UpdateExecutorsStep, Zenon
    <2>2. ASSUME NEW e \in Executors, e \in Removed
          PROVE  InFlight(e) = {}
      <3>1. status[e] \in {"ABSENT", "KILLING"}
        BY <2>2, Zenon DEF Removed, Alive, Present
      <3> QED
        BY <3>1, Zenon DEF Tracked, TasksTracked, TaskTracked
    <2>3. \A e \in Executors : InFlight(e) \cap requests' \cap req_ids[e] \subseteq req_ids'[e]
      BY <2>1, <2>2, Zenon
    <2> QED
      BY <1>1, <1>2, <2>3, StaysPutFrame, Zenon
  <1>5. CASE Stage0 /\ pc' # "dead"
    <2>1. \A e \in Executors : req_ids[e] \subseteq req_ids'[e]
      <3>1. \A e \in Executors : \/ req_ids'[e] = req_ids[e]
                                 \/ req_ids'[e] = req_ids[e] \cup pending_request_additions[e]
        BY <1>5, Stage0Step, Zenon
      <3> QED
        BY <3>1, Zenon
    <2>2. \A e \in Executors : InFlight(e) \cap requests' \cap req_ids[e] \subseteq req_ids'[e]
      BY <2>1, Zenon
    <2> QED
      BY <1>1, <1>2, <2>2, StaysPutFrame, Zenon
  <1>6. ASSUME NEW r \in Requests, Stage1Request(r)
        PROVE  InFlightStaysPut'
    <2>1. pc = "stage1" /\ cur # None
      BY <1>6, Zenon DEF Stage1Request
    <2>2. \A e \in Executors : e # cur => req_ids[e] \subseteq req_ids'[e]
      <3>1. CASE UNCHANGED placementVars
        BY <3>1, Zenon DEF placementVars
      <3>2. CASE Unplace(r)
        <4>1. \A e \in Executors : e # cur => req_ids'[e] = req_ids[e]
          BY <3>2, Zenon DEF Unplace, TypeOK, SchedulerTypeOK, PlacementTypeOK
        <4> QED
          BY <4>1, Zenon
      <3>3. CASE \E b : Place(r, cur, b)
        <4>1. PICK b : Place(r, cur, b)
          BY <3>3, Zenon
        <4> QED
          BY <4>1, PlaceReqIds
      <3> QED
        BY <1>6, <3>1, <3>2, <3>3, Zenon DEF Stage1Request
    <2>3. cur \in Executors /\ status[cur] = "CONSIDERED"
      <3>1. cur \in todo
        BY <2>1, Zenon DEF ScheduleLocalsConsistent
      <3>2. cur \in Considered /\ cur \in Executors
        BY <3>1, Zenon DEF Tracked, LocalsTracked, TypeOK, SchedulerTypeOK, LocalTypeOK
      <3> QED
        BY <3>2, Zenon DEF Tracked, LocalsTracked
    <2>4. InFlight(cur) = {}
      <3>1. scheduler_outputs[cur] = NoBatch
        BY <2>1, <2>3, ConsideredFree, Zenon DEF Tracked
      <3> QED
        BY <3>1, Zenon DEF InFlight
    <2>5. \A e \in Executors : InFlight(e) \cap requests' \cap req_ids[e] \subseteq req_ids'[e]
      BY <2>2, <2>4, Zenon
    <2> QED
      BY <1>1, <1>2, <2>5, StaysPutFrame, Zenon
  <1>7. ASSUME NEW r \in Requests, Stage2Request(r)
        PROVE  InFlightStaysPut'
    <2>1. \A e \in Executors : req_ids[e] \subseteq req_ids'[e]
      <3>1. \E b : Place(r, None, b)
        BY <1>7, Zenon DEF Stage2Request
      <3> QED
        BY <3>1, PlaceReqIds, RequestsAssumption, Zenon
    <2>2. \A e \in Executors : InFlight(e) \cap requests' \cap req_ids[e] \subseteq req_ids'[e]
      BY <2>1, Zenon
    <2> QED
      BY <1>1, <1>2, <2>2, StaysPutFrame, Zenon
  <1>8. CASE (UpdateExecutors \/ Stage0) /\ pc' = "dead"
    <2>1. UNCHANGED req_ids
      BY <1>8, Zenon DEF UpdateExecutors, Stage0, Goto, placementVars
    <2> QED
      BY <1>3, <2>1, Zenon
  <1>9. CASE \/ Stage1NextExecutor \/ Stage1ExecutorDone \/ Stage1Done \/ Stage2Done
             \/ \E r \in Requests : Stage5Request(r)
    <2>1. UNCHANGED req_ids
      BY <1>9, Zenon DEF Stage1NextExecutor, Stage1ExecutorDone, Stage1Done, Stage2Done,
                         Stage5Request, placementVars
    <2> QED
      BY <1>3, <2>1, Zenon
  <1> QED
    BY <1>4, <1>5, <1>6, <1>7, <1>8, <1>9, Zenon DEF Schedule

LEMMA StaysPutStage6 ==
  ASSUME TypeOK, PlacementConsistent, Tracked, InFlightStaysPut, EngineStep \/ FlushStep
  PROVE  InFlightStaysPut'
  <1>1. UNCHANGED <<requests, req_ids>>
    BY Zenon DEF EngineStep, FlushStep, Stage6, queueVars, placementVars
  <1>2. \A e \in Executors : \/ scheduler_outputs'[e] = scheduler_outputs[e]
                             \/ scheduler_outputs'[e] = SchedulerOutput(e)
                             \/ scheduler_outputs'[e] = EmptyBatch
    BY Zenon DEF EngineStep, FlushStep, TypeOK, EngineTypeOK
  <1>3. ASSUME NEW e \in Executors
        PROVE  InFlight(e)' \cap requests' \subseteq req_ids'[e]
    <2>1. CASE scheduler_outputs'[e] = scheduler_outputs[e]
      BY <1>1, <2>1, Zenon DEF InFlightStaysPut, InFlight
    <2>2. CASE scheduler_outputs'[e] = EmptyBatch
      <3>1. InFlight(e)' = {}
        BY <2>2 DEF InFlight, EmptyBatch
      <3> QED
        BY <3>1, Zenon
    <2>3. CASE scheduler_outputs'[e] = SchedulerOutput(e)
      <3>1. InFlight(e)' \subseteq new_reqs[e] \cup running_reqs[e]
        BY <2>3 DEF InFlight, SchedulerOutput
      <3>2. \A r \in new_reqs[e] \cup running_reqs[e] : executor_id[r] = e /\ r \in Requests
        BY Zenon DEF Tracked, LocalsTracked, TypeOK, SchedulerTypeOK, LocalTypeOK
      <3>3. \A r \in new_reqs[e] \cup running_reqs[e] : r \in req_ids[e]
        BY <3>2, Zenon DEF PlacementConsistent
      <3> QED
        BY <1>1, <3>1, <3>3, Zenon
    <2> QED
      BY <1>2, <2>1, <2>2, <2>3, Zenon
  <1> QED
    BY <1>3, Zenon DEF InFlightStaysPut

\* InFlightStaysPut is kept by every step, the last one of a failing engine included.
LEMMA NextStaysPut ==
  ASSUME TypeOK, TasksStarted, PlacementConsistent, ScheduleLocalsConsistent, LifeCycle,
         pc # "dead" => Tracked, InFlightStaysPut, [Next]_vars
  PROVE  InFlightStaysPut'
  <1>1. CASE UNCHANGED vars
    BY <1>1, StaysPutUnchanged, Zenon
       DEF vars, schedulerVars, queueVars, placementVars, loopVars
  <1>2. CASE Next
    <2>1. Tracked
      BY <1>2, DeadStays, Zenon
    <2>2. CASE HandleAdd
      BY <2>2, StaysPutAdd, Zenon
    <2>3. CASE HandleAbort
      BY <2>3, StaysPutAbort, Zenon
    <2>4. CASE ProcessOutput
      BY <2>4, StaysPutOutput, Zenon
    <2>5. CASE Schedule
      BY <2>1, <2>5, StaysPutSchedule, Zenon
    <2>6. CASE EngineStep \/ FlushStep
      BY <2>1, <2>6, StaysPutStage6, Zenon
    <2>7. CASE Admit
      <3>1. /\ UNCHANGED <<req_ids, scheduler_outputs>> /\ requests' \subseteq requests
        BY <2>7, Zenon DEF Admit, ExpireDeferred, ExpireDone, AdmitDeferred, AdmitReturn, DropDeferred,
                           queueVars, placementVars, loopVars
      <3>2. \A e \in Executors : InFlight(e)' = InFlight(e)
        BY <3>1, Zenon DEF InFlight
      <3> QED
        BY <3>1, <3>2, StaysPutFrame, Zenon
    <2>8. CASE \/ InputDone \/ StepDone \/ AwaitOutput \/ OutputSleepDone \/ DrainDone
               \/ \E r \in Requests : SendAdd(r) \/ SendAbort(r)
               \/ \E e \in Executors :
                     \/ ExecuteModel(e) \/ ModelDone(e) \/ ModelRaises(e)
                     \/ Launch(e) \/ StartKill(e) \/ ContinueKill(e)
      <3>1. UNCHANGED <<requests, req_ids, scheduler_outputs>>
        BY <2>8, Zenon DEF InputDone, StepDone, AwaitOutput, OutputSleepDone, DrainDone, SendAdd,
             SendAbort, ExecuteModel, ModelDone, ModelRaises, Launch, StartKill, ContinueKill,
             schedulerVars, queueVars, placementVars, loopVars
      <3> QED
        BY <3>1, StaysPutUnchanged, Zenon
    <2> QED
      BY <1>2, <2>2, <2>3, <2>4, <2>5, <2>6, <2>7, <2>8, Zenon DEF Next, BusyLoop
  <1> QED
    BY <1>1, <1>2, Zenon

-----------------------------------------------------------------------------
(* Action properties.                                                      *)

\* MidBlockStays, for one step.
LEMMA MidBlockStep ==
  ASSUME TypeOK, Next, NEW r \in Requests, Caching, executor_id[r] # None, ~StartOfNewBlock(r),
         executor_id'[r] # executor_id[r]
  PROVE  r \notin requests' \/ executor_id[r] \notin executor_states'
  <1>1. ASSUME NEW done, FreeRequests(done)
        PROVE  r \notin requests'
    BY <1>1, Zenon DEF FreeRequests
  <1>2. CASE HandleAbort
    BY <1>1, <1>2, Zenon DEF HandleAbort, FinishRequest, placementVars
  <1>3. CASE ProcessOutput
    BY <1>1, <1>3, Zenon DEF ProcessOutput, UpdateFromOutput, placementVars
  <1>4. CASE UpdateExecutors
    <2>1. pc' # "dead"
      BY <1>4, Zenon DEF UpdateExecutors, Goto, placementVars
    <2>2. executor_id[r] \in Removed /\ executor_states' = Alive
      BY <1>4, <2>1, UpdateExecutorsStep, Zenon
    <2> QED
      BY <2>2, Zenon DEF Removed
  <1>5. CASE Stage0
    <2>1. pc' # "dead"
      BY <1>5, Zenon DEF Stage0, Goto
    <2> QED
      BY <1>5, <2>1, Stage0Step, Zenon
  <1>6. ASSUME NEW q \in Requests, Stage1Request(q)
        PROVE  FALSE
    <2>1. q = r
      BY <1>6, Stage1RequestStep, Zenon
    <2>2. ~CanMigrate(q)
      BY <2>1, Zenon DEF CanMigrate
    <2>3. UNCHANGED placementVars
      BY <1>6, <2>2, Zenon DEF Stage1Request
    <2> QED
      BY <2>3, Zenon DEF placementVars
  <1>7. ASSUME NEW q \in Requests, Stage2Request(q)
        PROVE  FALSE
    BY <1>7, Stage2RequestStep, Zenon
  <1>8. CASE HandleAdd \/ InputDone \/ Admit \/ EngineStep \/ FlushStep \/ StepDone \/ AwaitOutput
             \/ OutputSleepDone \/ DrainDone
    <2>1. UNCHANGED executor_id
      BY <1>8, Zenon DEF HandleAdd, InputDone, Admit, ExpireDeferred, ExpireDone, AdmitDeferred,
           AdmitReturn, EngineStep, FlushStep, Stage6, StepDone, AwaitOutput, OutputSleepDone,
           DrainDone, placementVars
    <2> QED
      BY <2>1, Zenon
  <1>9. CASE \/ Stage1NextExecutor \/ Stage1ExecutorDone \/ Stage1Done \/ Stage2Done
             \/ \E q \in Requests : Stage5Request(q)
    <2>1. UNCHANGED executor_id
      BY <1>9, Zenon DEF Stage1NextExecutor, Stage1ExecutorDone, Stage1Done, Stage2Done,
                         Stage5Request, placementVars
    <2> QED
      BY <2>1, Zenon
  <1>10. CASE \/ \E q \in Requests : SendAdd(q) \/ SendAbort(q)
              \/ \E e \in Executors :
                     \/ ExecuteModel(e) \/ ModelDone(e) \/ ModelRaises(e)
                     \/ Launch(e) \/ StartKill(e) \/ ContinueKill(e)
    <2>1. UNCHANGED executor_id
      BY <1>10, Zenon DEF SendAdd, SendAbort, ExecuteModel, ModelDone, ModelRaises, Launch, StartKill,
           ContinueKill, schedulerVars, placementVars
    <2> QED
      BY <2>1, Zenon
  <1> QED
    BY <1>2, <1>3, <1>4, <1>5, <1>6, <1>7, <1>8, <1>9, <1>10, Zenon DEF Next, BusyLoop, Schedule

\* BlocksGivenOutIdle, for one step: only stage 5 gives out blocks, and only on the
\* executors that schedule() works on.
LEMMA BlocksStep ==
  ASSUME TypeOK, TasksStarted, pc # "dead" => Tracked, Next, NEW e \in Executors
  PROVE  kv_blocks'[e] \subseteq kv_blocks[e] \/ scheduler_outputs[e] = NoBatch
  <1>1. ASSUME NEW done, FreeRequests(done)
        PROVE  kv_blocks'[e] \subseteq kv_blocks[e]
    <2>1. kv_blocks'[e] = kv_blocks[e] \ {r \in done : executor_id[r] = e}
      BY <1>1, Zenon DEF FreeRequests, BlocksWithout
    <2> QED
      BY <2>1, Zenon
  <1>2. ASSUME UNCHANGED kv_blocks
        PROVE  kv_blocks'[e] \subseteq kv_blocks[e]
    BY <1>2, Zenon
  <1>3. CASE HandleAbort
    BY <1>1, <1>2, <1>3, Zenon DEF HandleAbort, FinishRequest, storeVars
  <1>4. CASE ProcessOutput
    BY <1>1, <1>2, <1>4, Zenon DEF ProcessOutput, UpdateFromOutput, storeVars
  <1>5. CASE UpdateExecutors
    <2>1. CASE pc' = "dead"
      <3>1. UNCHANGED kv_blocks
        BY <1>5, <2>1, Zenon DEF UpdateExecutors, Goto, storeVars
      <3> QED
        BY <1>2, <3>1, Zenon
    <2>2. CASE pc' # "dead"
      <3>1. kv_blocks'[e] = {} \/ kv_blocks'[e] = kv_blocks[e]
        BY <1>5, <2>2, UpdateExecutorsStep, Zenon
      <3> QED
        BY <3>1, Zenon
    <2> QED
      BY <2>1, <2>2, Zenon
  <1>6. ASSUME NEW r \in Requests, Stage5Request(r)
        PROVE  kv_blocks'[e] \subseteq kv_blocks[e] \/ scheduler_outputs[e] = NoBatch
    <2>1. CASE pc' = "dead"
      <3>1. UNCHANGED kv_blocks
        <4>1. (pc = "stage5" /\ UNCHANGED kv_blocks) \/ UNCHANGED controlVars
          BY <1>6, Zenon DEF Stage5Request, Stage5Move, Stage5Keep, storeVars
        <4>2. pc = "stage5"
          BY <1>6, Zenon DEF Stage5Request
        <4> QED
          BY <2>1, <4>1, <4>2, Zenon DEF controlVars
      <3> QED
        BY <1>2, <3>1, Zenon
    <2>2. CASE pc' # "dead" /\ e = executor_id[r]
      <3>1. pc = "stage5" /\ r \in in_output /\ Tracked
        BY <1>6, DeadStays, Zenon DEF Stage5Request
      <3>2. e \in Considered
        BY <2>2, <3>1, RequestsAssumption, Zenon DEF Tracked, LocalsTracked
      <3>3. status[e] = "CONSIDERED"
        BY <3>1, <3>2, Zenon DEF Tracked, LocalsTracked
      <3> QED
        BY <3>1, <3>3, ConsideredFree, Zenon DEF Tracked
    <2>3. CASE pc' # "dead" /\ e # executor_id[r]
      <3>1. \/ kv_blocks'[e] = (IF e = old_executor[r] THEN kv_blocks[e] \ {r} ELSE kv_blocks[e]) \cup {}
            \/ UNCHANGED storeVars
        BY <1>6, <2>3, Stage5RequestStep, Zenon
      <3> QED
        BY <3>1, Zenon DEF storeVars
    <2> QED
      BY <2>1, <2>2, <2>3, Zenon
  <1>7. CASE HandleAdd \/ InputDone \/ Admit \/ EngineStep \/ FlushStep \/ StepDone \/ AwaitOutput
             \/ OutputSleepDone \/ DrainDone
    <2>1. UNCHANGED kv_blocks
      BY <1>7, Zenon DEF HandleAdd, InputDone, Admit, ExpireDeferred, ExpireDone, AdmitDeferred,
           AdmitReturn, EngineStep, FlushStep, Stage6, StepDone, AwaitOutput, OutputSleepDone,
           DrainDone, storeVars
    <2> QED
      BY <1>2, <2>1, Zenon
  <1>8. CASE \/ Stage0 \/ Stage1NextExecutor \/ Stage1ExecutorDone \/ Stage1Done \/ Stage2Done
             \/ \E q \in Requests : Stage1Request(q) \/ Stage2Request(q)
    <2>1. UNCHANGED kv_blocks
      BY <1>8, Zenon DEF Stage0, Stage1NextExecutor, Stage1ExecutorDone, Stage1Done, Stage2Done,
                         Stage1Request, Stage2Request, storeVars
    <2> QED
      BY <1>2, <2>1, Zenon
  <1>9. CASE \/ \E q \in Requests : SendAdd(q) \/ SendAbort(q)
             \/ \E f \in Executors :
                     \/ ExecuteModel(f) \/ ModelDone(f) \/ ModelRaises(f)
                     \/ Launch(f) \/ StartKill(f) \/ ContinueKill(f)
    <2>1. UNCHANGED kv_blocks
      BY <1>9, Zenon DEF SendAdd, SendAbort, ExecuteModel, ModelDone, ModelRaises, Launch, StartKill,
           ContinueKill, schedulerVars, storeVars
    <2> QED
      BY <1>2, <2>1, Zenon
  <1> QED
    BY <1>3, <1>4, <1>5, <1>6, <1>7, <1>8, <1>9, Zenon DEF Next, BusyLoop, Schedule

-----------------------------------------------------------------------------
(* Which checks can fail.                                                  *)

\* Nothing is ever dropped: there is no admission limit (the default), or dropping
\* is off and nobody aborts.
NoDrops == max_num_unfinished_requests = None \/ (~enable_dropping /\ Aborters = {})

\* Every KV cache holds two full batches: while schedule() moves requests, the ones
\* that leave and the ones that come may be there together.
AmpleBlocks == \A e \in Executors : kv_capacity[e] >= 2 * max_num_scheduled_tokens

\* The checks that never fail, and what it takes for one of the others to fail.
FailureCauses ==
    /\ failure \notin {"no executor left", "pending request is running",
                       "running request on a busy executor", "not drained",
                       "worker misses a cached request"}
    /\ failure = "request not running" => Aborters # {}
    /\ failure \in {"overlapping step", "executor gone"} => ~NoDrops
    /\ failure = "no KV blocks" => Caching /\ ~AmpleBlocks

\* What FailureCauses needs to know of the queues, the batches and the budget.
AbortsOfAborters ==
    \A i \in DOMAIN input_queue : input_queue[i].type = "ABORT" => input_queue[i].req \in Aborters

DropFree ==
    NoDrops => /\ dropped_deferred_requests = {}
               /\ max_num_unfinished_requests = None => deferred_requests = <<>>

BatchesRun ==
    NoDrops => \A e \in Executors : scheduler_outputs[e] # NoBatch =>
        /\ status[e] \in {"SCHEDULED", "EXECUTING", "OUTPUT_READY"}
        /\ killer[e] \notin {"shutdown", "done"}

OldBudget ==
    Scheduling => \A e \in Executors :
        TotalTokens[{r \in Requests : old_executor[r] = e}] <= max_num_scheduled_tokens

Causes == AbortsOfAborters /\ DropFree /\ BatchesRun /\ OldBudget /\ FailureCauses

LEMMA ExecutorLeft ==
  ASSUME KillsTracked
  PROVE  Alive # {}
  BY Zenon DEF KillsTracked, Alive, Present

LEMMA TasksFindWorker ==
  ASSUME Tracked, NEW e \in ready_tasks, e \in Executors
  PROVE  scheduler_outputs[e].cached \subseteq worker_requests[e] \ scheduler_outputs[e].free
  BY Zenon DEF Tracked, StoresTracked, StoreTracked

LEMMA PendingNotRunning ==
  ASSUME TypeOK, PlacementConsistent, NEW S \in SUBSET Executors
  PROVE  ~ \E r \in UNION {pending_request_additions[e] : e \in S} : IsRunning(r)
  <1>1. \A e \in S : \A r \in pending_request_additions[e] : r \in Requests /\ executor_id[r] = None
    BY Zenon DEF PlacementConsistent, TypeOK, SchedulerTypeOK, PlacementTypeOK
  <1>2. \A r \in UNION {pending_request_additions[e] : e \in S} :
          \E e \in S : r \in pending_request_additions[e]
    OBVIOUS
  <1> QED
    BY <1>1, <1>2, Zenon DEF IsRunning

\* An executor that is drained for its killer is scheduled as long as a request is
\* left on it.
LEMMA DrainedWhenResting ==
  ASSUME TypeOK, PlacementConsistent, Tracked, pc = "stage5", in_output = {},
         NEW e \in Considered \ Scheduled
  PROVE  req_ids[e] \cup pending_request_additions[e] = {}
  <1>1. e \in Executors /\ pending_request_additions[e] = {}
    BY Zenon DEF Tracked, LocalsTracked, Considered, TypeOK, SchedulerTypeOK, LocalTypeOK
  <1>2. new_reqs[e] \cup running_reqs[e] = {}
    BY Zenon DEF Scheduled, Considered
  <1>3. ASSUME NEW r \in req_ids[e]
        PROVE  FALSE
    <2>1. r \in Requests /\ executor_id[r] = e
      BY <1>1, Zenon DEF PlacementConsistent, TypeOK, SchedulerTypeOK, PlacementTypeOK
    <2>2. r \in new_reqs[e] \cup running_reqs[e]
      BY <2>1, Zenon DEF Tracked, LocalsTracked
    <2> QED
      BY <1>2, <2>2, Zenon
  <1> QED
    BY <1>1, <1>3, Zenon

LEMMA TokensOfTwo ==
  ASSUME NEW A \in SUBSET Requests, NEW B \in SUBSET Requests, NEW S \in SUBSET Requests,
         S \subseteq A \cup B, NEW m \in Nat, TotalTokens[A] <= m, TotalTokens[B] <= m
  PROVE  TotalTokens[S] <= 2 * m
  <1> DEFINE Plus(X, Y) == X \cap Y = {} => TotalTokens[X \cup Y] = TotalTokens[X] + TotalTokens[Y]
  <1>1. /\ \A X \in SUBSET Requests : TotalTokens[X] \in Nat
        /\ \A X, Y \in SUBSET Requests : Plus(X, Y)
    BY TotalTokensAssumption, Zenon
  <1>2. /\ (S \cap A) \in SUBSET Requests /\ (S \ A) \in SUBSET Requests
        /\ (A \ S) \in SUBSET Requests /\ (B \ (S \ A)) \in SUBSET Requests
        /\ (S \cap A) \cup (S \ A) = S /\ (S \cap A) \cap (S \ A) = {}
        /\ (S \cap A) \cup (A \ S) = A /\ (S \cap A) \cap (A \ S) = {}
        /\ (S \ A) \cup (B \ (S \ A)) = B /\ (S \ A) \cap (B \ (S \ A)) = {}
    OBVIOUS
  <1>3. /\ TotalTokens[S] = TotalTokens[S \cap A] + TotalTokens[S \ A]
        /\ TotalTokens[A] = TotalTokens[S \cap A] + TotalTokens[A \ S]
        /\ TotalTokens[B] = TotalTokens[S \ A] + TotalTokens[B \ (S \ A)]
    <2>1. Plus(S \cap A, S \ A) /\ Plus(S \cap A, A \ S) /\ Plus(S \ A, B \ (S \ A))
      BY <1>1, <1>2, Zenon
    <2> QED
      BY <1>2, <2>1, Zenon
  <1>4. /\ TotalTokens[S \cap A] \in Nat /\ TotalTokens[S \ A] \in Nat /\ TotalTokens[A \ S] \in Nat
        /\ TotalTokens[B \ (S \ A)] \in Nat
    BY <1>1, <1>2, Zenon
  <1>5. PICK a \in Nat, b \in Nat, c \in Nat, d \in Nat :
          /\ TotalTokens[S] = a + b /\ TotalTokens[A] = a + c /\ TotalTokens[B] = b + d
    BY <1>3, <1>4, Zenon
  <1> QED
    BY <1>5

\* Stage 5 finds the blocks it needs.
LEMMA BlocksSuffice ==
  ASSUME TypeOK, PlacementConsistent, WithinTokenBudget, OldBudget, Tracked, pc = "stage5",
         Caching, AmpleBlocks, NEW r \in in_output, executor_id[r] # None
  PROVE  TotalTokens[BlocksFreedOn(r, old_executor[r])[executor_id[r]] \cup {r}]
             <= kv_capacity[executor_id[r]]
  <1> DEFINE new == executor_id[r]
             A == {q \in Requests : old_executor[q] = new}
             B == req_ids[new] \cup pending_request_additions[new]
             S == BlocksFreedOn(r, old_executor[r])[new] \cup {r}
  <1>1. r \in Requests /\ new \in Executors
    BY Zenon DEF TypeOK, SchedulerTypeOK, PlacementTypeOK, LocalTypeOK, ExecutorOrNone
  <1>2. S \subseteq kv_blocks[new] \cup {r}
    BY <1>1, Zenon DEF BlocksFreedOn
  <1>3. kv_blocks[new] = {q \in Requests : Holder(q) = new}
    BY <1>1, Zenon DEF Tracked, StoresTracked, StoreTracked, Held
  <1>4. \A q \in Requests : Holder(q) = new => q \in A \cup B
    BY <1>1, Zenon DEF Holder, PlacementConsistent
  <1>5. r \in B
    BY <1>1, Zenon DEF PlacementConsistent
  <1>6. S \subseteq A \cup B
    BY <1>2, <1>3, <1>4, <1>5, Zenon
  <1>7. A \in SUBSET Requests /\ B \in SUBSET Requests
    BY <1>1, Zenon DEF TypeOK, SchedulerTypeOK, PlacementTypeOK
  <1>8. TotalTokens[A] <= max_num_scheduled_tokens
    BY <1>1, Zenon DEF OldBudget, Scheduling
  <1>9. TotalTokens[B] <= max_num_scheduled_tokens
    BY <1>1, Zenon DEF WithinTokenBudget, ProjectedBatchSize
  <1> HIDE DEF A, B, S
  <1>10. S \in SUBSET Requests /\ max_num_scheduled_tokens \in Nat
    BY <1>6, <1>7, RequestsAssumption, Zenon
  <1>11. TotalTokens[S] <= 2 * max_num_scheduled_tokens
    BY <1>6, <1>7, <1>8, <1>9, <1>10, TokensOfTwo, Zenon
  <1>12. TotalTokens[S] \in Nat /\ kv_capacity[new] \in Nat
         /\ kv_capacity[new] >= 2 * max_num_scheduled_tokens
    BY <1>1, <1>10, TotalTokensAssumption, RequestsAssumption, Zenon DEF AmpleBlocks
  <1>13. TotalTokens[S] <= kv_capacity[new]
    BY <1>10, <1>11, <1>12
  <1> QED
    BY <1>13, Zenon DEF S

LEMMA NextAborts ==
  ASSUME TypeOK, AbortsOfAborters, [Next]_vars
  PROVE  AbortsOfAborters'
  <1>1. CASE UNCHANGED input_queue
    BY <1>1, Zenon DEF AbortsOfAborters
  <1>2. input_queue \in Seq(Messages)
    BY Zenon DEF TypeOK, EngineTypeOK
  <1>3. CASE HandleAdd \/ HandleAbort
    <2>1. input_queue # <<>> /\ input_queue' = Tail(input_queue)
      BY <1>3, Zenon DEF HandleAdd, HandleAbort
    <2>2. \A i \in DOMAIN input_queue' : i + 1 \in DOMAIN input_queue /\ input_queue'[i] = input_queue[i + 1]
      BY <1>2, <2>1
    <2> QED
      BY <2>2, Zenon DEF AbortsOfAborters
  <1>4. ASSUME NEW r \in Requests, SendAdd(r) \/ SendAbort(r)
        PROVE  AbortsOfAborters'
    <2>1. \/ input_queue' = Append(input_queue, [type |-> "ADD", req |-> r])
          \/ input_queue' = Append(input_queue, [type |-> "ABORT", req |-> r]) /\ r \in Aborters
      BY <1>4, Zenon DEF SendAdd, SendAbort
    <2>2. ASSUME NEW i \in DOMAIN input_queue', input_queue'[i].type = "ABORT"
          PROVE  input_queue'[i].req \in Aborters
      BY <1>2, <2>1, <2>2 DEF AbortsOfAborters
    <2> QED
      BY <2>2, Zenon DEF AbortsOfAborters
  <1>5. CASE \/ InputDone \/ Admit \/ Schedule \/ EngineStep \/ FlushStep \/ StepDone \/ AwaitOutput
             \/ ProcessOutput \/ OutputSleepDone \/ DrainDone
             \/ \E e \in Executors :
                   \/ ExecuteModel(e) \/ ModelDone(e) \/ ModelRaises(e)
                   \/ Launch(e) \/ StartKill(e) \/ ContinueKill(e)
    <2>1. UNCHANGED input_queue
      BY <1>5, Zenon DEF InputDone, Admit, Schedule, EngineStep, FlushStep, StepDone, AwaitOutput,
           ProcessOutput, OutputSleepDone, DrainDone, ExecuteModel, ModelDone, ModelRaises, Launch,
           StartKill, ContinueKill, loopVars
    <2> QED
      BY <1>1, <2>1, Zenon
  <1>6. CASE UNCHANGED vars
    <2>1. UNCHANGED input_queue
      BY <1>6, Zenon DEF vars, loopVars
    <2> QED
      BY <1>1, <2>1, Zenon
  <1> QED
    BY <1>3, <1>4, <1>5, <1>6, Zenon DEF Next, BusyLoop

\* Without aborters no ABORT message is ever handled.
LEMMA AbortNeedsAborter ==
  ASSUME TypeOK, AbortsOfAborters, HandleAbort
  PROVE  Aborters # {}
  <1>1. input_queue \in Seq(Messages) /\ input_queue # <<>> /\ Head(input_queue).type = "ABORT"
    BY Zenon DEF TypeOK, EngineTypeOK, HandleAbort
  <1>2. 1 \in DOMAIN input_queue /\ Head(input_queue) = input_queue[1]
    BY <1>1
  <1> QED
    BY <1>1, <1>2, Zenon DEF AbortsOfAborters

LEMMA NextDropFree ==
  ASSUME TypeOK, AbortsOfAborters, DropFree, [Next]_vars
  PROVE  DropFree'
  <1> SUFFICES ASSUME NoDrops
               PROVE  /\ dropped_deferred_requests' = {}
                      /\ max_num_unfinished_requests = None => deferred_requests' = <<>>
    BY Zenon DEF DropFree, NoDrops
  <1>1. /\ dropped_deferred_requests = {}
        /\ max_num_unfinished_requests = None => deferred_requests = <<>>
    BY Zenon DEF DropFree
  <1>2. CASE UNCHANGED <<deferred_requests, dropped_deferred_requests>>
    BY <1>1, <1>2, Zenon
  <1>3. CASE HandleAdd
    BY <1>1, <1>3, Zenon DEF HandleAdd, AddRequest, HasRoom
  <1>4. CASE HandleAbort
    <2>1. Aborters # {}
      BY <1>4, AbortNeedsAborter, Zenon
    <2>2. max_num_unfinished_requests = None /\ deferred_requests = <<>>
      BY <1>1, <2>1, Zenon DEF NoDrops
    <2>3. Range(deferred_requests) = {}
      BY <2>2 DEF Range
    <2>4. UNCHANGED <<deferred_requests, dropped_deferred_requests>>
      BY <1>4, <2>3, Zenon DEF HandleAbort, FinishRequest, queueVars
    <2> QED
      BY <1>2, <2>4, Zenon
  <1>5. CASE Admit
    <2>1. CASE ExpireDeferred
      <3>1. enable_dropping /\ \E i \in DOMAIN deferred_requests : TRUE
        BY <2>1, Zenon DEF ExpireDeferred
      <3>2. max_num_unfinished_requests = None
        BY <3>1, Zenon DEF NoDrops
      <3>3. DOMAIN deferred_requests = {}
        BY <1>1, <3>2
      <3> QED
        BY <3>1, <3>3, Zenon
    <2>2. CASE AdmitDeferred
      BY <1>1, <2>2, Zenon DEF AdmitDeferred
    <2>3. CASE ExpireDone \/ AdmitReturn
      BY <1>1, <2>3, Zenon DEF ExpireDone, AdmitReturn, queueVars
    <2> QED
      BY <1>5, <2>1, <2>2, <2>3, Zenon DEF Admit
  <1>6. CASE ProcessOutput
    BY <1>1, <1>6, Zenon DEF ProcessOutput, UpdateFromOutput
  <1>7. CASE \/ InputDone \/ Schedule \/ EngineStep \/ FlushStep \/ StepDone \/ AwaitOutput
             \/ OutputSleepDone \/ DrainDone
             \/ \E r \in Requests : SendAdd(r) \/ SendAbort(r)
             \/ \E e \in Executors :
                   \/ ExecuteModel(e) \/ ModelDone(e) \/ ModelRaises(e)
                   \/ Launch(e) \/ StartKill(e) \/ ContinueKill(e)
    <2>1. UNCHANGED queueVars
      BY <1>7, Zenon DEF InputDone, Schedule, UpdateExecutors, Stage0, Stage1NextExecutor,
           Stage1Request, Stage1ExecutorDone, Stage1Done, Stage2Request, Stage2Done, Stage5Request,
           EngineStep, FlushStep, Stage6, StepDone, AwaitOutput, OutputSleepDone, DrainDone,
           SendAdd, SendAbort, ExecuteModel, ModelDone, ModelRaises, Launch, StartKill,
           ContinueKill, schedulerVars
    <2> QED
      BY <1>2, <2>1, Zenon DEF queueVars
  <1>8. CASE UNCHANGED vars
    BY <1>2, <1>8, Zenon DEF vars, schedulerVars, queueVars
  <1> QED
    BY <1>3, <1>4, <1>5, <1>6, <1>7, <1>8, Zenon DEF Next, BusyLoop

LEMMA NextBatchesRun ==
  ASSUME TypeOK, TasksStarted, PlacementConsistent, pc # "dead" => Tracked, DropFree, BatchesRun,
         [Next]_vars
  PROVE  BatchesRun'
  <1> DEFINE Runs(e) == /\ status[e] \in {"SCHEDULED", "EXECUTING", "OUTPUT_READY"}
                        /\ killer[e] \notin {"shutdown", "done"}
             RunsNext(e) == /\ status'[e] \in {"SCHEDULED", "EXECUTING", "OUTPUT_READY"}
                            /\ killer'[e] \notin {"shutdown", "done"}
  <1> SUFFICES ASSUME NoDrops, NEW e \in Executors, scheduler_outputs'[e] # NoBatch
               PROVE  RunsNext(e)
    BY Zenon DEF BatchesRun, NoDrops
  <1>1. scheduler_outputs[e] # NoBatch => Runs(e)
    BY Zenon DEF BatchesRun
  <1>2. CASE UNCHANGED <<managerVars, scheduler_outputs>>
    BY <1>1, <1>2, Zenon DEF managerVars
  <1>3. CASE Schedule
    <2>1. UNCHANGED <<scheduler_outputs, killer>>
      BY <1>3, Zenon DEF Schedule, UpdateExecutors, Stage0, Stage1NextExecutor, Stage1Request,
           Stage1ExecutorDone, Stage1Done, Stage2Request, Stage2Done, Stage5Request, managerVars,
           loopVars
    <2>2. status'[e] = status[e] \/ status[e] \in {"IDLE", "IDLE_NOT_ACCEPTING"}
      <3>1. CASE Stage0
        <4>1. CASE pc' = "dead"
          BY <3>1, <4>1, Zenon DEF Stage0, Goto
        <4>2. CASE pc' # "dead"
          BY <3>1, <4>2, Stage0Step, Zenon
        <4> QED
          BY <4>1, <4>2, Zenon
      <3>2. CASE ~Stage0
        BY <1>3, <3>2, Zenon DEF Schedule, UpdateExecutors, Stage1NextExecutor, Stage1Request,
             Stage1ExecutorDone, Stage1Done, Stage2Request, Stage2Done, Stage5Request, managerVars
      <3> QED
        BY <3>1, <3>2, Zenon
    <2> QED
      BY <1>1, <2>1, <2>2, Zenon
  <1>4. CASE EngineStep
    <2>1. /\ pc = "stage5" /\ in_output = {} /\ Stage6 /\ Tracked
          /\ scheduler_outputs' = [f \in Executors |->
               IF f \in Scheduled THEN SchedulerOutput(f) ELSE scheduler_outputs[f]]
      BY <1>4, Zenon DEF EngineStep, Stage6
    <2>2. pc' # "dead"
      <3>1. ~ \E f \in ((idle_executors \cup idle_not_accepting) \ Scheduled) \cap idle_not_accepting :
                 req_ids[f] \cup pending_request_additions[f] # {}
        BY <2>1, DrainedWhenResting, Zenon DEF Considered
      <3>2. pc' = "step_sleep"
        BY <2>1, <3>1, Zenon DEF Stage6, Goto
      <3> QED
        BY <3>2, Zenon
    <2>3. /\ status'[e] = IF e \in Scheduled THEN "SCHEDULED"
                          ELSE IF e \in Considered THEN "IDLE" ELSE status[e]
          /\ killer'[e] = killer[e] \/ (killer[e] = "waiting" /\ killer'[e] = "notified")
      BY <2>1, <2>2, Stage6Step, Zenon
    <2>4. e \in Considered =>
            scheduler_outputs[e] = NoBatch /\ killer[e] \notin {"shutdown", "done"}
      <3>1. e \in Considered => status[e] = "CONSIDERED"
        BY <2>1, Zenon DEF Tracked, LocalsTracked
      <3> QED
        BY <2>1, <3>1, ConsideredFree, Zenon DEF Tracked
    <2>5. e \in Scheduled => e \in Considered
      BY Zenon DEF Scheduled, Considered
    <2> QED
      BY <1>1, <2>1, <2>3, <2>4, <2>5, Zenon
  <1>5. CASE FlushStep
    BY <1>5, Zenon DEF FlushStep, FlushTargets, DropFree
  <1>6. CASE ProcessOutput
    <2>1. PICK f \in executor_output_queue :
            /\ \E next : UpdateFromOutput(f, scheduler_outputs[f], next)
            /\ scheduler_outputs' = [scheduler_outputs EXCEPT ![f] = NoBatch]
      BY <1>6, Zenon DEF ProcessOutput
    <2>2. f # e /\ scheduler_outputs'[e] = scheduler_outputs[e]
      BY <2>1, Zenon DEF TypeOK, EngineTypeOK
    <2>3. /\ status'[e] = status[e]
          /\ killer'[e] = killer[e] \/ (killer[e] = "waiting" /\ killer'[e] = "notified")
      BY <2>1, <2>2, Zenon DEF UpdateFromOutput, Notified, TypeOK, ManagerTypeOK
    <2> QED
      BY <1>1, <2>2, <2>3, Zenon
  <1>7. ASSUME NEW f \in Executors, ExecuteModel(f) \/ ModelDone(f)
        PROVE  RunsNext(e)
    <2>1. UNCHANGED <<killer, scheduler_outputs>>
      BY <1>7, Zenon DEF ExecuteModel, ModelDone
    <2>2. status'[e] = status[e] \/ status'[e] \in {"EXECUTING", "OUTPUT_READY"}
      BY <1>7, Zenon DEF ExecuteModel, ModelDone, TypeOK, ManagerTypeOK
    <2> QED
      BY <1>1, <2>1, <2>2, Zenon
  <1>8. ASSUME NEW f \in Executors, Launch(f) \/ StartKill(f) \/ ContinueKill(f)
        PROVE  RunsNext(e)
    <2>1. UNCHANGED scheduler_outputs
      BY <1>8, Zenon DEF Launch, StartKill, ContinueKill, loopVars
    <2>2. CASE e # f
      <3>1. status'[e] = status[e] /\ killer'[e] = killer[e]
        BY <1>8, <2>2, Zenon DEF Launch, StartKill, ContinueKill, LaunchExecutor, KillExecutor,
             KillerWakes, ShutdownDone, TypeOK, ManagerTypeOK
      <3> QED
        BY <1>1, <2>1, <3>1, Zenon
    <2>3. CASE e = f
      <3>1. \/ status[e] \in {"ABSENT", "IDLE"}
            \/ killer[e] = "shutdown"
            \/ status'[e] = status[e] /\ killer'[e] = "waiting"
        BY <1>8, <2>3, Zenon DEF Launch, StartKill, ContinueKill, LaunchExecutor, KillExecutor,
             KillerWakes, ShutdownDone, TypeOK, ManagerTypeOK
      <3> QED
        BY <1>1, <2>1, <3>1, Zenon
    <2> QED
      BY <2>2, <2>3, Zenon
  <1>9. CASE \/ HandleAdd \/ HandleAbort \/ InputDone \/ Admit \/ StepDone \/ AwaitOutput
             \/ OutputSleepDone \/ DrainDone
             \/ \E r \in Requests : SendAdd(r) \/ SendAbort(r)
             \/ \E f \in Executors : ModelRaises(f)
    <2>1. UNCHANGED <<managerVars, scheduler_outputs>>
      BY <1>9, Zenon DEF HandleAdd, HandleAbort, InputDone, Admit, StepDone, AwaitOutput,
           OutputSleepDone, DrainDone, SendAdd, SendAbort, ModelRaises, loopVars
    <2> QED
      BY <1>2, <2>1, Zenon
  <1>10. CASE UNCHANGED vars
    <2>1. UNCHANGED <<managerVars, scheduler_outputs>>
      BY <1>10, Zenon DEF vars, loopVars
    <2> QED
      BY <1>2, <2>1, Zenon
  <1> QED
    BY <1>3, <1>4, <1>5, <1>6, <1>7, <1>8, <1>9, <1>10, Zenon DEF Next, BusyLoop

LEMMA TokensOfPart ==
  ASSUME NEW B \in SUBSET Requests, NEW S \in SUBSET B, NEW m \in Nat, TotalTokens[B] <= m
  PROVE  TotalTokens[S] <= m
  <1>1. /\ S \in SUBSET Requests /\ (B \ S) \in SUBSET Requests
        /\ S \cap (B \ S) = {} /\ S \cup (B \ S) = B
    OBVIOUS
  <1>2. /\ TotalTokens[S] \in Nat /\ TotalTokens[B \ S] \in Nat
        /\ TotalTokens[S \cup (B \ S)] = TotalTokens[S] + TotalTokens[B \ S]
    BY <1>1, TotalTokensAssumption, Zenon
  <1>3. PICK a \in Nat, b \in Nat : TotalTokens[S] = a /\ TotalTokens[B] = a + b
    BY <1>1, <1>2, Zenon
  <1> QED
    BY <1>3

\* The executors that the step began with stay fixed until schedule() is done.
LEMMA OldExecutorFixed ==
  ASSUME TypeOK, [Next]_vars, Scheduling'
  PROVE  \/ UpdateExecutors /\ pc' # "dead"
         \/ Scheduling /\ UNCHANGED old_executor
  <1>1. CASE UNCHANGED <<pc, old_executor>>
    BY <1>1, Zenon DEF Scheduling
  <1>2. CASE HandleAdd \/ HandleAbort \/ InputDone \/ StepDone \/ AwaitOutput \/ OutputSleepDone
             \/ DrainDone
    <2>1. pc' \in {"input", "expire", "input_wait", "output", "drain", "output_wait", "dead"}
      BY <1>2, Zenon DEF HandleAdd, HandleAbort, FinishRequest, InputDone, StepDone, AwaitOutput,
           OutputSleepDone, DrainDone, Goto, Call, Fail
    <2> QED
      BY <2>1, Zenon DEF Scheduling
  <1>3. CASE Admit
    <2>1. pc' \in {"expire", "admit", "input", "update_executors"}
      BY <1>3, Zenon DEF Admit, ExpireDeferred, ExpireDone, AdmitDeferred, AdmitReturn, Goto,
           controlVars, TypeOK, SchedulerTypeOK, ControlTypeOK
    <2> QED
      BY <2>1, Zenon DEF Scheduling
  <1>4. CASE ProcessOutput
    <2>1. pc' \in {"output_sleep", "drain", "dead"}
      BY <1>4, Zenon DEF ProcessOutput, UpdateFromOutput, Goto, Fail
    <2> QED
      BY <2>1, Zenon DEF Scheduling
  <1>5. CASE EngineStep \/ FlushStep
    <2>1. pc' \in {"step_sleep", "dead"}
      BY <1>5, Zenon DEF EngineStep, FlushStep, Stage6, Goto, Fail
    <2> QED
      BY <2>1, Zenon DEF Scheduling
  <1>6. CASE Schedule
    <2>1. CASE UpdateExecutors
      <3>1. pc' \in {"init", "stage1", "stage2", "stage5"}
        BY Zenon DEF Scheduling
      <3>2. pc' # "dead"
        BY <3>1, Zenon
      <3> QED
        BY <2>1, <3>2, Zenon
    <2>2. CASE ~UpdateExecutors
      <3>1. pc \in {"init", "stage1", "stage2", "stage5"}
        BY <1>6, <2>2, Zenon DEF Schedule, Stage0, Stage1NextExecutor, Stage1Request,
             Stage1ExecutorDone, Stage1Done, Stage2Request, Stage2Done, Stage5Request
      <3>2. UNCHANGED old_executor \/ pc' = "step_sleep"
        BY <1>6, <2>2, Zenon DEF Schedule, Stage0, Stage1NextExecutor, Stage1Request,
             Stage1ExecutorDone, Stage1Done, Stage2Request, Stage2Done, Stage5Request, localVars, Goto
      <3> QED
        BY <3>1, <3>2, Zenon DEF Scheduling
    <2> QED
      BY <2>1, <2>2, Zenon
  <1>7. CASE \/ \E r \in Requests : SendAdd(r) \/ SendAbort(r)
             \/ \E e \in Executors :
                   \/ ModelDone(e) \/ ModelRaises(e)
                   \/ Launch(e) \/ StartKill(e) \/ ContinueKill(e)
    <2>1. UNCHANGED <<pc, old_executor>>
      BY <1>7, Zenon DEF SendAdd, SendAbort, ModelDone, ModelRaises, Launch, StartKill,
           ContinueKill, schedulerVars, controlVars, localVars
    <2> QED
      BY <1>1, <2>1, Zenon
  <1>8. ASSUME NEW e \in Executors, ExecuteModel(e)
        PROVE  Scheduling /\ UNCHANGED old_executor
    <2>1. pc' = pc \/ pc' = "dead"
      BY <1>8, Zenon DEF ExecuteModel, UpdateStates, controlVars, Fail
    <2>2. UNCHANGED old_executor
      BY <1>8, Zenon DEF ExecuteModel, localVars
    <2> QED
      BY <2>1, <2>2, Zenon DEF Scheduling
  <1>9. CASE UNCHANGED vars
    <2>1. UNCHANGED <<pc, old_executor>>
      BY <1>9, Zenon DEF vars, schedulerVars, controlVars, localVars
    <2> QED
      BY <1>1, <2>1, Zenon
  <1> QED
    BY <1>2, <1>3, <1>4, <1>5, <1>6, <1>7, <1>8, <1>9, Zenon DEF Next, BusyLoop

LEMMA NextOldBudget ==
  ASSUME TypeOK, TypeOK', OldBudget, PlacementConsistent', WithinTokenBudget', [Next]_vars
  PROVE  OldBudget'
  <1> SUFFICES ASSUME Scheduling', NEW e \in Executors
               PROVE  TotalTokens[{r \in Requests : old_executor'[r] = e}] <= max_num_scheduled_tokens
    BY Zenon DEF OldBudget
  <1>1. CASE Scheduling /\ UNCHANGED old_executor
    BY <1>1, Zenon DEF OldBudget
  <1>2. CASE UpdateExecutors /\ pc' # "dead"
    <2> DEFINE S == {r \in Requests : old_executor'[r] = e}
               B == req_ids'[e] \cup pending_request_additions'[e]
    <2>1. old_executor' = executor_id'
      BY <1>2, UpdateExecutorsStep, Zenon
    <2>2. \A r \in Requests : executor_id'[r] = e => r \in req_ids'[e]
      BY Zenon DEF PlacementConsistent
    <2>3. B \in SUBSET Requests
      BY Zenon DEF TypeOK, SchedulerTypeOK, PlacementTypeOK
    <2>4. S \in SUBSET B
      BY <2>1, <2>2, Zenon
    <2>5. TotalTokens[B] <= max_num_scheduled_tokens /\ max_num_scheduled_tokens \in Nat
      BY RequestsAssumption, Zenon DEF WithinTokenBudget, ProjectedBatchSize
    <2> HIDE DEF B, S
    <2>6. TotalTokens[S] <= max_num_scheduled_tokens
      BY <2>3, <2>4, <2>5, TokensOfPart, Zenon
    <2> QED
      BY <2>6, Zenon DEF S
  <1> QED
    BY <1>1, <1>2, OldExecutorFixed, Zenon

\* update_from_output finds the finished requests running where the batch ran, so
\* only an executor that was shut down under its batch stops it.
LEMMA ProcessOutputCauses ==
  ASSUME TypeOK, PlacementConsistent, OutputsOfBatches, InFlightStaysPut, BatchesRun, ProcessOutput
  PROVE  UNCHANGED failure \/ (failure' = "executor gone" /\ ~NoDrops)
  <1> DEFINE next == IF pc = "drain" THEN "drain" ELSE "output_sleep"
  <1>1. PICK e \in executor_output_queue : UpdateFromOutput(e, scheduler_outputs[e], next)
    BY Zenon DEF ProcessOutput
  <1>2. e \in Executors /\ scheduler_outputs[e] # NoBatch
    BY Zenon DEF OutputsOfBatches, TypeOK, EngineTypeOK
  <1> DEFINE live == (scheduler_outputs[e].new \cup scheduler_outputs[e].cached) \cap requests
             Done(n) == {r \in live : unmasked[r] + n[r] = output_length[r]}
             Stray(n) == \E r \in Done(n) : ~IsRunning(r)
  <1>3. PICK n \in StepResults(live) :
          IF Stray(n) \/ killer[e] \in {"shutdown", "done"}
          THEN Fail(IF Stray(n) THEN "request not running" ELSE "executor gone")
          ELSE Goto(next)
    BY <1>1, Zenon DEF UpdateFromOutput
  <1>4. live \subseteq req_ids[e] /\ live \subseteq Requests
    BY <1>2, Zenon DEF InFlightStaysPut, InFlight, TypeOK, SchedulerTypeOK, QueueTypeOK
  <1>5. \A r \in live : executor_id[r] = e
    BY <1>2, <1>4, Zenon DEF PlacementConsistent
  <1>6. ~Stray(n)
    BY <1>2, <1>5, RequestsAssumption, Zenon DEF IsRunning
  <1>7. killer[e] \in {"shutdown", "done"} => ~NoDrops
    BY <1>2, Zenon DEF BatchesRun
  <1> QED
    BY <1>3, <1>6, <1>7, Zenon DEF Fail, Goto

LEMMA ScheduleCauses ==
  ASSUME TypeOK, PlacementConsistent, WithinTokenBudget, Tracked, OldBudget, Schedule
  PROVE  UNCHANGED failure \/ (failure' = "no KV blocks" /\ Caching /\ ~AmpleBlocks)
  <1>1. CASE UpdateExecutors
    <2>1. Alive # {}
      BY ExecutorLeft, Zenon DEF Tracked
    <2> QED
      BY <1>1, <2>1, Zenon DEF UpdateExecutors, Alive, Goto
  <1>2. CASE Stage0
    <2> DEFINE considered == {e \in Executors : status[e] = "IDLE"}
                             \cup {e \in Executors : status[e] = "IDLE_NOT_ACCEPTING"}
    <2>1. considered \in SUBSET Executors
      BY Zenon
    <2>2. ~ \E r \in UNION {pending_request_additions[e] : e \in considered} : IsRunning(r)
      BY <2>1, PendingNotRunning, Zenon
    <2> QED
      BY <1>2, <2>2, Zenon DEF Stage0, Goto
  <1>3. CASE \/ Stage1NextExecutor \/ (\E r \in Requests : Stage1Request(r)) \/ Stage1ExecutorDone
             \/ Stage1Done \/ (\E r \in Requests : Stage2Request(r)) \/ Stage2Done
    BY <1>3, Zenon DEF Stage1NextExecutor, Stage1Request, Stage1ExecutorDone, Stage1Done,
         Stage2Request, Stage2Done, Goto, controlVars
  <1>4. ASSUME NEW r \in Requests, Stage5Request(r)
        PROVE  UNCHANGED failure \/ (failure' = "no KV blocks" /\ Caching /\ ~AmpleBlocks)
    <2>1. pc = "stage5" /\ r \in in_output
      BY <1>4, Zenon DEF Stage5Request
    <2>2. CASE old_executor[r] # executor_id[r]
      <3> DEFINE freed == BlocksFreedOn(r, old_executor[r])[executor_id[r]]
                 enough == TotalTokens[freed \cup {r}] <= kv_capacity[executor_id[r]]
      <3>1. executor_id[r] # None /\ Caching /\ AmpleBlocks => enough
        BY <2>1, BlocksSuffice, Zenon
      <3>2. executor_id[r] # None => TotalTokens[freed \cup {r}] \in Int
                                     /\ kv_capacity[executor_id[r]] \in Int
        <4> SUFFICES ASSUME executor_id[r] # None
                     PROVE  TotalTokens[freed \cup {r}] \in Int
                            /\ kv_capacity[executor_id[r]] \in Int
          BY Zenon
        <4>1. executor_id[r] \in Executors /\ kv_capacity[executor_id[r]] \in Nat
          BY RequestsAssumption, Zenon DEF TypeOK, SchedulerTypeOK, PlacementTypeOK, ExecutorOrNone
        <4>2. freed \cup {r} \in SUBSET Requests
          BY <4>1, Zenon DEF BlocksFreedOn, TypeOK, SchedulerTypeOK, StoreTypeOK
        <4>3. TotalTokens[freed \cup {r}] \in Nat
          BY <4>2, TotalTokensAssumption, Zenon
        <4> HIDE DEF freed
        <4> QED
          BY <4>1, <4>3
      <3> HIDE DEF freed
      <3>3. enough /\ executor_id[r] # None
               => ~(TotalTokens[freed \cup {r}] > kv_capacity[executor_id[r]])
        BY <3>2
      <3> QED
        BY <1>4, <2>2, <3>1, <3>3, Zenon DEF Stage5Request, Stage5Move, Fail, controlVars, freed
    <2>3. CASE old_executor[r] = executor_id[r]
      <3>1. executor_id[r] \in Considered \cup {None}
        BY <2>1, Zenon DEF Tracked, LocalsTracked
      <3> QED
        BY <1>4, <2>3, <3>1, Zenon DEF Stage5Request, Stage5Keep, Considered, controlVars
    <2> QED
      BY <2>2, <2>3, Zenon
  <1> QED
    BY <1>1, <1>2, <1>3, <1>4, Zenon DEF Schedule

LEMMA Stage6Causes ==
  ASSUME TypeOK, PlacementConsistent, Tracked, Stage6
  PROVE  UNCHANGED failure
  <1> DEFINE resting == (idle_executors \cup idle_not_accepting) \ Scheduled
  <1>1. pc = "stage5" /\ in_output = {}
    BY Zenon DEF Stage6
  <1>2. \A e \in resting : req_ids[e] \cup pending_request_additions[e] = {}
    BY <1>1, DrainedWhenResting, Zenon DEF Considered
  <1> QED
    BY <1>2, Zenon DEF Stage6, Goto

LEMMA NextFailureCauses ==
  ASSUME TypeOK, TasksStarted, PlacementConsistent, WithinTokenBudget, OutputsOfBatches,
         pc # "dead" => Tracked, InFlightStaysPut, Causes, [Next]_vars
  PROVE  FailureCauses'
  <1> DEFINE Caused(f) ==
        \/ f = "request not running" /\ Aborters # {}
        \/ f \in {"overlapping step", "executor gone"} /\ ~NoDrops
        \/ f = "no KV blocks" /\ Caching /\ ~AmpleBlocks
  <1> SUFFICES UNCHANGED failure \/ Caused(failure')
    BY Zenon DEF Causes, FailureCauses
  <1> USE DEF Causes
  <1>1. CASE UNCHANGED vars
    BY <1>1, Zenon DEF vars, schedulerVars, controlVars
  <1>2. CASE /\ Next
             /\ \/ \E r \in Requests : SendAdd(r) \/ SendAbort(r)
                \/ HandleAdd \/ InputDone \/ Admit \/ StepDone \/ AwaitOutput \/ OutputSleepDone
                \/ DrainDone
                \/ \E e \in Executors :
                      \/ ModelDone(e) \/ ModelRaises(e)
                      \/ Launch(e) \/ StartKill(e) \/ ContinueKill(e)
    BY <1>2, Zenon DEF SendAdd, SendAbort, HandleAdd, InputDone, Admit, StepDone, AwaitOutput,
         OutputSleepDone, DrainDone, ModelDone, ModelRaises, Launch, StartKill, ContinueKill,
         ExpireDeferred, ExpireDone, AdmitDeferred, AdmitReturn, Goto, Call, schedulerVars, controlVars
  <1>3. CASE HandleAbort
    <2>1. Aborters # {}
      BY <1>3, AbortNeedsAborter, Zenon
    <2> QED
      BY <1>3, <2>1, Zenon DEF HandleAbort, FinishRequest, Call, Fail
  <1>4. CASE Schedule
    <2>1. Tracked
      BY <1>4, Zenon DEF Schedule, UpdateExecutors, Stage0, Stage1NextExecutor, Stage1Request,
             Stage1ExecutorDone, Stage1Done, Stage2Request, Stage2Done, Stage5Request
    <2> QED
      BY <1>4, <2>1, ScheduleCauses, Zenon
  <1>5. CASE EngineStep
    <2>1. Tracked
      BY <1>5, Zenon DEF EngineStep, Stage6
    <2> QED
      BY <1>5, <2>1, Stage6Causes, Zenon DEF EngineStep
  <1>6. CASE FlushStep
    <2>1. pc = "stage5" /\ (Stage6 \/ failure' = "overlapping step")
      BY <1>6, Zenon DEF FlushStep, Stage6, Fail
    <2>2. dropped_deferred_requests # {}
      BY <1>6, Zenon DEF FlushStep, FlushTargets
    <2>3. ~NoDrops
      BY <2>2, Zenon DEF DropFree
    <2>4. Tracked
      BY <2>1, Zenon
    <2> QED
      BY <2>1, <2>3, <2>4, Stage6Causes, Zenon
  <1>7. CASE ProcessOutput
    BY <1>7, ProcessOutputCauses, Zenon
  <1>8. ASSUME NEW e \in Executors, ExecuteModel(e)
        PROVE  UNCHANGED failure
    <2>1. e \in ready_tasks /\ Tracked
      BY <1>8, Zenon DEF ExecuteModel, Suspended
    <2>2. scheduler_outputs[e].cached \subseteq worker_requests[e] \ scheduler_outputs[e].free
      BY <2>1, TasksFindWorker, Zenon
    <2> QED
      BY <1>8, <2>2, Zenon DEF ExecuteModel, UpdateStates, controlVars
  <1> QED
    BY <1>1, <1>2, <1>3, <1>4, <1>5, <1>6, <1>7, <1>8, Zenon DEF Next, BusyLoop

LEMMA InitCauses ==
  ASSUME Init
  PROVE  Causes
  <1>1. AbortsOfAborters
    BY DEF Init, AbortsOfAborters
  <1>2. DropFree /\ BatchesRun
    BY Zenon DEF Init, SchedulerInit, DropFree, BatchesRun
  <1>3. OldBudget
    BY Zenon DEF Init, SchedulerInit, OldBudget, Scheduling
  <1>4. FailureCauses
    BY Zenon DEF Init, SchedulerInit, FailureCauses
  <1> QED
    BY <1>1, <1>2, <1>3, <1>4, Zenon DEF Causes

=============================================================================
