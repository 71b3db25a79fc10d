-------------------------- MODULE EngineCoreProofs --------------------------
(* Proofs about EngineCore for every number of requests and executors: type *)
(* correctness, the bookkeeping of placements and the token budget.         *)
EXTENDS EngineCore, TLAPS

-----------------------------------------------------------------------------
(* Type correctness.  A step leaves most groups of variables alone: one    *)
(* lemma per group carries its type over such a step.                      *)

LEMMA ManagerStutters == ManagerTypeOK /\ UNCHANGED managerVars => ManagerTypeOK'
  BY Zenon DEF ManagerTypeOK, managerVars

LEMMA ControlStutters == ControlTypeOK /\ UNCHANGED controlVars => ControlTypeOK'
  BY Zenon DEF ControlTypeOK, controlVars

LEMMA QueueStutters == QueueTypeOK /\ UNCHANGED queueVars => QueueTypeOK'
  BY Zenon DEF QueueTypeOK, queueVars

LEMMA PlacementStutters ==
  PlacementTypeOK /\ UNCHANGED placementVars => PlacementTypeOK'
  BY Zenon DEF PlacementTypeOK, placementVars

LEMMA StoreStutters == StoreTypeOK /\ UNCHANGED storeVars => StoreTypeOK'
  BY Zenon DEF StoreTypeOK, storeVars

LEMMA LocalStutters == LocalTypeOK /\ UNCHANGED localVars => LocalTypeOK'
  BY Zenon DEF LocalTypeOK, localVars

LEMMA SchedulerStutters ==
  SchedulerTypeOK /\ UNCHANGED schedulerVars => SchedulerTypeOK'
  BY ControlStutters, QueueStutters, PlacementStutters, StoreStutters, LocalStutters, Zenon
     DEF SchedulerTypeOK, schedulerVars

LEMMA LoopStutters == EngineTypeOK /\ UNCHANGED loopVars => EngineTypeOK'
  BY Zenon DEF EngineTypeOK, loopVars

\* A jump to a label, a call of _admit_deferred_requests, an exception.
LEMMA ControlSteps ==
  ASSUME ControlTypeOK,
         \/ \E label \in PC : Goto(label)
         \/ \E return \in {"input", "update_executors"} : Call(return)
         \/ \E check \in Failures : Fail(check)
  PROVE  ControlTypeOK'
  BY Zenon DEF ControlTypeOK, Goto, Call, Fail, PC

LEMMA InitTypeOK == Init => TypeOK
  <1> SUFFICES ASSUME Init PROVE TypeOK
    BY Zenon
  <1> USE DEF Init
  <1>1. ManagerTypeOK
    BY Zenon DEF ManagerInit, ManagerTypeOK, Status, KillerPhase
  <1>2. SchedulerTypeOK
    BY DEF SchedulerInit, LocalsInit, SchedulerTypeOK, ControlTypeOK, QueueTypeOK,
           PlacementTypeOK, StoreTypeOK, LocalTypeOK, PC, Failures, NoRequests,
           Nowhere, ExecutorOrNone
  <1>3. EngineTypeOK
    BY DEF EngineTypeOK, NoRequests
  <1> QED
    BY <1>1, <1>2, <1>3, Zenon DEF TypeOK

LEMMA QueueHead ==
  ASSUME NEW q \in Seq(Messages), q # <<>>
  PROVE  Head(q).req \in Requests /\ Tail(q) \in Seq(Messages)
  <1>1. Head(q) \in Messages /\ Tail(q) \in Seq(Messages)
    OBVIOUS
  <1> QED
    BY <1>1, Zenon DEF Messages

LEMMA ClientType ==
  ASSUME TypeOK, NEW r \in Requests, SendAdd(r) \/ SendAbort(r)
  PROVE  TypeOK'
  <1>1. ManagerTypeOK' /\ SchedulerTypeOK'
    BY ManagerStutters, SchedulerStutters, Zenon DEF TypeOK, SendAdd, SendAbort
  <1>2. /\ [type |-> "ADD", req |-> r] \in Messages
        /\ [type |-> "ABORT", req |-> r] \in Messages
    BY Zenon DEF Messages
  <1>3. EngineTypeOK'
    <2>1. CASE SendAdd(r)
      BY <1>2, <2>1 DEF TypeOK, EngineTypeOK, SendAdd
    <2>2. CASE SendAbort(r)
      BY <1>2, <2>2 DEF TypeOK, EngineTypeOK, SendAbort
    <2> QED
      BY <2>1, <2>2, Zenon
  <1> QED
    BY <1>1, <1>3, Zenon DEF TypeOK

LEMMA AddRequestType ==
  ASSUME QueueTypeOK, NEW r \in Requests, AddRequest(r)
  PROVE  QueueTypeOK'
  <1>1. Append(deferred_requests, r) \in Seq(Requests)
    BY DEF QueueTypeOK
  <1>2. CASE HasRoom(request_states)
    BY <1>2, Zenon DEF QueueTypeOK, AddRequest
  <1>3. CASE ~HasRoom(request_states)
    BY <1>1, <1>3, Zenon DEF QueueTypeOK, AddRequest
  <1> QED
    BY <1>2, <1>3, Zenon

LEMMA HandleAddType ==
  ASSUME TypeOK, HandleAdd
  PROVE  TypeOK'
  <1>1. ManagerTypeOK'
    BY ManagerStutters, Zenon DEF TypeOK, HandleAdd
  <1>2. Head(input_queue).req \in Requests /\ Tail(input_queue) \in Seq(Messages)
    BY QueueHead, Zenon DEF TypeOK, EngineTypeOK, HandleAdd
  <1>3. QueueTypeOK'
    BY <1>2, AddRequestType, Zenon DEF TypeOK, SchedulerTypeOK, HandleAdd
  <1>4. SchedulerTypeOK'
    <2>1. ControlTypeOK'
      BY ControlSteps, Zenon DEF TypeOK, SchedulerTypeOK, HandleAdd, PC
    <2> QED
      BY <1>3, <2>1, PlacementStutters, StoreStutters, LocalStutters, Zenon
         DEF TypeOK, SchedulerTypeOK, HandleAdd
  <1>5. EngineTypeOK'
    BY <1>2, Zenon DEF TypeOK, EngineTypeOK, HandleAdd
  <1> QED
    BY <1>1, <1>4, <1>5, Zenon DEF TypeOK

LEMMA DropDeferredType ==
  ASSUME QueueTypeOK, NEW i \in DOMAIN deferred_requests, DropDeferred(i)
  PROVE  QueueTypeOK'
  <1>1. /\ i \in 1 .. Len(deferred_requests)
        /\ deferred_requests[i] \in Requests
        /\ Len(deferred_requests) \in Nat
    BY DEF QueueTypeOK
  <1>2. /\ SubSeq(deferred_requests, 1, i - 1) \in Seq(Requests)
        /\ SubSeq(deferred_requests, i + 1, Len(deferred_requests)) \in Seq(Requests)
    BY <1>1 DEF QueueTypeOK
  <1>3. SubSeq(deferred_requests, 1, i - 1) \o
        SubSeq(deferred_requests, i + 1, Len(deferred_requests)) \in Seq(Requests)
    BY <1>2
  <1> QED
    BY <1>1, <1>3, Zenon DEF QueueTypeOK, DropDeferred

LEMMA FreeRequestsType ==
  ASSUME QueueTypeOK, PlacementTypeOK, StoreTypeOK,
         NEW S \in SUBSET Requests, FreeRequests(S)
  PROVE  /\ requests' \in SUBSET Requests
         /\ request_states' \in SUBSET Requests
         /\ PlacementTypeOK'
         /\ StoreTypeOK'
  <1>1. requests' \in SUBSET Requests /\ request_states' \in SUBSET Requests
    BY Zenon DEF QueueTypeOK, FreeRequests
  <1>2. PlacementTypeOK'
    BY Zenon DEF PlacementTypeOK, FreeRequests, ExecutorOrNone
  <1>3. StoreTypeOK'
    BY Zenon DEF StoreTypeOK, FreeRequests, ReqIdsToForget, BlocksWithout
  <1> QED
    BY <1>1, <1>2, <1>3, Zenon

LEMMA FinishRequestType ==
  ASSUME SchedulerTypeOK, NEW r \in Requests, FinishRequest(r)
  PROVE  SchedulerTypeOK'
  <1> USE DEF SchedulerTypeOK
  <1>1. CASE r \in request_states /\ IsRunning(r)
    <2>1. FreeRequests({r}) /\ Call("input") /\
          UNCHANGED <<deferred_requests, dropped_deferred_requests, unmasked, localVars>>
      BY <1>1, Zenon DEF FinishRequest
    <2>2. /\ requests' \in SUBSET Requests
          /\ request_states' \in SUBSET Requests
          /\ PlacementTypeOK'
          /\ StoreTypeOK'
      BY <2>1, FreeRequestsType, Zenon
    <2>3. QueueTypeOK'
      BY <2>1, <2>2, Zenon DEF QueueTypeOK
    <2> QED
      BY <2>1, <2>2, <2>3, ControlSteps, LocalStutters, Zenon
  <1>2. CASE r \in request_states /\ ~IsRunning(r)
    <2>1. ControlTypeOK'
      BY <1>2, ControlSteps, Zenon DEF FinishRequest, Failures
    <2> QED
      BY <1>2, <2>1, QueueStutters, PlacementStutters, StoreStutters, LocalStutters, Zenon
         DEF FinishRequest
  <1>3. CASE r \notin request_states
    <2>1. QueueTypeOK'
      BY <1>3, DropDeferredType, QueueStutters, Zenon DEF FinishRequest
    <2>2. ControlTypeOK'
      BY <1>3, ControlSteps, Zenon DEF FinishRequest
    <2> QED
      BY <1>3, <2>1, <2>2, PlacementStutters, StoreStutters, LocalStutters, Zenon
         DEF FinishRequest
  <1> QED
    BY <1>1, <1>2, <1>3, Zenon

LEMMA HandleAbortType ==
  ASSUME TypeOK, HandleAbort
  PROVE  TypeOK'
  <1>1. Head(input_queue).req \in Requests /\ Tail(input_queue) \in Seq(Messages)
    BY QueueHead, Zenon DEF TypeOK, EngineTypeOK, HandleAbort
  <1>2. ManagerTypeOK' /\ SchedulerTypeOK'
    BY <1>1, ManagerStutters, FinishRequestType, Zenon DEF TypeOK, HandleAbort
  <1>3. EngineTypeOK'
    BY <1>1, Zenon DEF TypeOK, EngineTypeOK, HandleAbort
  <1> QED
    BY <1>2, <1>3, Zenon DEF TypeOK

LEMMA AdmitType ==
  ASSUME TypeOK, Admit
  PROVE  TypeOK'
  <1> USE DEF TypeOK, SchedulerTypeOK
  <1>1. ManagerTypeOK' /\ EngineTypeOK'
    BY ManagerStutters, LoopStutters, Zenon DEF Admit
  <1>2. CASE ExpireDeferred
    BY <1>1, <1>2, DropDeferredType, ControlStutters, PlacementStutters, StoreStutters,
       LocalStutters, Zenon DEF ExpireDeferred
  <1>3. CASE ExpireDone
    <2>1. ControlTypeOK'
      BY <1>3, ControlSteps, Zenon DEF ExpireDone, PC
    <2> QED
      BY <1>1, <1>3, <2>1, QueueStutters, PlacementStutters, StoreStutters, LocalStutters, Zenon
         DEF ExpireDone
  <1>4. CASE AdmitDeferred
    <2>1. QueueTypeOK'
      BY <1>4 DEF AdmitDeferred, QueueTypeOK
    <2> QED
      BY <1>1, <1>4, <2>1, ControlStutters, PlacementStutters, StoreStutters,
         LocalStutters, Zenon DEF AdmitDeferred
  <1>5. CASE AdmitReturn
    <2>1. ControlTypeOK'
      BY <1>5, ControlSteps, Zenon DEF AdmitReturn, ControlTypeOK, PC
    <2> QED
      BY <1>1, <1>5, <2>1, QueueStutters, PlacementStutters, StoreStutters, LocalStutters, Zenon
         DEF AdmitReturn
  <1> QED
    BY <1>2, <1>3, <1>4, <1>5, Zenon DEF Admit

\* The steps of the busy loop that only move its control point.
LEMMA LoopControlType ==
  ASSUME TypeOK, InputDone \/ StepDone \/ AwaitOutput \/ OutputSleepDone \/ DrainDone
  PROVE  TypeOK'
  <1> USE DEF TypeOK, SchedulerTypeOK, InputDone, StepDone, AwaitOutput, OutputSleepDone,
              DrainDone
  <1>1. ControlTypeOK'
    BY ControlSteps, Zenon DEF PC
  <1> QED
    BY <1>1, ManagerStutters, QueueStutters, PlacementStutters, StoreStutters,
       LocalStutters, LoopStutters, Zenon

LEMMA UpdateExecutorsType ==
  ASSUME TypeOK, UpdateExecutors, UNCHANGED loopVars
  PROVE  TypeOK'
  <1> USE DEF TypeOK, SchedulerTypeOK
  <1>1. ManagerTypeOK' /\ EngineTypeOK' /\ QueueTypeOK' /\ unmasked' \in [Requests -> Nat]
    BY ManagerStutters, LoopStutters, QueueStutters, Zenon DEF UpdateExecutors
  <1>2. ControlTypeOK'
    BY ControlSteps, Zenon DEF UpdateExecutors, PC, Failures
  <1> DEFINE alive   == {e \in Present : status[e] # "KILLING"}
             removed == (executor_states \cup Present) \ alive
  <1>3. CASE alive = {} /\ removed # {}
    BY <1>1, <1>2, <1>3, PlacementStutters, StoreStutters, LocalStutters, Zenon
       DEF UpdateExecutors
  <1>4. CASE ~(alive = {} /\ removed # {})
    <2>1. executor_states' \in SUBSET Executors
      BY <1>4, Zenon DEF UpdateExecutors, Present
    <2>2. PlacementTypeOK'
      <3>1. /\ req_ids' = [e \in Executors |-> IF e \in removed THEN {} ELSE req_ids[e]]
            /\ pending_request_additions' = [e \in Executors |->
                  IF e \in removed THEN {} ELSE pending_request_additions[e]]
            /\ executor_id' = [r \in Requests |->
                  IF executor_id[r] \in removed THEN None ELSE executor_id[r]]
            /\ pending_executor_id' = [r \in Requests |->
                  IF pending_executor_id[r] \in removed THEN None ELSE pending_executor_id[r]]
        BY <1>4, Zenon DEF UpdateExecutors, PendingWithout
      <3> HIDE DEF removed
      <3> QED
        BY <2>1, <3>1, Zenon DEF PlacementTypeOK, ExecutorOrNone
    <2>3. StoreTypeOK'
      BY <1>4, Zenon DEF UpdateExecutors, StoreTypeOK
    <2>4. LocalTypeOK'
      BY <1>4, Zenon DEF UpdateExecutors, LocalTypeOK, PlacementTypeOK, ExecutorOrNone
    <2> QED
      BY <1>1, <1>2, <2>2, <2>3, <2>4, Zenon
  <1> QED
    BY <1>3, <1>4, Zenon

LEMMA Stage0Type ==
  ASSUME TypeOK, Stage0, UNCHANGED loopVars
  PROVE  TypeOK'
  <1> USE DEF TypeOK, SchedulerTypeOK
  <1>1. EngineTypeOK' /\ QueueTypeOK' /\ StoreTypeOK' /\ unmasked' \in [Requests -> Nat]
    BY LoopStutters, QueueStutters, StoreStutters, Zenon DEF Stage0
  <1>2. ControlTypeOK'
    BY ControlSteps, Zenon DEF Stage0, PC, Failures
  <1> DEFINE idle       == {e \in Executors : status[e] = "IDLE"}
             restricted == {e \in Executors : status[e] = "IDLE_NOT_ACCEPTING"}
             considered == idle \cup restricted
             committed  == UNION {pending_request_additions[e] : e \in considered}
             stays      == considered = {} \/ \E r \in committed : IsRunning(r)
  <1>3. CASE stays
    <2>1. /\ UNCHANGED <<managerVars, placementVars>>
          /\ UNCHANGED <<idle_executors, idle_not_accepting, schedulable, in_output,
                         todo, cur, cur_reqs, new_reqs, running_reqs>>
          /\ old_executor' = Nowhere \/ UNCHANGED old_executor
      BY <1>3, Zenon DEF Stage0, managerVars, placementVars
    <2>2. LocalTypeOK'
      BY <2>1, Zenon DEF LocalTypeOK, Nowhere, ExecutorOrNone
    <2> QED
      BY <1>1, <1>2, <2>1, <2>2, ManagerStutters, PlacementStutters, Zenon
  <1>4. CASE ~stays
    <2>1. committed \subseteq Requests
      BY DEF PlacementTypeOK
    <2>2. /\ status' = [e \in Executors |->
                IF e \in considered THEN "CONSIDERED" ELSE status[e]]
          /\ req_ids' = [e \in Executors |-> IF e \in considered
                THEN req_ids[e] \cup pending_request_additions[e] ELSE req_ids[e]]
          /\ pending_request_additions' = [e \in Executors |->
                IF e \in considered THEN {} ELSE pending_request_additions[e]]
          /\ executor_id' = [r \in Requests |->
                IF r \in committed THEN pending_executor_id[r] ELSE executor_id[r]]
          /\ UNCHANGED <<waiting_to_be_killed, killer, executor_states,
                         pending_executor_id>>
      BY <1>4, Zenon DEF Stage0
    <2>3. ManagerTypeOK' /\ PlacementTypeOK'
      <3> HIDE DEF considered, committed
      <3>1. ManagerTypeOK'
        BY <2>2, Zenon DEF ManagerTypeOK, Status
      <3>2. PlacementTypeOK'
        BY <2>2, Zenon DEF PlacementTypeOK
      <3> QED
        BY <3>1, <3>2, Zenon
    <2>4. /\ idle_executors' \in SUBSET Executors
          /\ idle_not_accepting' \in SUBSET Executors
          /\ schedulable' \in SUBSET Executors
          /\ in_output' \in SUBSET Requests
          /\ todo' \in SUBSET Executors
      BY <1>4, <2>1, Zenon DEF Stage0, PlacementTypeOK
    <2>5. LocalTypeOK'
      BY <1>4, <2>4, Zenon DEF Stage0, LocalTypeOK
    <2> QED
      BY <1>1, <1>2, <2>3, <2>5, Zenon
  <1> QED
    BY <1>3, <1>4, Zenon

LEMMA PlaceType ==
  ASSUME PlacementTypeOK, LocalTypeOK, NEW r \in Requests, NEW from \in ExecutorOrNone,
         NEW to \in Executors, Place(r, from, to)
  PROVE  PlacementTypeOK'
  BY DEF PlacementTypeOK, Place, PlaceNow, PlaceLater, ExecutorOrNone

LEMMA UnplaceType ==
  ASSUME PlacementTypeOK, LocalTypeOK, NEW r \in Requests, cur # None, Unplace(r)
  PROVE  PlacementTypeOK'
  BY Zenon DEF PlacementTypeOK, LocalTypeOK, Unplace, ExecutorOrNone

LEMMA Stage1Type ==
  ASSUME TypeOK, UNCHANGED loopVars,
         \/ Stage1NextExecutor
         \/ \E r \in Requests : Stage1Request(r)
         \/ Stage1ExecutorDone
         \/ Stage1Done
  PROVE  TypeOK'
  <1> USE DEF TypeOK, SchedulerTypeOK
  <1>1. EngineTypeOK'
    BY LoopStutters, Zenon
  <1>2. CASE Stage1NextExecutor
    <2>1. LocalTypeOK'
      BY <1>2, Zenon DEF Stage1NextExecutor, LocalTypeOK, PlacementTypeOK, ExecutorOrNone
    <2> QED
      BY <1>1, <1>2, <2>1, ManagerStutters, ControlStutters, QueueStutters,
         PlacementStutters, StoreStutters, Zenon DEF Stage1NextExecutor
  <1>3. ASSUME NEW r \in Requests, Stage1Request(r) PROVE TypeOK'
    <2>1. LocalTypeOK'
      BY <1>3, Zenon DEF Stage1Request, LocalTypeOK
    <2>2. LeastLoaded \subseteq Executors
      BY Zenon DEF LeastLoaded, LocalTypeOK
    <2>3. cur \in ExecutorOrNone
      BY Zenon DEF LocalTypeOK
    <2>4. PlacementTypeOK'
      BY <1>3, <2>2, <2>3, PlaceType, UnplaceType, PlacementStutters, Zenon DEF Stage1Request
    <2> QED
      BY <1>1, <1>3, <2>1, <2>4, ManagerStutters, ControlStutters, QueueStutters,
         StoreStutters, Zenon DEF Stage1Request
  <1>4. CASE Stage1ExecutorDone
    <2>1. LocalTypeOK'
      BY <1>4, Zenon DEF Stage1ExecutorDone, LocalTypeOK, ExecutorOrNone
    <2> QED
      BY <1>1, <1>4, <2>1, ManagerStutters, ControlStutters, QueueStutters,
         PlacementStutters, StoreStutters, Zenon DEF Stage1ExecutorDone
  <1>5. CASE Stage1Done
    <2>1. ControlTypeOK'
      BY <1>5, ControlSteps, Zenon DEF Stage1Done, PC
    <2> QED
      BY <1>1, <1>5, <2>1, ManagerStutters, QueueStutters, PlacementStutters,
         StoreStutters, LocalStutters, Zenon DEF Stage1Done
  <1> QED
    BY <1>2, <1>3, <1>4, <1>5, Zenon

LEMMA Stage2Type ==
  ASSUME TypeOK, UNCHANGED loopVars,
         (\E r \in Requests : Stage2Request(r)) \/ Stage2Done
  PROVE  TypeOK'
  <1> USE DEF TypeOK, SchedulerTypeOK
  <1>1. EngineTypeOK'
    BY LoopStutters, Zenon
  <1>2. ASSUME NEW r \in Requests, Stage2Request(r) PROVE TypeOK'
    <2>1. LocalTypeOK'
      BY <1>2, Zenon DEF Stage2Request, LocalTypeOK
    <2>2. BestPlacements(r) \subseteq Executors
      BY Zenon DEF BestPlacements, LocalTypeOK
    <2>3. PlacementTypeOK'
      BY <1>2, <2>2, PlaceType, Zenon DEF Stage2Request, ExecutorOrNone
    <2> QED
      BY <1>1, <1>2, <2>1, <2>3, ManagerStutters, ControlStutters, QueueStutters,
         StoreStutters, Zenon DEF Stage2Request
  <1>3. CASE Stage2Done
    <2>1. ControlTypeOK'
      BY <1>3, ControlSteps, Zenon DEF Stage2Done, PC
    <2> QED
      BY <1>1, <1>3, <2>1, ManagerStutters, QueueStutters, PlacementStutters,
         StoreStutters, LocalStutters, Zenon DEF Stage2Done
  <1> QED
    BY <1>2, <1>3, Zenon

LEMMA Stage5Type ==
  ASSUME TypeOK, NEW r \in Requests, Stage5Request(r), UNCHANGED loopVars
  PROVE  TypeOK'
  <1> USE DEF TypeOK, SchedulerTypeOK
  <1>1. /\ ManagerTypeOK' /\ EngineTypeOK' /\ QueueTypeOK' /\ PlacementTypeOK'
        /\ unmasked' \in [Requests -> Nat]
    BY ManagerStutters, LoopStutters, QueueStutters, PlacementStutters, Zenon
       DEF Stage5Request
  <1>2. /\ in_output' \in SUBSET Requests
        /\ UNCHANGED <<idle_executors, idle_not_accepting, schedulable, old_executor,
                       todo, cur, cur_reqs>>
    BY Zenon DEF Stage5Request, LocalTypeOK
  <1>3. ASSUME NEW old \in ExecutorOrNone, NEW new \in ExecutorOrNone,
               Stage5Move(r, old, new)
        PROVE  /\ ControlTypeOK' /\ StoreTypeOK'
               /\ new_reqs' \in [Executors -> SUBSET Requests]
               /\ running_reqs' \in [Executors -> SUBSET Requests]
    <2>1. ControlTypeOK'
      BY <1>3, ControlSteps, ControlStutters, Zenon DEF Stage5Move, Failures
    <2> DEFINE freed == [e \in Executors |->
                            IF e = old THEN kv_blocks[e] \ {r} ELSE kv_blocks[e]]
               short == /\ new # None /\ Caching
                        /\ TotalTokens[freed[new] \cup {r}] > kv_capacity[new]
    <2>2. CASE short
      BY <1>3, <2>1, <2>2, StoreStutters, Zenon DEF Stage5Move, BlocksFreedOn, LocalTypeOK
    <2>3. CASE ~short
      <3>1. freed \in [Executors -> SUBSET Requests]
        BY Zenon DEF StoreTypeOK
      <3>2. /\ free_req_ids' = [e \in Executors |->
                  IF e = old THEN free_req_ids[e] \cup {r} ELSE free_req_ids[e]]
            /\ kv_blocks' = [e \in Executors |->
                  IF e = new /\ Caching THEN freed[e] \cup {r} ELSE freed[e]]
            /\ new_reqs' = [e \in Executors |->
                  IF e = new THEN new_reqs[e] \cup {r} ELSE new_reqs[e]]
            /\ UNCHANGED running_reqs
        BY <1>3, <2>3, Zenon DEF Stage5Move, BlocksFreedOn
      <3> HIDE DEF freed
      <3>3. StoreTypeOK'
        BY <3>1, <3>2, Zenon DEF StoreTypeOK
      <3>4. /\ new_reqs' \in [Executors -> SUBSET Requests]
            /\ running_reqs' \in [Executors -> SUBSET Requests]
        BY <3>2, Zenon DEF LocalTypeOK
      <3> QED
        BY <2>1, <3>3, <3>4, Zenon
    <2> QED
      BY <2>2, <2>3, Zenon
  <1>4. ASSUME Stage5Keep(r)
        PROVE  /\ ControlTypeOK' /\ StoreTypeOK'
               /\ new_reqs' \in [Executors -> SUBSET Requests]
               /\ running_reqs' \in [Executors -> SUBSET Requests]
    <2>1. ControlTypeOK'
      BY <1>4, ControlSteps, ControlStutters, Zenon DEF Stage5Keep, Failures
    <2>2. StoreTypeOK' /\ UNCHANGED new_reqs
      BY <1>4, StoreStutters, Zenon DEF Stage5Keep
    <2>3. running_reqs' \in [Executors -> SUBSET Requests]
      <3>1. \/ UNCHANGED running_reqs
            \/ running_reqs' = [running_reqs EXCEPT ![executor_id[r]] = @ \cup {r}]
        BY <1>4, Zenon DEF Stage5Keep
      <3>2. running_reqs \in [Executors -> SUBSET Requests]
        BY Zenon DEF LocalTypeOK
      <3> QED
        BY <3>1, <3>2
    <2> QED
      BY <2>1, <2>2, <2>3, Zenon DEF LocalTypeOK
  <1>5. old_executor[r] \in ExecutorOrNone /\ executor_id[r] \in ExecutorOrNone
    BY Zenon DEF LocalTypeOK, PlacementTypeOK
  <1>6. /\ ControlTypeOK' /\ StoreTypeOK'
        /\ new_reqs' \in [Executors -> SUBSET Requests]
        /\ running_reqs' \in [Executors -> SUBSET Requests]
    BY <1>3, <1>4, <1>5, Zenon DEF Stage5Request
  <1>7. LocalTypeOK'
    BY <1>2, <1>6, Zenon DEF LocalTypeOK
  <1> QED
    BY <1>1, <1>6, <1>7, Zenon

LEMMA ScheduleType ==
  ASSUME TypeOK, Schedule
  PROVE  TypeOK'
  BY UpdateExecutorsType, Stage0Type, Stage1Type, Stage2Type, Stage5Type, Zenon DEF Schedule

LEMMA Stage6Type ==
  ASSUME ManagerTypeOK, SchedulerTypeOK, Stage6
  PROVE  ManagerTypeOK' /\ SchedulerTypeOK'
  <1> USE DEF SchedulerTypeOK
  <1>1. QueueTypeOK' /\ PlacementTypeOK' /\ unmasked' \in [Requests -> Nat]
    BY QueueStutters, PlacementStutters, Zenon DEF Stage6
  <1>2. ControlTypeOK'
    BY ControlSteps, Zenon DEF Stage6, PC, Failures
  <1> DEFINE resting == (idle_executors \cup idle_not_accepting) \ Scheduled
             undrained == \E e \in resting \cap idle_not_accepting :
                             req_ids[e] \cup pending_request_additions[e] # {}
  <1>3. CASE undrained
    <2>1. UNCHANGED <<managerVars, storeVars, localVars>>
      BY <1>3, Zenon DEF Stage6, managerVars, storeVars
    <2> QED
      BY <1>1, <1>2, <2>1, ManagerStutters, StoreStutters, LocalStutters, Zenon
  <1>4. CASE ~undrained
    <2>1. /\ status' = [e \in Executors |->
                IF e \in Scheduled THEN "SCHEDULED"
                ELSE IF e \in resting THEN "IDLE" ELSE status[e]]
          /\ killer' = Notified(resting)
          /\ free_req_ids' = [e \in Executors |->
                IF e \in Scheduled THEN {} ELSE free_req_ids[e]]
          /\ ResetLocals
          /\ UNCHANGED <<waiting_to_be_killed, kv_blocks>>
      BY <1>4, Zenon DEF Stage6
    <2> HIDE DEF resting
    <2>2. ManagerTypeOK'
      BY <2>1, Zenon DEF ManagerTypeOK, Status, Notified, KillerPhase
    <2>3. StoreTypeOK'
      BY <2>1, Zenon DEF StoreTypeOK
    <2>4. LocalTypeOK'
      BY <2>1, Zenon DEF LocalTypeOK, ResetLocals, Nowhere, NoRequests, ExecutorOrNone
    <2> QED
      BY <1>1, <1>2, <2>2, <2>3, <2>4, Zenon
  <1> QED
    BY <1>3, <1>4, Zenon

LEMMA EngineStepType ==
  ASSUME TypeOK, EngineStep
  PROVE  TypeOK'
  <1>1. ManagerTypeOK' /\ SchedulerTypeOK'
    BY Stage6Type, Zenon DEF TypeOK, EngineStep
  <1>2. \A e \in Scheduled : e \in Executors /\ SchedulerOutput(e) \in Batches
    BY Zenon DEF TypeOK, SchedulerTypeOK, LocalTypeOK, StoreTypeOK, Scheduled,
           SchedulerOutput, Batches
  <1>3. EngineTypeOK'
    BY <1>2, Zenon DEF TypeOK, EngineTypeOK, EngineStep
  <1> QED
    BY <1>1, <1>3, Zenon DEF TypeOK

LEMMA FlushStepType ==
  ASSUME TypeOK, FlushStep
  PROVE  TypeOK'
  <1> USE DEF TypeOK
  <1>1. PICK e \in FlushTargets :
          IF scheduler_outputs[e] # NoBatch
          THEN /\ pc = "stage5" /\ in_output = {}
               /\ Fail("overlapping step")
               /\ UNCHANGED <<managerVars, queueVars, placementVars, storeVars, unmasked,
                              localVars, scheduler_outputs, ready_tasks>>
          ELSE /\ Stage6
               /\ scheduler_outputs' = [scheduler_outputs EXCEPT ![e] = EmptyBatch]
               /\ ready_tasks' = ready_tasks \cup {e}
    BY Zenon DEF FlushStep
  <1>2. e \in Executors
    BY Zenon DEF FlushTargets, SchedulerTypeOK, PlacementTypeOK
  <1>3. UNCHANGED <<client, input_queue, executor_output_queue, failed_tasks,
                    worker_requests>>
    BY Zenon DEF FlushStep
  <1>4. CASE scheduler_outputs[e] # NoBatch
    <2>1. ControlTypeOK'
      BY <1>1, <1>4, ControlSteps, Zenon DEF SchedulerTypeOK, Failures
    <2>2. UNCHANGED loopVars
      BY <1>1, <1>3, <1>4, Zenon DEF loopVars
    <2> QED
      BY <1>1, <1>4, <2>1, <2>2, ManagerStutters, QueueStutters, PlacementStutters,
         StoreStutters, LocalStutters, LoopStutters, Zenon DEF SchedulerTypeOK
  <1>5. CASE scheduler_outputs[e] = NoBatch
    <2>1. ManagerTypeOK' /\ SchedulerTypeOK'
      BY <1>1, <1>5, Stage6Type, Zenon
    <2>2. EmptyBatch \in Batches
      BY Zenon DEF EmptyBatch, Batches
    <2>3. EngineTypeOK'
      BY <1>1, <1>2, <1>3, <1>5, <2>2, Zenon DEF EngineTypeOK
    <2> QED
      BY <2>1, <2>3, Zenon
  <1> QED
    BY <1>4, <1>5, Zenon

LEMMA UpdateFromOutputType ==
  ASSUME TypeOK, NEW e \in Executors, NEW batch, NEW next \in PC,
         UpdateFromOutput(e, batch, next)
  PROVE  ManagerTypeOK' /\ SchedulerTypeOK'
  <1> USE DEF TypeOK, SchedulerTypeOK
  <1> DEFINE live == (batch.new \cup batch.cached) \cap requests
             Done(n) == {r \in live : unmasked[r] + n[r] = output_length[r]}
             Stray(n) == \E r \in Done(n) : ~IsRunning(r)
             Ends(n) == Stray(n) \/ killer[e] \in {"shutdown", "done"}
  <1>1. live \in SUBSET Requests
    BY Zenon DEF QueueTypeOK
  <1>2. PICK n \in StepResults(live) :
          /\ IF Ends(n)
             THEN /\ Fail(IF Stray(n) THEN "request not running" ELSE "executor gone")
                  /\ UNCHANGED <<requests, request_states, dropped_deferred_requests,
                                 unmasked, placementVars, storeVars, status, killer>>
             ELSE /\ unmasked' = [r \in Requests |->
                         IF r \in live THEN unmasked[r] + n[r] ELSE unmasked[r]]
                  /\ dropped_deferred_requests' = {}
                  /\ FreeRequests(Done(n))
                  /\ Goto(next)
                  /\ status' = [status EXCEPT ![e] =
                         IF /\ Caching /\ e \in waiting_to_be_killed
                            /\ (req_ids[e] \ Done(n)) \cup pending_request_additions[e] # {}
                         THEN "IDLE_NOT_ACCEPTING" ELSE "IDLE"]
                  /\ killer' = Notified({e})
          /\ UNCHANGED <<waiting_to_be_killed, deferred_requests, localVars>>
    BY Zenon DEF UpdateFromOutput
  <1> HIDE DEF live
  <1>3. \A r \in live : n[r] \in Nat
    <2>1. n \in [live -> 1 .. denoise_block_size]
      BY <1>2, Zenon DEF StepResults
    <2> QED
      BY <2>1, BlocksAssumption
  <1>4. Done(n) \in SUBSET Requests
    BY <1>1, Zenon
  <1> HIDE DEF Done, Stray, Ends
  <1>6. ControlTypeOK'
    BY <1>2, ControlSteps, Zenon DEF Failures
  <1>7. LocalTypeOK'
    BY <1>2, LocalStutters, Zenon
  <1>8. CASE Ends(n)
    <2>1. UNCHANGED <<managerVars, queueVars, unmasked, placementVars, storeVars>>
      BY <1>2, <1>8, Zenon DEF managerVars, queueVars
    <2> QED
      BY <1>6, <1>7, <2>1, ManagerStutters, QueueStutters, PlacementStutters,
         StoreStutters, Zenon
  <1>9. CASE ~Ends(n)
    <2>0. unmasked' \in [Requests -> Nat]
      <3>1. unmasked' = [r \in Requests |->
                    IF r \in live THEN unmasked[r] + n[r] ELSE unmasked[r]]
        BY <1>2, <1>9, Zenon
      <3> QED
        BY <1>3, <3>1
    <2>1. /\ requests' \in SUBSET Requests
          /\ request_states' \in SUBSET Requests
          /\ PlacementTypeOK'
          /\ StoreTypeOK'
      BY <1>2, <1>4, <1>9, FreeRequestsType, Zenon
    <2>2. QueueTypeOK'
      BY <1>2, <1>9, <2>1, Zenon DEF QueueTypeOK
    <2>3. status' \in [Executors -> Status]
      BY <1>2, <1>9, Zenon DEF ManagerTypeOK, Status
    <2>4. killer' \in [Executors -> KillerPhase]
      BY <1>2, <1>9, Zenon DEF ManagerTypeOK, Notified, KillerPhase
    <2>5. ManagerTypeOK'
      BY <1>2, <2>3, <2>4, Zenon DEF ManagerTypeOK
    <2> QED
      BY <1>6, <1>7, <2>0, <2>1, <2>2, <2>5, Zenon
  <1> QED
    BY <1>8, <1>9, Zenon

LEMMA ProcessOutputType ==
  ASSUME TypeOK, ProcessOutput
  PROVE  TypeOK'
  <1> DEFINE next == IF pc = "drain" THEN "drain" ELSE "output_sleep"
  <1>1. PICK e \in executor_output_queue :
          /\ UpdateFromOutput(e, scheduler_outputs[e], next)
          /\ executor_output_queue' = executor_output_queue \ {e}
          /\ scheduler_outputs' = [scheduler_outputs EXCEPT ![e] = NoBatch]
    BY Zenon DEF ProcessOutput
  <1>2. e \in Executors /\ next \in PC
    BY Zenon DEF TypeOK, EngineTypeOK, PC
  <1> HIDE DEF next
  <1>3. ManagerTypeOK' /\ SchedulerTypeOK'
    BY <1>1, <1>2, UpdateFromOutputType, Zenon
  <1>4. EngineTypeOK'
    BY <1>1, Zenon DEF TypeOK, EngineTypeOK, ProcessOutput
  <1> QED
    BY <1>3, <1>4, Zenon DEF TypeOK

LEMMA ExecutorTaskType ==
  ASSUME TypeOK, TasksStarted, NEW e \in Executors,
         ExecuteModel(e) \/ ModelDone(e) \/ ModelRaises(e)
  PROVE  TypeOK'
  <1> USE DEF TypeOK
  <1>1. CASE ExecuteModel(e)
    <2>1. ManagerTypeOK'
      BY <1>1, Zenon DEF ExecuteModel, UpdateStates, ManagerTypeOK, Status
    <2>2. ControlTypeOK'
      BY <1>1, ControlSteps, ControlStutters, Zenon DEF ExecuteModel, UpdateStates, SchedulerTypeOK, Failures
    <2>3. SchedulerTypeOK'
      BY <1>1, <2>2, QueueStutters, PlacementStutters, StoreStutters, LocalStutters, Zenon
         DEF ExecuteModel, UpdateStates, SchedulerTypeOK
    <2>4. (worker_requests[e] \ scheduler_outputs[e].free) \cup scheduler_outputs[e].new
            \in SUBSET Requests
      BY <1>1, Zenon DEF ExecuteModel, UpdateStates, TasksStarted, EngineTypeOK, Batches
    <2>5. EngineTypeOK'
      BY <1>1, <2>4, Zenon DEF ExecuteModel, UpdateStates, EngineTypeOK
    <2> QED
      BY <2>1, <2>3, <2>5, Zenon
  <1>2. CASE ModelDone(e)
    <2>1. ManagerTypeOK' /\ EngineTypeOK'
      BY <1>2, Zenon DEF ModelDone, ManagerTypeOK, Status, EngineTypeOK
    <2> QED
      BY <1>2, <2>1, SchedulerStutters, Zenon DEF ModelDone
  <1>3. CASE ModelRaises(e)
    <2>1. EngineTypeOK'
      BY <1>3, Zenon DEF ModelRaises, EngineTypeOK
    <2> QED
      BY <1>3, <2>1, ManagerStutters, SchedulerStutters, Zenon DEF ModelRaises
  <1> QED
    BY <1>1, <1>2, <1>3, Zenon

LEMMA ReconfigurationType ==
  ASSUME TypeOK, NEW e \in Executors, Launch(e) \/ StartKill(e) \/ ContinueKill(e)
  PROVE  TypeOK'
  <1>1. ManagerTypeOK'
    BY Zenon DEF TypeOK, ManagerTypeOK, Launch, StartKill, ContinueKill, LaunchExecutor,
           KillExecutor, KillerWakes, ShutdownDone, Status, KillerPhase
  <1> QED
    BY <1>1, SchedulerStutters, LoopStutters, Zenon
       DEF TypeOK, Launch, StartKill, ContinueKill

LEMMA NextTypeOK == TypeOK /\ TasksStarted /\ [Next]_vars => TypeOK'
  <1> SUFFICES ASSUME TypeOK, TasksStarted, [Next]_vars PROVE TypeOK'
    BY Zenon
  <1>1. CASE BusyLoop
    BY <1>1, HandleAddType, HandleAbortType, LoopControlType, AdmitType, ScheduleType,
       EngineStepType, FlushStepType, ProcessOutputType, Zenon DEF BusyLoop
  <1>2. CASE UNCHANGED vars
    BY <1>2, ManagerStutters, SchedulerStutters, LoopStutters, Zenon DEF vars, TypeOK
  <1> QED
    BY <1>1, <1>2, ClientType, ExecutorTaskType, ReconfigurationType, Zenon DEF Next

-----------------------------------------------------------------------------
(* Tasks and their batches.                                                *)

LEMMA Stage6Control == Stage6 => pc = "stage5" /\ pc' \in {"step_sleep", "dead"}
  BY Zenon DEF Stage6, Goto, Fail

\* The steps of schedule() and of the admission of deferred requests neither start
\* nor reach the sleep that lets new tasks run.
LEMMA ScheduleControl ==
  ASSUME TypeOK, Schedule \/ Admit
  PROVE  pc \notin {"step_sleep", "dead"} /\ UNCHANGED loopVars
  BY Zenon DEF Schedule, Admit, UpdateExecutors, Stage0, Stage1NextExecutor, Stage1Request,
         Stage1ExecutorDone, Stage1Done, Stage2Request, Stage2Done, Stage5Request,
         ExpireDeferred, ExpireDone, AdmitDeferred, AdmitReturn

LEMMA NextTasksStarted == TypeOK /\ TasksStarted /\ [Next]_vars => TasksStarted'
  <1> SUFFICES ASSUME TypeOK, TasksStarted, [Next]_vars PROVE TasksStarted'
    BY Zenon
  <1> USE DEF TasksStarted
  <1>1. CASE Schedule \/ Admit
    BY <1>1, ScheduleControl, Zenon DEF loopVars
  <1>2. CASE EngineStep
    <2>1. \A e \in Scheduled : e \in Executors /\ SchedulerOutput(e) \in Batches
      BY Zenon DEF TypeOK, SchedulerTypeOK, LocalTypeOK, StoreTypeOK, Scheduled,
             SchedulerOutput, Batches
    <2> QED
      BY <1>2, <2>1, Stage6Control, Zenon DEF EngineStep, TypeOK, EngineTypeOK
  <1>3. CASE FlushStep
    <2>1. EmptyBatch \in Batches
      BY Zenon DEF EmptyBatch, Batches
    <2>2. FlushTargets \subseteq Executors
      BY Zenon DEF FlushTargets, TypeOK, SchedulerTypeOK, PlacementTypeOK
    <2> QED
      BY <1>3, <2>1, <2>2, Stage6Control, Zenon DEF FlushStep, Fail, TypeOK, EngineTypeOK
  <1>4. CASE ProcessOutput
    BY <1>4, Zenon DEF ProcessOutput
  <1>5. CASE HandleAdd \/ HandleAbort
    BY <1>5, Zenon DEF HandleAdd, HandleAbort
  <1>6. CASE InputDone \/ StepDone \/ AwaitOutput \/ OutputSleepDone \/ DrainDone
    BY <1>6, Zenon DEF InputDone, StepDone, AwaitOutput, OutputSleepDone, DrainDone, loopVars,
                Goto, Call, ReadyTasksRan
  <1>7. ASSUME NEW r \in Requests, SendAdd(r) \/ SendAbort(r) PROVE TasksStarted'
    BY <1>7, Zenon DEF SendAdd, SendAbort, schedulerVars, controlVars
  <1>8. ASSUME NEW e \in Executors, ExecuteModel(e) \/ ModelDone(e) \/ ModelRaises(e)
        PROVE  TasksStarted'
    BY <1>8, Zenon DEF ExecuteModel, UpdateStates, ModelDone, ModelRaises, Fail, Suspended, schedulerVars, controlVars
  <1>9. ASSUME NEW e \in Executors, Launch(e) \/ StartKill(e) \/ ContinueKill(e)
        PROVE  TasksStarted'
    BY <1>9, Zenon DEF Launch, StartKill, ContinueKill, schedulerVars, controlVars, loopVars
  <1>10. CASE UNCHANGED vars
    BY <1>10, Zenon DEF vars, schedulerVars, controlVars, loopVars
  <1> QED
    BY <1>1, <1>2, <1>3, <1>4, <1>5, <1>6, <1>7, <1>8, <1>9, <1>10, Zenon DEF Next, BusyLoop

\* Every variable keeps its type, and every execute_model task starts, with the
\* batch it was created for, before the busy loop goes on, for any number of
\* requests and executors, any profile and any limits.  Types alone are not
\* inductive: what a worker caches is a set of requests because its task finds a
\* batch.
THEOREM TypeCorrect == Spec => [](TypeOK /\ TasksStarted)
  <1>1. Init => TypeOK /\ TasksStarted
    BY InitTypeOK, Zenon DEF Init, TasksStarted
  <1>2. TypeOK /\ TasksStarted /\ [Next]_vars => TypeOK' /\ TasksStarted'
    BY NextTypeOK, NextTasksStarted, Zenon
  <1> QED
    BY <1>1, <1>2, PTL DEF Spec

\* Every created task has started when the busy loop waits or schedules again.
THEOREM TasksAlwaysStarted == Spec => []TasksStarted
  BY TypeCorrect, PTL

-----------------------------------------------------------------------------
(* The bookkeeping of placements and the token budget.                     *)

LEMMA PlacementFrame ==
  ASSUME PlacementConsistent, UNCHANGED placementVars, request_states \subseteq request_states'
  PROVE  PlacementConsistent'
  BY ZenonT(30) DEF PlacementConsistent, placementVars

\* Outside schedule() its locals are empty, so nothing else can upset them.
LEMMA LocalsFrame ==
  ASSUME ScheduleLocalsConsistent,
         pc \notin {"init", "stage1", "stage2", "stage5", "dead"}, pc' # "init",
         UNCHANGED localVars
  PROVE  ScheduleLocalsConsistent'
  BY Zenon DEF ScheduleLocalsConsistent, localVars

\* TotalTokens is monotone, and grows by at most the size of a request added.
LEMMA TotalTokensMonotone ==
  ASSUME NEW S \in SUBSET Requests, NEW T \in SUBSET Requests, S \subseteq T
  PROVE  TotalTokens[S] <= TotalTokens[T]
  <1>1. T = S \cup (T \ S) /\ S \cap (T \ S) = {} /\ T \ S \in SUBSET Requests
    BY Zenon
  <1>2. TotalTokens[T] = TotalTokens[S] + TotalTokens[T \ S]
    BY <1>1, TotalTokensAssumption, Zenon
  <1>3. TotalTokens[S] \in Nat /\ TotalTokens[T \ S] \in Nat
    BY <1>1, TotalTokensAssumption, Zenon
  <1> QED
    BY <1>2, <1>3

LEMMA TotalTokensAdd ==
  ASSUME NEW S \in SUBSET Requests, NEW r \in Requests
  PROVE  TotalTokens[S \cup {r}] <= TotalTokens[S] + num_tokens[r]
  <1>1. TotalTokens[S] \in Nat /\ num_tokens[r] \in Nat
    BY TotalTokensAssumption, RequestsAssumption, Zenon
  <1>2. CASE r \in S
    <2>1. S \cup {r} = S
      BY <1>2, Zenon
    <2>2. TotalTokens[S \cup {r}] = TotalTokens[S]
      BY <2>1, Zenon
    <2> QED
      BY <1>1, <2>2
  <1>3. CASE r \notin S
    <2>1. S \cap {r} = {} /\ {r} \in SUBSET Requests
      BY <1>3, Zenon
    <2>2. TotalTokens[S \cup {r}] = TotalTokens[S] + TotalTokens[{r}]
      BY <2>1, TotalTokensAssumption, Zenon
    <2>3. TotalTokens[{r}] = num_tokens[r]
      BY TotalTokensAssumption, Zenon
    <2> QED
      BY <1>1, <2>2, <2>3
  <1> QED
    BY <1>2, <1>3, Zenon

LEMMA BudgetFrame ==
  ASSUME WithinTokenBudget, UNCHANGED <<req_ids, pending_request_additions>>
  PROVE  WithinTokenBudget'
  BY Zenon DEF WithinTokenBudget, ProjectedBatchSize

LEMMA BudgetShrinks ==
  ASSUME PlacementTypeOK, PlacementTypeOK', WithinTokenBudget,
         \A e \in Executors : req_ids'[e] \cup pending_request_additions'[e]
                                \subseteq req_ids[e] \cup pending_request_additions[e]
  PROVE  WithinTokenBudget'
  <1> SUFFICES ASSUME NEW e \in Executors
               PROVE  TotalTokens[req_ids'[e] \cup pending_request_additions'[e]]
                        <= max_num_scheduled_tokens
    BY Zenon DEF WithinTokenBudget, ProjectedBatchSize
  <1> DEFINE before == req_ids[e] \cup pending_request_additions[e]
             after  == req_ids'[e] \cup pending_request_additions'[e]
  <1>1. before \in SUBSET Requests /\ after \in SUBSET Requests /\ after \subseteq before
    BY Zenon DEF PlacementTypeOK
  <1>2. TotalTokens[before] <= max_num_scheduled_tokens
    BY Zenon DEF WithinTokenBudget, ProjectedBatchSize
  <1> HIDE DEF before, after
  <1>3. TotalTokens[after] <= TotalTokens[before]
    BY <1>1, TotalTokensMonotone, Zenon
  <1>4. TotalTokens[after] \in Nat /\ TotalTokens[before] \in Nat
    BY <1>1, TotalTokensAssumption, Zenon
  <1>5. TotalTokens[after] <= max_num_scheduled_tokens
    BY <1>2, <1>3, <1>4, RequestsAssumption
  <1> QED
    BY <1>5, Zenon DEF after

\* Freeing running requests keeps both sides of the bookkeeping in step.
LEMMA FreeRequestsPlacement ==
  ASSUME QueueTypeOK, PlacementTypeOK, PlacementTypeOK', PlacementConsistent,
         WithinTokenBudget, NEW S \in SUBSET Requests, \A r \in S : IsRunning(r),
         FreeRequests(S)
  PROVE  PlacementConsistent' /\ WithinTokenBudget'
  <1>1. /\ req_ids' = [e \in Executors |-> req_ids[e] \ S]
        /\ executor_id' = [r \in Requests |-> IF r \in S THEN None ELSE executor_id[r]]
        /\ pending_executor_id' =
              [r \in Requests |-> IF r \in S THEN None ELSE pending_executor_id[r]]
        /\ request_states' = request_states \ S
        /\ UNCHANGED <<executor_states, pending_request_additions>>
    BY Zenon DEF FreeRequests
  <1>2. \A e \in Executors : req_ids'[e] \cup pending_request_additions'[e]
                               \subseteq req_ids[e] \cup pending_request_additions[e]
    BY <1>1, Zenon
  <1>3. \A r \in S : executor_id[r] # None
    BY Zenon DEF IsRunning
  <1>4. PlacementConsistent'
    BY <1>1, <1>3, RequestsAssumption, SMTT(30), Zenon
       DEF PlacementConsistent, PlacementTypeOK, QueueTypeOK
  <1> QED
    BY <1>2, <1>4, BudgetShrinks, Zenon

Bookkeeping == PlacementConsistent /\ ScheduleLocalsConsistent /\ WithinTokenBudget

\* The steps that neither place nor free a request, outside schedule().
LEMMA BookkeepingFrame ==
  ASSUME Bookkeeping, UNCHANGED <<placementVars, localVars>>,
         request_states \subseteq request_states',
         pc \notin {"init", "stage1", "stage2", "stage5", "dead"}, pc' # "init"
  PROVE  Bookkeeping'
  BY PlacementFrame, LocalsFrame, BudgetFrame, Zenon DEF Bookkeeping, placementVars

LEMMA InputBookkeeping ==
  ASSUME TypeOK, TypeOK', Bookkeeping, HandleAdd \/ HandleAbort
  PROVE  Bookkeeping'
  <1>1. CASE HandleAdd
    <2>1. request_states \subseteq request_states'
      BY <1>1, Zenon DEF HandleAdd, AddRequest
    <2>2. pc' # "init" /\ pc \notin {"init", "stage1", "stage2", "stage5", "dead"}
      BY <1>1, Zenon DEF HandleAdd, Goto
    <2> QED
      BY <1>1, <2>1, <2>2, BookkeepingFrame, Zenon DEF HandleAdd
  <1>2. CASE HandleAbort
    <2> DEFINE r == Head(input_queue).req
    <2>1. r \in Requests
      BY <1>2, QueueHead, Zenon DEF TypeOK, EngineTypeOK, HandleAbort
    <2>2. FinishRequest(r) /\ pc \notin {"init", "stage1", "stage2", "stage5", "dead"}
      BY <1>2, Zenon DEF HandleAbort
    <2> HIDE DEF r
    <2>3. CASE r \in request_states /\ IsRunning(r)
      <3>1. FreeRequests({r}) /\ Call("input") /\ UNCHANGED localVars
        BY <2>2, <2>3, Zenon DEF FinishRequest
      <3>2. PlacementConsistent' /\ WithinTokenBudget'
        BY <2>1, <2>3, <3>1, FreeRequestsPlacement, Zenon DEF TypeOK, SchedulerTypeOK, Bookkeeping
      <3>3. ScheduleLocalsConsistent'
        BY <2>2, <3>1, LocalsFrame, Zenon DEF Call, Bookkeeping
      <3> QED
        BY <3>2, <3>3, Zenon DEF Bookkeeping
    <2>4. CASE ~(r \in request_states /\ IsRunning(r))
      <3>1. /\ UNCHANGED <<placementVars, localVars, request_states>>
            /\ pc' # "init"
        BY <2>2, <2>4, Zenon DEF FinishRequest, Fail, Call, DropDeferred, queueVars
      <3> QED
        BY <2>2, <3>1, BookkeepingFrame, Zenon
    <2> QED
      BY <2>3, <2>4, Zenon
  <1> QED
    BY <1>1, <1>2, Zenon

LEMMA AdmitBookkeeping ==
  ASSUME TypeOK, Bookkeeping, Admit
  PROVE  Bookkeeping'
  <1>1. /\ UNCHANGED <<placementVars, localVars>>
        /\ request_states \subseteq request_states'
    BY Zenon DEF Admit, ExpireDeferred, DropDeferred, ExpireDone, AdmitDeferred, AdmitReturn,
           queueVars
  <1>2. pc \in {"expire", "admit"}
    BY Zenon DEF Admit, ExpireDeferred, ExpireDone, AdmitDeferred, AdmitReturn
  <1>3. pc' # "init"
    BY Zenon DEF Admit, ExpireDeferred, ExpireDone, AdmitDeferred, AdmitReturn, Goto,
           controlVars, TypeOK, SchedulerTypeOK, ControlTypeOK
  <1> QED
    BY <1>1, <1>2, <1>3, BookkeepingFrame, Zenon

LEMMA UpdateExecutorsBookkeeping ==
  ASSUME TypeOK, TypeOK', Bookkeeping, UpdateExecutors
  PROVE  Bookkeeping'
  <1> USE DEF Bookkeeping
  <1> DEFINE alive   == {e \in Present : status[e] # "KILLING"}
             removed == (executor_states \cup Present) \ alive
  <1>1. CASE alive = {} /\ removed # {}
    BY <1>1, BookkeepingFrame, Zenon DEF UpdateExecutors, Fail, queueVars
  <1>2. CASE ~(alive = {} /\ removed # {})
    <2>1. /\ executor_states' = alive
          /\ req_ids' = [e \in Executors |-> IF e \in removed THEN {} ELSE req_ids[e]]
          /\ pending_request_additions' = [e \in Executors |->
                IF e \in removed THEN {} ELSE pending_request_additions[e]]
          /\ executor_id' = [r \in Requests |->
                IF executor_id[r] \in removed THEN None ELSE executor_id[r]]
          /\ pending_executor_id' = [r \in Requests |->
                IF pending_executor_id[r] \in removed THEN None ELSE pending_executor_id[r]]
          /\ UNCHANGED <<request_states, status>>
          /\ UNCHANGED <<schedulable, todo, cur, cur_reqs>>
          /\ pc = "update_executors" /\ pc' = "init"
      BY <1>2, Zenon DEF UpdateExecutors, PendingWithout, Goto, queueVars, managerVars
    <2>2. removed \subseteq Executors /\ None \notin removed
      BY RequestsAssumption, Zenon DEF Present, TypeOK, SchedulerTypeOK, PlacementTypeOK
    <2>3. \A e \in Executors \ alive : e \in removed \/ e \notin executor_states
      BY Zenon
    <2>4. alive' = alive
      BY <2>1, Zenon DEF Present
    <2>5. ScheduleLocalsConsistent'
      BY <2>1, <2>4, SMTT(30), Zenon DEF ScheduleLocalsConsistent
    <2> HIDE DEF alive, removed
    <2>6. PlacementConsistent'
      BY <2>1, <2>2, <2>3, RequestsAssumption, SMTT(30), Zenon
         DEF PlacementConsistent, TypeOK, SchedulerTypeOK, PlacementTypeOK, ExecutorOrNone
    <2>7. \A e \in Executors : req_ids'[e] \cup pending_request_additions'[e]
                                 \subseteq req_ids[e] \cup pending_request_additions[e]
      BY <2>1, Zenon
    <2> QED
      BY <2>5, <2>6, <2>7, BudgetShrinks, SMTT(30), Zenon DEF TypeOK, SchedulerTypeOK
  <1> QED
    BY <1>1, <1>2, Zenon

LEMMA Stage0Bookkeeping ==
  ASSUME TypeOK, TypeOK', Bookkeeping, Stage0
  PROVE  Bookkeeping'
  <1> USE DEF Bookkeeping
  <1> DEFINE idle       == {e \in Executors : status[e] = "IDLE"}
             restricted == {e \in Executors : status[e] = "IDLE_NOT_ACCEPTING"}
             considered == idle \cup restricted
             committed  == UNION {pending_request_additions[e] : e \in considered}
             stays      == considered = {} \/ \E r \in committed : IsRunning(r)
  <1>1. UNCHANGED <<request_states, executor_states>>
    BY Zenon DEF Stage0, queueVars
  <1>2. CASE stays
    <2>1. /\ UNCHANGED placementVars
          /\ UNCHANGED <<schedulable, todo, cur, cur_reqs>>
          /\ pc = "init" /\ pc' \in {"step_sleep", "dead"}
      BY <1>2, Zenon DEF Stage0, placementVars, Goto, Fail
    <2>2. ScheduleLocalsConsistent'
      BY <2>1, Zenon DEF ScheduleLocalsConsistent
    <2> QED
      BY <1>1, <2>1, <2>2, PlacementFrame, BudgetFrame, SMTT(30), Zenon DEF placementVars
  <1>3. CASE ~stays
    <2>1. /\ req_ids' = [e \in Executors |-> IF e \in considered
                THEN req_ids[e] \cup pending_request_additions[e] ELSE req_ids[e]]
          /\ pending_request_additions' = [e \in Executors |->
                IF e \in considered THEN {} ELSE pending_request_additions[e]]
          /\ executor_id' = [r \in Requests |->
                IF r \in committed THEN pending_executor_id[r] ELSE executor_id[r]]
          /\ UNCHANGED pending_executor_id
          /\ schedulable' = executor_states \ considered
          /\ todo' = considered
          /\ UNCHANGED <<cur, cur_reqs>>
          /\ pc = "init" /\ pc' = "stage1"
      BY <1>3, Zenon DEF Stage0, Goto
    <2>2. considered \subseteq executor_states
      BY <2>1, Zenon DEF ScheduleLocalsConsistent, Present
    <2>3. considered \subseteq Executors
      BY Zenon
    <2>4. \A r \in Requests : r \in committed <=>
            \E e \in considered : r \in pending_request_additions[e]
      BY Zenon
    <2> HIDE DEF considered, committed
    <2>5. ScheduleLocalsConsistent'
      BY <1>1, <2>1, <2>2, SMTT(30), Zenon DEF ScheduleLocalsConsistent
    <2>6. PlacementConsistent'
      BY <1>1, <2>1, <2>2, <2>3, <2>4, RequestsAssumption, SMTT(30), Zenon
         DEF PlacementConsistent, TypeOK, SchedulerTypeOK, PlacementTypeOK, ExecutorOrNone
    <2>7. \A e \in Executors : req_ids'[e] \cup pending_request_additions'[e]
                                 \subseteq req_ids[e] \cup pending_request_additions[e]
      BY <2>1, Zenon
    <2> QED
      BY <2>5, <2>6, <2>7, BudgetShrinks, SMTT(30), Zenon DEF TypeOK, SchedulerTypeOK
  <1> QED
    BY <1>2, <1>3, Zenon

\* A request joins an executor it fits on, now or later.
LEMMA PlaceBookkeeping ==
  ASSUME TypeOK, PlacementTypeOK', PlacementConsistent, WithinTokenBudget,
         NEW r \in Requests, NEW from \in ExecutorOrNone, NEW to \in executor_states,
         r \in request_states, UNCHANGED request_states,
         executor_id[r] = from, from # None \/ pending_executor_id[r] = None,
         to # from, Fits(to, r), Place(r, from, to)
  PROVE  PlacementConsistent' /\ WithinTokenBudget'
  <1>0. to \in Executors /\ \A e \in Executors : e # None
    BY RequestsAssumption, Zenon DEF TypeOK, SchedulerTypeOK, PlacementTypeOK
  <1>1. PlacementConsistent'
    <2>0. PlacementTypeOK
      BY Zenon DEF TypeOK, SchedulerTypeOK
    <2>1. CASE to \in idle_executors
      <3>1. /\ req_ids' = [e \in Executors |->
                  IF e = to THEN req_ids[e] \cup {r}
                  ELSE IF e = from THEN req_ids[e] \ {r} ELSE req_ids[e]]
            /\ executor_id' = [executor_id EXCEPT ![r] = to]
            /\ pending_executor_id' = [pending_executor_id EXCEPT ![r] = to]
            /\ UNCHANGED pending_request_additions
            /\ UNCHANGED executor_states
        BY <2>1, Zenon DEF Place, PlaceNow, PlaceLater
      <3>2. \A e \in Executors, q \in Requests : q \in req_ids'[e] <=> executor_id'[q] = e
        BY <1>0, <2>0, <3>1, SMTT(30), Zenon DEF PlacementConsistent, PlacementTypeOK
      <3>3. \A e \in Executors, q \in Requests : q \in pending_request_additions'[e] <=>
              executor_id'[q] = None /\ pending_executor_id'[q] = e
        BY <1>0, <2>0, <3>1, SMTT(30), Zenon DEF PlacementConsistent, PlacementTypeOK
      <3>4. \A q \in Requests :
              /\ executor_id'[q] # None => pending_executor_id'[q] = executor_id'[q]
              /\ pending_executor_id'[q] # None => q \in request_states'
        BY <1>0, <2>0, <3>1, SMTT(30), Zenon DEF PlacementConsistent, PlacementTypeOK
      <3>5. \A e \in Executors \ executor_states' :
              req_ids'[e] = {} /\ pending_request_additions'[e] = {}
        BY <1>0, <2>0, <3>1, SMTT(30), Zenon DEF PlacementConsistent, PlacementTypeOK
      <3> QED
        BY <3>2, <3>3, <3>4, <3>5, SMTT(30), Zenon DEF PlacementConsistent
    <2>2. CASE to \notin idle_executors
      <3>1. /\ req_ids' = [e \in Executors |->
                  IF e = from THEN req_ids[e] \ {r} ELSE req_ids[e]]
            /\ pending_request_additions' =
                  [pending_request_additions EXCEPT ![to] = @ \cup {r}]
            /\ executor_id' = [executor_id EXCEPT ![r] = None]
            /\ pending_executor_id' = [pending_executor_id EXCEPT ![r] = to]
            /\ UNCHANGED executor_states
        BY <2>2, Zenon DEF Place, PlaceNow, PlaceLater
      <3>2. \A e \in Executors, q \in Requests : q \in req_ids'[e] <=> executor_id'[q] = e
        BY <1>0, <2>0, <3>1, SMTT(30), Zenon DEF PlacementConsistent, PlacementTypeOK
      <3>3. \A e \in Executors, q \in Requests : q \in pending_request_additions'[e] <=>
              executor_id'[q] = None /\ pending_executor_id'[q] = e
        BY <1>0, <2>0, <3>1, SMTT(30), Zenon DEF PlacementConsistent, PlacementTypeOK
      <3>4. \A q \in Requests :
              /\ executor_id'[q] # None => pending_executor_id'[q] = executor_id'[q]
              /\ pending_executor_id'[q] # None => q \in request_states'
        BY <1>0, <2>0, <3>1, SMTT(30), Zenon DEF PlacementConsistent, PlacementTypeOK
      <3>5. \A e \in Executors \ executor_states' :
              req_ids'[e] = {} /\ pending_request_additions'[e] = {}
        BY <1>0, <2>0, <3>1, SMTT(30), Zenon DEF PlacementConsistent, PlacementTypeOK
      <3> QED
        BY <3>2, <3>3, <3>4, <3>5, SMTT(30), Zenon DEF PlacementConsistent
    <2> QED
      BY <2>1, <2>2, Zenon
  <1> DEFINE Before(e) == req_ids[e] \cup pending_request_additions[e]
             After(e)  == req_ids'[e] \cup pending_request_additions'[e]
  <1>2. \A e \in Executors : Before(e) \in SUBSET Requests /\ After(e) \in SUBSET Requests
    BY Zenon DEF TypeOK, SchedulerTypeOK, PlacementTypeOK
  <1>3. \A e \in Executors : After(e) \subseteq Before(e) \/
                             (e = to /\ After(e) = Before(e) \cup {r})
    <2>1. CASE to \in idle_executors
      BY <1>0, <2>1, SMTT(30), Zenon DEF Place, PlaceNow, TypeOK, SchedulerTypeOK, PlacementTypeOK
    <2>2. CASE to \notin idle_executors
      BY <1>0, <2>2, SMTT(30), Zenon DEF Place, PlaceLater, TypeOK, SchedulerTypeOK, PlacementTypeOK
    <2> QED
      BY <2>1, <2>2, Zenon
  <1>4. \A e \in Executors : TotalTokens[Before(e)] <= max_num_scheduled_tokens
    BY Zenon DEF WithinTokenBudget, ProjectedBatchSize
  <1>5. TotalTokens[Before(to)] + num_tokens[r] <= max_num_scheduled_tokens
    BY Zenon DEF Fits, ProjectedBatchSize
  <1>6. \A e \in Executors : TotalTokens[After(e)] <= max_num_scheduled_tokens
    <2> SUFFICES ASSUME NEW e \in Executors
                 PROVE  TotalTokens[After(e)] <= max_num_scheduled_tokens
      BY Zenon
    <2> HIDE DEF Before, After
    <2>1. TotalTokens[After(e)] \in Nat /\ TotalTokens[Before(e)] \in Nat /\
          max_num_scheduled_tokens \in Nat /\ num_tokens[r] \in Nat
      BY <1>2, TotalTokensAssumption, RequestsAssumption, Zenon
    <2>2. CASE After(e) \subseteq Before(e)
      <3>1. TotalTokens[After(e)] <= TotalTokens[Before(e)]
        BY <1>2, <2>2, TotalTokensMonotone, SMTT(30), Zenon
      <3> QED
        BY <1>4, <2>1, <3>1
    <2>3. CASE e = to /\ After(e) = Before(e) \cup {r}
      <3>1. TotalTokens[After(e)] <= TotalTokens[Before(e)] + num_tokens[r]
        BY <1>2, <2>3, TotalTokensAdd, SMTT(30), Zenon
      <3>2. TotalTokens[Before(e)] + num_tokens[r] <= max_num_scheduled_tokens
        BY <1>5, <2>3, Zenon
      <3> QED
        BY <2>1, <3>1, <3>2, SMTT(30), Zenon
    <2> QED
      BY <1>3, <2>2, <2>3, Zenon
  <1> QED
    BY <1>1, <1>6, Zenon DEF WithinTokenBudget, ProjectedBatchSize

LEMMA Stage1RequestBookkeeping ==
  ASSUME TypeOK, TypeOK', Bookkeeping, NEW r \in Requests, Stage1Request(r)
  PROVE  Bookkeeping'
  <1> USE DEF Bookkeeping
  <1>1. /\ pc = "stage1" /\ pc' = pc /\ cur # None /\ cur' = cur
        /\ cur_reqs' = cur_reqs \ {r}
        /\ UNCHANGED <<todo, schedulable, request_states>>
    BY SMTT(30), Zenon DEF Stage1Request, controlVars, queueVars
  <1>2. cur \in Executors /\ r \in req_ids[cur] /\ executor_id[r] = cur
    BY <1>1, RequestsAssumption, SMTT(30), Zenon
       DEF Stage1Request, TypeOK, SchedulerTypeOK, LocalTypeOK, ScheduleLocalsConsistent,
           PlacementConsistent, ExecutorOrNone
  <1>3. r \in request_states /\ pending_executor_id[r] = cur
    BY <1>1, <1>2, SMTT(30), Zenon DEF PlacementConsistent
  <1>4. /\ PlacementConsistent' /\ WithinTokenBudget' /\ UNCHANGED executor_states
        /\ req_ids[cur] \ {r} \subseteq req_ids'[cur]
    <2>1. CASE UNCHANGED placementVars
      BY <1>1, <2>1, PlacementFrame, BudgetFrame, SMTT(30), Zenon DEF placementVars
    <2>2. CASE Unplace(r)
      <3>1. /\ req_ids' = [req_ids EXCEPT ![cur] = @ \ {r}]
            /\ executor_id' = [executor_id EXCEPT ![r] = None]
            /\ pending_executor_id' = [pending_executor_id EXCEPT ![r] = None]
            /\ UNCHANGED <<executor_states, pending_request_additions>>
        BY <2>2, SMTT(30), Zenon DEF Unplace
      <3>2. PlacementConsistent'
        BY <1>1, <1>2, <1>3, <3>1, RequestsAssumption, SMTT(30), Zenon
           DEF PlacementConsistent, TypeOK, SchedulerTypeOK, PlacementTypeOK
      <3>3. \A e \in Executors : req_ids'[e] \cup pending_request_additions'[e]
                                   \subseteq req_ids[e] \cup pending_request_additions[e]
        BY <3>1, SMTT(30), Zenon DEF TypeOK, SchedulerTypeOK, PlacementTypeOK
      <3>4. WithinTokenBudget'
        BY <3>3, BudgetShrinks, SMTT(30), Zenon DEF TypeOK, SchedulerTypeOK
      <3> QED
        BY <1>2, <3>1, <3>2, <3>4, SMTT(30), Zenon DEF TypeOK, SchedulerTypeOK, PlacementTypeOK
    <2>3. CASE \E b \in LeastLoaded : IsBetter(b, r) /\ Place(r, cur, b)
      <3>1. PICK b \in LeastLoaded : IsBetter(b, r) /\ Place(r, cur, b)
        BY <2>3, Zenon
      <3>2. b \in executor_states /\ b # cur /\ b \in Executors
        BY <1>1, SMTT(30), Zenon
           DEF LeastLoaded, ScheduleLocalsConsistent, TypeOK, SchedulerTypeOK, LocalTypeOK
      <3>3. PlacementConsistent' /\ WithinTokenBudget'
        BY <1>1, <1>2, <1>3, <3>1, <3>2, PlaceBookkeeping, SMTT(30), Zenon
           DEF IsBetter, TypeOK, SchedulerTypeOK, ExecutorOrNone
      <3>4. UNCHANGED executor_states /\ req_ids[cur] \ {r} \subseteq req_ids'[cur]
        BY <1>2, <3>1, <3>2, Zenon DEF Place, PlaceNow, PlaceLater
      <3> QED
        BY <3>3, <3>4, Zenon
    <2> QED
      BY <2>1, <2>2, <2>3, Zenon DEF Stage1Request
  <1>5. ScheduleLocalsConsistent'
    BY <1>1, <1>4, Zenon DEF ScheduleLocalsConsistent
  <1> QED
    BY <1>4, <1>5, Zenon

LEMMA Stage1Bookkeeping ==
  ASSUME TypeOK, Bookkeeping, Stage1NextExecutor \/ Stage1ExecutorDone \/ Stage1Done
  PROVE  Bookkeeping'
  <1> USE DEF Bookkeeping
  <1>1. UNCHANGED placementVars /\ UNCHANGED request_states /\ pc = "stage1"
    BY Zenon DEF Stage1NextExecutor, Stage1ExecutorDone, Stage1Done, queueVars
  <1>2. PlacementConsistent' /\ WithinTokenBudget'
    BY <1>1, PlacementFrame, BudgetFrame, Zenon DEF placementVars
  <1>3. CASE Stage1NextExecutor
    <2>1. cur' \in todo /\ cur_reqs' = req_ids[cur'] /\ UNCHANGED <<pc, todo, schedulable>>
      BY <1>3, Zenon DEF Stage1NextExecutor, controlVars
    <2>2. ScheduleLocalsConsistent'
      BY <1>1, <2>1, Zenon DEF ScheduleLocalsConsistent, placementVars
    <2> QED
      BY <1>2, <2>2, Zenon
  <1>4. CASE Stage1ExecutorDone
    <2>1. /\ cur # None /\ cur' = None /\ todo' = todo \ {cur}
          /\ schedulable' \subseteq schedulable \cup {cur} /\ UNCHANGED pc
      BY <1>4, Zenon DEF Stage1ExecutorDone, controlVars
    <2>2. ScheduleLocalsConsistent'
      BY <1>1, <2>1, Zenon DEF ScheduleLocalsConsistent, placementVars
    <2> QED
      BY <1>2, <2>2, Zenon
  <1>5. CASE Stage1Done
    <2>1. todo = {} /\ pc' = "stage2" /\ UNCHANGED <<cur, cur_reqs, todo, schedulable>>
      BY <1>5, Zenon DEF Stage1Done, Goto, localVars
    <2>2. ScheduleLocalsConsistent'
      BY <1>1, <2>1, Zenon DEF ScheduleLocalsConsistent, placementVars
    <2> QED
      BY <1>2, <2>2, Zenon
  <1> QED
    BY <1>3, <1>4, <1>5, Zenon

LEMMA Stage2Bookkeeping ==
  ASSUME TypeOK, TypeOK', Bookkeeping, (\E r \in Requests : Stage2Request(r)) \/ Stage2Done
  PROVE  Bookkeeping'
  <1> USE DEF Bookkeeping
  <1>1. ASSUME NEW r \in Requests, Stage2Request(r) PROVE Bookkeeping'
    <2>1. PICK b \in BestPlacements(r) : Place(r, None, b)
      BY <1>1, Zenon DEF Stage2Request
    <2>2. b \in executor_states /\ b \in Executors /\ Fits(b, r)
      BY Zenon DEF BestPlacements, ScheduleLocalsConsistent, TypeOK, SchedulerTypeOK, LocalTypeOK
    <2>3. /\ r \in request_states /\ executor_id[r] = None /\ pending_executor_id[r] = None
          /\ UNCHANGED <<request_states, pc, cur, cur_reqs, todo, schedulable>>
          /\ pc = "stage2"
      BY <1>1, Zenon DEF Stage2Request, FirstUnscheduled, IsUnscheduled, queueVars, controlVars
    <2>4. PlacementConsistent' /\ WithinTokenBudget'
      BY <2>1, <2>2, <2>3, PlaceBookkeeping, RequestsAssumption, Zenon
         DEF TypeOK, SchedulerTypeOK, ExecutorOrNone
    <2>5. UNCHANGED executor_states
      BY <2>1, Zenon DEF Place, PlaceNow, PlaceLater
    <2>6. ScheduleLocalsConsistent'
      BY <2>3, <2>5, Zenon DEF ScheduleLocalsConsistent
    <2> QED
      BY <2>4, <2>6, Zenon
  <1>2. CASE Stage2Done
    <2>1. /\ UNCHANGED <<placementVars, request_states, cur, cur_reqs, todo, schedulable>>
          /\ pc = "stage2" /\ pc' = "stage5"
      BY <1>2, Zenon DEF Stage2Done, Goto, queueVars, localVars
    <2>2. ScheduleLocalsConsistent'
      BY <2>1, Zenon DEF ScheduleLocalsConsistent, placementVars
    <2> QED
      BY <2>1, <2>2, PlacementFrame, BudgetFrame, Zenon DEF placementVars
  <1> QED
    BY <1>1, <1>2, Zenon

LEMMA Stage5Bookkeeping ==
  ASSUME TypeOK, Bookkeeping, NEW r \in Requests, Stage5Request(r)
  PROVE  Bookkeeping'
  <1> USE DEF Bookkeeping
  <1>1. /\ UNCHANGED <<placementVars, request_states, cur, cur_reqs, todo, schedulable>>
        /\ pc = "stage5"
    BY Zenon DEF Stage5Request, queueVars
  <1>2. pc' \in {"stage5", "dead"}
    BY <1>1, Zenon DEF Stage5Request, Stage5Move, Stage5Keep, Fail, controlVars
  <1>3. ScheduleLocalsConsistent'
    BY <1>1, <1>2, Zenon DEF ScheduleLocalsConsistent, placementVars
  <1> QED
    BY <1>1, <1>3, PlacementFrame, BudgetFrame, Zenon DEF placementVars

LEMMA ScheduleBookkeeping ==
  ASSUME TypeOK, TypeOK', Bookkeeping, Schedule
  PROVE  Bookkeeping'
  BY UpdateExecutorsBookkeeping, Stage0Bookkeeping, Stage1Bookkeeping,
     Stage1RequestBookkeeping, Stage2Bookkeeping, Stage5Bookkeeping, Zenon DEF Schedule

LEMMA Stage6Bookkeeping ==
  ASSUME Bookkeeping, Stage6
  PROVE  Bookkeeping'
  <1> USE DEF Bookkeeping
  <1>1. UNCHANGED <<placementVars, request_states>> /\ pc = "stage5"
    BY Zenon DEF Stage6, queueVars
  <1>2. \/ pc' = "step_sleep" /\ ResetLocals
        \/ pc' = "dead" /\ UNCHANGED localVars
    BY Zenon DEF Stage6, Goto, Fail
  <1>3. ScheduleLocalsConsistent'
    <2>1. CASE pc' = "step_sleep" /\ ResetLocals
      BY <2>1, Zenon DEF ResetLocals, ScheduleLocalsConsistent
    <2>2. CASE pc' = "dead" /\ UNCHANGED localVars
      BY <1>1, <2>2, Zenon DEF ScheduleLocalsConsistent, localVars, placementVars
    <2> QED
      BY <1>2, <2>1, <2>2, Zenon
  <1> QED
    BY <1>1, <1>3, PlacementFrame, BudgetFrame, Zenon DEF placementVars

LEMMA StepBookkeeping ==
  ASSUME Bookkeeping, EngineStep \/ FlushStep
  PROVE  Bookkeeping'
  <1> USE DEF Bookkeeping
  <1>1. CASE Stage6
    BY <1>1, Stage6Bookkeeping, Zenon
  <1>2. CASE /\ pc = "stage5" /\ pc' = "dead"
             /\ UNCHANGED <<queueVars, placementVars, localVars>>
    <2>1. ScheduleLocalsConsistent'
      BY <1>2, Zenon DEF ScheduleLocalsConsistent, localVars, placementVars
    <2> QED
      BY <1>2, <2>1, PlacementFrame, BudgetFrame, Zenon DEF placementVars, queueVars
  <1> QED
    BY <1>1, <1>2, Zenon DEF EngineStep, FlushStep, Fail

LEMMA ProcessOutputBookkeeping ==
  ASSUME TypeOK, TypeOK', Bookkeeping, ProcessOutput
  PROVE  Bookkeeping'
  <1> USE DEF Bookkeeping
  <1> DEFINE next == IF pc = "drain" THEN "drain" ELSE "output_sleep"
  <1>1. PICK e \in executor_output_queue : UpdateFromOutput(e, scheduler_outputs[e], next)
    BY Zenon DEF ProcessOutput
  <1>2. pc \notin {"init", "stage1", "stage2", "stage5", "dead"}
    BY Zenon DEF ProcessOutput
  <1>3. next # "init"
    BY Zenon
  <1> HIDE DEF next
  <1>4. UNCHANGED localVars /\ pc' # "init"
    BY <1>1, <1>3, Zenon DEF UpdateFromOutput, Goto, Fail
  <1>5. ScheduleLocalsConsistent'
    BY <1>2, <1>4, LocalsFrame, Zenon
  <1>6. \/ UNCHANGED <<placementVars, request_states>>
        \/ \E S \in SUBSET Requests : (\A r \in S : IsRunning(r)) /\ FreeRequests(S)
    <2> DEFINE batch == scheduler_outputs[e]
               live == (batch.new \cup batch.cached) \cap requests
               Done(n) == {r \in live : unmasked[r] + n[r] = output_length[r]}
    <2>1. \E n \in StepResults(live) :
             \/ UNCHANGED <<placementVars, request_states>>
             \/ (\A r \in Done(n) : IsRunning(r)) /\ FreeRequests(Done(n))
      BY <1>1, Zenon DEF UpdateFromOutput
    <2>2. \A n : Done(n) \in SUBSET Requests
      BY Zenon DEF TypeOK, SchedulerTypeOK, QueueTypeOK
    <2> HIDE DEF live, Done
    <2> QED
      BY <2>1, <2>2, Zenon
  <1>7. PlacementConsistent' /\ WithinTokenBudget'
    <2>1. CASE UNCHANGED <<placementVars, request_states>>
      BY <2>1, PlacementFrame, BudgetFrame, Zenon DEF placementVars
    <2>2. ASSUME NEW S \in SUBSET Requests, \A r \in S : IsRunning(r), FreeRequests(S)
          PROVE  PlacementConsistent' /\ WithinTokenBudget'
      BY <2>2, FreeRequestsPlacement, Zenon DEF TypeOK, SchedulerTypeOK
    <2> QED
      BY <1>6, <2>1, <2>2, Zenon
  <1> QED
    BY <1>5, <1>7, Zenon

LEMMA NextBookkeeping ==
  TypeOK /\ TypeOK' /\ Bookkeeping /\ [Next]_vars => Bookkeeping'
  <1> SUFFICES ASSUME TypeOK, TypeOK', Bookkeeping, [Next]_vars PROVE Bookkeeping'
    BY Zenon
  <1>1. CASE InputDone \/ StepDone \/ AwaitOutput \/ OutputSleepDone \/ DrainDone
    <2>1. /\ UNCHANGED <<placementVars, localVars, request_states>>
          /\ pc \notin {"init", "stage1", "stage2", "stage5", "dead"} /\ pc' # "init"
      BY <1>1, Zenon DEF InputDone, StepDone, AwaitOutput, OutputSleepDone, DrainDone, Goto, Call,
                  queueVars
    <2> QED
      BY <2>1, BookkeepingFrame, SMTT(30), Zenon
  <1>2. CASE BusyLoop
    BY <1>1, <1>2, InputBookkeeping, AdmitBookkeeping, ScheduleBookkeeping,
       StepBookkeeping, ProcessOutputBookkeeping, Zenon DEF BusyLoop
  <1>3. CASE \/ \E r \in Requests : SendAdd(r) \/ SendAbort(r)
             \/ \E e \in Executors : \/ ExecuteModel(e) \/ ModelDone(e) \/ ModelRaises(e)
                                     \/ Launch(e) \/ StartKill(e) \/ ContinueKill(e)
    <2>1. /\ UNCHANGED <<placementVars, localVars, request_states>>
          /\ pc \notin {"init", "stage1", "stage2", "stage5", "dead"} /\ pc' # "init"
      BY <1>3, Zenon DEF SendAdd, SendAbort, ExecuteModel, UpdateStates, ModelDone, ModelRaises, Launch, StartKill,
                  ContinueKill, Suspended, Fail, schedulerVars, queueVars, controlVars
    <2> QED
      BY <2>1, BookkeepingFrame, SMTT(30), Zenon
  <1>4. CASE UNCHANGED vars
    <2>1. UNCHANGED <<placementVars, localVars, request_states, pc, status>>
      BY <1>4, Zenon DEF vars, managerVars, schedulerVars, controlVars, queueVars
    <2>2. ScheduleLocalsConsistent'
      BY <2>1, Zenon DEF Bookkeeping, ScheduleLocalsConsistent, localVars, placementVars, Present
    <2> QED
      BY <2>1, <2>2, PlacementFrame, BudgetFrame, Zenon DEF Bookkeeping, placementVars
  <1> QED
    BY <1>2, <1>3, <1>4, Zenon DEF Next

LEMMA InitBookkeeping == Init => Bookkeeping
  <1> SUFFICES ASSUME Init PROVE Bookkeeping
    BY Zenon
  <1>1. PlacementConsistent /\ ScheduleLocalsConsistent
    BY RequestsAssumption, Zenon DEF Init, SchedulerInit, LocalsInit, NoRequests, Nowhere,
       PlacementConsistent, ScheduleLocalsConsistent
  <1>2. TotalTokens[{}] = 0
    <2>1. TotalTokens[{} \cup {}] = TotalTokens[{}] + TotalTokens[{}]
      BY TotalTokensAssumption, Zenon
    <2>2. {} \cup {} = {} /\ TotalTokens[{}] \in Nat
      BY TotalTokensAssumption, Zenon
    <2>3. TotalTokens[{} \cup {}] = TotalTokens[{}]
      BY <2>2, Zenon
    <2>4. \A n \in Nat : n = n + n => n = 0
      OBVIOUS
    <2>5. TotalTokens[{}] = TotalTokens[{}] + TotalTokens[{}]
      BY <2>1, <2>3, Zenon
    <2> QED
      BY <2>2, <2>4, <2>5, Zenon
  <1>3. \A e \in Executors : req_ids[e] \cup pending_request_additions[e] = {}
    BY Zenon DEF Init, SchedulerInit, NoRequests
  <1>4. \A e \in Executors : TotalTokens[req_ids[e] \cup pending_request_additions[e]] = 0
    BY <1>2, <1>3, Zenon
  <1>5. WithinTokenBudget
    <2>1. 0 <= max_num_scheduled_tokens
      BY RequestsAssumption
    <2> QED
      BY <1>4, <2>1, Zenon DEF WithinTokenBudget, ProjectedBatchSize
  <1> QED
    BY <1>1, <1>5, Zenon DEF Bookkeeping

\* The bookkeeping of schedule, update_from_output, finish_requests and
\* update_executors stays consistent: RequestState and ExecutorState agree on where
\* every request is and will be, for any interleaving of admissions, aborts,
\* migrations, kills and outputs.  Its own induction needs the locals of schedule():
\* a request can only be moved safely off the executor it is really on.
THEOREM PlacementStaysConsistent ==
  Spec => []PlacementConsistent /\ []ScheduleLocalsConsistent
  <1>1. Init => TypeOK /\ TasksStarted /\ Bookkeeping
    BY InitTypeOK, InitBookkeeping, Zenon DEF Init, TasksStarted
  <1>2. TypeOK /\ TasksStarted /\ Bookkeeping /\ [Next]_vars
          => TypeOK' /\ TasksStarted' /\ Bookkeeping'
    BY NextTypeOK, NextTasksStarted, NextBookkeeping, Zenon
  <1>3. Bookkeeping => PlacementConsistent /\ ScheduleLocalsConsistent
    BY Zenon DEF Bookkeeping
  <1> QED
    BY <1>1, <1>2, <1>3, PTL DEF Spec

\* No executor is ever promised more than max_num_scheduled_tokens, whatever the
\* sizes of the requests and however often they are moved: find_best_executor's
\* test of the projected batch is the only one, and stage 0 commits without it.
THEOREM TokenBudgetKept == Spec => []WithinTokenBudget
  <1>1. Init => TypeOK /\ TasksStarted /\ Bookkeeping
    BY InitTypeOK, InitBookkeeping, Zenon DEF Init, TasksStarted
  <1>2. TypeOK /\ TasksStarted /\ Bookkeeping /\ [Next]_vars
          => TypeOK' /\ TasksStarted' /\ Bookkeeping'
    BY NextTypeOK, NextTasksStarted, NextBookkeeping, Zenon
  <1>3. Bookkeeping => WithinTokenBudget
    BY Zenon DEF Bookkeeping
  <1> QED
    BY <1>1, <1>2, <1>3, PTL DEF Spec

=============================================================================
