--------------------------- MODULE EngineTracking ---------------------------
(* EngineCore keeps executors, batches, workers and KV blocks in step.  The *)
(* inductive invariant has four parts, each of them about the states of an  *)
(* engine that is alive.                                                    *)
EXTENDS EngineService, TLAPS

\* Kills: an executor is marked KILLING by its own killer and only when IDLE, it
\* leaves the registry for good, and one that nobody wants to kill is left.
\* (The batch that a drop flush hands to an idle executor may start after its
\* killer has begun: the statuses EXECUTING and OUTPUT_READY under "shutdown".)
KillsTracked ==
    /\ Present \ waiting_to_be_killed # {}
    /\ \A e \in Executors :
        /\ killer[e] \in {"waiting", "notified", "shutdown"} => e \in waiting_to_be_killed
        /\ killer[e] = "shutdown" => status[e] \in {"KILLING", "EXECUTING", "OUTPUT_READY"}
        /\ killer[e] = "done" => status[e] = "ABSENT"
        /\ status[e] = "KILLING" => killer[e] = "shutdown"
        /\ status[e] = "ABSENT" => killer[e] \in {"none", "done"}

\* Tasks: who has been handed a batch is about to run it, or busy with it, or gone;
\* and a batch with requests in it is never with an executor that is shut down.
TaskTracked(e) ==
    /\ scheduler_outputs[e] # NoBatch =>
        /\ \/ e \in ready_tasks
           \/ status[e] \in {"EXECUTING", "OUTPUT_READY"}
           \/ killer[e] = "done"
        /\ e \in executor_states \/ killer[e] = "done"
    /\ e \in ready_tasks => status[e] # "ABSENT"
    /\ e \in executor_states => status[e] # "ABSENT" \/ killer[e] = "done"
    /\ InFlight(e) # {} =>
        /\ status[e] \in {"SCHEDULED", "EXECUTING", "OUTPUT_READY"}
        /\ killer[e] # "shutdown"

TasksTracked == \A e \in Executors : TaskTracked(e)

\* The executors that schedule() is working on, and the ones it may place on.
Considered == idle_executors \cup idle_not_accepting
Alive == {e \in Present : status[e] # "KILLING"}

\* Locals: between two schedules they are empty.  While schedule() runs, the
\* executors it works on accept no one else's decisions, every request placed
\* there is either still to be looked at or in the scheduler output, and a request
\* whose executor has changed is in the output too.
LocalsTracked ==
    /\ pc \notin {"stage1", "stage2", "stage5"} => Considered = {} /\ in_output = {}
    /\ pc # "stage5" => new_reqs = NoRequests /\ running_reqs = NoRequests
    /\ Scheduling =>
        /\ executor_states = Alive
        /\ \A r \in Requests : old_executor[r] \in executor_states \cup {None}
    /\ todo \subseteq Considered
    /\ idle_executors \cap idle_not_accepting = {}
    /\ schedulable \cap idle_not_accepting = {}
    /\ \A e \in Considered :
        status[e] = "CONSIDERED" /\ pending_request_additions[e] = {}
    /\ \A r \in in_output : executor_id[r] \in Considered \cup {None}
    /\ \A r \in Requests : executor_id[r] \in Considered =>
        \/ r \in in_output
        \/ /\ pc = "stage1" /\ executor_id[r] \in todo
           /\ executor_id[r] = cur => r \in cur_reqs
        \/ pc = "stage5" /\ r \in new_reqs[executor_id[r]] \cup running_reqs[executor_id[r]]
    /\ \A e \in Executors : \A r \in new_reqs[e] \cup running_reqs[e] :
        executor_id[r] = e /\ e \in Considered /\ r \notin in_output
    /\ \A e \in Executors : new_reqs[e] \cap running_reqs[e] = {}
    /\ pc \in {"init", "stage1", "stage2"} =>
        \A r \in Requests \ in_output : old_executor[r] = executor_id[r]

\* The executor where the stores still have request r: a decision of stages 0 to 2
\* is carried out in stage 5.
Holder(r) == IF r \in in_output THEN old_executor[r] ELSE executor_id[r]
Held(e) == {r \in Requests : Holder(r) = e}

\* Stores: blocks and worker caches follow Held; what an executor's worker has
\* cached beyond that it will be told to forget, and what a batch about to start
\* changes is what is missing.
StoreTracked(e) ==
    /\ kv_blocks[e] = IF Caching THEN Held(e) ELSE {}
    /\ (Held(e) \ new_reqs[e]) \cap free_req_ids[e] = {}
    /\ e \in executor_states \ ready_tasks =>
        worker_requests[e] = (Held(e) \ new_reqs[e]) \cup free_req_ids[e]
    /\ e \in ready_tasks =>
        LET kept == worker_requests[e] \ scheduler_outputs[e].free
        IN  /\ kept \cup scheduler_outputs[e].new = Held(e) \cup free_req_ids[e]
            /\ scheduler_outputs[e].cached \subseteq kept
    /\ e \notin executor_states =>
        /\ free_req_ids[e] = {}
        /\ worker_requests[e] = {} \/ killer[e] = "done" \/ status[e] = "KILLING"

StoresTracked == \A e \in Executors : StoreTracked(e)

Tracked == KillsTracked /\ TasksTracked /\ LocalsTracked /\ StoresTracked

-----------------------------------------------------------------------------
(* Kills.                                                                  *)

LEMMA KillsFrame ==
  ASSUME KillsTracked, UNCHANGED managerVars
  PROVE  KillsTracked'
  BY Zenon DEF KillsTracked, managerVars, Present

\* A change of status words that neither adds nor removes an executor, and leaves
\* alone the ones that are being shut down.
LEMMA KillsStatus ==
  ASSUME ManagerTypeOK, ManagerTypeOK', KillsTracked, UNCHANGED waiting_to_be_killed,
         \A e \in Executors :
            /\ killer'[e] = killer[e] \/ (killer[e] = "waiting" /\ killer'[e] = "notified")
            /\ \/ status'[e] = status[e]
               \/ /\ status'[e] \notin {"ABSENT", "KILLING"} /\ status[e] # "ABSENT"
                  /\ killer[e] = "shutdown" => status'[e] \in {"EXECUTING", "OUTPUT_READY"}
  PROVE  KillsTracked'
  <1>1. Present' = Present
    BY Zenon DEF Present, ManagerTypeOK
  <1>2. Present' \ waiting_to_be_killed' # {}
    BY <1>1, Zenon DEF KillsTracked
  <1>3. ASSUME NEW e \in Executors
        PROVE  /\ killer'[e] \in {"waiting", "notified", "shutdown"} => e \in waiting_to_be_killed'
               /\ killer'[e] = "shutdown" => status'[e] \in {"KILLING", "EXECUTING", "OUTPUT_READY"}
               /\ killer'[e] = "done" => status'[e] = "ABSENT"
               /\ status'[e] = "KILLING" => killer'[e] = "shutdown"
               /\ status'[e] = "ABSENT" => killer'[e] \in {"none", "done"}
    BY <1>3, Zenon DEF KillsTracked
  <1> QED
    BY <1>2, <1>3, Zenon DEF KillsTracked


LEMMA LaunchKills ==
  ASSUME ManagerTypeOK, KillsTracked, NEW e \in Executors, LaunchExecutor(e)
  PROVE  KillsTracked'
  <1>1. \A f \in Executors : status'[f] = IF f = e THEN "IDLE" ELSE status[f]
    BY Zenon DEF LaunchExecutor, ManagerTypeOK
  <1>2. Present \subseteq Present'
    BY <1>1, Zenon DEF Present
  <1> QED
    BY <1>1, <1>2 DEF LaunchExecutor, KillsTracked

LEMMA StartKillKills ==
  ASSUME ManagerTypeOK, KillsTracked, NEW e \in Executors, KillExecutor(e),
         Present \ (waiting_to_be_killed \cup {e}) # {}
  PROVE  KillsTracked'
  <1>1. CASE status[e] = "IDLE"
    <2>1. /\ \A f \in Executors : status'[f] = IF f = e THEN "KILLING" ELSE status[f]
          /\ \A f \in Executors : killer'[f] = IF f = e THEN "shutdown" ELSE killer[f]
          /\ waiting_to_be_killed' = waiting_to_be_killed \cup {e}
      BY <1>1, Zenon DEF KillExecutor, ManagerTypeOK
    <2>2. Present' = Present
      BY <1>1, <2>1, Zenon DEF Present
    <2> QED
      BY <2>1, <2>2, Zenon DEF KillsTracked
  <1>2. CASE status[e] # "IDLE"
    <2>1. /\ UNCHANGED status
          /\ \A f \in Executors : killer'[f] = IF f = e THEN "waiting" ELSE killer[f]
          /\ waiting_to_be_killed' = waiting_to_be_killed \cup {e}
          /\ killer[e] = "none" /\ status[e] # "ABSENT"
      BY <1>2, Zenon DEF KillExecutor, ManagerTypeOK, Present
    <2>2. Present' = Present
      BY <2>1, Zenon DEF Present
    <2> QED
      BY <2>1, <2>2, Zenon DEF KillsTracked
  <1> QED
    BY <1>1, <1>2, Zenon

LEMMA ContinueKillKills ==
  ASSUME ManagerTypeOK, KillsTracked, NEW e \in Executors, KillerWakes(e) \/ ShutdownDone(e)
  PROVE  KillsTracked'
  <1>1. CASE KillerWakes(e) /\ status[e] = "IDLE"
    <2>1. /\ \A f \in Executors : status'[f] = IF f = e THEN "KILLING" ELSE status[f]
          /\ \A f \in Executors : killer'[f] = IF f = e THEN "shutdown" ELSE killer[f]
          /\ UNCHANGED waiting_to_be_killed
          /\ killer[e] = "notified"
      BY <1>1, Zenon DEF KillerWakes, ManagerTypeOK
    <2>2. Present' = Present
      BY <1>1, <2>1, Zenon DEF Present
    <2> QED
      BY <2>1, <2>2, Zenon DEF KillsTracked
  <1>2. CASE KillerWakes(e) /\ status[e] # "IDLE"
    <2>1. /\ UNCHANGED <<status, waiting_to_be_killed>>
          /\ \A f \in Executors : killer'[f] = IF f = e THEN "waiting" ELSE killer[f]
          /\ killer[e] = "notified"
      BY <1>2, Zenon DEF KillerWakes, ManagerTypeOK
    <2>2. Present' = Present
      BY <2>1, Zenon DEF Present
    <2> QED
      BY <2>1, <2>2, Zenon DEF KillsTracked
  <1>3. CASE ShutdownDone(e)
    <2>1. /\ \A f \in Executors : status'[f] = IF f = e THEN "ABSENT" ELSE status[f]
          /\ \A f \in Executors : killer'[f] = IF f = e THEN "done" ELSE killer[f]
          /\ waiting_to_be_killed' = waiting_to_be_killed \ {e}
          /\ killer[e] = "shutdown"
      BY <1>3, Zenon DEF ShutdownDone, ManagerTypeOK
    <2>2. e \in waiting_to_be_killed
      BY <2>1, Zenon DEF KillsTracked
    <2>3. Present' = Present \ {e}
      BY <2>1, Zenon DEF Present
    <2> QED
      BY <2>1, <2>2, <2>3, Zenon DEF KillsTracked
  <1> QED
    BY <1>1, <1>2, <1>3, Zenon

-----------------------------------------------------------------------------
(* What a step that does not fail changes.                                  *)

\* schedule() takes the idle executors.
LEMMA Stage0Step ==
  ASSUME TypeOK, Stage0, pc' # "dead"
  PROVE  \/ pc' = "step_sleep" /\ UNCHANGED <<status, req_ids, pending_request_additions,
              executor_id, idle_executors, idle_not_accepting, schedulable, in_output, todo>>
         \/ \E considered \in SUBSET Executors, committed \in SUBSET Requests :
            /\ pc' = "stage1"
            /\ considered = {e \in Executors : status[e] \in {"IDLE", "IDLE_NOT_ACCEPTING"}}
            /\ committed = UNION {pending_request_additions[e] : e \in considered}
            /\ \A r \in committed : executor_id[r] = None
            /\ \A e \in Executors : status'[e] = IF e \in considered THEN "CONSIDERED" ELSE status[e]
            /\ idle_executors' = {e \in Executors : status[e] = "IDLE"}
            /\ idle_not_accepting' = {e \in Executors : status[e] = "IDLE_NOT_ACCEPTING"}
            /\ schedulable' = executor_states \ considered
            /\ \A e \in Executors : req_ids'[e] =
                 IF e \in considered THEN req_ids[e] \cup pending_request_additions[e] ELSE req_ids[e]
            /\ \A e \in Executors : pending_request_additions'[e] =
                 IF e \in considered THEN {} ELSE pending_request_additions[e]
            /\ \A r \in Requests : executor_id'[r] =
                 IF r \in committed THEN pending_executor_id[r] ELSE executor_id[r]
            /\ in_output' = committed
            /\ todo' = considered
            /\ UNCHANGED old_executor
  <1> DEFINE idle == {e \in Executors : status[e] = "IDLE"}
             restricted == {e \in Executors : status[e] = "IDLE_NOT_ACCEPTING"}
             considered == idle \cup restricted
             committed == UNION {pending_request_additions[e] : e \in considered}
  <1>1. CASE considered = {}
    BY <1>1, Zenon DEF Stage0, Goto
  <1>2. CASE considered # {}
    <2>1. ~ \E r \in committed : IsRunning(r)
      BY <1>2, Zenon DEF Stage0, Fail
    <2>2. /\ pc' = "stage1"
          /\ status' = [e \in Executors |-> IF e \in considered THEN "CONSIDERED" ELSE status[e]]
          /\ idle_executors' = idle
          /\ idle_not_accepting' = restricted
          /\ schedulable' = executor_states \ considered
          /\ req_ids' = [e \in Executors |-> IF e \in considered
                 THEN req_ids[e] \cup pending_request_additions[e] ELSE req_ids[e]]
          /\ pending_request_additions' = [e \in Executors |->
                 IF e \in considered THEN {} ELSE pending_request_additions[e]]
          /\ executor_id' = [r \in Requests |->
                 IF r \in committed THEN pending_executor_id[r] ELSE executor_id[r]]
          /\ in_output' = committed
          /\ todo' = considered
          /\ UNCHANGED old_executor
      BY <1>2, <2>1, Zenon DEF Stage0, Goto
    <2>3. considered = {e \in Executors : status[e] \in {"IDLE", "IDLE_NOT_ACCEPTING"}}
      BY Zenon
    <2>4. committed \in SUBSET Requests
      BY DEF TypeOK, SchedulerTypeOK, PlacementTypeOK
    <2>5. \A r \in committed : executor_id[r] = None
      BY <2>1, Zenon DEF IsRunning
    <2> HIDE DEF committed, considered
    <2>6. considered \in SUBSET Executors /\ committed = UNION {pending_request_additions[e] : e \in considered}
      BY Zenon DEF considered, committed
    <2>7. /\ \A e \in Executors : status'[e] = IF e \in considered THEN "CONSIDERED" ELSE status[e]
          /\ \A e \in Executors : req_ids'[e] =
                 IF e \in considered THEN req_ids[e] \cup pending_request_additions[e] ELSE req_ids[e]
          /\ \A e \in Executors : pending_request_additions'[e] =
                 IF e \in considered THEN {} ELSE pending_request_additions[e]
          /\ \A r \in Requests : executor_id'[r] =
                 IF r \in committed THEN pending_executor_id[r] ELSE executor_id[r]
      BY <2>2, Zenon
    <2> QED
      BY <2>2, <2>3, <2>4, <2>5, <2>6, <2>7, Zenon
  <1> QED
    BY <1>1, <1>2, Zenon


\* The executors that update_executors forgets.
Removed == (executor_states \cup Present) \ Alive

LEMMA UpdateExecutorsStep ==
  ASSUME TypeOK, UpdateExecutors, pc' # "dead"
  PROVE  /\ pc = "update_executors" /\ pc' = "init"
         /\ executor_states' = Alive
         /\ \A e \in Executors :
             /\ req_ids'[e] = IF e \in Removed THEN {} ELSE req_ids[e]
             /\ free_req_ids'[e] = IF e \in Removed THEN {} ELSE free_req_ids[e]
             /\ kv_blocks'[e] = IF e \in Removed THEN {} ELSE kv_blocks[e]
         /\ \A r \in Requests : executor_id'[r] =
               IF executor_id[r] \in Removed THEN None ELSE executor_id[r]
         /\ old_executor' = executor_id'
         /\ UNCHANGED <<managerVars, queueVars, idle_executors, idle_not_accepting, schedulable,
                        in_output, todo, cur, cur_reqs, new_reqs, running_reqs>>
  <1> DEFINE alive == {e \in Present : status[e] # "KILLING"}
             removed == (executor_states \cup Present) \ alive
             Survivors(f) == [e \in Executors |-> IF e \in removed THEN {} ELSE f[e]]
             unplaced == [r \in Requests |->
                            IF executor_id[r] \in removed THEN None ELSE executor_id[r]]
  <1>1. ~(alive = {} /\ removed # {})
    BY Zenon DEF UpdateExecutors, Fail
  <1>2. /\ pc = "update_executors" /\ pc' = "init"
        /\ executor_states' = alive
        /\ req_ids' = Survivors(req_ids)
        /\ free_req_ids' = Survivors(free_req_ids)
        /\ kv_blocks' = Survivors(kv_blocks)
        /\ executor_id' = unplaced
        /\ old_executor' = unplaced
        /\ UNCHANGED <<managerVars, queueVars, idle_executors, idle_not_accepting, schedulable,
                       in_output, todo, cur, cur_reqs, new_reqs, running_reqs>>
    BY <1>1, Zenon DEF UpdateExecutors, Goto
  <1>3. alive = Alive /\ removed = Removed
    BY Zenon DEF Alive, Removed
  <1> HIDE DEF alive, removed
  <1> QED
    BY <1>2, <1>3, Zenon

\* An iteration of stage 1 or 2 decides about one request.
LEMMA PlaceStep ==
  ASSUME TypeOK, NEW r \in Requests, NEW from, NEW to \in schedulable, Place(r, from, to)
  PROVE  /\ \A q \in Requests \ {r} : executor_id'[q] = executor_id[q]
         /\ executor_id'[r] = IF to \in idle_executors THEN to ELSE None
         /\ \A e \in Executors : e # to \/ e \in idle_executors =>
               pending_request_additions'[e] = pending_request_additions[e]
         /\ UNCHANGED executor_states
  BY Zenon DEF Place, PlaceNow, PlaceLater, TypeOK, SchedulerTypeOK, PlacementTypeOK

LEMMA Stage1RequestStep ==
  ASSUME TypeOK, NEW r \in Requests, Stage1Request(r)
  PROVE  /\ \A q \in Requests \ {r} : executor_id'[q] = executor_id[q]
         /\ executor_id'[r] \in {executor_id[r], None} \cup (idle_executors \cap schedulable)
         /\ \A e \in Executors : e \notin schedulable \/ e \in idle_executors =>
               pending_request_additions'[e] = pending_request_additions[e]
         /\ UNCHANGED executor_states
  <1>1. CASE UNCHANGED placementVars
    BY <1>1, Zenon DEF placementVars
  <1>2. CASE Unplace(r)
    BY <1>2, Zenon DEF Unplace, TypeOK, SchedulerTypeOK, PlacementTypeOK
  <1>3. CASE \E b \in LeastLoaded : Place(r, cur, b)
    <2>1. PICK b \in schedulable : Place(r, cur, b)
      BY <1>3, Zenon DEF LeastLoaded
    <2> QED
      BY <2>1, PlaceStep, Zenon
  <1> QED
    BY <1>1, <1>2, <1>3, Zenon DEF Stage1Request

LEMMA Stage2RequestStep ==
  ASSUME TypeOK, NEW r \in Requests, Stage2Request(r)
  PROVE  /\ executor_id[r] = None
         /\ \A q \in Requests \ {r} : executor_id'[q] = executor_id[q]
         /\ \/ executor_id'[r] = None /\ UNCHANGED in_output
            \/ /\ executor_id'[r] \in idle_executors \cap schedulable
               /\ in_output' = in_output \cup {r}
         /\ \A e \in Executors : e \notin schedulable \/ e \in idle_executors =>
               pending_request_additions'[e] = pending_request_additions[e]
         /\ UNCHANGED executor_states
  <1>1. PICK b \in schedulable :
          /\ Place(r, None, b)
          /\ in_output' = IF b \in idle_executors THEN in_output \cup {r} ELSE in_output
    BY Zenon DEF Stage2Request, BestPlacements
  <1>2. executor_id[r] = None
    BY Zenon DEF Stage2Request, FirstUnscheduled, IsUnscheduled
  <1> QED
    BY <1>1, <1>2, PlaceStep, Zenon

\* Stage 5 carries out the decision about one request.
LEMMA Stage5RequestStep ==
  ASSUME TypeOK, NEW r \in Requests, Stage5Request(r), pc' # "dead"
  PROVE  LET old == old_executor[r]
             new == executor_id[r]
         IN  \/ /\ old # new
                /\ \A e \in Executors :
                    /\ free_req_ids'[e] = IF e = old THEN free_req_ids[e] \cup {r} ELSE free_req_ids[e]
                    /\ new_reqs'[e] = IF e = new THEN new_reqs[e] \cup {r} ELSE new_reqs[e]
                    /\ kv_blocks'[e] = (IF e = old THEN kv_blocks[e] \ {r} ELSE kv_blocks[e])
                                       \cup (IF e = new /\ Caching THEN {r} ELSE {})
                /\ UNCHANGED running_reqs
             \/ /\ old = new
                /\ \A e \in Executors :
                    running_reqs'[e] = IF e = new THEN running_reqs[e] \cup {r} ELSE running_reqs[e]
                /\ UNCHANGED <<storeVars, new_reqs>>
  <1> DEFINE old == old_executor[r]
             new == executor_id[r]
             freed == BlocksFreedOn(r, old)
  <1>1. CASE old # new
    <2>1. Stage5Move(r, old, new)
      BY <1>1, Zenon DEF Stage5Request
    <2>2. ~(new # None /\ Caching /\ TotalTokens[freed[new] \cup {r}] > kv_capacity[new])
      BY <2>1, Zenon DEF Stage5Move, Fail
    <2>3. /\ free_req_ids' = [e \in Executors |->
                    IF e = old THEN free_req_ids[e] \cup {r} ELSE free_req_ids[e]]
          /\ kv_blocks' = [e \in Executors |->
                    IF e = new /\ Caching THEN freed[e] \cup {r} ELSE freed[e]]
          /\ new_reqs' = [e \in Executors |->
                    IF e = new THEN new_reqs[e] \cup {r} ELSE new_reqs[e]]
          /\ UNCHANGED running_reqs
      BY <2>1, <2>2, Zenon DEF Stage5Move
    <2>4. \A e \in Executors : freed[e] = IF e = old THEN kv_blocks[e] \ {r} ELSE kv_blocks[e]
      BY Zenon DEF BlocksFreedOn
    <2> HIDE DEF freed
    <2>5. \A e \in Executors :
            kv_blocks'[e] = (IF e = old THEN kv_blocks[e] \ {r} ELSE kv_blocks[e])
                               \cup (IF e = new /\ Caching THEN {r} ELSE {})
      BY <2>3, <2>4, Zenon
    <2> QED
      BY <1>1, <2>3, <2>5, Zenon
  <1>2. CASE old = new
    <2>1. Stage5Keep(r)
      BY <1>2, Zenon DEF Stage5Request
    <2>2. CASE new = None
      <3>1. UNCHANGED <<running_reqs, storeVars, new_reqs>>
        BY <2>1, <2>2, Zenon DEF Stage5Keep
      <3>2. \A e \in Executors : e # new
        BY <2>2, RequestsAssumption, Zenon
      <3> QED
        BY <1>2, <3>1, <3>2, Zenon
    <2>3. CASE new # None
      <3>1. /\ new \in Considered
            /\ running_reqs' = [running_reqs EXCEPT ![new] = @ \cup {r}]
            /\ UNCHANGED <<storeVars, new_reqs>>
        BY <2>1, <2>3, Zenon DEF Stage5Keep, Fail, Considered
      <3>2. \A e \in Executors :
              running_reqs'[e] = IF e = new THEN running_reqs[e] \cup {r} ELSE running_reqs[e]
        BY <3>1, Zenon DEF TypeOK, SchedulerTypeOK, LocalTypeOK
      <3> QED
        BY <1>2, <3>1, <3>2, Zenon
    <2> QED
      BY <2>2, <2>3, Zenon
  <1> QED
    BY <1>1, <1>2, Zenon

\* Stage 6 hands out the batches and releases the other executors.
LEMMA Stage6Step ==
  ASSUME TypeOK, Stage6, pc' # "dead"
  PROVE  /\ pc = "stage5" /\ pc' = "step_sleep" /\ in_output = {}
         /\ \A e \in Executors :
             /\ status'[e] = IF e \in Scheduled THEN "SCHEDULED"
                             ELSE IF e \in Considered THEN "IDLE" ELSE status[e]
             /\ killer'[e] = killer[e] \/ (killer[e] = "waiting" /\ killer'[e] = "notified")
             /\ free_req_ids'[e] = IF e \in Scheduled THEN {} ELSE free_req_ids[e]
         /\ ResetLocals
         /\ UNCHANGED <<waiting_to_be_killed, queueVars, placementVars, kv_blocks, unmasked>>
  <1> DEFINE resting == Considered \ Scheduled
  <1>1. /\ pc = "stage5" /\ pc' = "step_sleep" /\ in_output = {}
        /\ status' = [e \in Executors |-> IF e \in Scheduled THEN "SCHEDULED"
                         ELSE IF e \in resting THEN "IDLE" ELSE status[e]]
        /\ killer' = Notified(resting)
        /\ free_req_ids' = [e \in Executors |-> IF e \in Scheduled THEN {} ELSE free_req_ids[e]]
        /\ ResetLocals
        /\ UNCHANGED <<waiting_to_be_killed, queueVars, placementVars, kv_blocks, unmasked>>
    BY Zenon DEF Stage6, Considered, Fail, Goto
  <1>2. \A e \in Executors :
          killer'[e] = killer[e] \/ (killer[e] = "waiting" /\ killer'[e] = "notified")
    BY <1>1, Zenon DEF Notified
  <1> QED
    BY <1>1, <1>2, Zenon

\* update_from_output that does not fail: the output of a batch frees the requests
\* it completes and makes the executor idle again.
LEMMA ProcessOutputStep ==
  ASSUME TypeOK, OutputsOfBatches, ProcessOutput, pc' # "dead"
  PROVE  \E e \in Executors, done \in SUBSET Requests :
         /\ pc \in {"output_wait", "drain"} /\ pc' \in {"output_sleep", "drain"}
         /\ scheduler_outputs[e] # NoBatch
         /\ killer[e] \notin {"shutdown", "done"}
         /\ \A r \in done : executor_id[r] # None
         /\ FreeRequests(done)
         /\ \A f \in Executors :
             /\ scheduler_outputs'[f] = IF f = e THEN NoBatch ELSE scheduler_outputs[f]
             /\ f # e => status'[f] = status[f]
             /\ killer'[f] = killer[f] \/ (killer[f] = "waiting" /\ killer'[f] = "notified")
         /\ status'[e] \in {"IDLE", "IDLE_NOT_ACCEPTING"}
         /\ dropped_deferred_requests' = {}
         /\ UNCHANGED <<waiting_to_be_killed, deferred_requests, localVars, client, input_queue,
                        ready_tasks, failed_tasks, worker_requests, failure>>
  <1> DEFINE next == IF pc = "drain" THEN "drain" ELSE "output_sleep"
  <1>1. PICK e \in executor_output_queue :
          /\ UpdateFromOutput(e, scheduler_outputs[e], next)
          /\ scheduler_outputs' = [scheduler_outputs EXCEPT ![e] = NoBatch]
    BY Zenon DEF ProcessOutput
  <1>2. e \in Executors /\ scheduler_outputs[e] # NoBatch
    BY Zenon DEF OutputsOfBatches, TypeOK, EngineTypeOK
  <1> DEFINE live == (scheduler_outputs[e].new \cup scheduler_outputs[e].cached) \cap requests
             Done(n) == {r \in live : unmasked[r] + n[r] = output_length[r]}
             Gone(n) == (\E r \in Done(n) : ~IsRunning(r)) \/ killer[e] \in {"shutdown", "done"}
  <1>3. PICK n \in StepResults(live) :
          /\ ~Gone(n) =>
              /\ FreeRequests(Done(n)) /\ Goto(next)
              /\ dropped_deferred_requests' = {}
              /\ status' = [status EXCEPT ![e] =
                           IF /\ Caching /\ e \in waiting_to_be_killed
                              /\ (req_ids[e] \ Done(n)) \cup pending_request_additions[e] # {}
                           THEN "IDLE_NOT_ACCEPTING" ELSE "IDLE"]
              /\ killer' = Notified({e})
          /\ Gone(n) => pc' = "dead"
          /\ UNCHANGED <<waiting_to_be_killed, deferred_requests, localVars>>
    BY <1>1, Zenon DEF UpdateFromOutput, Fail
  <1>4. ~Gone(n)
    BY <1>3, Zenon
  <1>5. Done(n) \in SUBSET Requests
    BY Zenon DEF TypeOK, SchedulerTypeOK, QueueTypeOK
  <1>6. \A r \in Done(n) : executor_id[r] # None
    BY <1>4, Zenon DEF IsRunning
  <1>7. /\ pc \in {"output_wait", "drain"} /\ pc' \in {"output_sleep", "drain"}
        /\ UNCHANGED <<waiting_to_be_killed, deferred_requests, localVars, client, input_queue,
                       ready_tasks, failed_tasks, worker_requests, failure>>
        /\ dropped_deferred_requests' = {}
    BY <1>3, <1>4, Zenon DEF ProcessOutput, Goto
  <1>8. /\ \A f \in Executors :
             /\ scheduler_outputs'[f] = IF f = e THEN NoBatch ELSE scheduler_outputs[f]
             /\ f # e => status'[f] = status[f]
             /\ killer'[f] = killer[f] \/ (killer[f] = "waiting" /\ killer'[f] = "notified")
        /\ status'[e] \in {"IDLE", "IDLE_NOT_ACCEPTING"}
    BY <1>1, <1>2, <1>3, <1>4, Zenon DEF TypeOK, ManagerTypeOK, EngineTypeOK, Notified
  <1>9. PICK done \in SUBSET Requests : done = Done(n)
    BY <1>5, Zenon
  <1> QED
    BY <1>2, <1>3, <1>4, <1>6, <1>7, <1>8, <1>9, Zenon

\* finish_requests that does not fail: nothing is freed, or one running request.
LEMMA HandleAbortStep ==
  ASSUME TypeOK, HandleAbort, pc' # "dead"
  PROVE  /\ pc \in {"input", "input_wait"} /\ pc' = "expire"
         /\ UNCHANGED <<managerVars, localVars, unmasked, client, scheduler_outputs, ready_tasks,
                        executor_output_queue, failed_tasks, worker_requests, failure>>
         /\ \/ UNCHANGED <<placementVars, storeVars>> /\ requests' \subseteq requests
            \/ \E done \in SUBSET Requests :
                FreeRequests(done) /\ \A r \in done : executor_id[r] # None
  <1> DEFINE r == Head(input_queue).req
  <1>0. input_queue \in Seq(Messages) /\ input_queue # <<>>
    BY Zenon DEF HandleAbort, TypeOK, EngineTypeOK
  <1>1. r \in Requests
    <2>1. Head(input_queue) \in Messages
      BY <1>0
    <2> QED
      BY <2>1, Zenon DEF Messages
  <1>2. /\ pc \in {"input", "input_wait"} /\ FinishRequest(r)
        /\ UNCHANGED <<managerVars, client, scheduler_outputs, ready_tasks,
                        executor_output_queue, failed_tasks, worker_requests>>
    BY Zenon DEF HandleAbort
  <1> HIDE DEF r
  <1>3. CASE r \in request_states
    <2>1. executor_id[r] # None
      BY <1>2, <1>3, Zenon DEF FinishRequest, Fail, IsRunning
    <2>2. /\ FreeRequests({r}) /\ Call("input") /\ UNCHANGED <<unmasked, localVars>>
      BY <1>2, <1>3, <2>1, Zenon DEF FinishRequest, IsRunning
    <2>3. {r} \in SUBSET Requests /\ \A q \in {r} : executor_id[q] # None
      BY <1>1, <2>1, Zenon
    <2> QED
      BY <1>2, <2>2, <2>3, Zenon DEF Call
  <1>4. CASE r \notin request_states
    <2>1. /\ Call("input") /\ UNCHANGED <<placementVars, storeVars, unmasked, localVars>>
      BY <1>2, <1>4, Zenon DEF FinishRequest
    <2>2. requests' \subseteq requests
      BY <1>2, <1>4, Zenon DEF FinishRequest, DropDeferred, queueVars
    <2> QED
      BY <1>2, <2>1, <2>2, Zenon DEF Call
  <1> QED
    BY <1>3, <1>4, Zenon

\* The drop-flush output that does not overlap a batch: an empty one, and nothing
\* else is scheduled.
LEMMA FlushStepStep ==
  ASSUME TypeOK, FlushStep, pc' # "dead"
  PROVE  \E e \in executor_states :
         /\ Stage6 /\ Scheduled = {}
         /\ scheduler_outputs[e] = NoBatch
         /\ dropped_deferred_requests # {}
         /\ \A f \in Executors : scheduler_outputs'[f] =
               IF f = e THEN EmptyBatch ELSE scheduler_outputs[f]
         /\ ready_tasks' = ready_tasks \cup {e}
         /\ UNCHANGED <<client, input_queue, executor_output_queue, failed_tasks,
                        worker_requests>>
  <1>1. PICK e \in FlushTargets :
          /\ scheduler_outputs[e] # NoBatch => pc' = "dead"
          /\ scheduler_outputs[e] = NoBatch =>
               /\ Stage6
               /\ scheduler_outputs' = [scheduler_outputs EXCEPT ![e] = EmptyBatch]
               /\ ready_tasks' = ready_tasks \cup {e}
    BY Zenon DEF FlushStep, Fail
  <1>2. e \in executor_states /\ Scheduled = {} /\ dropped_deferred_requests # {}
    BY Zenon DEF FlushTargets
  <1>3. \A f \in Executors : scheduler_outputs'[f] =
               IF f = e THEN EmptyBatch ELSE scheduler_outputs[f]
    BY <1>1, Zenon DEF TypeOK, EngineTypeOK
  <1> QED
    BY <1>1, <1>2, <1>3, Zenon DEF FlushStep

-----------------------------------------------------------------------------
(* Tasks.                                                                  *)

LEMMA TasksFrame ==
  ASSUME TasksTracked,
         UNCHANGED <<status, killer, scheduler_outputs, ready_tasks, executor_states>>
  PROVE  TasksTracked'
  BY Zenon DEF TasksTracked, TaskTracked, InFlight

\* An executor in the hands of schedule() has no batch and is not shut down.
LEMMA ConsideredFree ==
  ASSUME KillsTracked, TasksTracked, TasksStarted, pc \notin {"step_sleep", "dead"},
         NEW e \in Executors, status[e] \in {"IDLE", "IDLE_NOT_ACCEPTING", "CONSIDERED"}
  PROVE  scheduler_outputs[e] = NoBatch /\ killer[e] \notin {"shutdown", "done"}
  BY Zenon DEF KillsTracked, TasksTracked, TaskTracked, TasksStarted

LEMMA UpdateExecutorsTasks ==
  ASSUME TypeOK, KillsTracked, TasksTracked, TasksStarted, UpdateExecutors, pc' # "dead",
         UNCHANGED loopVars
  PROVE  TasksTracked'
  <1>1. /\ pc = "update_executors" /\ executor_states' = Alive
        /\ UNCHANGED <<status, killer, scheduler_outputs, ready_tasks>>
    BY UpdateExecutorsStep, Zenon DEF loopVars, managerVars
  <1>2. ready_tasks = {}
    BY <1>1, Zenon DEF TasksStarted
  <1>3. ASSUME NEW e \in Executors
        PROVE  TaskTracked(e)'
    <2>1. TaskTracked(e)
      BY Zenon DEF TasksTracked
    <2>2. e \in Alive <=> status[e] # "ABSENT" /\ status[e] # "KILLING"
      BY Zenon DEF Alive, Present
    <2>3. InFlight(e)' = InFlight(e)
      BY <1>1, Zenon DEF InFlight
    <2> QED
      BY <1>1, <1>2, <2>1, <2>2, <2>3, Zenon DEF TaskTracked
  <1> QED
    BY <1>3, Zenon DEF TasksTracked

LEMMA Stage0Tasks ==
  ASSUME TypeOK, KillsTracked, TasksTracked, TasksStarted, Stage0, pc' # "dead",
         UNCHANGED loopVars
  PROVE  TasksTracked'
  <1>1. /\ pc = "init" /\ UNCHANGED <<killer, scheduler_outputs, ready_tasks, executor_states>>
    BY Zenon DEF Stage0, loopVars
  <1>2. \A e \in Executors : \/ status'[e] = status[e]
                             \/ /\ status[e] \in {"IDLE", "IDLE_NOT_ACCEPTING"}
                                /\ status'[e] = "CONSIDERED"
    BY Stage0Step, Zenon
  <1>3. ASSUME NEW e \in Executors, status[e] \in {"IDLE", "IDLE_NOT_ACCEPTING"}
        PROVE  scheduler_outputs[e] = NoBatch
    BY <1>1, <1>3, ConsideredFree, Zenon
  <1>4. ASSUME NEW e \in Executors
        PROVE  TaskTracked(e)'
    <2>1. TaskTracked(e) /\ InFlight(e)' = InFlight(e)
      BY <1>1, Zenon DEF TasksTracked, InFlight
    <2>2. CASE status'[e] = status[e]
      BY <1>1, <2>1, <2>2, Zenon DEF TaskTracked
    <2>3. CASE status[e] \in {"IDLE", "IDLE_NOT_ACCEPTING"} /\ status'[e] = "CONSIDERED"
      <3>1. scheduler_outputs[e] = NoBatch /\ InFlight(e) = {}
        BY <1>3, <2>3, Zenon DEF InFlight
      <3> QED
        BY <1>1, <2>1, <2>3, <3>1, Zenon DEF TaskTracked
    <2> QED
      BY <1>2, <2>2, <2>3, Zenon
  <1> QED
    BY <1>4, Zenon DEF TasksTracked

LEMMA ConsideredKnown ==
  ASSUME LocalsTracked, Scheduling, NEW e \in Executors, e \in Considered
  PROVE  e \in executor_states /\ status[e] = "CONSIDERED"
  BY Zenon DEF LocalsTracked, Alive, Present

\* The two ends of stage 6: the batches that go out, and an empty one.
LEMMA Stage6Tasks ==
  ASSUME TypeOK, KillsTracked, TasksTracked, TasksStarted, LocalsTracked, Stage6, pc' # "dead",
         NEW out \in SUBSET executor_states,
         \A e \in out \ Scheduled : scheduler_outputs[e] = NoBatch /\ scheduler_outputs'[e] = EmptyBatch,
         Scheduled \subseteq out,
         \A e \in Executors \ out : scheduler_outputs'[e] = scheduler_outputs[e],
         ready_tasks' = ready_tasks \cup out
  PROVE  TasksTracked'
  <1>1. /\ pc = "stage5"
        /\ \A e \in Executors :
             /\ status'[e] = IF e \in Scheduled THEN "SCHEDULED"
                             ELSE IF e \in Considered THEN "IDLE" ELSE status[e]
             /\ killer'[e] = killer[e] \/ (killer[e] = "waiting" /\ killer'[e] = "notified")
        /\ UNCHANGED executor_states
    BY Stage6Step, Zenon DEF placementVars
  <1>2. ready_tasks = {} /\ Scheduling
    BY <1>1, Zenon DEF TasksStarted, Scheduling
  <1>3. ASSUME NEW e \in Executors
        PROVE  TaskTracked(e)'
    <2>1. TaskTracked(e)
      BY Zenon DEF TasksTracked
    <2>2. e \in executor_states => status[e] # "ABSENT" /\ killer[e] # "done"
      <3>1. e \in executor_states => status[e] # "ABSENT"
        BY <1>2 DEF LocalsTracked, Alive, Present
      <3> QED
        BY <3>1, Zenon DEF KillsTracked
    <2>3. e \in Considered =>
            /\ e \in executor_states /\ status[e] = "CONSIDERED"
            /\ scheduler_outputs[e] = NoBatch /\ killer[e] \notin {"shutdown", "done"}
      <3>1. e \in Considered => e \in executor_states /\ status[e] = "CONSIDERED"
        BY <1>2, ConsideredKnown, Zenon
      <3> QED
        BY <1>1, <3>1, ConsideredFree, Zenon
    <2>4. Scheduled \subseteq Considered
      BY Zenon DEF Scheduled, Considered
    <2>5. CASE e \in Scheduled
      BY <1>1, <2>2, <2>3, <2>4, <2>5, Zenon DEF TaskTracked
    <2>6. CASE e \in out \ Scheduled
      <3>1. InFlight(e)' = {} /\ e \in executor_states /\ e \in ready_tasks'
        BY <2>6 DEF InFlight, EmptyBatch
      <3> QED
        BY <1>1, <2>2, <2>6, <3>1, Zenon DEF TaskTracked
    <2>7. CASE e \notin out
      <3>1. InFlight(e)' = InFlight(e) /\ scheduler_outputs'[e] = scheduler_outputs[e]
        BY <2>7, Zenon DEF InFlight
      <3>2. e \in Considered => InFlight(e) = {}
        BY <2>3, Zenon DEF InFlight
      <3>3. e \notin Scheduled /\ e \notin ready_tasks'
        BY <1>2, <2>7, Zenon
      <3> QED
        BY <1>1, <1>2, <2>1, <2>2, <2>3, <3>1, <3>2, <3>3, Zenon DEF TaskTracked
    <2> QED
      BY <2>5, <2>6, <2>7, Zenon
  <1> QED
    BY <1>3, Zenon DEF TasksTracked

LEMMA ProcessOutputTasks ==
  ASSUME TypeOK, KillsTracked, TasksTracked, TasksStarted, OutputsOfBatches, ProcessOutput,
         pc' # "dead"
  PROVE  TasksTracked'
  <1>1. PICK e \in Executors, done \in SUBSET Requests :
         /\ pc \in {"output_wait", "drain"}
         /\ FreeRequests(done)
         /\ \A f \in Executors :
             /\ scheduler_outputs'[f] = IF f = e THEN NoBatch ELSE scheduler_outputs[f]
             /\ f # e => status'[f] = status[f]
             /\ killer'[f] = killer[f] \/ (killer[f] = "waiting" /\ killer'[f] = "notified")
         /\ status'[e] \in {"IDLE", "IDLE_NOT_ACCEPTING"}
         /\ UNCHANGED ready_tasks
    BY ProcessOutputStep, Zenon
  <1>2. ready_tasks = {} /\ UNCHANGED executor_states
    BY <1>1, Zenon DEF TasksStarted, FreeRequests
  <1>3. ASSUME NEW f \in Executors
        PROVE  TaskTracked(f)'
    <2>1. TaskTracked(f)
      BY Zenon DEF TasksTracked
    <2>2. CASE f = e
      <3>1. InFlight(f)' = {} /\ scheduler_outputs'[f] = NoBatch
        BY <1>1, <2>2, Zenon DEF InFlight
      <3> QED
        BY <1>1, <1>2, <2>2, <3>1, Zenon DEF TaskTracked
    <2>3. CASE f # e
      <3>1. InFlight(f)' = InFlight(f) /\ scheduler_outputs'[f] = scheduler_outputs[f]
        BY <1>1, <2>3, Zenon DEF InFlight
      <3> QED
        BY <1>1, <1>2, <2>1, <2>3, <3>1, Zenon DEF TaskTracked
    <2> QED
      BY <2>2, <2>3, Zenon
  <1> QED
    BY <1>3, Zenon DEF TasksTracked

LEMMA ExecuteModelTasks ==
  ASSUME TypeOK, KillsTracked, TasksTracked, NEW e \in Executors, ExecuteModel(e)
  PROVE  TasksTracked'
  <1>1. /\ e \in ready_tasks /\ ready_tasks' = ready_tasks \ {e}
        /\ \A f \in Executors : status'[f] = IF f = e THEN "EXECUTING" ELSE status[f]
        /\ UNCHANGED <<killer, scheduler_outputs, executor_states>>
    BY Zenon DEF ExecuteModel, TypeOK, ManagerTypeOK, placementVars
  <1>2. ASSUME NEW f \in Executors
        PROVE  TaskTracked(f)'
    <2>1. TaskTracked(f) /\ InFlight(f)' = InFlight(f)
      BY <1>1, Zenon DEF TasksTracked, InFlight
    <2> QED
      BY <1>1, <2>1, Zenon DEF TaskTracked
  <1> QED
    BY <1>2, Zenon DEF TasksTracked

LEMMA ModelDoneTasks ==
  ASSUME TypeOK, KillsTracked, TasksTracked, NEW e \in Executors, ModelDone(e)
  PROVE  TasksTracked'
  <1>1. /\ \A f \in Executors : status'[f] = IF f = e THEN "OUTPUT_READY" ELSE status[f]
        /\ UNCHANGED <<killer, scheduler_outputs, executor_states, ready_tasks>>
    BY Zenon DEF ModelDone, TypeOK, ManagerTypeOK, schedulerVars, placementVars
  <1>2. ASSUME NEW f \in Executors
        PROVE  TaskTracked(f)'
    <2>1. TaskTracked(f) /\ InFlight(f)' = InFlight(f)
      BY <1>1, Zenon DEF TasksTracked, InFlight
    <2> QED
      BY <1>1, <2>1, Zenon DEF TaskTracked
  <1> QED
    BY <1>2, Zenon DEF TasksTracked

LEMMA LaunchTasks ==
  ASSUME TypeOK, KillsTracked, TasksTracked, NEW e \in Executors, Launch(e)
  PROVE  TasksTracked'
  <1>1. /\ status[e] = "ABSENT" /\ killer[e] = "none"
        /\ \A f \in Executors : status'[f] = IF f = e THEN "IDLE" ELSE status[f]
        /\ UNCHANGED <<killer, scheduler_outputs, executor_states, ready_tasks>>
    BY Zenon DEF Launch, LaunchExecutor, TypeOK, ManagerTypeOK, schedulerVars, placementVars,
                 loopVars
  <1>2. ASSUME NEW f \in Executors
        PROVE  TaskTracked(f)'
    <2>1. TaskTracked(f) /\ InFlight(f)' = InFlight(f)
      BY <1>1, Zenon DEF TasksTracked, InFlight
    <2> QED
      BY <1>1, <2>1, Zenon DEF TaskTracked
  <1> QED
    BY <1>2, Zenon DEF TasksTracked

\* The killer marks an executor only when it is IDLE, and then only an empty batch
\* can be with it.
LEMMA KillTasks ==
  ASSUME TypeOK, KillsTracked, TasksTracked, NEW e \in Executors,
         \/ KillExecutor(e)
         \/ KillerWakes(e)
         \/ e \notin ready_tasks /\ ShutdownDone(e),
         UNCHANGED <<scheduler_outputs, executor_states, ready_tasks>>
  PROVE  TasksTracked'
  <1>1. \A f \in Executors \ {e} : status'[f] = status[f] /\ killer'[f] = killer[f]
    BY Zenon DEF TypeOK, ManagerTypeOK, KillExecutor, KillerWakes, ShutdownDone
  <1>2. \/ /\ killer[e] \in {"none", "notified"} /\ status[e] # "ABSENT"
           /\ \/ status[e] = "IDLE" /\ status'[e] = "KILLING" /\ killer'[e] = "shutdown"
              \/ status'[e] = status[e] /\ killer'[e] = "waiting"
        \/ /\ e \notin ready_tasks /\ killer[e] = "shutdown"
           /\ status'[e] = "ABSENT" /\ killer'[e] = "done"
    <2>1. CASE KillExecutor(e)
      BY <2>1, Zenon DEF TypeOK, ManagerTypeOK, KillExecutor, Present
    <2>2. CASE KillerWakes(e)
      <3>1. status[e] # "ABSENT"
        BY <2>2, Zenon DEF KillsTracked, KillerWakes
      <3> QED
        BY <2>2, <3>1, Zenon DEF TypeOK, ManagerTypeOK, KillerWakes
    <2>3. CASE e \notin ready_tasks /\ ShutdownDone(e)
      BY <2>3, Zenon DEF TypeOK, ManagerTypeOK, ShutdownDone
    <2> QED
      BY <2>1, <2>2, <2>3, Zenon
  <1>3. ASSUME NEW f \in Executors
        PROVE  TaskTracked(f)'
    <2>1. TaskTracked(f) /\ InFlight(f)' = InFlight(f)
      BY Zenon DEF TasksTracked, InFlight
    <2>2. CASE f # e
      BY <1>1, <2>1, <2>2, Zenon DEF TaskTracked
    <2>3. CASE f = e
      BY <1>2, <2>1, <2>3, Zenon DEF TaskTracked
    <2> QED
      BY <2>2, <2>3, Zenon
  <1> QED
    BY <1>3, Zenon DEF TasksTracked

-----------------------------------------------------------------------------
(* Locals.                                                                 *)

LEMMA PlacedOnKnown ==
  ASSUME TypeOK, PlacementConsistent
  PROVE  \A r \in Requests : executor_id[r] \in executor_states \cup {None}
  BY Zenon DEF PlacementConsistent, TypeOK, SchedulerTypeOK, PlacementTypeOK, ExecutorOrNone

Quiet == pc \notin {"init", "stage1", "stage2", "stage5", "dead"}

\* Nothing but schedule() changes its locals.
LEMMA LocalsQuiet ==
  ASSUME LocalsTracked, Quiet, Quiet', UNCHANGED localVars
  PROVE  LocalsTracked'
  <1>1. /\ Considered = {} /\ in_output = {} /\ new_reqs = NoRequests /\ running_reqs = NoRequests
        /\ todo = {}
    BY Zenon DEF LocalsTracked, Quiet
  <1>2. /\ Considered' = {} /\ in_output' = {} /\ new_reqs' = NoRequests
        /\ running_reqs' = NoRequests /\ todo' = {}
    BY <1>1, Zenon DEF localVars, Considered
  <1>3. idle_executors' = {} /\ idle_not_accepting' = {}
    BY <1>2, Zenon DEF Considered
  <1> QED
    BY <1>2, <1>3, Zenon DEF LocalsTracked, Quiet, Scheduling, NoRequests

LEMMA LocalsReset ==
  ASSUME ResetLocals, Quiet'
  PROVE  LocalsTracked'
  <1>1. /\ idle_executors' = {} /\ idle_not_accepting' = {} /\ in_output' = {}
        /\ new_reqs' = NoRequests /\ running_reqs' = NoRequests /\ todo' = {}
    BY Zenon DEF ResetLocals
  <1>2. Considered' = {}
    BY <1>1, Zenon DEF Considered
  <1> QED
    BY <1>1, <1>2, Zenon DEF LocalsTracked, Quiet, Scheduling, NoRequests

LEMMA UpdateExecutorsLocals ==
  ASSUME TypeOK, LocalsTracked, PlacementConsistent, UpdateExecutors, pc' # "dead"
  PROVE  LocalsTracked'
  <1>1. /\ pc = "update_executors" /\ pc' = "init"
        /\ executor_states' = Alive
        /\ \A r \in Requests : executor_id'[r] =
               IF executor_id[r] \in Removed THEN None ELSE executor_id[r]
        /\ old_executor' = executor_id'
        /\ UNCHANGED <<status, idle_executors, idle_not_accepting, schedulable,
                        in_output, todo, new_reqs, running_reqs>>
    BY UpdateExecutorsStep, Zenon DEF managerVars
  <1>2. /\ Considered = {} /\ in_output = {} /\ new_reqs = NoRequests /\ running_reqs = NoRequests
        /\ todo = {}
    BY <1>1, Zenon DEF LocalsTracked
  <1>3. Considered' = {} /\ idle_executors' = {} /\ idle_not_accepting' = {} /\ Alive' = Alive
    BY <1>1, <1>2, Zenon DEF Considered, Alive, Present
  <1>4. \A r \in Requests : old_executor'[r] \in executor_states' \cup {None}
    <2>1. \A r \in Requests : executor_id[r] \in executor_states \cup {None}
      BY PlacedOnKnown, Zenon
    <2> QED
      BY <1>1, <2>1, Zenon DEF Removed
  <1> QED
    BY <1>1, <1>2, <1>3, <1>4, Zenon DEF LocalsTracked, Scheduling, NoRequests

LEMMA Stage0Locals ==
  ASSUME TypeOK, LocalsTracked, PlacementConsistent, ScheduleLocalsConsistent, Stage0, pc' # "dead"
  PROVE  LocalsTracked'
  <1>1. pc = "init" /\ UNCHANGED <<executor_states, cur, new_reqs, running_reqs>>
    BY Zenon DEF Stage0
  <1>2. /\ Considered = {} /\ in_output = {} /\ new_reqs = NoRequests /\ running_reqs = NoRequests
        /\ todo = {} /\ cur = None
    BY <1>1, Zenon DEF LocalsTracked, ScheduleLocalsConsistent
  <1>3. CASE pc' = "step_sleep" /\ UNCHANGED <<idle_executors, idle_not_accepting, in_output, todo>>
    <2>1. Considered' = {} /\ idle_executors' = {} /\ idle_not_accepting' = {} /\ in_output' = {}
          /\ todo' = {}
      BY <1>2, <1>3, Zenon DEF Considered
    <2> QED
      BY <1>1, <1>2, <1>3, <2>1, Zenon DEF LocalsTracked, Scheduling, NoRequests
  <1>4. ASSUME NEW considered \in SUBSET Executors, NEW committed \in SUBSET Requests,
            pc' = "stage1",
            considered = {e \in Executors : status[e] \in {"IDLE", "IDLE_NOT_ACCEPTING"}},
            committed = UNION {pending_request_additions[e] : e \in considered},
            \A r \in committed : executor_id[r] = None,
            \A e \in Executors : status'[e] = IF e \in considered THEN "CONSIDERED" ELSE status[e],
            idle_executors' = {e \in Executors : status[e] = "IDLE"},
            idle_not_accepting' = {e \in Executors : status[e] = "IDLE_NOT_ACCEPTING"},
            schedulable' = executor_states \ considered,
            \A e \in Executors : pending_request_additions'[e] =
                 IF e \in considered THEN {} ELSE pending_request_additions[e],
            \A r \in Requests : executor_id'[r] =
                 IF r \in committed THEN pending_executor_id[r] ELSE executor_id[r],
            in_output' = committed,
            todo' = considered,
            UNCHANGED old_executor
        PROVE  LocalsTracked'
    <2>1. Considered' = considered
      BY <1>4, Zenon DEF Considered
    <2>2. Alive' = Alive
      BY <1>4, Zenon DEF Alive, Present
    <2>3. /\ executor_states = Alive
          /\ \A r \in Requests : old_executor[r] \in executor_states \cup {None}
          /\ \A r \in Requests : old_executor[r] = executor_id[r]
      BY <1>1, <1>2, Zenon DEF LocalsTracked, Scheduling
    <2>4. ASSUME NEW r \in committed
          PROVE  executor_id'[r] \in considered
      <3>1. PICK e \in considered : r \in pending_request_additions[e]
        BY <1>4
      <3>2. pending_executor_id[r] = e
        BY <3>1, Zenon DEF PlacementConsistent
      <3> QED
        BY <1>4, <3>1, <3>2, Zenon
    <2>5. None \notin considered
      BY RequestsAssumption, Zenon
    <2>6. /\ idle_executors' \cap idle_not_accepting' = {}
          /\ schedulable' \cap idle_not_accepting' = {}
      BY <1>4, Zenon
    <2>7. \A e \in Considered' : status'[e] = "CONSIDERED" /\ pending_request_additions'[e] = {}
      BY <1>4, <2>1, Zenon
    <2>8. \A r \in in_output' : executor_id'[r] \in Considered' \cup {None}
      BY <1>4, <2>1, <2>4, Zenon
    <2>9. \A r \in Requests : executor_id'[r] \in Considered' =>
            \/ r \in in_output'
            \/ pc' = "stage1" /\ executor_id'[r] \in todo' /\ executor_id'[r] # cur'
      BY <1>1, <1>2, <1>4, <2>1, <2>5, Zenon
    <2>10. \A r \in Requests \ in_output' : old_executor'[r] = executor_id'[r]
      BY <1>4, <2>3, Zenon
    <2>11. /\ executor_states' = Alive'
           /\ \A r \in Requests : old_executor'[r] \in executor_states' \cup {None}
      BY <1>1, <1>4, <2>2, <2>3, Zenon
    <2>12. new_reqs' = NoRequests /\ running_reqs' = NoRequests
      BY <1>1, <1>2, Zenon
    <2>13. /\ \A e \in Executors : new_reqs'[e] = {} /\ running_reqs'[e] = {}
      BY <2>12, Zenon DEF NoRequests
    <2> QED
      BY <1>4, <2>1, <2>6, <2>7, <2>8, <2>9, <2>10, <2>11, <2>12, <2>13, Zenon
         DEF LocalsTracked, Scheduling
  <1> QED
    <2>1. \/ pc' = "step_sleep" /\ UNCHANGED <<idle_executors, idle_not_accepting, in_output, todo>>
          \/ \E considered \in SUBSET Executors, committed \in SUBSET Requests :
                /\ pc' = "stage1"
                /\ considered = {e \in Executors : status[e] \in {"IDLE", "IDLE_NOT_ACCEPTING"}}
                /\ committed = UNION {pending_request_additions[e] : e \in considered}
                /\ \A r \in committed : executor_id[r] = None
                /\ \A e \in Executors : status'[e] = IF e \in considered THEN "CONSIDERED" ELSE status[e]
                /\ idle_executors' = {e \in Executors : status[e] = "IDLE"}
                /\ idle_not_accepting' = {e \in Executors : status[e] = "IDLE_NOT_ACCEPTING"}
                /\ schedulable' = executor_states \ considered
                /\ \A e \in Executors : pending_request_additions'[e] =
                     IF e \in considered THEN {} ELSE pending_request_additions[e]
                /\ \A r \in Requests : executor_id'[r] =
                     IF r \in committed THEN pending_executor_id[r] ELSE executor_id[r]
                /\ in_output' = committed
                /\ todo' = considered
                /\ UNCHANGED old_executor
      BY Stage0Step, Zenon
    <2> QED
      BY <1>3, <1>4, <2>1, Zenon

\* A step of stages 1 and 2 that changes none of the executors under way.
LEMMA Stage1NextExecutorLocals ==
  ASSUME TypeOK, LocalsTracked, PlacementConsistent, Stage1NextExecutor
  PROVE  LocalsTracked'
  <1>1. PICK e \in todo : cur' = e /\ cur_reqs' = req_ids[e]
    BY Zenon DEF Stage1NextExecutor
  <1>2. UNCHANGED <<pc, idle_executors, idle_not_accepting, in_output, new_reqs, running_reqs,
                    executor_states, old_executor, todo, schedulable, status, executor_id,
                    pending_request_additions>>
    BY Zenon DEF Stage1NextExecutor, controlVars, placementVars, managerVars
  <1>3. Considered' = Considered /\ Alive' = Alive /\ Scheduling' = Scheduling
    BY <1>2, Zenon DEF Considered, Alive, Present, Scheduling
  <1>4. \A r \in Requests : executor_id[r] = e => r \in cur_reqs'
    BY <1>1, Zenon DEF PlacementConsistent, TypeOK, SchedulerTypeOK, LocalTypeOK
  <1> QED
    BY <1>1, <1>2, <1>3, <1>4, Zenon DEF LocalsTracked

LEMMA Stage1ExecutorDoneLocals ==
  ASSUME TypeOK, LocalsTracked, Stage1ExecutorDone
  PROVE  LocalsTracked'
  <1>1. /\ pc = "stage1" /\ cur_reqs = {} /\ cur' = None /\ todo' = todo \ {cur}
        /\ schedulable' = schedulable \cup ({cur} \cap idle_executors)
    BY Zenon DEF Stage1ExecutorDone
  <1>2. UNCHANGED <<pc, idle_executors, idle_not_accepting, in_output, new_reqs, running_reqs,
                    executor_states, old_executor, status, executor_id,
                    pending_request_additions>>
    BY Zenon DEF Stage1ExecutorDone, controlVars, placementVars, managerVars
  <1>3. Considered' = Considered /\ Alive' = Alive /\ Scheduling' = Scheduling
    BY <1>2, Zenon DEF Considered, Alive, Present, Scheduling
  <1>4. None \notin todo
    BY RequestsAssumption, Zenon DEF TypeOK, SchedulerTypeOK, LocalTypeOK
  <1> QED
    BY <1>1, <1>2, <1>3, <1>4 DEF LocalsTracked

LEMMA Stage12DoneLocals ==
  ASSUME TypeOK, LocalsTracked, Stage1Done \/ Stage2Done
  PROVE  LocalsTracked'
  <1>1. /\ \/ pc = "stage1" /\ pc' = "stage2" /\ todo = {}
           \/ pc = "stage2" /\ pc' = "stage5"
        /\ UNCHANGED <<idle_executors, idle_not_accepting, in_output, new_reqs, running_reqs,
                    executor_states, old_executor, todo, schedulable, status, executor_id,
                    pending_request_additions, cur, cur_reqs>>
    BY Zenon DEF Stage1Done, Stage2Done, Goto, localVars, placementVars, managerVars
  <1>3. Considered' = Considered /\ Alive' = Alive /\ Scheduling' /\ Scheduling
    BY <1>1, Zenon DEF Considered, Alive, Present, Scheduling
  <1> QED
    BY <1>1, <1>3, Zenon DEF LocalsTracked

LEMMA Stage1RequestLocals ==
  ASSUME TypeOK, LocalsTracked, PlacementConsistent, ScheduleLocalsConsistent,
         NEW r \in Requests, Stage1Request(r)
  PROVE  LocalsTracked'
  <1>1. /\ pc = "stage1" /\ cur # None /\ r \in cur_reqs
        /\ cur_reqs' = cur_reqs \ {r} /\ in_output' = in_output \cup {r}
        /\ UNCHANGED <<pc, idle_executors, idle_not_accepting, new_reqs, running_reqs,
                       old_executor, todo, schedulable, status, cur>>
    BY Zenon DEF Stage1Request, controlVars, managerVars
  <1>2. /\ \A q \in Requests \ {r} : executor_id'[q] = executor_id[q]
        /\ executor_id'[r] \in {executor_id[r], None} \cup (idle_executors \cap schedulable)
        /\ \A e \in Executors : e \notin schedulable \/ e \in idle_executors =>
               pending_request_additions'[e] = pending_request_additions[e]
        /\ UNCHANGED executor_states
    BY Stage1RequestStep, Zenon
  <1>3. Considered' = Considered /\ Alive' = Alive /\ Scheduling' = Scheduling
    BY <1>1, Zenon DEF Considered, Alive, Present, Scheduling
  <1>4. executor_id[r] = cur /\ cur \in todo /\ cur \in Considered
    <2>1. cur \in todo /\ r \in req_ids[cur]
      BY <1>1, Zenon DEF ScheduleLocalsConsistent
    <2>2. cur \in Considered /\ cur \in Executors
      BY <2>1, Zenon DEF LocalsTracked, TypeOK, SchedulerTypeOK, LocalTypeOK
    <2> QED
      BY <2>1, <2>2, Zenon DEF PlacementConsistent
  <1>5. executor_id'[r] \in Considered \cup {None}
    BY <1>2, <1>4, Zenon DEF Considered
  <1>6. \A e \in Considered : pending_request_additions'[e] = {}
    BY <1>2, Zenon DEF LocalsTracked, Considered, TypeOK, SchedulerTypeOK, LocalTypeOK
  <1>7. \A e \in Executors : new_reqs[e] = {} /\ running_reqs[e] = {}
    BY <1>1, Zenon DEF LocalsTracked, NoRequests
  <1>8. \A q \in in_output' : executor_id'[q] \in Considered' \cup {None}
    BY <1>1, <1>2, <1>3, <1>5, Zenon DEF LocalsTracked, TypeOK, SchedulerTypeOK, LocalTypeOK
  <1>9. \A q \in Requests \ in_output' : old_executor'[q] = executor_id'[q]
    BY <1>1, <1>2, Zenon DEF LocalsTracked
  <1>10. \A q \in Requests : executor_id'[q] \in Considered' =>
            \/ q \in in_output'
            \/ /\ pc' = "stage1" /\ executor_id'[q] \in todo'
               /\ executor_id'[q] = cur' => q \in cur_reqs'
    BY <1>1, <1>2, <1>3, <1>7, Zenon DEF LocalsTracked
  <1>11. \A e \in Considered' : status'[e] = "CONSIDERED" /\ pending_request_additions'[e] = {}
    BY <1>1, <1>3, <1>6, Zenon DEF LocalsTracked
  <1>12. /\ Scheduling' => /\ executor_states' = Alive'
                           /\ \A q \in Requests : old_executor'[q] \in executor_states' \cup {None}
         /\ todo' \subseteq Considered'
         /\ idle_executors' \cap idle_not_accepting' = {}
         /\ schedulable' \cap idle_not_accepting' = {}
         /\ new_reqs' = NoRequests /\ running_reqs' = NoRequests
    BY <1>1, <1>2, <1>3, Zenon DEF LocalsTracked
  <1>13. pc' = "stage1" /\ \A e \in Executors : new_reqs'[e] = {} /\ running_reqs'[e] = {}
    BY <1>1, <1>7, Zenon
  <1> QED
    BY <1>8, <1>9, <1>10, <1>11, <1>12, <1>13, Zenon DEF LocalsTracked

LEMMA Stage2RequestLocals ==
  ASSUME TypeOK, LocalsTracked, NEW r \in Requests, Stage2Request(r)
  PROVE  LocalsTracked'
  <1>1. /\ pc = "stage2"
        /\ UNCHANGED <<pc, idle_executors, idle_not_accepting, new_reqs, running_reqs,
                       old_executor, todo, schedulable, status, cur, cur_reqs>>
    BY Zenon DEF Stage2Request, controlVars, managerVars
  <1>2. /\ executor_id[r] = None
        /\ \A q \in Requests \ {r} : executor_id'[q] = executor_id[q]
        /\ \/ executor_id'[r] = None /\ UNCHANGED in_output
           \/ /\ executor_id'[r] \in idle_executors \cap schedulable
              /\ in_output' = in_output \cup {r}
        /\ \A e \in Executors : e \notin schedulable \/ e \in idle_executors =>
               pending_request_additions'[e] = pending_request_additions[e]
        /\ UNCHANGED executor_states
    BY Stage2RequestStep, Zenon
  <1>3. Considered' = Considered /\ Alive' = Alive /\ Scheduling' = Scheduling
    BY <1>1, Zenon DEF Considered, Alive, Present, Scheduling
  <1>4. /\ executor_id'[r] \in Considered => r \in in_output'
        /\ executor_id'[r] \in Considered \cup {None}
    BY <1>2, RequestsAssumption, Zenon DEF Considered, TypeOK, SchedulerTypeOK, LocalTypeOK
  <1>6. \A e \in Considered : pending_request_additions'[e] = {}
    BY <1>2, Zenon DEF LocalsTracked, Considered, TypeOK, SchedulerTypeOK, LocalTypeOK
  <1>7. \A e \in Executors : new_reqs[e] = {} /\ running_reqs[e] = {}
    BY <1>1, Zenon DEF LocalsTracked, NoRequests
  <1>8. in_output \subseteq in_output' /\ in_output' \subseteq in_output \cup {r}
    BY <1>2, Zenon
  <1>9. \A q \in Requests \ in_output' : executor_id'[q] = old_executor[q]
    BY <1>1, <1>2, <1>8, Zenon DEF LocalsTracked
  <1>10. \A q \in in_output' : executor_id'[q] \in Considered' \cup {None}
    BY <1>2, <1>3, <1>4, <1>8, Zenon DEF LocalsTracked, TypeOK, SchedulerTypeOK, LocalTypeOK
  <1>11. \A q \in Requests : executor_id'[q] \in Considered' => q \in in_output'
    BY <1>1, <1>2, <1>3, <1>4, <1>7, <1>8, Zenon DEF LocalsTracked
  <1>12. \A e \in Considered' : status'[e] = "CONSIDERED" /\ pending_request_additions'[e] = {}
    BY <1>1, <1>3, <1>6, Zenon DEF LocalsTracked
  <1>13. /\ Scheduling' => /\ executor_states' = Alive'
                           /\ \A q \in Requests : old_executor'[q] \in executor_states' \cup {None}
         /\ todo' \subseteq Considered'
         /\ idle_executors' \cap idle_not_accepting' = {}
         /\ schedulable' \cap idle_not_accepting' = {}
         /\ new_reqs' = NoRequests /\ running_reqs' = NoRequests
    BY <1>1, <1>2, <1>3, Zenon DEF LocalsTracked
  <1>14. pc' = "stage2" /\ \A e \in Executors : new_reqs'[e] = {} /\ running_reqs'[e] = {}
    BY <1>1, <1>7, Zenon
  <1> QED
    BY <1>1, <1>9, <1>10, <1>11, <1>12, <1>13, <1>14, Zenon DEF LocalsTracked

LEMMA Stage5RequestLocals ==
  ASSUME TypeOK, LocalsTracked, NEW r \in Requests, Stage5Request(r), pc' # "dead"
  PROVE  LocalsTracked'
  <1>1. /\ pc = "stage5" /\ r \in in_output /\ in_output' = in_output \ {r}
        /\ UNCHANGED <<idle_executors, idle_not_accepting, executor_id, executor_states,
                       old_executor, todo, schedulable, status, cur, cur_reqs,
                       pending_request_additions>>
    BY Zenon DEF Stage5Request, managerVars, placementVars
  <1>2. pc' = pc
    BY Zenon DEF Stage5Request, Stage5Move, Stage5Keep, Fail, controlVars
  <1>3. \/ /\ \A e \in Executors :
                 new_reqs'[e] = IF e = executor_id[r] THEN new_reqs[e] \cup {r} ELSE new_reqs[e]
           /\ UNCHANGED running_reqs
        \/ /\ \A e \in Executors : running_reqs'[e] =
                 IF e = executor_id[r] THEN running_reqs[e] \cup {r} ELSE running_reqs[e]
           /\ UNCHANGED new_reqs
    BY Stage5RequestStep, Zenon
  <1>4. Considered' = Considered /\ Alive' = Alive /\ Scheduling' = Scheduling
    BY <1>1, <1>2, Zenon DEF Considered, Alive, Present, Scheduling
  <1>5. executor_id[r] \in Considered \cup {None}
    BY <1>1, Zenon DEF LocalsTracked
  <1>6. \A e \in Executors : r \notin new_reqs[e] /\ r \notin running_reqs[e]
    BY <1>1, Zenon DEF LocalsTracked
  <1>7. \A e \in Executors : new_reqs'[e] \cap running_reqs'[e] = {}
    <2>1. \A e \in Executors : new_reqs[e] \cap running_reqs[e] = {}
      BY Zenon DEF LocalsTracked
    <2> QED
      BY <1>3, <1>6, <2>1, Zenon
  <1>8. None \notin Executors /\ Considered \subseteq Executors
    BY RequestsAssumption, Zenon DEF Considered, TypeOK, SchedulerTypeOK, LocalTypeOK
  <1>9. ASSUME NEW e \in Executors, NEW q \in new_reqs'[e] \cup running_reqs'[e]
        PROVE  executor_id'[q] = e /\ e \in Considered' /\ q \notin in_output'
    <2>1. q \in new_reqs[e] \cup running_reqs[e] \/ (q = r /\ e = executor_id[r])
      BY <1>3, Zenon
    <2> QED
      BY <1>1, <1>4, <1>5, <1>8, <2>1 DEF LocalsTracked
  <1>10. ASSUME NEW q \in Requests, executor_id'[q] \in Considered'
         PROVE  q \in in_output' \/ q \in new_reqs'[executor_id'[q]] \cup running_reqs'[executor_id'[q]]
    <2>1. CASE q = r
      <3>1. executor_id[r] \in Executors
        BY <1>1, <1>4, <1>8, <1>10, <2>1, Zenon
      <3> QED
        BY <1>1, <1>3, <2>1, <3>1, Zenon
    <2>2. CASE q # r
      <3>1. executor_id[q] \in Executors
        BY <1>1, <1>4, <1>8, <1>10, <2>2, Zenon
      <3>2. q \in in_output \/ q \in new_reqs[executor_id[q]] \cup running_reqs[executor_id[q]]
        BY <1>1, <1>4, <1>10, Zenon DEF LocalsTracked
      <3> QED
        BY <1>1, <1>3, <2>2, <3>1, <3>2, Zenon
    <2> QED
      BY <2>1, <2>2, Zenon
  <1>11. \A q \in in_output' : executor_id'[q] \in Considered' \cup {None}
    BY <1>1, <1>4, Zenon DEF LocalsTracked
  <1> QED
    BY <1>1, <1>2, <1>4, <1>7, <1>9, <1>10, <1>11, Zenon DEF LocalsTracked

-----------------------------------------------------------------------------
(* Stores.                                                                 *)

\* Nothing moves: the stores follow as long as an executor that is not in the
\* scheduler's dictionary is only launched, shut down or gone.
LEMMA StoresFrame ==
  ASSUME StoresTracked,
         \A r \in Requests : Holder(r)' = Holder(r),
         UNCHANGED <<storeVars, new_reqs, executor_states, ready_tasks, worker_requests,
                     scheduler_outputs>>,
         \A e \in Executors \ executor_states :
            worker_requests[e] = {} \/ killer[e] = "done" \/ status[e] = "KILLING"
            => worker_requests[e] = {} \/ killer'[e] = "done" \/ status'[e] = "KILLING"
  PROVE  StoresTracked'
  <1>1. ASSUME NEW e \in Executors
        PROVE  StoreTracked(e)'
    <2>1. Held(e)' = Held(e)
      BY Zenon DEF Held
    <2>2. StoreTracked(e)
      BY Zenon DEF StoresTracked
    <2> QED
      BY <2>1, <2>2, Zenon DEF StoreTracked, storeVars
  <1> QED
    BY <1>1, Zenon DEF StoresTracked

\* Up to stage 2 the stores are the ones the step began with.
LEMMA HolderIsOld ==
  ASSUME LocalsTracked, pc \in {"init", "stage1", "stage2"}
  PROVE  \A r \in Requests : Holder(r) = old_executor[r]
  BY Zenon DEF LocalsTracked, Holder

LEMMA HolderIsExecutor ==
  ASSUME LocalsTracked, Quiet
  PROVE  \A r \in Requests : Holder(r) = executor_id[r]
  BY Zenon DEF LocalsTracked, Holder, Quiet

LEMMA NewReqsNone ==
  ASSUME LocalsTracked, pc # "stage5"
  PROVE  \A e \in Executors : new_reqs[e] = {}
  BY Zenon DEF LocalsTracked, NoRequests

\* _free_request moves a request from the executor's table to the list of what its
\* worker must forget.
LEMMA FreeRequestsStores ==
  ASSUME TypeOK, TasksTracked, LocalsTracked, LocalsTracked', PlacementConsistent, StoresTracked,
         Quiet, Quiet',
         NEW done \in SUBSET Requests, FreeRequests(done),
         \A r \in done : executor_id[r] # None,
         UNCHANGED <<worker_requests, ready_tasks>>,
         \A e \in ready_tasks : scheduler_outputs'[e] = scheduler_outputs[e],
         \A e \in Executors \ executor_states :
            (killer[e] = "done" => killer'[e] = "done") /\ status'[e] = status[e]
  PROVE  StoresTracked'
  <1>1. /\ \A e \in Executors :
             /\ free_req_ids'[e] = free_req_ids[e] \cup {r \in done : executor_id[r] = e}
             /\ kv_blocks'[e] = kv_blocks[e] \ {r \in done : executor_id[r] = e}
        /\ \A r \in Requests : executor_id'[r] = IF r \in done THEN None ELSE executor_id[r]
        /\ UNCHANGED executor_states
    BY Zenon DEF FreeRequests, ReqIdsToForget, BlocksWithout
  <1>2. /\ \A r \in Requests : Holder(r) = executor_id[r]
        /\ \A r \in Requests : Holder(r)' = executor_id'[r]
    BY HolderIsExecutor, Zenon DEF Quiet, LocalsTracked, Holder
  <1>3. \A e \in Executors : new_reqs[e] = {} /\ new_reqs'[e] = {}
    BY Zenon DEF LocalsTracked, Quiet, NoRequests
  <1>4. ASSUME NEW e \in Executors
        PROVE  StoreTracked(e)'
    <2> DEFINE H == Held(e)
               D == {r \in done : executor_id[r] = e}
    <2>1. H = {r \in Requests : executor_id[r] = e}
      BY <1>2, Zenon DEF Held
    <2>2. Held(e)' = {r \in Requests : executor_id'[r] = e}
      BY <1>2, Zenon DEF Held
    <2>3. D \subseteq H /\ Held(e)' = H \ D
      BY <1>1, <2>1, <2>2, RequestsAssumption
    <2>4. e \notin executor_states => H = {}
      BY <2>1, PlacedOnKnown, RequestsAssumption, ZenonT(30)
    <2>5. StoreTracked(e)
      BY Zenon DEF StoresTracked
    <2> HIDE DEF H, D
    <2>6. /\ kv_blocks[e] = IF Caching THEN H ELSE {}
          /\ H \cap free_req_ids[e] = {}
          /\ e \in executor_states \ ready_tasks => worker_requests[e] = H \cup free_req_ids[e]
          /\ e \in ready_tasks =>
               LET kept == worker_requests[e] \ scheduler_outputs[e].free
               IN  /\ kept \cup scheduler_outputs[e].new = H \cup free_req_ids[e]
                   /\ scheduler_outputs[e].cached \subseteq kept
          /\ e \notin executor_states =>
              /\ free_req_ids[e] = {}
              /\ worker_requests[e] = {} \/ killer[e] = "done" \/ status[e] = "KILLING"
      BY <1>3, <2>5, Zenon DEF StoreTracked, H
    <2>7. free_req_ids'[e] = free_req_ids[e] \cup D /\ kv_blocks'[e] = kv_blocks[e] \ D
      BY <1>1, Zenon DEF D
    <2>8. H \cup free_req_ids[e] = (H \ D) \cup free_req_ids'[e]
      BY <2>3, <2>7, Zenon
    <2> QED
      BY <1>1, <1>3, <2>3, <2>4, <2>6, <2>7, <2>8 DEF StoreTracked
  <1> QED
    BY <1>4, Zenon DEF StoresTracked

LEMMA UpdateExecutorsStores ==
  ASSUME TypeOK, KillsTracked, TasksTracked, TasksStarted, LocalsTracked, LocalsTracked',
         PlacementConsistent, StoresTracked, UpdateExecutors, pc' # "dead", UNCHANGED loopVars
  PROVE  StoresTracked'
  <1>1. /\ pc = "update_executors" /\ pc' = "init"
        /\ executor_states' = Alive
        /\ \A e \in Executors :
             /\ free_req_ids'[e] = IF e \in Removed THEN {} ELSE free_req_ids[e]
             /\ kv_blocks'[e] = IF e \in Removed THEN {} ELSE kv_blocks[e]
        /\ \A r \in Requests : executor_id'[r] =
               IF executor_id[r] \in Removed THEN None ELSE executor_id[r]
        /\ old_executor' = executor_id'
        /\ UNCHANGED <<status, killer, ready_tasks, worker_requests, scheduler_outputs>>
    BY UpdateExecutorsStep, Zenon DEF managerVars, loopVars
  <1>2. ready_tasks = {}
    BY <1>1, Zenon DEF TasksStarted
  <1>3. /\ \A r \in Requests : Holder(r) = executor_id[r]
        /\ \A r \in Requests : Holder(r)' = executor_id'[r]
    BY <1>1, HolderIsExecutor, Zenon DEF Quiet, LocalsTracked, Holder
  <1>4. \A e \in Executors : new_reqs[e] = {} /\ new_reqs'[e] = {}
    BY <1>1, Zenon DEF LocalsTracked, NoRequests
  <1>5. ASSUME NEW e \in Executors
        PROVE  StoreTracked(e)'
    <2>1. StoreTracked(e) /\ TaskTracked(e)
      BY Zenon DEF StoresTracked, TasksTracked
    <2>2. Held(e)' = IF e \in Removed THEN {} ELSE Held(e)
      BY <1>1, <1>3, RequestsAssumption DEF Held
    <2>3. e \notin executor_states => Held(e) = {}
      BY <1>3, PlacedOnKnown, RequestsAssumption DEF Held
    <2>4. /\ e \in Alive <=> status[e] # "ABSENT" /\ status[e] # "KILLING"
          /\ e \in Removed <=> (e \in executor_states \/ status[e] # "ABSENT") /\ e \notin Alive
      BY Zenon DEF Alive, Removed, Present
    <2>5. killer[e] = "done" => status[e] = "ABSENT"
      BY Zenon DEF KillsTracked
    <2> QED
      BY <1>1, <1>2, <1>4, <2>1, <2>2, <2>3, <2>4, <2>5, ZenonT(30) DEF StoreTracked, TaskTracked
  <1> QED
    BY <1>5, Zenon DEF StoresTracked

LEMMA Stage0Stores ==
  ASSUME TypeOK, LocalsTracked, LocalsTracked', StoresTracked, Stage0, pc' # "dead",
         UNCHANGED loopVars
  PROVE  StoresTracked'
  <1>1. /\ pc = "init"
        /\ UNCHANGED <<storeVars, new_reqs, executor_states, ready_tasks, worker_requests,
                       scheduler_outputs, killer>>
    BY Zenon DEF Stage0, loopVars
  <1>2. \A r \in Requests : Holder(r) = old_executor[r] /\ executor_id[r] = old_executor[r]
    BY <1>1, HolderIsOld, Zenon DEF LocalsTracked
  <1>3. \A r \in Requests : Holder(r)' = Holder(r)
    <2>1. CASE pc' = "step_sleep" /\ UNCHANGED executor_id
      <3>1. in_output' = {}
        BY <2>1, Zenon DEF LocalsTracked
      <3> QED
        BY <1>2, <2>1, <3>1, Zenon DEF Holder
    <2>2. CASE pc' = "stage1" /\ UNCHANGED old_executor
      <3>1. \A r \in Requests \ in_output' : old_executor'[r] = executor_id'[r]
        BY <2>2, Zenon DEF LocalsTracked
      <3> QED
        BY <1>2, <2>2, <3>1, Zenon DEF Holder
    <2> QED
      BY <2>1, <2>2, Stage0Step, Zenon
  <1>4. \A e \in Executors : status[e] = "KILLING" => status'[e] = "KILLING"
    BY Stage0Step, Zenon
  <1> QED
    BY <1>1, <1>3, <1>4, StoresFrame, Zenon

\* Stages 1 and 2 decide; they carry nothing out.
LEMMA DecisionStores ==
  ASSUME TypeOK, LocalsTracked, LocalsTracked', StoresTracked,
         \/ Stage1NextExecutor \/ Stage1ExecutorDone \/ Stage1Done \/ Stage2Done
         \/ \E r \in Requests : Stage1Request(r) \/ Stage2Request(r),
         UNCHANGED loopVars
  PROVE  StoresTracked'
  <1>1. /\ pc \in {"stage1", "stage2"}
        /\ UNCHANGED <<storeVars, new_reqs, executor_states, ready_tasks, worker_requests,
                       scheduler_outputs, killer, status, old_executor>>
    BY Zenon DEF Stage1NextExecutor, Stage1ExecutorDone, Stage1Done, Stage2Done, Stage1Request,
                 Stage2Request, loopVars, managerVars, localVars, placementVars, Unplace,
                 Place, PlaceNow, PlaceLater
  <1>2. \A r \in Requests : Holder(r)' = Holder(r)
    <2>1. CASE pc' \in {"stage1", "stage2"}
      BY <1>1, <2>1, HolderIsOld, Zenon DEF LocalsTracked, Holder
    <2>2. CASE Stage1Done \/ Stage2Done
      BY <2>2, Zenon DEF Stage1Done, Stage2Done, localVars, placementVars, Holder
    <2>3. Stage1Done \/ Stage2Done \/ UNCHANGED pc
      BY Zenon DEF Stage1NextExecutor, Stage1ExecutorDone, Stage1Request, Stage2Request, controlVars
    <2> QED
      BY <1>1, <2>1, <2>2, <2>3, Zenon
  <1> QED
    BY <1>1, <1>2, StoresFrame, Zenon

LEMMA Stage5RequestStores ==
  ASSUME TypeOK, TasksStarted, LocalsTracked, StoresTracked, NEW r \in Requests, Stage5Request(r),
         pc' # "dead", UNCHANGED loopVars
  PROVE  StoresTracked'
  <1> DEFINE old == old_executor[r]
             new == executor_id[r]
  <1>1. /\ pc = "stage5" /\ r \in in_output /\ in_output' = in_output \ {r}
        /\ UNCHANGED <<executor_id, executor_states, old_executor, status, killer, ready_tasks,
                       worker_requests, scheduler_outputs>>
    BY Zenon DEF Stage5Request, managerVars, placementVars, loopVars
  <1>2. ready_tasks = {}
    BY <1>1, Zenon DEF TasksStarted
  <1>3. Holder(r) = old /\ Holder(r)' = new
    BY <1>1, Zenon DEF Holder
  <1>4. \A q \in Requests \ {r} : Holder(q)' = Holder(q)
    BY <1>1, Zenon DEF Holder
  <1>5. old \in executor_states \cup {None}
    BY <1>1, Zenon DEF LocalsTracked, Scheduling
  <1>6. \A e \in Executors : r \notin new_reqs[e]
    BY <1>1, Zenon DEF LocalsTracked
  <1>7. CASE old = new
    <2>1. UNCHANGED <<storeVars, new_reqs>>
      BY <1>7, Stage5RequestStep, Zenon
    <2>2. \A q \in Requests : Holder(q)' = Holder(q)
      BY <1>3, <1>4, <1>7, Zenon
    <2> QED
      BY <1>1, <2>1, <2>2, StoresFrame, Zenon
  <1>8. CASE old # new
    <2>1. \A e \in Executors :
              /\ free_req_ids'[e] = IF e = old THEN free_req_ids[e] \cup {r} ELSE free_req_ids[e]
              /\ new_reqs'[e] = IF e = new THEN new_reqs[e] \cup {r} ELSE new_reqs[e]
              /\ kv_blocks'[e] = (IF e = old THEN kv_blocks[e] \ {r} ELSE kv_blocks[e])
                                 \cup (IF e = new /\ Caching THEN {r} ELSE {})
      BY <1>8, Stage5RequestStep, Zenon
    <2>2. ASSUME NEW e \in Executors
          PROVE  StoreTracked(e)'
      <3>1. /\ (r \in Held(e) <=> e = old)
            /\ Held(e)' = (Held(e) \ {r}) \cup (IF e = new THEN {r} ELSE {})
        BY <1>3, <1>4, Zenon DEF Held
      <3>2. StoreTracked(e) /\ r \notin new_reqs[e]
        BY <1>6, Zenon DEF StoresTracked
      <3> HIDE DEF old, new
      <3>3. None \notin Executors
        BY RequestsAssumption, Zenon
      <3>4. kv_blocks'[e] = IF Caching THEN Held(e)' ELSE {}
        <4>1. CASE Caching
          <5>1. /\ kv_blocks[e] = Held(e)
                /\ kv_blocks'[e] = (IF e = old THEN kv_blocks[e] \ {r} ELSE kv_blocks[e])
                                   \cup (IF e = new THEN {r} ELSE {})
            BY <2>1, <3>2, <4>1, Zenon DEF StoreTracked
          <5>2. kv_blocks'[e] = Held(e)'
            BY <3>1, <5>1, Zenon
          <5> QED
            BY <4>1, <5>2, Zenon
        <4>2. CASE ~Caching
          <5>1. /\ kv_blocks[e] = {}
                /\ kv_blocks'[e] = (IF e = old THEN kv_blocks[e] \ {r} ELSE kv_blocks[e]) \cup {}
            BY <2>1, <3>2, <4>2, Zenon DEF StoreTracked
          <5>2. kv_blocks'[e] = {}
            BY <5>1, Zenon
          <5> QED
            BY <4>2, <5>2, Zenon
        <4> QED
          BY <4>1, <4>2, Zenon
      <3>5. Held(e)' \ new_reqs'[e] = (Held(e) \ new_reqs[e]) \ {r}
        BY <2>1, <3>1, <3>2, Zenon
      <3>6. (Held(e)' \ new_reqs'[e]) \cap free_req_ids'[e] = {}
        BY <2>1, <3>2, <3>5, Zenon DEF StoreTracked
      <3>7. (Held(e)' \ new_reqs'[e]) \cup free_req_ids'[e] = (Held(e) \ new_reqs[e]) \cup free_req_ids[e]
        BY <2>1, <3>1, <3>2, <3>5, Zenon
      <3>8. e \notin executor_states => free_req_ids'[e] = {}
        BY <1>5, <2>1, <3>2, <3>3, Zenon DEF StoreTracked
      <3> QED
        BY <1>1, <1>2, <3>2, <3>4, <3>6, <3>7, <3>8, Zenon DEF StoreTracked
    <2> QED
      BY <2>2, Zenon DEF StoresTracked
  <1> QED
    BY <1>7, <1>8, Zenon

\* Stage 6 hands out the batches: what an executor's worker has to forget and to
\* learn goes out with its batch.
LEMMA Stage6Stores ==
  ASSUME TypeOK, KillsTracked, TasksTracked, TasksStarted, LocalsTracked, StoresTracked, Stage6,
         pc' # "dead",
         NEW out \in SUBSET executor_states,
         \A e \in Scheduled : scheduler_outputs'[e] = SchedulerOutput(e),
         \A e \in out \ Scheduled : scheduler_outputs'[e] = EmptyBatch,
         Scheduled \subseteq out,
         ready_tasks' = ready_tasks \cup out,
         UNCHANGED worker_requests
  PROVE  StoresTracked'
  <1>1. /\ pc = "stage5" /\ in_output = {}
        /\ \A e \in Executors :
             /\ status'[e] = IF e \in Scheduled THEN "SCHEDULED"
                             ELSE IF e \in Considered THEN "IDLE" ELSE status[e]
             /\ killer'[e] = killer[e] \/ (killer[e] = "waiting" /\ killer'[e] = "notified")
             /\ free_req_ids'[e] = IF e \in Scheduled THEN {} ELSE free_req_ids[e]
        /\ in_output' = {}
        /\ new_reqs' = NoRequests
        /\ UNCHANGED <<executor_states, executor_id, kv_blocks>>
    BY Stage6Step, Zenon DEF ResetLocals, placementVars
  <1>2. ready_tasks = {} /\ Scheduling
    BY <1>1, Zenon DEF TasksStarted, Scheduling
  <1>3. \A r \in Requests : Holder(r) = executor_id[r] /\ Holder(r)' = executor_id[r]
    BY <1>1, Zenon DEF Holder
  <1>4. ASSUME NEW e \in Executors
        PROVE  StoreTracked(e)'
    <2>1. StoreTracked(e)
      BY Zenon DEF StoresTracked
    <2>2. Held(e)' = Held(e) /\ Held(e) = {r \in Requests : executor_id[r] = e}
      BY <1>3, Zenon DEF Held
    <2>3. new_reqs'[e] = {}
      BY <1>1, Zenon DEF NoRequests
    <2>4. /\ new_reqs[e] \subseteq Held(e) /\ running_reqs[e] \subseteq Held(e)
          /\ new_reqs[e] \cap running_reqs[e] = {}
      BY <2>2, Zenon DEF LocalsTracked, TypeOK, SchedulerTypeOK, LocalTypeOK
    <2>5. CASE e \in Scheduled
      <3>1. e \in executor_states /\ e \in ready_tasks'
        BY <2>5, Zenon
      <3>2. /\ scheduler_outputs'[e].new = new_reqs[e]
            /\ scheduler_outputs'[e].cached = running_reqs[e]
            /\ scheduler_outputs'[e].free = free_req_ids[e]
        <4>1. scheduler_outputs'[e] =
                [new |-> new_reqs[e], cached |-> running_reqs[e], free |-> free_req_ids[e]]
          BY <2>5, Zenon DEF SchedulerOutput
        <4> QED
          BY <4>1
      <3>3. worker_requests[e] = (Held(e) \ new_reqs[e]) \cup free_req_ids[e]
        BY <1>2, <2>1, <3>1, Zenon DEF StoreTracked
      <3>4. worker_requests[e] \ free_req_ids[e] = Held(e) \ new_reqs[e]
        BY <2>1, <3>3, Zenon DEF StoreTracked
      <3>5. free_req_ids'[e] = {}
        BY <1>1, <2>5, Zenon
      <3>6. /\ (Held(e)' \ new_reqs'[e]) \cap free_req_ids'[e] = {}
            /\ kv_blocks'[e] = IF Caching THEN Held(e)' ELSE {}
        <4>1. kv_blocks'[e] = IF Caching THEN Held(e)' ELSE {}
          BY <1>1, <2>1, <2>2, Zenon DEF StoreTracked
        <4>2. (Held(e)' \ new_reqs'[e]) \cap free_req_ids'[e] = {}
          BY <3>5, Zenon
        <4> QED
          BY <4>1, <4>2, Zenon
      <3>7. /\ (worker_requests'[e] \ scheduler_outputs'[e].free) \cup scheduler_outputs'[e].new
                 = Held(e)' \cup free_req_ids'[e]
            /\ scheduler_outputs'[e].cached \subseteq worker_requests'[e] \ scheduler_outputs'[e].free
        <4>1. worker_requests'[e] \ scheduler_outputs'[e].free = Held(e) \ new_reqs[e]
          BY <3>2, <3>4, Zenon
        <4>2. running_reqs[e] \subseteq Held(e) \ new_reqs[e]
          BY <2>4, Zenon
        <4>3. (Held(e) \ new_reqs[e]) \cup new_reqs[e] = Held(e) \cup {}
          BY <2>4, Zenon
        <4> QED
          BY <2>2, <3>2, <3>5, <4>1, <4>2, <4>3, Zenon
      <3> QED
        BY <1>1, <3>1, <3>6, <3>7, Zenon DEF StoreTracked
    <2>6. CASE e \notin Scheduled
      <3>1. new_reqs[e] = {} /\ free_req_ids'[e] = free_req_ids[e]
        <4>1. e \in Considered => new_reqs[e] = {}
          BY <2>6, Zenon DEF Scheduled, Considered
        <4>2. e \notin Considered => new_reqs[e] = {}
          BY Zenon DEF LocalsTracked
        <4> QED
          BY <1>1, <2>6, <4>1, <4>2, Zenon
      <3>2. e \notin executor_states => e \notin Considered
        BY <1>2, ConsideredKnown, Zenon
      <3>3. CASE e \in out
        <4>1. /\ scheduler_outputs'[e].new = {}
              /\ scheduler_outputs'[e].cached = {}
              /\ scheduler_outputs'[e].free = {}
          BY <2>6, <3>3 DEF EmptyBatch
        <4>2. worker_requests[e] = Held(e) \cup free_req_ids[e]
          BY <1>2, <2>1, <3>1, <3>3, Zenon DEF StoreTracked
        <4> QED
          BY <1>1, <2>1, <2>2, <2>3, <3>1, <3>3, <4>1, <4>2, Zenon DEF StoreTracked
      <3>4. CASE e \notin out
        BY <1>1, <1>2, <2>1, <2>2, <2>3, <2>6, <3>1, <3>2, <3>4, Zenon DEF StoreTracked
      <3> QED
        BY <3>3, <3>4, Zenon
    <2> QED
      BY <2>5, <2>6, Zenon
  <1> QED
    BY <1>4, Zenon DEF StoresTracked

\* The task starts: its batch brings the worker to what the scheduler believes.
LEMMA ExecuteModelStores ==
  ASSUME TypeOK, KillsTracked, TasksTracked, TasksStarted, LocalsTracked, StoresTracked,
         NEW e \in Executors, ExecuteModel(e), pc' # "dead"
  PROVE  StoresTracked'
  <1>1. /\ e \in ready_tasks /\ ready_tasks' = ready_tasks \ {e} /\ pc # "stage5"
        /\ \A f \in Executors : f # e => status'[f] = status[f] /\ worker_requests'[f] = worker_requests[f]
        /\ worker_requests'[e] = (worker_requests[e] \ scheduler_outputs[e].free)
                                    \cup scheduler_outputs[e].new
        /\ UNCHANGED <<killer, scheduler_outputs, executor_states, executor_id, old_executor,
                       in_output, new_reqs, storeVars>>
    BY Zenon DEF ExecuteModel, UpdateStates, TypeOK, ManagerTypeOK, EngineTypeOK, placementVars,
                 localVars, Suspended
  <1>2. \A r \in Requests : Holder(r)' = Holder(r)
    BY <1>1, Zenon DEF Holder
  <1>3. e \in executor_states
    <2>1. scheduler_outputs[e] # NoBatch /\ killer[e] # "done"
      <3>1. scheduler_outputs[e] \in Batches
        BY <1>1, Zenon DEF TasksStarted
      <3>2. scheduler_outputs[e] # NoBatch
        BY <3>1 DEF Batches, NoBatch
      <3>3. status[e] # "ABSENT"
        BY <1>1, Zenon DEF TasksTracked, TaskTracked
      <3> QED
        BY <3>2, <3>3, Zenon DEF KillsTracked
    <2> QED
      BY <2>1, Zenon DEF TasksTracked, TaskTracked
  <1>4. \A f \in Executors : new_reqs[f] = {}
    BY <1>1, NewReqsNone, Zenon
  <1>5. ASSUME NEW f \in Executors
        PROVE  StoreTracked(f)'
    <2>1. StoreTracked(f) /\ Held(f)' = Held(f) /\ new_reqs[f] = {}
      BY <1>2, <1>4, Zenon DEF StoresTracked, Held
    <2>2. free_req_ids'[f] = free_req_ids[f] /\ kv_blocks'[f] = kv_blocks[f]
      BY <1>1, Zenon DEF storeVars
    <2>3. CASE f = e
      <3>1. worker_requests'[e] = Held(e) \cup free_req_ids[e]
        BY <1>1, <2>1, <2>3, Zenon DEF StoreTracked
      <3> QED
        BY <1>1, <1>3, <2>1, <2>2, <2>3, <3>1 DEF StoreTracked
    <2>4. CASE f # e
      BY <1>1, <2>1, <2>2, <2>4, Zenon DEF StoreTracked
    <2> QED
      BY <2>3, <2>4, Zenon
  <1> QED
    BY <1>5, Zenon DEF StoresTracked

LEMMA ModelDoneStores ==
  ASSUME TypeOK, KillsTracked, TasksTracked, StoresTracked, NEW e \in Executors, ModelDone(e)
  PROVE  StoresTracked'
  <1>1. /\ scheduler_outputs[e] # NoBatch /\ status[e] # "ABSENT"
        /\ \A f \in Executors : f # e => status'[f] = status[f]
        /\ UNCHANGED <<killer, scheduler_outputs, executor_states, executor_id, old_executor,
                       in_output, new_reqs, storeVars, ready_tasks, worker_requests>>
    BY Zenon DEF ModelDone, Executing, background_tasks, TypeOK, ManagerTypeOK, schedulerVars,
                 placementVars, localVars
  <1>2. e \in executor_states
    BY <1>1, Zenon DEF TasksTracked, TaskTracked, KillsTracked
  <1>3. \A r \in Requests : Holder(r)' = Holder(r)
    BY <1>1, Zenon DEF Holder
  <1>4. \A f \in Executors \ executor_states : status'[f] = status[f]
    BY <1>1, <1>2, Zenon
  <1> QED
    BY <1>1, <1>3, <1>4, StoresFrame, Zenon

LEMMA ManagerStores ==
  ASSUME TypeOK, KillsTracked, StoresTracked, NEW e \in Executors,
         LaunchExecutor(e) \/ KillExecutor(e) \/ KillerWakes(e) \/ ShutdownDone(e),
         UNCHANGED <<schedulerVars, loopVars>>
  PROVE  StoresTracked'
  <1>1. UNCHANGED <<scheduler_outputs, executor_states, executor_id, old_executor,
                    in_output, new_reqs, storeVars, ready_tasks, worker_requests>>
    BY Zenon DEF schedulerVars, placementVars, localVars, loopVars
  <1>2. \A r \in Requests : Holder(r)' = Holder(r)
    BY <1>1, Zenon DEF Holder
  <1>3. \A f \in Executors \ {e} : status'[f] = status[f] /\ killer'[f] = killer[f]
    BY Zenon DEF TypeOK, ManagerTypeOK, LaunchExecutor, KillExecutor, KillerWakes, ShutdownDone
  <1>4. killer[e] = "done" => killer'[e] = "done"
    BY Zenon DEF LaunchExecutor, KillExecutor, KillerWakes, ShutdownDone
  <1>5. status[e] = "KILLING" => status'[e] = "KILLING" \/ killer'[e] = "done"
    <2>1. CASE KillExecutor(e) \/ LaunchExecutor(e)
      BY <2>1, Zenon DEF KillsTracked, KillExecutor, LaunchExecutor
    <2>2. CASE KillerWakes(e)
      BY <2>2, Zenon DEF KillsTracked, KillerWakes
    <2>3. CASE ShutdownDone(e)
      BY <2>3, Zenon DEF ShutdownDone, TypeOK, ManagerTypeOK
    <2> QED
      BY <2>1, <2>2, <2>3, Zenon
  <1> QED
    BY <1>1, <1>2, <1>3, <1>4, <1>5, StoresFrame, Zenon

-----------------------------------------------------------------------------
(* Every step.                                                             *)

\* A step that touches neither executors nor placements.
LEMMA QuietTracked ==
  ASSUME Tracked, Quiet, Quiet',
         UNCHANGED <<managerVars, placementVars, storeVars, localVars, scheduler_outputs,
                     ready_tasks, worker_requests>>
  PROVE  Tracked'
  <1>1. UNCHANGED <<status, killer, executor_states, executor_id, old_executor, in_output, new_reqs>>
    BY Zenon DEF managerVars, placementVars, localVars
  <1>2. \A r \in Requests : Holder(r)' = Holder(r)
    BY <1>1, Zenon DEF Holder
  <1>3. StoresTracked'
    BY <1>1, <1>2, StoresFrame, Zenon DEF Tracked
  <1>4. KillsTracked' /\ TasksTracked' /\ LocalsTracked'
    BY <1>1, KillsFrame, TasksFrame, LocalsQuiet, Zenon DEF Tracked
  <1> QED
    BY <1>3, <1>4, Zenon DEF Tracked

LEMMA QuietActions ==
  ASSUME TypeOK, Tracked, pc' # "dead",
         \/ HandleAdd \/ InputDone \/ Admit \/ StepDone \/ AwaitOutput \/ OutputSleepDone
         \/ DrainDone
         \/ \E r \in Requests : SendAdd(r) \/ SendAbort(r)
         \/ \E e \in Executors : ModelRaises(e)
  PROVE  Tracked'
  <1>1. Quiet /\ Quiet'
    <2>1. CASE HandleAdd \/ InputDone
      BY <2>1, Zenon DEF HandleAdd, InputDone, Quiet, Goto, Call
    <2>2. CASE Admit
      <3>1. pc \in {"expire", "admit"} /\ pc' \in {"expire", "admit", "input", "update_executors"}
        BY <2>2, Zenon DEF Admit, ExpireDeferred, ExpireDone, AdmitDeferred, AdmitReturn, controlVars, Goto,
                    TypeOK, SchedulerTypeOK, ControlTypeOK
      <3> QED
        BY <3>1, Zenon DEF Quiet
    <2>3. CASE StepDone \/ AwaitOutput \/ OutputSleepDone \/ DrainDone
      BY <2>3, Zenon DEF StepDone, AwaitOutput, OutputSleepDone, DrainDone, Quiet, Goto
    <2>4. CASE \/ \E r \in Requests : SendAdd(r) \/ SendAbort(r)
               \/ \E e \in Executors : ModelRaises(e)
      <3>1. Suspended /\ UNCHANGED pc
        BY <2>4, Zenon DEF SendAdd, SendAbort, ModelRaises, schedulerVars, controlVars
      <3> QED
        BY <3>1, Zenon DEF Suspended, Quiet
    <2> QED
      BY <2>1, <2>2, <2>3, <2>4, Zenon
  <1>2. UNCHANGED <<managerVars, placementVars, storeVars, localVars, scheduler_outputs,
                     ready_tasks, worker_requests>>
    <2>1. CASE HandleAdd \/ InputDone \/ StepDone \/ AwaitOutput \/ OutputSleepDone \/ DrainDone
      BY <2>1, Zenon DEF HandleAdd, InputDone, StepDone, AwaitOutput, OutputSleepDone, DrainDone,
                         loopVars
    <2>2. CASE Admit
      BY <2>2, Zenon DEF Admit, ExpireDeferred, ExpireDone, AdmitDeferred, AdmitReturn, loopVars
    <2>3. CASE \/ \E r \in Requests : SendAdd(r) \/ SendAbort(r)
               \/ \E e \in Executors : ModelRaises(e)
      BY <2>3, Zenon DEF SendAdd, SendAbort, ModelRaises, schedulerVars
    <2> QED
      BY <2>1, <2>2, <2>3, Zenon
  <1> QED
    BY <1>1, <1>2, QuietTracked, Zenon

LEMMA HandleAbortTracked ==
  ASSUME TypeOK, PlacementConsistent, Tracked, HandleAbort, pc' # "dead"
  PROVE  Tracked'
  <1>1. /\ Quiet /\ Quiet'
        /\ UNCHANGED <<managerVars, localVars, scheduler_outputs, ready_tasks, worker_requests>>
    BY HandleAbortStep, Zenon DEF Quiet
  <1>2. CASE UNCHANGED <<placementVars, storeVars>>
    BY <1>1, <1>2, QuietTracked, Zenon
  <1>3. ASSUME NEW done \in SUBSET Requests, FreeRequests(done),
               \A r \in done : executor_id[r] # None
        PROVE  Tracked'
    <2>1. LocalsTracked'
      BY <1>1, LocalsQuiet, Zenon DEF Tracked
    <2>2. UNCHANGED <<status, killer, executor_states>>
      BY <1>1, <1>3, Zenon DEF FreeRequests, managerVars
    <2>3. KillsTracked' /\ TasksTracked'
      BY <1>1, <2>2, KillsFrame, TasksFrame, Zenon DEF Tracked
    <2>4. StoresTracked'
      BY <1>1, <1>3, <2>1, <2>2, FreeRequestsStores, Zenon DEF Tracked
    <2> QED
      BY <2>1, <2>3, <2>4, Zenon DEF Tracked
  <1> QED
    BY <1>2, <1>3, HandleAbortStep, Zenon

LEMMA ProcessOutputTracked ==
  ASSUME TypeOK, TypeOK', TasksStarted, PlacementConsistent, OutputsOfBatches, Tracked,
         ProcessOutput, pc' # "dead"
  PROVE  Tracked'
  <1>1. PICK e \in Executors, done \in SUBSET Requests :
         /\ pc \in {"output_wait", "drain"} /\ pc' \in {"output_sleep", "drain"}
         /\ scheduler_outputs[e] # NoBatch
         /\ killer[e] \notin {"shutdown", "done"}
         /\ \A r \in done : executor_id[r] # None
         /\ FreeRequests(done)
         /\ \A f \in Executors :
             /\ f # e => status'[f] = status[f]
             /\ killer'[f] = killer[f] \/ (killer[f] = "waiting" /\ killer'[f] = "notified")
         /\ status'[e] \in {"IDLE", "IDLE_NOT_ACCEPTING"}
         /\ UNCHANGED <<waiting_to_be_killed, localVars, ready_tasks, worker_requests>>
    BY ProcessOutputStep, Zenon
  <1>2. Quiet /\ Quiet'
    BY <1>1, Zenon DEF Quiet
  <1>3. LocalsTracked' /\ ready_tasks = {}
    BY <1>1, <1>2, LocalsQuiet, Zenon DEF Tracked, TasksStarted
  <1>4. TasksTracked'
    BY ProcessOutputTasks, Zenon DEF Tracked
  <1>5. e \in executor_states /\ status[e] # "ABSENT"
    BY <1>1, <1>3, Zenon DEF Tracked, TasksTracked, TaskTracked
  <1>6. KillsTracked'
    <2>1. \A f \in Executors :
            /\ killer'[f] = killer[f] \/ (killer[f] = "waiting" /\ killer'[f] = "notified")
            /\ \/ status'[f] = status[f]
               \/ /\ status'[f] \notin {"ABSENT", "KILLING"} /\ status[f] # "ABSENT"
                  /\ killer[f] = "shutdown" => status'[f] \in {"EXECUTING", "OUTPUT_READY"}
      BY <1>1, <1>5, Zenon
    <2> QED
      BY <1>1, <2>1, KillsStatus, Zenon DEF Tracked, TypeOK
  <1>7. StoresTracked'
    <2>1. \A f \in Executors \ executor_states :
            (killer[f] = "done" => killer'[f] = "done") /\ status'[f] = status[f]
      BY <1>1, <1>5, Zenon
    <2> QED
      BY <1>1, <1>2, <1>3, <2>1, FreeRequestsStores, Zenon DEF Tracked
  <1> QED
    BY <1>3, <1>4, <1>6, <1>7, Zenon DEF Tracked

LEMMA ScheduleTracked ==
  ASSUME TypeOK, TypeOK', TasksStarted, PlacementConsistent, ScheduleLocalsConsistent, Tracked,
         Schedule, pc' # "dead"
  PROVE  Tracked'
  <1>1. UNCHANGED loopVars
    BY Zenon DEF Schedule
  <1>2. CASE UpdateExecutors
    <2>1. KillsTracked'
      BY <1>2, KillsFrame, UpdateExecutorsStep, Zenon DEF Tracked
    <2>2. TasksTracked'
      BY <1>1, <1>2, UpdateExecutorsTasks, Zenon DEF Tracked
    <2>3. LocalsTracked'
      BY <1>2, UpdateExecutorsLocals, Zenon DEF Tracked
    <2>4. StoresTracked'
      BY <1>1, <1>2, <2>3, UpdateExecutorsStores, Zenon DEF Tracked
    <2> QED
      BY <2>1, <2>2, <2>3, <2>4, Zenon DEF Tracked
  <1>3. CASE Stage0
    <2>1. KillsTracked'
      <3>1. UNCHANGED <<waiting_to_be_killed, killer>>
        BY <1>3, Zenon DEF Stage0
      <3>2. \A e \in Executors : \/ status'[e] = status[e]
                                 \/ status[e] \in {"IDLE", "IDLE_NOT_ACCEPTING"} /\ status'[e] = "CONSIDERED"
        BY <1>3, Stage0Step, Zenon
      <3>3. \A e \in Executors :
               \/ status'[e] = status[e]
               \/ /\ status'[e] \notin {"ABSENT", "KILLING"} /\ status[e] # "ABSENT"
                  /\ killer[e] = "shutdown" => status'[e] \in {"EXECUTING", "OUTPUT_READY"}
        BY <3>2, Zenon DEF Tracked, KillsTracked
      <3> QED
        BY <3>1, <3>3, KillsStatus, Zenon DEF Tracked, TypeOK
    <2>2. TasksTracked'
      BY <1>1, <1>3, Stage0Tasks, Zenon DEF Tracked
    <2>3. LocalsTracked'
      BY <1>3, Stage0Locals, Zenon DEF Tracked
    <2>4. StoresTracked'
      BY <1>1, <1>3, <2>3, Stage0Stores, Zenon DEF Tracked
    <2> QED
      BY <2>1, <2>2, <2>3, <2>4, Zenon DEF Tracked
  <1>4. CASE \/ Stage1NextExecutor \/ Stage1ExecutorDone \/ Stage1Done \/ Stage2Done
             \/ \E r \in Requests : Stage1Request(r) \/ Stage2Request(r)
    <2>1. UNCHANGED <<managerVars, executor_states, scheduler_outputs, ready_tasks>>
      BY <1>1, <1>4, Zenon DEF Stage1NextExecutor, Stage1ExecutorDone, Stage1Done, Stage2Done,
           Stage1Request, Stage2Request, placementVars, Unplace, Place, PlaceNow, PlaceLater, loopVars
    <2>2. KillsTracked' /\ TasksTracked'
      BY <2>1, KillsFrame, TasksFrame, Zenon DEF Tracked, managerVars
    <2>3. LocalsTracked'
      BY <1>4, Stage1NextExecutorLocals, Stage1ExecutorDoneLocals, Stage12DoneLocals,
         Stage1RequestLocals, Stage2RequestLocals, Zenon DEF Tracked
    <2>4. StoresTracked'
      BY <1>1, <1>4, <2>3, DecisionStores, Zenon DEF Tracked
    <2> QED
      BY <2>2, <2>3, <2>4, Zenon DEF Tracked
  <1>5. ASSUME NEW r \in Requests, Stage5Request(r)
        PROVE  Tracked'
    <2>1. UNCHANGED <<managerVars, executor_states, scheduler_outputs, ready_tasks>>
      BY <1>1, <1>5, Zenon DEF Stage5Request, placementVars, loopVars
    <2>2. KillsTracked' /\ TasksTracked'
      BY <2>1, KillsFrame, TasksFrame, Zenon DEF Tracked, managerVars
    <2>3. LocalsTracked'
      BY <1>5, Stage5RequestLocals, Zenon DEF Tracked
    <2>4. StoresTracked'
      BY <1>1, <1>5, Stage5RequestStores, Zenon DEF Tracked
    <2> QED
      BY <2>2, <2>3, <2>4, Zenon DEF Tracked
  <1> QED
    BY <1>2, <1>3, <1>4, <1>5, Zenon DEF Schedule

LEMMA Stage6Tracked ==
  ASSUME TypeOK, TypeOK', TasksStarted, Tracked, EngineStep \/ FlushStep, pc' # "dead"
  PROVE  Tracked'
  <1>1. Stage6
    BY FlushStepStep, Zenon DEF EngineStep
  <1>2. /\ pc = "stage5" /\ pc' = "step_sleep"
        /\ \A e \in Executors :
             /\ status'[e] = IF e \in Scheduled THEN "SCHEDULED"
                             ELSE IF e \in Considered THEN "IDLE" ELSE status[e]
             /\ killer'[e] = killer[e] \/ (killer[e] = "waiting" /\ killer'[e] = "notified")
        /\ ResetLocals
        /\ UNCHANGED waiting_to_be_killed
    BY <1>1, Stage6Step, Zenon
  <1>3. Scheduling /\ Quiet'
    BY <1>2, Zenon DEF Scheduling, Quiet
  <1>4. Scheduled \subseteq Considered /\ Considered \subseteq executor_states
    BY <1>3, ConsideredKnown, Zenon DEF Scheduled, Considered, Tracked, TypeOK, SchedulerTypeOK,
                                        LocalTypeOK
  <1>5. KillsTracked'
    <2>1. ASSUME NEW e \in Considered
          PROVE  status[e] = "CONSIDERED" /\ killer[e] # "shutdown"
      <3>1. e \in Executors /\ status[e] = "CONSIDERED"
        BY <1>3, <1>4, ConsideredKnown, Zenon DEF Tracked, TypeOK, SchedulerTypeOK, PlacementTypeOK
      <3> QED
        BY <3>1, Zenon DEF Tracked, KillsTracked
    <2>2. \A e \in Executors :
            \/ status'[e] = status[e]
            \/ /\ status'[e] \notin {"ABSENT", "KILLING"} /\ status[e] # "ABSENT"
               /\ killer[e] = "shutdown" => status'[e] \in {"EXECUTING", "OUTPUT_READY"}
      BY <1>2, <1>4, <2>1, Zenon
    <2> QED
      BY <1>2, <2>2, KillsStatus, Zenon DEF Tracked, TypeOK
  <1>6. LocalsTracked'
    BY <1>2, <1>3, LocalsReset, Zenon
  <1>7. CASE EngineStep
    <2>1. /\ \A e \in Scheduled : scheduler_outputs'[e] = SchedulerOutput(e)
          /\ \A e \in Executors \ Scheduled : scheduler_outputs'[e] = scheduler_outputs[e]
          /\ ready_tasks' = ready_tasks \cup Scheduled
          /\ UNCHANGED worker_requests
      BY <1>4, <1>7, Zenon DEF EngineStep, TypeOK, SchedulerTypeOK, PlacementTypeOK
    <2>2. Scheduled \in SUBSET executor_states /\ Scheduled \ Scheduled = {}
      BY <1>4, Zenon
    <2>3. TasksTracked'
      BY <1>1, <2>1, <2>2, Stage6Tasks, Zenon DEF Tracked
    <2>4. StoresTracked'
      BY <1>1, <2>1, <2>2, Stage6Stores, Zenon DEF Tracked
    <2> QED
      BY <1>5, <1>6, <2>3, <2>4, Zenon DEF Tracked
  <1>8. CASE FlushStep
    <2>1. PICK e \in executor_states :
         /\ Scheduled = {}
         /\ scheduler_outputs[e] = NoBatch
         /\ \A f \in Executors : scheduler_outputs'[f] =
               IF f = e THEN EmptyBatch ELSE scheduler_outputs[f]
         /\ ready_tasks' = ready_tasks \cup {e}
         /\ UNCHANGED worker_requests
      BY <1>8, FlushStepStep, Zenon
    <2>2. e \in Executors
      BY Zenon DEF TypeOK, SchedulerTypeOK, PlacementTypeOK
    <2>3. {e} \in SUBSET executor_states /\ Scheduled \subseteq {e}
          /\ (\A f \in {e} \ Scheduled : scheduler_outputs[f] = NoBatch /\ scheduler_outputs'[f] = EmptyBatch)
          /\ (\A f \in Executors \ {e} : scheduler_outputs'[f] = scheduler_outputs[f])
          /\ (\A f \in Scheduled : scheduler_outputs'[f] = SchedulerOutput(f))
      BY <2>1, <2>2, Zenon
    <2>4. TasksTracked'
      BY <1>1, <2>1, <2>3, Stage6Tasks, Zenon DEF Tracked
    <2>5. StoresTracked'
      BY <1>1, <2>1, <2>3, Stage6Stores, Zenon DEF Tracked
    <2> QED
      BY <1>5, <1>6, <2>4, <2>5, Zenon DEF Tracked
  <1> QED
    BY <1>7, <1>8, Zenon

LEMMA ExecutorTracked ==
  ASSUME TypeOK, TypeOK', TasksStarted, Tracked, NEW e \in Executors,
         ExecuteModel(e) \/ ModelDone(e), pc' # "dead"
  PROVE  Tracked'
  <1>1. /\ Suspended
        /\ \A f \in Executors : f # e => status'[f] = status[f]
        /\ status'[e] \in {"EXECUTING", "OUTPUT_READY"}
        /\ UNCHANGED <<pc, killer, waiting_to_be_killed, localVars>>
    <2>1. CASE ExecuteModel(e)
      BY <2>1, Zenon DEF ExecuteModel, UpdateStates, Fail, controlVars, TypeOK, ManagerTypeOK
    <2>2. CASE ModelDone(e)
      BY <2>2, Zenon DEF ModelDone, schedulerVars, controlVars, TypeOK, ManagerTypeOK
    <2> QED
      BY <2>1, <2>2, Zenon
  <1>2. status[e] # "ABSENT"
    BY Zenon DEF ExecuteModel, ModelDone, Tracked, TasksTracked, TaskTracked
  <1>3. KillsTracked'
    <2>1. \A f \in Executors :
            \/ status'[f] = status[f]
            \/ /\ status'[f] \notin {"ABSENT", "KILLING"} /\ status[f] # "ABSENT"
               /\ killer[f] = "shutdown" => status'[f] \in {"EXECUTING", "OUTPUT_READY"}
      BY <1>1, <1>2, Zenon
    <2> QED
      BY <1>1, <2>1, KillsStatus, Zenon DEF Tracked, TypeOK
  <1>4. LocalsTracked'
    <2>1. Quiet /\ Quiet'
      BY <1>1, Zenon DEF Suspended, Quiet
    <2> QED
      BY <1>1, <2>1, LocalsQuiet, Zenon DEF Tracked
  <1>5. TasksTracked'
    BY ExecuteModelTasks, ModelDoneTasks, Zenon DEF Tracked
  <1>6. StoresTracked'
    BY ExecuteModelStores, ModelDoneStores, Zenon DEF Tracked
  <1> QED
    BY <1>3, <1>4, <1>5, <1>6, Zenon DEF Tracked

LEMMA ReconfigureTracked ==
  ASSUME TypeOK, Tracked, NEW e \in Executors, Launch(e) \/ StartKill(e) \/ ContinueKill(e)
  PROVE  Tracked'
  <1>1. Suspended /\ UNCHANGED <<schedulerVars, loopVars>>
    BY Zenon DEF Launch, StartKill, ContinueKill
  <1>2. UNCHANGED <<pc, localVars, scheduler_outputs, executor_states, ready_tasks>>
    BY <1>1, Zenon DEF schedulerVars, controlVars, placementVars, loopVars
  <1>3. LocalsTracked'
    <2>1. Quiet /\ Quiet'
      BY <1>1, <1>2, Zenon DEF Suspended, Quiet
    <2> QED
      BY <1>2, <2>1, LocalsQuiet, Zenon DEF Tracked
  <1>4. KillsTracked'
    BY LaunchKills, StartKillKills, ContinueKillKills, Zenon
       DEF Launch, StartKill, ContinueKill, Tracked, TypeOK
  <1>5. TasksTracked'
    BY <1>2, LaunchTasks, KillTasks, Zenon DEF StartKill, ContinueKill, Tracked
  <1>6. StoresTracked'
    BY <1>1, ManagerStores, Zenon DEF Launch, StartKill, ContinueKill, Tracked
  <1> QED
    BY <1>3, <1>4, <1>5, <1>6, Zenon DEF Tracked

LEMMA InitTracked ==
  ASSUME Init
  PROVE  Tracked
  <1>1. /\ status = [e \in Executors |-> IF e \in Initial THEN "IDLE" ELSE "ABSENT"]
        /\ waiting_to_be_killed = {}
        /\ killer = [e \in Executors |-> "none"]
        /\ pc = "input" /\ executor_states = {} /\ executor_id = Nowhere
        /\ free_req_ids = NoRequests /\ kv_blocks = NoRequests /\ LocalsInit
        /\ scheduler_outputs = [e \in Executors |-> NoBatch]
        /\ ready_tasks = {} /\ worker_requests = NoRequests
    BY Zenon DEF Init, ManagerInit, SchedulerInit
  <1>2. KillsTracked
    <2>1. Present \ waiting_to_be_killed # {}
      BY <1>1, ExecutorsAssumption, KillableAssumption, Zenon DEF Present
    <2> QED
      BY <1>1, <2>1, Zenon DEF KillsTracked
  <1>3. TasksTracked
    BY <1>1, Zenon DEF TasksTracked, TaskTracked, InFlight
  <1>4. LocalsTracked
    <2>1. /\ Considered = {} /\ in_output = {} /\ todo = {} /\ new_reqs = NoRequests
          /\ running_reqs = NoRequests /\ idle_executors = {} /\ idle_not_accepting = {}
      BY <1>1, Zenon DEF LocalsInit, Considered
    <2> QED
      BY <1>1, <2>1, Zenon DEF LocalsTracked, Scheduling, NoRequests
  <1>5. StoresTracked
    <2>1. \A r \in Requests : Holder(r) = None
      BY <1>1, Zenon DEF Holder, LocalsInit, Nowhere
    <2>2. \A e \in Executors : Held(e) = {}
      BY <2>1, RequestsAssumption, Zenon DEF Held
    <2>3. \A e \in Executors : /\ kv_blocks[e] = {} /\ free_req_ids[e] = {} /\ new_reqs[e] = {}
                               /\ worker_requests[e] = {}
      BY <1>1, Zenon DEF NoRequests, LocalsInit
    <2> QED
      BY <1>1, <2>2, <2>3, Zenon DEF StoresTracked, StoreTracked
  <1> QED
    BY <1>2, <1>3, <1>4, <1>5, Zenon DEF Tracked

\* A dead engine does not move.
LEMMA DeadStays ==
  ASSUME TypeOK, Next
  PROVE  pc # "dead"
  <1>1. CASE BusyLoop
    <2>1. CASE HandleAdd \/ HandleAbort \/ InputDone \/ StepDone \/ AwaitOutput \/ ProcessOutput
                \/ OutputSleepDone \/ DrainDone
      BY <2>1, Zenon DEF HandleAdd, HandleAbort, InputDone, StepDone, AwaitOutput, ProcessOutput,
                  OutputSleepDone, DrainDone
    <2>2. CASE Admit
      BY <2>2, Zenon DEF Admit, ExpireDeferred, ExpireDone, AdmitDeferred, AdmitReturn
    <2>3. CASE Schedule
      BY <2>3, Zenon DEF Schedule, UpdateExecutors, Stage0, Stage1NextExecutor, Stage1Request,
                  Stage1ExecutorDone, Stage1Done, Stage2Request, Stage2Done, Stage5Request
    <2>4. CASE EngineStep \/ FlushStep
      BY <2>4, Zenon DEF EngineStep, FlushStep, Stage6
    <2> QED
      BY <1>1, <2>1, <2>2, <2>3, <2>4, Zenon DEF BusyLoop
  <1>2. CASE ~BusyLoop
    <2>1. Suspended
      BY <1>2, Zenon DEF Next, SendAdd, SendAbort, ExecuteModel, ModelDone, ModelRaises, Launch,
                         StartKill, ContinueKill
    <2> QED
      BY <2>1, Zenon DEF Suspended
  <1> QED
    BY <1>1, <1>2, Zenon

\* The invariant is inductive, relative to the placements' being consistent.
LEMMA NextTracked ==
  ASSUME TypeOK, TypeOK', TasksStarted, PlacementConsistent, ScheduleLocalsConsistent,
         OutputsOfBatches, Tracked, [Next]_vars, pc' # "dead"
  PROVE  Tracked'
  <1>1. CASE Next
    BY <1>1, QuietActions, HandleAbortTracked, ProcessOutputTracked, ScheduleTracked, Stage6Tracked,
       ExecutorTracked, ReconfigureTracked, Zenon DEF Next, BusyLoop
  <1>2. CASE UNCHANGED vars
    <2>1. UNCHANGED <<status, waiting_to_be_killed, killer, pc, executor_states, executor_id,
                      pending_request_additions, free_req_ids, kv_blocks, idle_executors,
                      idle_not_accepting, schedulable, old_executor, in_output, todo, cur, cur_reqs,
                      new_reqs, running_reqs, scheduler_outputs, ready_tasks, worker_requests>>
      BY <1>2, Zenon DEF vars, managerVars, schedulerVars, controlVars, placementVars, storeVars,
                         localVars, loopVars
    <2>2. KillsTracked' /\ TasksTracked'
      BY <2>1, KillsFrame, TasksFrame, Zenon DEF Tracked, managerVars
    <2>3. \A r \in Requests : Holder(r)' = Holder(r)
      BY <2>1, Zenon DEF Holder
    <2>4. StoresTracked'
      BY <2>1, <2>3, StoresFrame, Zenon DEF Tracked, storeVars
    <2>5. LocalsTracked'
      BY <2>1, Zenon DEF Tracked, LocalsTracked, Considered, Alive, Present, Scheduling
    <2> QED
      BY <2>2, <2>4, <2>5, Zenon DEF Tracked
  <1> QED
    BY <1>1, <1>2, Zenon

=============================================================================
