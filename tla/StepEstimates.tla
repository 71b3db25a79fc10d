--------------------------- MODULE StepEstimates ---------------------------
(***************************************************************************)
(* Step estimates: how many denoising steps each request still needs, as   *)
(* kept by vllm/v1/core/sched/tediserve_scheduler.py.  The engine's loop   *)
(* counts the estimate down after each step and queues a request whose     *)
(* estimate is out of date; a worker thread, or with sync_step_prediction  *)
(* the loop itself in schedule, asks the predictor for a new one.          *)
(*                                                                         *)
(* One lock, which is also the lock of the condition, protects the queue   *)
(* and the estimates.  The loop updates tokens and statistics of a request *)
(* and removes requests without it, also while the worker reads them.      *)
(*                                                                         *)
(* The learned predictor is data; it is taken to be exact, so that every   *)
(* deviation of an estimate comes from the threads.  Estimates for the     *)
(* different confidence thresholds are refreshed together and are one      *)
(* number here.                                                            *)
(***************************************************************************)
EXTENDS Integers, FiniteSets

CONSTANTS
    Requests,
    None,
    total_steps,      \* the number of steps each request will take
    MaxTokens,        \* bound on the tokens that one step unmasks
    delta             \* step_estimator_refresh_unmasked_token_delta

ASSUME StepEstimatesAssumption ==
    /\ None \notin Requests /\ None \notin Nat
    /\ total_steps \in [Requests -> Nat \ {0}]
    /\ MaxTokens \in Nat \ {0}
    /\ delta \in Nat \ {0}

VARIABLES
    sync_step_prediction,   \* configuration, never changed
    added, live,      \* requests ever added; those in self.requests
    steps,            \* num_denoise_ran
    unmasked,         \* num_unmasked_tokens
    last_stats,       \* number of the step that last_stats describes
    pred,             \* pred_num_steps_left
    last_refresh,     \* last_step_estimate_refresh_unmasked_tokens
    dirty,            \* requests with confidence_threshold_dirty
    basis             \* last_refresh of the estimate that a threshold was chosen with

VARIABLES
    main,             \* position of the engine's loop
    todo,             \* requests of the step at hand still to update
    stepped,          \* req_ids_for_post_step_estimate_update
    at,               \* the request that the loop is working on
    pending, shutdown \* _step_estimate_pending_req_ids, _step_estimate_shutdown

VARIABLES
    worker,           \* position of the worker thread
    taken,            \* pending_req_ids still to be read
    reading,          \* the request whose tokens have been read, or None
    tokens,           \* current_unmasked_tokens, by request
    found,            \* request -> last_stats in all_stats, or None
    touched           \* touched_req_ids

requestVars == <<added, live, steps, unmasked, last_stats>>
estimateVars == <<pred, last_refresh>>
thresholdVars == <<dirty, basis>>
loopVars == <<main, todo, stepped, at>>
batchVars == <<taken, reading, tokens, found, touched>>

vars == <<sync_step_prediction, requestVars, estimateVars, thresholdVars, loopVars,
          pending, shutdown, worker, batchVars>>

Init ==
    /\ sync_step_prediction \in BOOLEAN
    /\ added = {} /\ live = {} /\ dirty = Requests
    /\ steps = [r \in Requests |-> 0]
    /\ unmasked = [r \in Requests |-> 0]
    /\ last_stats = [r \in Requests |-> 0]
    /\ pred = total_steps
    /\ last_refresh = [r \in Requests |-> 0]
    /\ basis = [r \in Requests |-> 0]
    /\ main = "loop" /\ todo = {} /\ stepped = {} /\ at = None
    /\ pending = {} /\ shutdown = FALSE
    /\ worker = IF sync_step_prediction THEN "none" ELSE "check"
    /\ taken = {} /\ reading = None
    /\ tokens = [r \in Requests |-> 0]
    /\ found = [r \in Requests |-> None]
    /\ touched = {}

\* The worker holds the lock while it reads statistics; the other blocks under
\* the lock are single actions.
LockFree == worker # "read"

\* Faulty variant: nobody is woken.
NotNotified(w) == w

\* notify and notify_all: the worker is the only thread that waits.
Notified(w) == IF w = "waiting" THEN "check" ELSE w

Due(r) == unmasked[r] - last_refresh[r] >= delta

-----------------------------------------------------------------------------
(* The engine's loop.                                                      *)

AddRequest(r) ==
    /\ main = "loop" /\ r \notin added
    /\ added' = added \cup {r}
    /\ live' = live \cup {r}
    /\ UNCHANGED <<sync_step_prediction, steps, unmasked, last_stats, estimateVars,
                   thresholdVars, loopVars, pending, shutdown, worker, batchVars>>

\* update_from_output starts on the output of one executor.
StartUpdate(S) ==
    /\ main = "loop"
    /\ S # {} /\ S \subseteq live
    /\ main' = "update" /\ todo' = S
    /\ UNCHANGED <<sync_step_prediction, requestVars, estimateVars, thresholdVars,
                   stepped, at, pending, shutdown, worker, batchVars>>

\* _update_request_with_output.
UpdateRequest(r, n) ==
    /\ main = "update" /\ at = None /\ r \in todo
    /\ todo' = todo \ {r} /\ at' = r
    /\ steps' = [steps EXCEPT ![r] = @ + 1]
    /\ unmasked' = [unmasked EXCEPT ![r] = @ + n]
    /\ UNCHANGED <<sync_step_prediction, added, live, last_stats, estimateVars,
                   thresholdVars, main, stepped, pending, shutdown, worker, batchVars>>

\* last_stats is replaced by the statistics of the step just done (their field
\* num_denoise_ran is taken before the increment, one less than steps here).  A
\* request that has stopped is removed, and then has to be taken from the queue;
\* the others are updated after the loop.
SetLastStats ==
    /\ main = "update" /\ at # None
    /\ last_stats' = [last_stats EXCEPT ![at] = steps[at]]
    /\ IF steps[at] = total_steps[at]
       THEN /\ live' = live \ {at}
            /\ main' = "discard"
            /\ UNCHANGED <<stepped, at>>
       ELSE /\ stepped' = stepped \cup {at}
            /\ at' = None
            /\ UNCHANGED <<live, main>>
    /\ UNCHANGED <<sync_step_prediction, added, steps, unmasked, estimateVars,
                   thresholdVars, todo, pending, shutdown, worker, batchVars>>

\* finish_requests and _drop_deferred_request: the request is removed.
Finish(r) ==
    /\ main = "loop" /\ r \in live
    /\ live' = live \ {r}
    /\ main' = "discard" /\ at' = r
    /\ UNCHANGED <<sync_step_prediction, added, steps, unmasked, last_stats, estimateVars,
                   thresholdVars, todo, stepped, pending, shutdown, worker, batchVars>>

\* The end of _free_request and of _drop_deferred_request.
Discard ==
    /\ main = "discard" /\ LockFree
    /\ pending' = pending \ {at}
    /\ worker' = IF pending' = {} THEN Notified(worker) ELSE worker
    /\ at' = None
    /\ main' = IF todo = {} /\ stepped = {} THEN "loop" ELSE "update"
    /\ UNCHANGED <<sync_step_prediction, requestVars, estimateVars, thresholdVars, todo,
                   stepped, shutdown, batchVars>>

\* Faulty variant: every request is counted down, not only those of the batch.
AllCountedDown(S) == live

CountedDown(S) == S \cap live

\* Faulty variant: the estimate may be one token older.
QueuedLater(S) == {r \in S : unmasked[r] - last_refresh[r] > delta}

Queued(S) == {r \in S : Due(r)}

\* _batch_post_step_estimate_updates.
PostStep ==
    /\ main = "update" /\ todo = {} /\ at = None /\ LockFree
    /\ LET Q == Queued(stepped \cap live)
       IN  /\ pred' = [r \in Requests |->
                 IF r \in CountedDown(stepped) /\ pred[r] > 0 THEN pred[r] - 1 ELSE pred[r]]
           /\ pending' = pending \cup Q
           /\ worker' = IF Q # {} THEN Notified(worker) ELSE worker
    /\ main' = "loop" /\ stepped' = {}
    /\ UNCHANGED <<sync_step_prediction, requestVars, last_refresh, thresholdVars, todo, at,
                   shutdown, batchVars>>

Predict(r, k) == total_steps[r] - k

\* Faulty variant: a new estimate leaves the threshold as it is.
NotMarkedDirty(S) == dirty

\* _mark_confidence_threshold_dirty.
MarkedDirty(S) == dirty \cup (S \cap live)

\* _drain_step_estimate_updates, at the start of schedule.
DrainUpdates ==
    /\ sync_step_prediction
    /\ main = "loop" /\ pending # {} /\ ~shutdown
    /\ LET S == {r \in pending \cap live : Due(r)}
       IN  /\ pred' = [r \in Requests |->
                 IF r \in S THEN Predict(r, last_stats[r]) ELSE pred[r]]
           /\ last_refresh' = [r \in Requests |->
                 IF r \in S THEN unmasked[r] ELSE last_refresh[r]]
           /\ dirty' = MarkedDirty(S)
    /\ pending' = {}
    /\ UNCHANGED <<sync_step_prediction, requestVars, basis, loopVars, shutdown, worker,
                   batchVars>>

\* The last stage of schedule: the threshold of a dirty request is chosen anew ...
ChooseThreshold(r) ==
    /\ main = "loop" /\ r \in live
    /\ sync_step_prediction => pending = {}
    /\ basis' = IF r \in dirty THEN [basis EXCEPT ![r] = last_refresh[r]] ELSE basis
    /\ main' = "choose" /\ at' = r
    /\ UNCHANGED <<sync_step_prediction, requestVars, estimateVars, dirty, todo, stepped,
                   pending, shutdown, worker, batchVars>>

\* ... and then marked clean.
ClearDirty ==
    /\ main = "choose"
    /\ dirty' = dirty \ {at}
    /\ main' = "loop" /\ at' = None
    /\ UNCHANGED <<sync_step_prediction, requestVars, estimateVars, basis, todo, stepped,
                   pending, shutdown, worker, batchVars>>

Shutdown ==
    /\ main = "loop" /\ LockFree
    /\ shutdown' = TRUE
    /\ main' = "stopped"
    /\ worker' = Notified(worker)
    /\ UNCHANGED <<sync_step_prediction, requestVars, estimateVars, thresholdVars, todo,
                   stepped, at, pending, batchVars>>

-----------------------------------------------------------------------------
(* The worker thread.                                                      *)

\* The head of _step_estimate_worker_loop.
WorkerCheck ==
    /\ worker = "check"
    /\ worker' = CASE shutdown -> "done"
                   [] ~shutdown /\ pending = {} -> "waiting"
                   [] OTHER -> "take"
    /\ UNCHANGED <<sync_step_prediction, requestVars, estimateVars, thresholdVars, loopVars,
                   pending, shutdown, batchVars>>

\* _process_step_estimate_updates: the queue is taken, then the lock is given up
\* and taken again.
TakePending ==
    /\ worker = "take"
    /\ IF shutdown \/ pending = {}
       THEN worker' = "sleep" /\ UNCHANGED <<pending, taken>>
       ELSE worker' = "relock" /\ taken' = pending /\ pending' = {}
    /\ UNCHANGED <<sync_step_prediction, requestVars, estimateVars, thresholdVars, loopVars,
                   shutdown, reading, tokens, found, touched>>

Relock ==
    /\ worker = "relock"
    /\ worker' = "read"
    /\ UNCHANGED <<sync_step_prediction, requestVars, estimateVars, thresholdVars, loopVars,
                   pending, shutdown, batchVars>>

\* _get_step_estimate_batch_stats: a request that is gone, or that needs no new
\* estimate, is skipped; the tokens are read first ...
ReadTokens(r) ==
    /\ worker = "read" /\ reading = None /\ r \in taken
    /\ taken' = taken \ {r}
    /\ IF r \in live /\ Due(r)
       THEN reading' = r /\ tokens' = [tokens EXCEPT ![r] = unmasked[r]]
       ELSE UNCHANGED <<reading, tokens>>
    /\ UNCHANGED <<sync_step_prediction, requestVars, estimateVars, thresholdVars, loopVars,
                   pending, shutdown, worker, found, touched>>

\* ... and then the statistics, which may be of another step.
ReadStats ==
    /\ worker = "read" /\ reading # None
    /\ found' = [found EXCEPT ![reading] = last_stats[reading]]
    /\ reading' = None
    /\ UNCHANGED <<sync_step_prediction, requestVars, estimateVars, thresholdVars, loopVars,
                   pending, shutdown, worker, taken, tokens, touched>>

Found == {r \in Requests : found[r] # None}

EndRead ==
    /\ worker = "read" /\ taken = {} /\ reading = None
    /\ worker' = IF Found = {} THEN "sleep" ELSE "store"
    /\ UNCHANGED <<sync_step_prediction, requestVars, estimateVars, thresholdVars, loopVars,
                   pending, shutdown, batchVars>>

\* The predictions are stored for the requests that are still there.
StorePredictions ==
    /\ worker = "store"
    /\ LET S == Found \cap live
       IN  /\ pred' = [r \in Requests |->
                 IF r \in S THEN Predict(r, found[r]) ELSE pred[r]]
           /\ last_refresh' = [r \in Requests |->
                 IF r \in S THEN tokens[r] ELSE last_refresh[r]]
           /\ touched' = S
    /\ found' = [r \in Requests |-> None]
    /\ tokens' = [r \in Requests |-> 0]
    /\ worker' = "mark"
    /\ UNCHANGED <<sync_step_prediction, requestVars, thresholdVars, loopVars, pending,
                   shutdown, taken, reading>>

MarkDirty ==
    /\ worker = "mark"
    /\ dirty' = MarkedDirty(touched)
    /\ touched' = {}
    /\ worker' = "sleep"
    /\ UNCHANGED <<sync_step_prediction, requestVars, estimateVars, basis, loopVars, pending,
                   shutdown, taken, reading, tokens, found>>

\* time.sleep(step_estimate_update_interval).
WorkerWakes ==
    /\ worker = "sleep"
    /\ worker' = "check"
    /\ UNCHANGED <<sync_step_prediction, requestVars, estimateVars, thresholdVars, loopVars,
                   pending, shutdown, batchVars>>

Worker ==
    \/ WorkerCheck \/ TakePending \/ Relock \/ ReadStats \/ EndRead
    \/ StorePredictions \/ MarkDirty \/ WorkerWakes
    \/ \E r \in Requests : ReadTokens(r)

-----------------------------------------------------------------------------
\* What the loop does once it has started on an output, a removal or a choice.
LoopContinues ==
    \/ \E r \in Requests, n \in 1 .. MaxTokens : UpdateRequest(r, n)
    \/ SetLastStats \/ Discard \/ PostStep \/ ClearDirty

Next ==
    \/ \E r \in Requests : AddRequest(r) \/ Finish(r) \/ ChooseThreshold(r)
    \/ \E S \in SUBSET Requests : StartUpdate(S)
    \/ LoopContinues \/ DrainUpdates \/ Shutdown
    \/ Worker

Spec == Init /\ [][Next]_vars

\* Both threads run; schedule is called again and again while there are requests.
FairSpec ==
    /\ Spec
    /\ WF_vars(LoopContinues) /\ WF_vars(Worker) /\ WF_vars(DrainUpdates)

-----------------------------------------------------------------------------
\* Steps that a request still needs.
Left(r) == total_steps[r] - steps[r]

\* The loop has changed r's tokens but not counted its estimate down yet.
InUpdate(r) == r \in stepped \/ (main = "update" /\ at = r)

\* With an exact predictor an estimate is never more than one step too low,
\* whatever the worker reads or stores while the loop updates the request:
\* statistics of a step whose count-down is still to come are the only way to
\* count a step twice, and the errors do not add up.
EstimateNotLow ==
    \A r \in live : pred[r] >= IF InUpdate(r) THEN Left(r) ELSE Left(r) - 1

\* No refresh is lost: outside an update, a request with delta tokens since its
\* last refresh is queued or with the worker, although the worker empties the
\* queue before it reads, and stores what may be old by then.
NoRefreshLost ==
    \A r \in live :
        ~InUpdate(r) /\ Due(r) => r \in pending \cup taken \cup {reading} \cup Found

\* With sync_step_prediction every threshold rests on the latest estimate or is
\* going to be chosen anew.
ThresholdFollows ==
    sync_step_prediction /\ main = "loop" =>
        \A r \in live : r \in dirty \/ basis[r] = last_refresh[r]

\* A queued request gets a new estimate, unless it goes or the scheduler shuts
\* down: no wake-up of the worker is lost.
PendingServed ==
    \A r \in Requests :
        r \in pending /\ Due(r) ~> ~Due(r) \/ r \notin live \/ shutdown

=============================================================================
