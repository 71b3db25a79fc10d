------------------------ MODULE StepEstimatesProofs ------------------------
(* The safety properties of StepEstimates, for any number of requests, any *)
(* number of steps and tokens, and any refresh interval.                   *)
EXTENDS StepEstimates, TLAPS

TypeOK ==
    /\ sync_step_prediction \in BOOLEAN /\ shutdown \in BOOLEAN
    /\ added \subseteq Requests /\ live \subseteq Requests /\ dirty \subseteq Requests
    /\ todo \subseteq Requests /\ stepped \subseteq Requests /\ pending \subseteq Requests
    /\ taken \subseteq Requests /\ touched \subseteq Requests
    /\ at \in Requests \cup {None} /\ reading \in Requests \cup {None}
    /\ steps \in [Requests -> Nat] /\ unmasked \in [Requests -> Nat]
    /\ last_stats \in [Requests -> Nat] /\ last_refresh \in [Requests -> Nat]
    /\ pred \in [Requests -> Int] /\ basis \in [Requests -> Nat]
    /\ tokens \in [Requests -> Nat] /\ found \in [Requests -> Nat \cup {None}]

\* The loop's own state: between two operations it works on no request.
LoopState ==
    /\ main \in {"loop", "update", "discard", "choose", "stopped"}
    /\ main = "loop" => at = None
    /\ main \in {"loop", "choose"} => todo = {} /\ stepped = {}
    /\ main = "discard" => at \notin live
    /\ live \subseteq added /\ todo \subseteq added
    /\ \A r \in Requests \ added :
          /\ steps[r] = 0 /\ unmasked[r] = 0 /\ last_refresh[r] = 0 /\ basis[r] = 0
          /\ pred[r] = total_steps[r]

\* With sync_step_prediction there is no worker; a worker that waits has nothing
\* to do, and will be told when there is something.
WorkerState ==
    /\ sync_step_prediction =>
          worker = "none" /\ taken = {} /\ reading = None /\ Found = {}
    /\ worker = "waiting" => pending = {} /\ ~shutdown
    /\ worker \in {"store", "read"} \/ (reading = None /\ Found = {})
    /\ worker = "store" => taken = {} /\ reading = None
    /\ worker \in {"relock", "read"} \/ taken = {}

\* The worker's statistics are of a step that has been made, and its tokens are
\* no older than the last refresh.
Past ==
    \A r \in Requests :
        /\ last_stats[r] <= steps[r]
        /\ found[r] # None => found[r] <= steps[r]
        /\ r \in Found \/ reading = r => tokens[r] >= last_refresh[r]

\* What the worker is about to store will not be out of date unnoticed.
NextRefresh ==
    \A r \in live :
        ~InUpdate(r) /\ (r \in Found \/ reading = r) /\ unmasked[r] - tokens[r] >= delta =>
            r \in pending

Thresholds ==
    sync_step_prediction =>
        \A r \in live : \/ r \in dirty /\ ~(main = "choose" /\ at = r)
                        \/ basis[r] = last_refresh[r]

IInv ==
    /\ TypeOK /\ LoopState /\ WorkerState /\ Past
    /\ EstimateNotLow /\ NoRefreshLost /\ NextRefresh /\ Thresholds

\* Every step keeps the types.
LEMMA NextTypeOK ==
  ASSUME TypeOK, [Next]_vars
  PROVE  TypeOK'
  <1> USE StepEstimatesAssumption DEF TypeOK,
          requestVars, estimateVars, thresholdVars, loopVars, batchVars
  <1>1. ASSUME NEW r \in Requests, AddRequest(r) PROVE TypeOK'
    BY <1>1 DEF AddRequest
  <1>2. ASSUME NEW r \in Requests, Finish(r) PROVE TypeOK'
    BY <1>2 DEF Finish
  <1>3. ASSUME NEW r \in Requests, ChooseThreshold(r) PROVE TypeOK'
    BY <1>3 DEF ChooseThreshold
  <1>4. ASSUME NEW S \in SUBSET Requests, StartUpdate(S) PROVE TypeOK'
    BY <1>4 DEF StartUpdate
  <1>5. ASSUME NEW r \in Requests, NEW n \in 1 .. MaxTokens, UpdateRequest(r, n) PROVE TypeOK'
    BY <1>5 DEF UpdateRequest
  <1>6. CASE SetLastStats
    BY <1>6 DEF SetLastStats
  <1>7. CASE Discard
    BY <1>7 DEF Discard, LockFree, Notified
  <1>8. CASE PostStep
    BY <1>8 DEF PostStep, LockFree, Notified, Queued, CountedDown, Due
  <1>9. CASE ClearDirty
    BY <1>9 DEF ClearDirty
  <1>10. CASE DrainUpdates
    BY <1>10 DEF DrainUpdates, Predict, MarkedDirty, Due
  <1>11. CASE Shutdown
    BY <1>11 DEF Shutdown, LockFree, Notified
  <1>12. CASE WorkerCheck
    BY <1>12 DEF WorkerCheck
  <1>13. CASE TakePending
    BY <1>13 DEF TakePending
  <1>14. CASE Relock
    BY <1>14 DEF Relock
  <1>15. ASSUME NEW r \in Requests, ReadTokens(r) PROVE TypeOK'
    BY <1>15 DEF ReadTokens, Due
  <1>16. CASE ReadStats
    BY <1>16 DEF ReadStats
  <1>17. CASE EndRead
    BY <1>17 DEF EndRead, Found
  <1>18. CASE StorePredictions
    BY <1>18 DEF StorePredictions, Predict, Found
  <1>19. CASE MarkDirty
    BY <1>19 DEF MarkDirty, MarkedDirty
  <1>20. CASE WorkerWakes
    BY <1>20 DEF WorkerWakes
  <1>21. CASE UNCHANGED vars
    BY <1>21 DEF vars
  <1> QED
    BY <1>1, <1>2, <1>3, <1>4, <1>5, <1>6, <1>7, <1>8, <1>9, <1>10, <1>11,
       <1>12, <1>13, <1>14, <1>15, <1>16, <1>17, <1>18, <1>19, <1>20, <1>21,
       Zenon DEF Next, LoopContinues, Worker

\* The loop picks up one piece of work at a time.
LEMMA NextLoopState ==
  ASSUME TypeOK, LoopState, [Next]_vars
  PROVE  LoopState'
  <1> USE StepEstimatesAssumption DEF TypeOK, LoopState,
          requestVars, estimateVars, thresholdVars, loopVars, batchVars
  <1>1. ASSUME NEW r \in Requests, AddRequest(r) PROVE LoopState'
    BY <1>1 DEF AddRequest
  <1>2. ASSUME NEW r \in Requests, Finish(r) PROVE LoopState'
    BY <1>2 DEF Finish
  <1>3. ASSUME NEW r \in Requests, ChooseThreshold(r) PROVE LoopState'
    BY <1>3 DEF ChooseThreshold
  <1>4. ASSUME NEW S \in SUBSET Requests, StartUpdate(S) PROVE LoopState'
    BY <1>4 DEF StartUpdate
  <1>5. ASSUME NEW r \in Requests, NEW n \in 1 .. MaxTokens, UpdateRequest(r, n) PROVE LoopState'
    BY <1>5 DEF UpdateRequest
  <1>6. CASE SetLastStats
    BY <1>6 DEF SetLastStats
  <1>7. CASE Discard
    BY <1>7 DEF Discard, LockFree, Notified
  <1>8. CASE PostStep
    BY <1>8 DEF PostStep, LockFree, Notified, Queued, CountedDown, Due
  <1>9. CASE ClearDirty
    BY <1>9 DEF ClearDirty
  <1>10. CASE DrainUpdates
    BY <1>10 DEF DrainUpdates, Predict, MarkedDirty, Due
  <1>11. CASE Shutdown
    BY <1>11 DEF Shutdown, LockFree, Notified
  <1>12. CASE WorkerCheck
    BY <1>12 DEF WorkerCheck
  <1>13. CASE TakePending
    BY <1>13 DEF TakePending
  <1>14. CASE Relock
    BY <1>14 DEF Relock
  <1>15. ASSUME NEW r \in Requests, ReadTokens(r) PROVE LoopState'
    BY <1>15 DEF ReadTokens, Due
  <1>16. CASE ReadStats
    BY <1>16 DEF ReadStats
  <1>17. CASE EndRead
    BY <1>17 DEF EndRead, Found
  <1>18. CASE StorePredictions
    BY <1>18 DEF StorePredictions, Predict, Found
  <1>19. CASE MarkDirty
    BY <1>19 DEF MarkDirty, MarkedDirty
  <1>20. CASE WorkerWakes
    BY <1>20 DEF WorkerWakes
  <1>21. CASE UNCHANGED vars
    BY <1>21 DEF vars
  <1> QED
    BY <1>1, <1>2, <1>3, <1>4, <1>5, <1>6, <1>7, <1>8, <1>9, <1>10, <1>11,
       <1>12, <1>13, <1>14, <1>15, <1>16, <1>17, <1>18, <1>19, <1>20, <1>21,
       Zenon DEF Next, LoopContinues, Worker

\* Whoever fills the queue, or shuts down, wakes the worker.
LEMMA NextWorkerState ==
  ASSUME TypeOK, WorkerState, [Next]_vars
  PROVE  WorkerState'
  <1> USE StepEstimatesAssumption DEF TypeOK, WorkerState, Found,
          requestVars, estimateVars, thresholdVars, loopVars, batchVars
  <1>1. ASSUME NEW r \in Requests, AddRequest(r) PROVE WorkerState'
    BY <1>1 DEF AddRequest
  <1>2. ASSUME NEW r \in Requests, Finish(r) PROVE WorkerState'
    BY <1>2 DEF Finish
  <1>3. ASSUME NEW r \in Requests, ChooseThreshold(r) PROVE WorkerState'
    BY <1>3 DEF ChooseThreshold
  <1>4. ASSUME NEW S \in SUBSET Requests, StartUpdate(S) PROVE WorkerState'
    BY <1>4 DEF StartUpdate
  <1>5. ASSUME NEW r \in Requests, NEW n \in 1 .. MaxTokens, UpdateRequest(r, n) PROVE WorkerState'
    BY <1>5 DEF UpdateRequest
  <1>6. CASE SetLastStats
    BY <1>6 DEF SetLastStats
  <1>7. CASE Discard
    BY <1>7 DEF Discard, LockFree, Notified
  <1>8. CASE PostStep
    BY <1>8 DEF PostStep, LockFree, Notified, Queued, CountedDown, Due
  <1>9. CASE ClearDirty
    BY <1>9 DEF ClearDirty
  <1>10. CASE DrainUpdates
    BY <1>10 DEF DrainUpdates, Predict, MarkedDirty, Due
  <1>11. CASE Shutdown
    BY <1>11 DEF Shutdown, LockFree, Notified
  <1>12. CASE WorkerCheck
    BY <1>12 DEF WorkerCheck
  <1>13. CASE TakePending
    BY <1>13 DEF TakePending
  <1>14. CASE Relock
    BY <1>14 DEF Relock
  <1>15. ASSUME NEW r \in Requests, ReadTokens(r) PROVE WorkerState'
    BY <1>15 DEF ReadTokens, Due
  <1>16. CASE ReadStats
    BY <1>16 DEF ReadStats
  <1>17. CASE EndRead
    BY <1>17 DEF EndRead
  <1>18. CASE StorePredictions
    BY <1>18 DEF StorePredictions, Predict
  <1>19. CASE MarkDirty
    BY <1>19 DEF MarkDirty, MarkedDirty
  <1>20. CASE WorkerWakes
    BY <1>20 DEF WorkerWakes
  <1>21. CASE UNCHANGED vars
    BY <1>21 DEF vars
  <1> QED
    BY <1>1, <1>2, <1>3, <1>4, <1>5, <1>6, <1>7, <1>8, <1>9, <1>10, <1>11,
       <1>12, <1>13, <1>14, <1>15, <1>16, <1>17, <1>18, <1>19, <1>20, <1>21,
       Zenon DEF Next, LoopContinues, Worker

\* The worker reads statistics of steps made, and tokens beyond the last refresh.
LEMMA NextPast ==
  ASSUME TypeOK, WorkerState, Past, [Next]_vars
  PROVE  Past'
  <1> USE StepEstimatesAssumption DEF TypeOK, WorkerState, Past, Found,
          requestVars, estimateVars, thresholdVars, loopVars, batchVars
  <1>1. ASSUME NEW r \in Requests, AddRequest(r) PROVE Past'
    BY <1>1 DEF AddRequest
  <1>2. ASSUME NEW r \in Requests, Finish(r) PROVE Past'
    BY <1>2 DEF Finish
  <1>3. ASSUME NEW r \in Requests, ChooseThreshold(r) PROVE Past'
    BY <1>3 DEF ChooseThreshold
  <1>4. ASSUME NEW S \in SUBSET Requests, StartUpdate(S) PROVE Past'
    BY <1>4 DEF StartUpdate
  <1>5. ASSUME NEW r \in Requests, NEW n \in 1 .. MaxTokens, UpdateRequest(r, n) PROVE Past'
    BY <1>5 DEF UpdateRequest
  <1>6. CASE SetLastStats
    BY <1>6 DEF SetLastStats
  <1>7. CASE Discard
    BY <1>7 DEF Discard, LockFree, Notified
  <1>8. CASE PostStep
    BY <1>8 DEF PostStep, LockFree, Notified, Queued, CountedDown, Due
  <1>9. CASE ClearDirty
    BY <1>9 DEF ClearDirty
  <1>10. CASE DrainUpdates
    BY <1>10 DEF DrainUpdates, Predict, MarkedDirty, Due
  <1>11. CASE Shutdown
    BY <1>11 DEF Shutdown, LockFree, Notified
  <1>12. CASE WorkerCheck
    BY <1>12 DEF WorkerCheck
  <1>13. CASE TakePending
    BY <1>13 DEF TakePending
  <1>14. CASE Relock
    BY <1>14 DEF Relock
  <1>15. ASSUME NEW r \in Requests, ReadTokens(r) PROVE Past'
    BY <1>15 DEF ReadTokens, Due
  <1>16. CASE ReadStats
    BY <1>16 DEF ReadStats
  <1>17. CASE EndRead
    BY <1>17 DEF EndRead
  <1>18. CASE StorePredictions
    BY <1>18 DEF StorePredictions, Predict
  <1>19. CASE MarkDirty
    BY <1>19 DEF MarkDirty, MarkedDirty
  <1>20. CASE WorkerWakes
    BY <1>20 DEF WorkerWakes
  <1>21. CASE UNCHANGED vars
    BY <1>21 DEF vars
  <1> QED
    BY <1>1, <1>2, <1>3, <1>4, <1>5, <1>6, <1>7, <1>8, <1>9, <1>10, <1>11,
       <1>12, <1>13, <1>14, <1>15, <1>16, <1>17, <1>18, <1>19, <1>20, <1>21,
       Zenon DEF Next, LoopContinues, Worker

\* A count-down lowers only estimates of updates that are complete, and a stored
\* prediction is never below the steps left.
LEMMA NextEstimate ==
  ASSUME TypeOK, LoopState, Past, EstimateNotLow, [Next]_vars
  PROVE  EstimateNotLow'
  <1> USE StepEstimatesAssumption DEF TypeOK, LoopState, Past, EstimateNotLow, InUpdate, Left, Found,
          requestVars, estimateVars, thresholdVars, loopVars, batchVars
  <1>1. ASSUME NEW r \in Requests, AddRequest(r) PROVE EstimateNotLow'
    BY <1>1 DEF AddRequest
  <1>2. ASSUME NEW r \in Requests, Finish(r) PROVE EstimateNotLow'
    BY <1>2 DEF Finish
  <1>3. ASSUME NEW r \in Requests, ChooseThreshold(r) PROVE EstimateNotLow'
    BY <1>3 DEF ChooseThreshold
  <1>4. ASSUME NEW S \in SUBSET Requests, StartUpdate(S) PROVE EstimateNotLow'
    BY <1>4 DEF StartUpdate
  <1>5. ASSUME NEW r \in Requests, NEW n \in 1 .. MaxTokens, UpdateRequest(r, n) PROVE EstimateNotLow'
    BY <1>5 DEF UpdateRequest
  <1>6. CASE SetLastStats
    BY <1>6 DEF SetLastStats
  <1>7. CASE Discard
    BY <1>7 DEF Discard, LockFree, Notified
  <1>8. CASE PostStep
    BY <1>8 DEF PostStep, LockFree, Notified, Queued, CountedDown, Due
  <1>9. CASE ClearDirty
    BY <1>9 DEF ClearDirty
  <1>10. CASE DrainUpdates
    BY <1>10 DEF DrainUpdates, Predict, MarkedDirty, Due
  <1>11. CASE Shutdown
    BY <1>11 DEF Shutdown, LockFree, Notified
  <1>12. CASE WorkerCheck
    BY <1>12 DEF WorkerCheck
  <1>13. CASE TakePending
    BY <1>13 DEF TakePending
  <1>14. CASE Relock
    BY <1>14 DEF Relock
  <1>15. ASSUME NEW r \in Requests, ReadTokens(r) PROVE EstimateNotLow'
    BY <1>15 DEF ReadTokens, Due
  <1>16. CASE ReadStats
    BY <1>16 DEF ReadStats
  <1>17. CASE EndRead
    BY <1>17 DEF EndRead
  <1>18. CASE StorePredictions
    BY <1>18 DEF StorePredictions, Predict
  <1>19. CASE MarkDirty
    BY <1>19 DEF MarkDirty, MarkedDirty
  <1>20. CASE WorkerWakes
    BY <1>20 DEF WorkerWakes
  <1>21. CASE UNCHANGED vars
    BY <1>21 DEF vars
  <1> QED
    BY <1>1, <1>2, <1>3, <1>4, <1>5, <1>6, <1>7, <1>8, <1>9, <1>10, <1>11,
       <1>12, <1>13, <1>14, <1>15, <1>16, <1>17, <1>18, <1>19, <1>20, <1>21,
       Zenon DEF Next, LoopContinues, Worker

\* A request leaves the queue only for the worker, and the worker only with a
\* refresh, or back in the queue.
LEMMA NextNoRefreshLost ==
  ASSUME TypeOK, LoopState, WorkerState, NextRefresh, NoRefreshLost, [Next]_vars
  PROVE  NoRefreshLost'
  <1> USE StepEstimatesAssumption DEF TypeOK, LoopState, WorkerState, NextRefresh, NoRefreshLost, InUpdate, Due, Found,
          requestVars, estimateVars, thresholdVars, loopVars, batchVars
  <1>1. ASSUME NEW r \in Requests, AddRequest(r) PROVE NoRefreshLost'
    BY <1>1 DEF AddRequest
  <1>2. ASSUME NEW r \in Requests, Finish(r) PROVE NoRefreshLost'
    BY <1>2 DEF Finish
  <1>3. ASSUME NEW r \in Requests, ChooseThreshold(r) PROVE NoRefreshLost'
    BY <1>3 DEF ChooseThreshold
  <1>4. ASSUME NEW S \in SUBSET Requests, StartUpdate(S) PROVE NoRefreshLost'
    BY <1>4 DEF StartUpdate
  <1>5. ASSUME NEW r \in Requests, NEW n \in 1 .. MaxTokens, UpdateRequest(r, n) PROVE NoRefreshLost'
    BY <1>5 DEF UpdateRequest
  <1>6. CASE SetLastStats
    BY <1>6 DEF SetLastStats
  <1>7. CASE Discard
    BY <1>7 DEF Discard, LockFree, Notified
  <1>8. CASE PostStep
    BY <1>8 DEF PostStep, LockFree, Notified, Queued, CountedDown
  <1>9. CASE ClearDirty
    BY <1>9 DEF ClearDirty
  <1>10. CASE DrainUpdates
    BY <1>10 DEF DrainUpdates, Predict, MarkedDirty
  <1>11. CASE Shutdown
    BY <1>11 DEF Shutdown, LockFree, Notified
  <1>12. CASE WorkerCheck
    BY <1>12 DEF WorkerCheck
  <1>13. CASE TakePending
    BY <1>13 DEF TakePending
  <1>14. CASE Relock
    BY <1>14 DEF Relock
  <1>15. ASSUME NEW r \in Requests, ReadTokens(r) PROVE NoRefreshLost'
    BY <1>15 DEF ReadTokens
  <1>16. CASE ReadStats
    BY <1>16 DEF ReadStats
  <1>17. CASE EndRead
    BY <1>17 DEF EndRead
  <1>18. CASE StorePredictions
    BY <1>18 DEF StorePredictions, Predict
  <1>19. CASE MarkDirty
    BY <1>19 DEF MarkDirty, MarkedDirty
  <1>20. CASE WorkerWakes
    BY <1>20 DEF WorkerWakes
  <1>21. CASE UNCHANGED vars
    BY <1>21 DEF vars
  <1> QED
    BY <1>1, <1>2, <1>3, <1>4, <1>5, <1>6, <1>7, <1>8, <1>9, <1>10, <1>11,
       <1>12, <1>13, <1>14, <1>15, <1>16, <1>17, <1>18, <1>19, <1>20, <1>21,
       Zenon DEF Next, LoopContinues, Worker

\* An update while the worker has the request queues it again.
LEMMA NextNextRefresh ==
  ASSUME TypeOK, LoopState, WorkerState, Past, NextRefresh, [Next]_vars
  PROVE  NextRefresh'
  <1> USE StepEstimatesAssumption DEF TypeOK, LoopState, WorkerState, Past, NextRefresh, InUpdate, Due, Found,
          requestVars, estimateVars, thresholdVars, loopVars, batchVars
  <1>1. ASSUME NEW r \in Requests, AddRequest(r) PROVE NextRefresh'
    BY <1>1 DEF AddRequest
  <1>2. ASSUME NEW r \in Requests, Finish(r) PROVE NextRefresh'
    BY <1>2 DEF Finish
  <1>3. ASSUME NEW r \in Requests, ChooseThreshold(r) PROVE NextRefresh'
    BY <1>3 DEF ChooseThreshold
  <1>4. ASSUME NEW S \in SUBSET Requests, StartUpdate(S) PROVE NextRefresh'
    BY <1>4 DEF StartUpdate
  <1>5. ASSUME NEW r \in Requests, NEW n \in 1 .. MaxTokens, UpdateRequest(r, n) PROVE NextRefresh'
    BY <1>5 DEF UpdateRequest
  <1>6. CASE SetLastStats
    BY <1>6 DEF SetLastStats
  <1>7. CASE Discard
    BY <1>7 DEF Discard, LockFree, Notified
  <1>8. CASE PostStep
    BY <1>8 DEF PostStep, LockFree, Notified, Queued, CountedDown
  <1>9. CASE ClearDirty
    BY <1>9 DEF ClearDirty
  <1>10. CASE DrainUpdates
    BY <1>10 DEF DrainUpdates, Predict, MarkedDirty
  <1>11. CASE Shutdown
    BY <1>11 DEF Shutdown, LockFree, Notified
  <1>12. CASE WorkerCheck
    BY <1>12 DEF WorkerCheck
  <1>13. CASE TakePending
    BY <1>13 DEF TakePending
  <1>14. CASE Relock
    BY <1>14 DEF Relock
  <1>15. ASSUME NEW r \in Requests, ReadTokens(r) PROVE NextRefresh'
    BY <1>15 DEF ReadTokens
  <1>16. CASE ReadStats
    BY <1>16 DEF ReadStats
  <1>17. CASE EndRead
    BY <1>17 DEF EndRead
  <1>18. CASE StorePredictions
    BY <1>18 DEF StorePredictions, Predict
  <1>19. CASE MarkDirty
    BY <1>19 DEF MarkDirty, MarkedDirty
  <1>20. CASE WorkerWakes
    BY <1>20 DEF WorkerWakes
  <1>21. CASE UNCHANGED vars
    BY <1>21 DEF vars
  <1> QED
    BY <1>1, <1>2, <1>3, <1>4, <1>5, <1>6, <1>7, <1>8, <1>9, <1>10, <1>11,
       <1>12, <1>13, <1>14, <1>15, <1>16, <1>17, <1>18, <1>19, <1>20, <1>21,
       Zenon DEF Next, LoopContinues, Worker

\* Only the loop changes estimates and thresholds, one after the other.
LEMMA NextThresholds ==
  ASSUME TypeOK, LoopState, WorkerState, Thresholds, [Next]_vars
  PROVE  Thresholds'
  <1> USE StepEstimatesAssumption DEF TypeOK, LoopState, WorkerState, Thresholds,
          requestVars, estimateVars, thresholdVars, loopVars, batchVars
  <1>1. ASSUME NEW r \in Requests, AddRequest(r) PROVE Thresholds'
    BY <1>1 DEF AddRequest
  <1>2. ASSUME NEW r \in Requests, Finish(r) PROVE Thresholds'
    BY <1>2 DEF Finish
  <1>3. ASSUME NEW r \in Requests, ChooseThreshold(r) PROVE Thresholds'
    BY <1>3 DEF ChooseThreshold
  <1>4. ASSUME NEW S \in SUBSET Requests, StartUpdate(S) PROVE Thresholds'
    BY <1>4 DEF StartUpdate
  <1>5. ASSUME NEW r \in Requests, NEW n \in 1 .. MaxTokens, UpdateRequest(r, n) PROVE Thresholds'
    BY <1>5 DEF UpdateRequest
  <1>6. CASE SetLastStats
    BY <1>6 DEF SetLastStats
  <1>7. CASE Discard
    BY <1>7 DEF Discard, LockFree, Notified
  <1>8. CASE PostStep
    BY <1>8 DEF PostStep, LockFree, Notified, Queued, CountedDown, Due
  <1>9. CASE ClearDirty
    BY <1>9 DEF ClearDirty
  <1>10. CASE DrainUpdates
    BY <1>10 DEF DrainUpdates, Predict, MarkedDirty, Due
  <1>11. CASE Shutdown
    BY <1>11 DEF Shutdown, LockFree, Notified
  <1>12. CASE WorkerCheck
    BY <1>12 DEF WorkerCheck
  <1>13. CASE TakePending
    BY <1>13 DEF TakePending
  <1>14. CASE Relock
    BY <1>14 DEF Relock
  <1>15. ASSUME NEW r \in Requests, ReadTokens(r) PROVE Thresholds'
    BY <1>15 DEF ReadTokens, Due
  <1>16. CASE ReadStats
    BY <1>16 DEF ReadStats
  <1>17. CASE EndRead
    BY <1>17 DEF EndRead, Found
  <1>18. CASE StorePredictions
    BY <1>18 DEF StorePredictions, Predict, Found
  <1>19. CASE MarkDirty
    BY <1>19 DEF MarkDirty, MarkedDirty
  <1>20. CASE WorkerWakes
    BY <1>20 DEF WorkerWakes
  <1>21. CASE UNCHANGED vars
    BY <1>21 DEF vars
  <1> QED
    BY <1>1, <1>2, <1>3, <1>4, <1>5, <1>6, <1>7, <1>8, <1>9, <1>10, <1>11,
       <1>12, <1>13, <1>14, <1>15, <1>16, <1>17, <1>18, <1>19, <1>20, <1>21,
       Zenon DEF Next, LoopContinues, Worker

\* The invariant holds at all times.
LEMMA Inductive == Spec => []IInv
  <1>1. Init => IInv
    <2> SUFFICES ASSUME Init PROVE IInv
      BY Zenon
    <2> USE StepEstimatesAssumption DEF Init
    <2>1. TypeOK
      <3>1. pred \in [Requests -> Int]
        <4>1. \A r \in Requests : total_steps[r] \in Int
          OBVIOUS
        <4> QED
          BY <4>1
      <3> QED
        BY <3>1, Zenon DEF TypeOK
    <2>2. LoopState
      BY DEF LoopState
    <2>3. WorkerState
      BY DEF WorkerState, Found
    <2>4. Past
      BY DEF Past, Found
    <2>5. EstimateNotLow /\ NoRefreshLost /\ NextRefresh /\ Thresholds
      BY Zenon DEF EstimateNotLow, NoRefreshLost, NextRefresh, Thresholds
    <2> QED
      BY <2>1, <2>2, <2>3, <2>4, <2>5, Zenon DEF IInv
  <1>2. IInv /\ [Next]_vars => IInv'
    BY NextTypeOK, NextLoopState, NextWorkerState, NextPast, NextEstimate,
       NextNoRefreshLost, NextNextRefresh, NextThresholds, Zenon DEF IInv
  <1> QED
    BY <1>1, <1>2, PTL DEF Spec

\* Worker and loop may interleave in any way: with an exact predictor no estimate
\* ever promises the end of a request more than one step too early.
THEOREM EstimatesSound == Spec => []EstimateNotLow
  BY Inductive, PTL DEF IInv

\* The queue, which the worker empties before it reads the statistics, loses no
\* request that is due for a new estimate.
THEOREM RefreshesKept == Spec => []NoRefreshLost
  BY Inductive, PTL DEF IInv

\* When schedule itself drains the queue, each threshold follows the latest
\* estimate.
THEOREM ThresholdsKept == Spec => []ThresholdFollows
  <1>1. IInv => ThresholdFollows
    BY Zenon DEF IInv, Thresholds, ThresholdFollows
  <1> QED
    BY <1>1, Inductive, PTL

=============================================================================
