--------------------------- MODULE EngineService ----------------------------
(* EngineCore implements RequestService: the refinement mapping.           *)
EXTENDS EngineCore

\* The requests whose ADD message is still in queue q.
Adds(q) == {r \in Requests : \E i \in DOMAIN q : q[i].type = "ADD" /\ q[i].req = r}

\* Where a request is in its life, read off the message queue, the scheduler's
\* dictionaries and the request's own token count.
PhaseOf(r) ==
    IF client[r] = "new" THEN "new"
    ELSE IF r \in Adds(input_queue) THEN "submitted"
    ELSE IF r \in request_states THEN "admitted"
    ELSE IF r \in Range(deferred_requests) THEN "waiting"
    ELSE IF r \in dropped_deferred_requests THEN "dropped"
    ELSE IF unmasked[r] = output_length[r] THEN "answered"
    ELSE "gone"

Phase == [r \in Requests |-> PhaseOf(r)]

Service == INSTANCE RequestService
           WITH phase <- Phase,
                waiting <- deferred_requests,
                progress <- unmasked

\* With all its executors, migrations, kills and queues the engine is only this
\* service: every request is admitted, deferred, dropped, aborted and answered
\* at most once and in a legal order, deferred requests are admitted oldest
\* first and within max_num_unfinished_requests, only admitted requests gain
\* tokens, and a request is answered in the very step that completes its output.
ImplementsService == Service!Spec

-----------------------------------------------------------------------------
(* The inductive invariant behind it.  Module ServiceProofs has the proof. *)

\* The requests that have left the queues: admitted at some time, or reported as
\* dropped.
Started ==
    {r \in Requests :
        /\ client[r] # "new"
        /\ r \notin Adds(input_queue)
        /\ r \notin Range(deferred_requests)
        /\ r \notin dropped_deferred_requests}

OneAddEach(q) ==
    \A i, j \in DOMAIN q :
        q[i].type = "ADD" /\ q[j].type = "ADD" /\ q[i].req = q[j].req => i = j

\* A request is in one place at a time: with its client, on its way in one ADD
\* message, deferred, admitted, or dropped and not yet reported.
InOnePlace ==
    /\ OneAddEach(input_queue)
    /\ IsInjective(deferred_requests)
    /\ requests = request_states \cup Range(deferred_requests)
    /\ request_states \cap Range(deferred_requests) = {}
    /\ dropped_deferred_requests \cap requests = {}
    /\ Adds(input_queue) \cap (requests \cup dropped_deferred_requests) = {}
    /\ \A r \in Adds(input_queue) \cup requests \cup dropped_deferred_requests :
          client[r] # "new"

\* Only requests that have been admitted have made progress, and an admitted one
\* is not complete yet.
ProgressOfStarted ==
    \A r \in Requests :
        /\ unmasked[r] <= output_length[r]
        /\ r \notin Started => unmasked[r] = 0
        /\ r \in request_states => unmasked[r] < output_length[r]

\* Whatever schedule() is putting together or an executor has been handed
\* consists of requests that have been admitted.
BatchesOfStarted ==
    /\ in_output \subseteq Started
    /\ \A e \in Executors :
          /\ new_reqs[e] \subseteq Started
          /\ running_reqs[e] \subseteq Started
          /\ scheduler_outputs[e] # NoBatch =>
                /\ scheduler_outputs[e].new \subseteq Started
                /\ scheduler_outputs[e].cached \subseteq Started

\* The output of a step finds the batch that it belongs to.
OutputsOfBatches == \A e \in executor_output_queue : scheduler_outputs[e] # NoBatch

LifeCycle == InOnePlace /\ ProgressOfStarted /\ BatchesOfStarted

=============================================================================
