-------------------------- MODULE MCStepEstimates --------------------------
(* StepEstimates on small instances. *)
EXTENDS StepEstimates

MCRequests == 1 .. 2

\* The first request takes four steps, the second three.
MCTotalSteps == [r \in MCRequests |-> 5 - r]
=============================================================================
