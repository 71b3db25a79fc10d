--------------------------- MODULE RequestService ---------------------------
(***************************************************************************)
(* What the engine promises to its clients, one request at a time and      *)
(* without executors, batches or queues of messages.  A request is         *)
(* submitted once; it is admitted if the limit on unfinished requests      *)
(* allows, and waits in order otherwise; while it is admitted its output   *)
(* grows step by step and it is answered in the step that completes it.    *)
(* A waiting request may be dropped, which its client is told with the     *)
(* results of some step; an admitted one may be aborted.                   *)
(*                                                                         *)
(* Module EngineService shows that EngineCore implements this              *)
(* specification; module FrontEnd is built on it.                          *)
(***************************************************************************)
EXTENDS Integers, Sequences, FiniteSets

CONSTANTS
    Requests,                     \* request ids
    None,                         \* Python's None
    output_length,                \* request -> number of tokens to unmask
    denoise_block_size,           \* the most tokens one step unmasks
    max_num_unfinished_requests   \* a number, or None

VARIABLES
    phase,      \* request -> where it is in its life
    waiting,    \* the submitted requests over the limit, oldest first
    progress    \* request -> number of tokens unmasked so far

vars == <<phase, waiting, progress>>

\* "gone": ended without its full output, aborted or dropped and reported.
Phases == {"new", "submitted", "waiting", "admitted", "answered", "dropped", "gone"}

InPhase(p) == {r \in Requests : phase[r] = p}

HasRoom ==
    \/ max_num_unfinished_requests = None
    \/ Cardinality(InPhase("admitted")) < max_num_unfinished_requests

Init ==
    /\ phase = [r \in Requests |-> "new"]
    /\ waiting = <<>>
    /\ progress = [r \in Requests |-> 0]

Submit(r) ==
    /\ phase[r] = "new"
    /\ phase' = [phase EXCEPT ![r] = "submitted"]
    /\ UNCHANGED <<waiting, progress>>

\* There is room: the request is admitted at once, ahead of those that wait.
Admit(r) ==
    /\ phase[r] = "submitted" /\ HasRoom
    /\ phase' = [phase EXCEPT ![r] = "admitted"]
    /\ UNCHANGED <<waiting, progress>>

Wait(r) ==
    /\ phase[r] = "submitted" /\ ~HasRoom
    /\ phase' = [phase EXCEPT ![r] = "waiting"]
    /\ waiting' = Append(waiting, r)
    /\ UNCHANGED progress

\* The oldest waiting request is admitted when there is room again.
AdmitOldest ==
    /\ waiting # <<>> /\ HasRoom
    /\ phase' = [phase EXCEPT ![Head(waiting)] = "admitted"]
    /\ waiting' = Tail(waiting)
    /\ UNCHANGED progress

\* The i-th waiting request is dropped: its time is up or its client is gone.
Drop(i) ==
    /\ phase' = [phase EXCEPT ![waiting[i]] = "dropped"]
    /\ waiting' = SubSeq(waiting, 1, i - 1) \o SubSeq(waiting, i + 1, Len(waiting))
    /\ UNCHANGED progress

Abort(r) ==
    /\ phase[r] = "admitted"
    /\ phase' = [phase EXCEPT ![r] = "gone"]
    /\ UNCHANGED <<waiting, progress>>

\* One executor's results: the requests of S, all of them admitted, gain n tokens
\* each, those that are complete are answered, and every client whose request has
\* been dropped is told.
Step(S, n) ==
    /\ \A r \in S : phase[r] = "admitted" /\ progress[r] + n[r] <= output_length[r]
    /\ progress' = [r \in Requests |-> IF r \in S THEN progress[r] + n[r] ELSE progress[r]]
    /\ phase' = [r \in Requests |->
            IF r \in S /\ progress[r] + n[r] = output_length[r] THEN "answered"
            ELSE IF phase[r] = "dropped" THEN "gone" ELSE phase[r]]
    /\ UNCHANGED waiting

Next ==
    \/ \E r \in Requests : Submit(r) \/ Admit(r) \/ Wait(r) \/ Abort(r)
    \/ AdmitOldest
    \/ \E i \in DOMAIN waiting : Drop(i)
    \/ \E S \in SUBSET Requests : \E n \in [S -> 1 .. denoise_block_size] : Step(S, n)

Spec == Init /\ [][Next]_vars

=============================================================================
