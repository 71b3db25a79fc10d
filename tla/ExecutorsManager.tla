-------------------------- MODULE ExecutorsManager --------------------------
(***************************************************************************)
(* The registry of model executors (vllm/v1/executor/executors_manager.py) *)
(* and the status word of each executor (vllm/executor/executor_base.py).  *)
(*                                                                         *)
(* Every operation here is a coroutine of the engine's single asyncio      *)
(* loop.  launch_executor registers the executor in one uninterrupted run  *)
(* after its last await.  kill_executor is a task of its own that waits on *)
(* the executor's condition variable until the executor is IDLE, marks it  *)
(* KILLING and awaits the shutdown; its progress is kept in killer[e].     *)
(***************************************************************************)
EXTENDS Naturals, FiniteSets

CONSTANTS
    Executors,   \* executor ids, launched or not
    Initial      \* the executors registered at the start

ASSUME ExecutorsAssumption ==
    /\ IsFiniteSet(Executors)
    /\ Initial \subseteq Executors

VARIABLES
    status,                \* executors[e].status, "ABSENT" when e \notin executors
    waiting_to_be_killed,  \* the e with waiting_to_be_killed[e] = True
    killer                 \* progress of the kill_executor(e) task

managerVars == <<status, waiting_to_be_killed, killer>>

Status == {"ABSENT", "IDLE", "IDLE_NOT_ACCEPTING", "CONSIDERED", "SCHEDULED",
           "EXECUTING", "OUTPUT_READY", "KILLING"}

KillerPhase == {"none", "waiting", "notified", "shutdown", "done"}

ManagerTypeOK ==
    /\ status \in [Executors -> Status]
    /\ waiting_to_be_killed \in SUBSET Executors
    /\ killer \in [Executors -> KillerPhase]

ManagerInit ==
    /\ status = [e \in Executors |-> IF e \in Initial THEN "IDLE" ELSE "ABSENT"]
    /\ waiting_to_be_killed = {}
    /\ killer = [e \in Executors |-> "none"]

\* The keys of ExecutorsManager.executors.
Present == {e \in Executors : status[e] # "ABSENT"}

\* Faulty variant: the condition is not notified.
NotNotified(S) == killer

\* killer after cond[e].notify() for every e in S: a killer that waits on the
\* condition becomes runnable.
Notified(S) ==
    [e \in Executors |->
        IF e \in S /\ killer[e] = "waiting" THEN "notified" ELSE killer[e]]

-----------------------------------------------------------------------------
(* launch_executor: ids are used once (used_executor_ids).                 *)
LaunchExecutor(e) ==
    /\ status[e] = "ABSENT"
    /\ killer[e] = "none"
    /\ status' = [status EXCEPT ![e] = "IDLE"]
    /\ UNCHANGED <<waiting_to_be_killed, killer>>

(* Faulty variant: kill_executor does not wait for the executor to be idle. *)
KillExecutorAtOnce(e) ==
    /\ e \in Present
    /\ killer[e] = "none"
    /\ waiting_to_be_killed' = waiting_to_be_killed \cup {e}
    /\ status' = [status EXCEPT ![e] = "KILLING"]
    /\ killer' = [killer EXCEPT ![e] = "shutdown"]

(* kill_executor up to its first suspension: the predicate of wait_for is  *)
(* evaluated at once.                                                      *)
KillExecutor(e) ==
    /\ e \in Present
    /\ killer[e] = "none"
    /\ waiting_to_be_killed' = waiting_to_be_killed \cup {e}
    /\ IF status[e] = "IDLE"
       THEN /\ status' = [status EXCEPT ![e] = "KILLING"]
            /\ killer' = [killer EXCEPT ![e] = "shutdown"]
       ELSE /\ killer' = [killer EXCEPT ![e] = "waiting"]
            /\ UNCHANGED status

(* Faulty variant: wait() for the notification instead of wait_for(is_idle). *)
KillerWakesUnchecked(e) ==
    /\ killer[e] = "notified"
    /\ status' = [status EXCEPT ![e] = "KILLING"]
    /\ killer' = [killer EXCEPT ![e] = "shutdown"]
    /\ UNCHANGED waiting_to_be_killed

(* The killer runs again after a notify and re-evaluates is_idle().        *)
KillerWakes(e) ==
    /\ killer[e] = "notified"
    /\ IF status[e] = "IDLE"
       THEN /\ status' = [status EXCEPT ![e] = "KILLING"]
            /\ killer' = [killer EXCEPT ![e] = "shutdown"]
       ELSE /\ killer' = [killer EXCEPT ![e] = "waiting"]
            /\ UNCHANGED status
    /\ UNCHANGED waiting_to_be_killed

(* The shutdown thread returns: the executor leaves the registry.          *)
ShutdownDone(e) ==
    /\ killer[e] = "shutdown"
    /\ status' = [status EXCEPT ![e] = "ABSENT"]
    /\ waiting_to_be_killed' = waiting_to_be_killed \ {e}
    /\ killer' = [killer EXCEPT ![e] = "done"]

=============================================================================
