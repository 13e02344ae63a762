----------------------------- MODULE MCThreads ------------------------------
(***************************************************************************)
(* The two parts of task.c side by side: threads compete for ids, or       *)
(* workers and clients share the tasks.  The parts have no state in        *)
(* common; the initial state says which of them moves.                     *)
(***************************************************************************)
EXTENDS ThreadRegistry, TaskSystem

VARIABLE component

allVars == <<component, vars, taskVars>>

MCInit == component \in {"registry", "tasks"} /\ Init /\ TasksInit
Tasks(A) == component = "tasks" /\ A /\ UNCHANGED <<component, vars>>
MCNext ==
    \/ component = "registry" /\ Next /\ UNCHANGED <<component, taskVars>>
    \/ Tasks(TasksNext)

\* The fairness of TaskSystem.
MCSpec ==
    /\ MCInit /\ [][MCNext]_allVars
    /\ \A w \in Worker : SF_allVars(Tasks(WorkerStep(w)))
    /\ \A c \in Client : SF_allVars(Tasks(ClientStep(c)))
=============================================================================
