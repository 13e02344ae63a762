----------------------------- MODULE TaskSystem -----------------------------
(***************************************************************************)
(* The background task system, task.c: one queue of tasks per group, the   *)
(* worker threads of each group, foreground threads that perform tasks     *)
(* themselves, and shutdown (task_perform_until_quiescent followed by      *)
(* task_system_destroy).                                                   *)
(*                                                                         *)
(* A critical section under a group's lock is one step that needs the lock *)
(* free; only task_system_is_quiescent keeps locks across steps.  The      *)
(* counters are also read and written without the lock: those accesses are *)
(* steps of their own.  A task is a number; while it runs it may enqueue   *)
(* further tasks (a memtable flush enqueues the filter build, a compaction *)
(* the next one).                                                          *)
(***************************************************************************)
EXTENDS Integers, Sequences, FiniteSets, FiniteSetsExt

CONSTANTS
    MemtableWorker,     \* background threads of TASK_TYPE_MEMTABLE
    NormalWorker,       \* background threads of TASK_TYPE_NORMAL
    Client,             \* threads that use the system
    MaxTasks,           \* bound: tasks ever enqueued
    ScalePercent        \* values of queue_scale_percent

Group == {1, 2}             \* TASK_TYPE_MEMTABLE, TASK_TYPE_NORMAL
Worker == MemtableWorker \cup NormalWorker
TaskThread == Worker \cup Client
WorkersOf(g) == IF g = 1 THEN MemtableWorker ELSE NormalWorker
GroupOf(w) == IF w \in MemtableWorker THEN 1 ELSE 2

ASSUME TaskThreadsAssumption ==
    /\ IsFiniteSet(TaskThread)
    /\ MemtableWorker \cap NormalWorker = {} /\ Worker \cap Client = {}
ASSUME TaskBoundsAssumption == MaxTasks \in Nat /\ ScalePercent \subseteq Nat

VARIABLES
    queue,          \* tq of each group
    waiting,        \* current_waiting_tasks
    executing,      \* current_executing_tasks
    stop,           \* bg.stop
    holder,         \* which client's is_quiescent holds the group's lock
    tpc,             \* next step of each thread
    at,             \* group the thread is working on
    task,           \* task the thread runs, 0 if none
    scale,          \* queue_scale_percent of a perform_one in progress
    next_id,        \* tasks enqueued so far
    done,           \* tasks that have run
    shutdown,       \* the client that shuts the system down
    aborted         \* a platform_assert of the shutdown has failed

taskVars == <<queue, waiting, executing, stop, holder, tpc, at, task, scale,
          next_id, done, shutdown, aborted>>

TasksInit ==
    /\ queue = [g \in Group |-> <<>>]
    /\ waiting = [g \in Group |-> 0]
    /\ executing = [g \in Group |-> 0]
    /\ stop = [g \in Group |-> FALSE]
    /\ holder = [g \in Group |-> {}]
    /\ tpc = [t \in TaskThread |-> IF t \in Worker THEN "loop" ELSE "idle"]
    /\ at = [t \in TaskThread |-> IF t \in Worker THEN GroupOf(t) ELSE 1]
    /\ task = [t \in TaskThread |-> 0]
    /\ scale = [t \in Client |-> 0]
    /\ next_id = 0
    /\ done = {}
    /\ shutdown = {}
    /\ aborted = FALSE

Move(t, from, to) ==
    /\ tpc[t] = from
    /\ tpc' = [tpc EXCEPT ![t] = to]

Unlocked(g) == holder[g] = {}

Sleeping(g) == {w \in WorkersOf(g) : tpc[w] = "wait"}

-----------------------------------------------------------------------------
\* mutant: the enqueued task is not signalled
EnqueueSilent(t, g) ==
    /\ next_id < MaxTasks
    /\ Unlocked(g)
    /\ queue' = [queue EXCEPT ![g] = Append(@, next_id + 1)]
    /\ waiting' = [waiting EXCEPT ![g] = @ + 1]
    /\ next_id' = next_id + 1
    /\ UNCHANGED <<tpc, executing, stop, holder, at, task, scale, done,
                   shutdown, aborted>>

(* task_enqueue by a client or from inside a task: append or prepend, count *)
(* and signal one sleeping worker.                                          *)
Enqueue(t, g) ==
    /\ next_id < MaxTasks
    /\ Unlocked(g)
    /\ \/ queue' = [queue EXCEPT ![g] = Append(@, next_id + 1)]
       \/ queue' = [queue EXCEPT ![g] = <<next_id + 1>> \o @]
    /\ waiting' = [waiting EXCEPT ![g] = @ + 1]
    /\ next_id' = next_id + 1
    /\ \/ Sleeping(g) = {} /\ UNCHANGED tpc
       \/ \E w \in Sleeping(g) : Move(w, "wait", "loop")
    /\ UNCHANGED <<executing, stop, holder, at, task, scale, done, shutdown,
                   aborted>>

ClientEnqueue(c, g) ==
    /\ tpc[c] = "idle" /\ shutdown = {}
    /\ Enqueue(c, g)

TaskEnqueues(t, g) == tpc[t] = "run" /\ Enqueue(t, g)

-----------------------------------------------------------------------------
(* task_group_get_next_task, with the caller's count of executing tasks.   *)

Take(t, g) ==
    /\ waiting[g] > 0
    /\ task' = [task EXCEPT ![t] = Head(queue[g])]
    /\ queue' = [queue EXCEPT ![g] = Tail(@)]
    /\ waiting' = [waiting EXCEPT ![g] = @ - 1]
    /\ executing' = [executing EXCEPT ![g] = @ + 1]

(* task_worker_thread *)
WorkerTake(w) ==
    LET g == GroupOf(w)
    IN  /\ Unlocked(g) /\ ~stop[g]
        /\ Move(w, "loop", "run")
        /\ Take(w, g)
        /\ UNCHANGED <<stop, holder, at, scale, next_id, done, shutdown,
                       aborted>>

WorkerWait(w) ==
    LET g == GroupOf(w)
    IN  /\ Unlocked(g) /\ ~stop[g] /\ waiting[g] = 0
        /\ Move(w, "loop", "wait")
        /\ UNCHANGED <<queue, waiting, executing, stop, holder, at, task,
                       scale, next_id, done, shutdown, aborted>>

WorkerExit(w) ==
    LET g == GroupOf(w)
    IN  /\ Unlocked(g) /\ stop[g]
        /\ Move(w, "loop", "exited")
        /\ UNCHANGED <<queue, waiting, executing, stop, holder, at, task,
                       scale, next_id, done, shutdown, aborted>>

(* task_group_run_task has called the task's function. *)
RunTask(t) ==
    /\ Move(t, "run", "ran")
    /\ done' = done \cup {task[t]}
    /\ UNCHANGED <<queue, waiting, executing, stop, holder, at, task, scale,
                   next_id, shutdown, aborted>>

(* A worker counts the task down under the lock, a client without it. *)
FinishTask(t) ==
    LET g == at[t]
    IN  /\ t \in Worker => Unlocked(g)
        /\ Move(t, "ran", IF t \in Worker THEN "loop"
                          ELSE IF t \in shutdown THEN "q_lock" ELSE "idle")
        /\ executing' = [executing EXCEPT ![g] = @ - 1]
        /\ task' = [task EXCEPT ![t] = 0]
        /\ at' = [at EXCEPT ![t] = IF t \in Worker THEN g ELSE 1]
        /\ UNCHANGED <<queue, waiting, stop, holder, scale, next_id, done,
                       shutdown, aborted>>

-----------------------------------------------------------------------------
(* task_perform_one_if_needed: the groups in order, each with a test of    *)
(* the queue length that does not take the lock.                           *)

PerformOne(c) ==
    /\ shutdown = {}
    /\ Move(c, "idle", "test")
    /\ \E s \in ScalePercent : scale' = [scale EXCEPT ![c] = s]
    /\ UNCHANGED <<queue, waiting, executing, stop, holder, at, task,
                   next_id, done, shutdown, aborted>>

(* The scale test: integer division, and 0 always passes. *)
Needed(g, s) ==
    IF s = 0 THEN TRUE
    ELSE (100 * waiting[g]) \div s >= Cardinality(WorkersOf(g))

AfterGroup(c) == IF at[c] = 1 THEN "test"
                 ELSE IF c \in shutdown THEN "q_lock" ELSE "idle"

NextGroup(c) == at' = [at EXCEPT ![c] = 3 - @]

PerformTest(c) ==
    \/ /\ Needed(at[c], scale[c])
       /\ Move(c, "test", "take")
       /\ UNCHANGED <<queue, waiting, executing, stop, holder, at, task,
                      scale, next_id, done, shutdown, aborted>>
    \/ /\ ~Needed(at[c], scale[c])
       /\ Move(c, "test", AfterGroup(c))
       /\ NextGroup(c)
       /\ UNCHANGED <<queue, waiting, executing, stop, holder, task, scale,
                      next_id, done, shutdown, aborted>>

PerformTake(c) ==
    /\ Unlocked(at[c])
    /\ \/ /\ Move(c, "take", "run")
          /\ Take(c, at[c])
          /\ UNCHANGED at
       \/ /\ waiting[at[c]] = 0
          /\ Move(c, "take", AfterGroup(c))
          /\ NextGroup(c)
          /\ UNCHANGED <<queue, waiting, executing, task>>
    /\ UNCHANGED <<stop, holder, scale, next_id, done, shutdown, aborted>>

-----------------------------------------------------------------------------
(* Shutdown: the application enqueues no more tasks, then                  *)
(* task_perform_until_quiescent, then task_system_destroy.                 *)

\* mutant: shutdown does not wait until the system is quiescent
ShutdownAtOnce(c) ==
    /\ shutdown = {} /\ \A d \in Client : tpc[d] = "idle"
    /\ Move(c, "idle", "stop")
    /\ shutdown' = {c}
    /\ scale' = [scale EXCEPT ![c] = 0]
    /\ UNCHANGED <<queue, waiting, executing, stop, holder, at, task,
                   next_id, done, aborted>>

Shutdown(c) ==
    /\ shutdown = {} /\ \A d \in Client : tpc[d] = "idle"
    /\ Move(c, "idle", "q_lock")
    /\ shutdown' = {c}
    /\ scale' = [scale EXCEPT ![c] = 0]
    /\ UNCHANGED <<queue, waiting, executing, stop, holder, at, task,
                   next_id, done, aborted>>

\* mutant: the lock of one group at a time is enough
QuiescentLockOne(c) ==
    /\ tpc[c] = "q_lock" /\ Unlocked(at[c])
    /\ IF waiting[at[c]] = 0 /\ executing[at[c]] = 0
       THEN tpc' = [tpc EXCEPT ![c] = IF at[c] = 1 THEN "q_lock"
                                    ELSE "quiescent"]
       ELSE tpc' = [tpc EXCEPT ![c] = "test"]
    /\ at' = [at EXCEPT ![c] = IF tpc'[c] = "q_lock" THEN 2 ELSE 1]
    /\ UNCHANGED <<queue, waiting, executing, stop, holder, task, scale,
                   next_id, done, shutdown, aborted>>

(* task_system_is_quiescent locks the groups in order, *)
QuiescentLock(c) ==
    /\ Unlocked(at[c])
    /\ Move(c, "q_lock", IF at[c] = 1 THEN "q_lock" ELSE "q_check")
    /\ holder' = [holder EXCEPT ![at[c]] = {c}]
    /\ NextGroup(c)
    /\ UNCHANGED <<queue, waiting, executing, stop, task, scale, next_id,
                   done, shutdown, aborted>>

(* reads their counters in order, and unlocks them all.  If it found a     *)
(* task, task_perform_one follows.                                         *)
QuiescentCheck(c) ==
    LET idle == waiting[at[c]] = 0 /\ executing[at[c]] = 0
    IN  /\ \/ /\ idle
              /\ Move(c, "q_check", IF at[c] = 1 THEN "q_check"
                                    ELSE "quiescent")
              /\ NextGroup(c)
              /\ UNCHANGED holder
           \/ /\ ~idle
              /\ Move(c, "q_check", "test")
              /\ at' = [at EXCEPT ![c] = 1]
              /\ holder' = [g \in Group |-> {}]
        /\ UNCHANGED <<queue, waiting, executing, stop, task, scale,
                       next_id, done, shutdown, aborted>>

QuiescentUnlock(c) ==
    /\ Move(c, "quiescent", "stop")
    /\ holder' = [g \in Group |-> {}]
    /\ UNCHANGED <<queue, waiting, executing, stop, at, task, scale,
                   next_id, done, shutdown, aborted>>

\* mutant: the stop flag is set but no sleeping worker is woken
StopGroupSilent(c) ==
    LET g == at[c]
    IN  /\ Unlocked(g)
        /\ Move(c, "stop", "join")
        /\ aborted' = (queue[g] # <<>> \/ waiting[g] # 0)
        /\ stop' = [stop EXCEPT ![g] = TRUE]
        /\ UNCHANGED <<queue, waiting, executing, holder, at, task, scale,
                       next_id, done, shutdown>>

(* task_group_stop_and_wait_for_threads of one group: assert that no task  *)
(* waits, set the flag and wake all workers; then join them.               *)
StopGroup(c) ==
    LET g == at[c]
    IN  /\ Unlocked(g)
        /\ tpc[c] = "stop"
        /\ aborted' = (queue[g] # <<>> \/ waiting[g] # 0)
        /\ stop' = [stop EXCEPT ![g] = TRUE]
        /\ tpc' = [t \in TaskThread |-> IF t \in Sleeping(g) THEN "loop"
                                   ELSE IF t = c THEN "join" ELSE tpc[t]]
        /\ UNCHANGED <<queue, waiting, executing, holder, at, task, scale,
                       next_id, done, shutdown>>

JoinGroup(c) ==
    LET g == at[c]
    IN  /\ \A w \in WorkersOf(g) : tpc[w] = "exited"
        /\ Move(c, "join", IF g = 1 THEN "stop" ELSE "destroyed")
        /\ NextGroup(c)
        /\ UNCHANGED <<queue, waiting, executing, stop, holder, task, scale,
                       next_id, done, shutdown, aborted>>

Stopped == aborted \/ \E c \in Client : tpc[c] = "destroyed"

-----------------------------------------------------------------------------
WorkerStep(w) ==
    \/ WorkerTake(w) \/ WorkerWait(w) \/ WorkerExit(w)
    \/ RunTask(w) \/ FinishTask(w)

ClientStep(c) ==
    \/ RunTask(c) \/ FinishTask(c)
    \/ PerformTest(c) \/ PerformTake(c)
    \/ QuiescentLock(c) \/ QuiescentCheck(c) \/ QuiescentUnlock(c)
    \/ StopGroup(c) \/ JoinGroup(c)

TasksNext ==
    \/ /\ ~aborted
       /\ \/ \E c \in Client :
                \/ PerformOne(c) \/ Shutdown(c) \/ ClientStep(c)
                \/ \E g \in Group : ClientEnqueue(c, g)
          \/ \E w \in Worker : WorkerStep(w)
          \/ \E t \in TaskThread, g \in Group : TaskEnqueues(t, g)
    \/ Stopped /\ UNCHANGED taskVars

(* Threads keep running and their tasks end; a task that waits for a lock  *)
(* gets it, since is_quiescent holds its locks only briefly.               *)
TasksFairness ==
    /\ \A w \in Worker : SF_taskVars(WorkerStep(w))
    /\ \A c \in Client : SF_taskVars(ClientStep(c))

TasksSpec == TasksInit /\ [][TasksNext]_taskVars /\ TasksFairness

-----------------------------------------------------------------------------
TasksTypeOK ==
    /\ queue \in [Group -> Seq(1 .. MaxTasks)]
    /\ waiting \in [Group -> 0 .. MaxTasks]
    /\ executing \in [Group -> 0 .. Cardinality(TaskThread)]
    /\ stop \in [Group -> BOOLEAN]
    /\ holder \in [Group -> SUBSET Client]
    /\ tpc \in [TaskThread -> {"idle", "loop", "wait", "exited", "run", "ran",
                          "test", "take", "q_lock", "q_check", "quiescent",
                          "stop", "join", "destroyed"}]
    /\ at \in [TaskThread -> Group]
    /\ task \in [TaskThread -> 0 .. MaxTasks]
    /\ scale \in [Client -> ScalePercent \cup {0}]
    /\ next_id \in 0 .. MaxTasks
    /\ done \subseteq 1 .. MaxTasks
    /\ shutdown \in SUBSET Client
    /\ aborted \in BOOLEAN

(* When task_system_is_quiescent has decided for TRUE, no task waits and   *)
(* none is running, not even one that another thread has just taken off a  *)
(* queue or that a running task has just enqueued to the other group.      *)
QuiescentMeansIdle ==
    \A c \in Client :
        tpc[c] = "quiescent" =>
            /\ \A g \in Group : queue[g] = <<>>
            /\ \A t \in TaskThread : task[t] = 0
            /\ done = 1 .. next_id

(* The shutdown protocol of task.h abandons no task and never trips the    *)
(* asserts of task_group_stop_and_wait_for_threads.                        *)
ShutdownRunsEverything ==
    /\ ~aborted
    /\ \A c \in Client : tpc[c] \in {"stop", "join", "destroyed"} =>
                            done = 1 .. next_id

(* Every task runs once: it is in one queue, or with one thread, or done;  *)
(* and a shutdown leaves none behind (task_enqueue, task_group_run_task,   *)
(* task_system_destroy).                                                   *)
InQueue(i) == {p \in Group \X (1 .. MaxTasks) :
                  p[2] <= Len(queue[p[1]]) /\ queue[p[1]][p[2]] = i}
With(i) == {t \in TaskThread : task[t] = i /\ tpc[t] = "run"}
TasksRunOnce ==
    /\ \A i \in 1 .. next_id :
           Cardinality(InQueue(i)) + Cardinality(With(i))
           + (IF i \in done THEN 1 ELSE 0) = 1
    /\ ShutdownRunsEverything

(* No wakeup is lost: again and again all tasks enqueued so far have run   *)
(* (a task that has run stays done, so each of them is run).               *)
TasksAreRun == []<>(done = 1 .. next_id)

(* Shutdown ends: is_quiescent becomes true and all workers exit. *)
ShutdownEnds ==
    shutdown # {} ~> \E c \in Client : tpc[c] = "destroyed"
=============================================================================
