-------------------------- MODULE TaskSystemProofs --------------------------
(***************************************************************************)
(* Proofs about the task system, for any finite sets of workers and        *)
(* clients and any number of tasks: every task is in exactly one place and *)
(* runs once, task_system_is_quiescent says TRUE only when nothing waits   *)
(* or runs, and a shutdown abandons no task.                               *)
(***************************************************************************)
EXTENDS TaskSystem, FiniteSetTheorems, SequenceTheorems, TLAPS

TypeInv ==
    /\ queue \in [Group -> Seq(1 .. MaxTasks)]
    /\ waiting \in [Group -> Nat]
    /\ executing \in [Group -> Nat]
    /\ stop \in [Group -> BOOLEAN]
    /\ holder \in [Group -> SUBSET Client]
    /\ tpc \in [TaskThread -> {"idle", "loop", "wait", "exited", "run", "ran",
                          "test", "take", "q_lock", "q_check", "quiescent",
                          "stop", "join", "destroyed"}]
    /\ at \in [TaskThread -> Group]
    /\ task \in [TaskThread -> 0 .. MaxTasks]
    /\ scale \in [Client -> ScalePercent \cup {0}]
    /\ next_id \in 0 .. MaxTasks
    /\ done \subseteq 1 .. MaxTasks
    /\ shutdown \in SUBSET Client

(* Workers and clients go through steps of their own; a thread has a task  *)
(* while it runs it and until it has counted it down.                      *)
RolesInv ==
    /\ \A w \in Worker : /\ tpc[w] \in {"loop", "wait", "exited", "run", "ran"}
                         /\ at[w] = GroupOf(w)
    /\ \A c \in Client : /\ tpc[c] \notin {"loop", "wait", "exited"}
                         /\ tpc[c] \in {"idle", "quiescent"} => at[c] = 1
    /\ \A t \in TaskThread : task[t] # 0 <=> tpc[t] \in {"run", "ran"}
    /\ \A t \in TaskThread : tpc[t] = "ran" => task[t] \in done

(* The tasks in a queue, and the one place each task enqueued so far is    *)
(* in.                                                                     *)
Elems(q) == {q[k] : k \in 1 .. Len(q)}
Queued(g) == Elems(queue[g])
Running == {t \in TaskThread : tpc[t] = "run"}
NoRepeats(q) == \A j, k \in 1 .. Len(q) : q[j] = q[k] => j = k

PlacesInv ==
    /\ \A g \in Group : NoRepeats(queue[g])
    /\ \A g, h \in Group : \A i \in Queued(g) : i \in Queued(h) => g = h
    /\ \A g \in Group : \A i \in Queued(g) : i \notin done /\ \A t \in Running : task[t] # i
    /\ \A t \in Running : task[t] \notin done /\ \A u \in Running : task[t] = task[u] => t = u

Placed(i) == \/ i \in done
             \/ \E g \in Group : i \in Queued(g)
             \/ \E t \in Running : task[t] = i
NoneIsLost == \A i \in 1 .. MaxTasks : Placed(i) <=> i <= next_id

(* The counters are what they count, whoever changes them without a lock.  *)
Busy(g) == {t \in TaskThread : tpc[t] \in {"run", "ran"} /\ at[t] = g}
CountersInv ==
    \A g \in Group : waiting[g] = Len(queue[g]) /\ executing[g] = Cardinality(Busy(g))

(* One client shuts the system down, and then no other calls into it.      *)
ShutdownSteps == {"q_lock", "q_check", "quiescent", "stop", "join", "destroyed"}
ShutdownInv ==
    /\ \A c \in Client : tpc[c] \in ShutdownSteps => c \in shutdown
    /\ \A c \in shutdown : \A d \in Client : d # c => tpc[d] = "idle"
    /\ \A c, d \in shutdown : c = d

(* is_quiescent has the lock of the first group, then of both.             *)
LocksInv ==
    \A c \in Client :
        /\ c \in holder[1] <=> \/ tpc[c] = "q_lock" /\ at[c] = 2
                               \/ tpc[c] \in {"q_check", "quiescent"}
        /\ c \in holder[2] <=> tpc[c] \in {"q_check", "quiescent"}

(* What is_quiescent has found stays true while it holds the locks, and    *)
(* once it has found both groups quiet nothing can start again.            *)
Quiet(g) == waiting[g] = 0 /\ executing[g] = 0
QuietInv ==
    \A c \in Client :
        /\ tpc[c] = "q_check" /\ at[c] = 2 => Quiet(1)
        /\ tpc[c] \in {"quiescent", "stop", "join", "destroyed"} => Quiet(1) /\ Quiet(2)

IInv ==
    /\ TypeInv /\ RolesInv /\ PlacesInv /\ NoneIsLost /\ CountersInv
    /\ ShutdownInv /\ LocksInv /\ QuietInv
    /\ aborted = FALSE

-----------------------------------------------------------------------------
(* What the queue operations do to the tasks in a queue. *)
LEMMA AddedToQueue ==
  ASSUME NEW S, NEW q \in Seq(S), NEW x \in S, NEW r,
         r = Append(q, x) \/ r = <<x>> \o q
  PROVE  /\ r \in Seq(S) /\ Len(r) = Len(q) + 1
         /\ Elems(r) = Elems(q) \cup {x}
         /\ NoRepeats(q) /\ x \notin Elems(q) => NoRepeats(r)
  <1>1. r \in Seq(S) /\ Len(r) = Len(q) + 1 /\ Len(q) \in Nat
    <2>1. CASE r = Append(q, x)
      BY <2>1
    <2>2. CASE r = <<x>> \o q
      <3>1. <<x>> \in Seq(S) /\ Len(<<x>>) = 1
        OBVIOUS
      <3>2. QED
        BY <2>2, <3>1
    <2>3. QED
      BY <2>1, <2>2
  <1>2. CASE r = Append(q, x)
    <2>1. \A k \in 1 .. Len(q) + 1 : r[k] = IF k = Len(q) + 1 THEN x ELSE q[k]
      BY <1>2
    <2>2. Elems(r) = Elems(q) \cup {x}
      BY <1>1, <2>1 DEF Elems
    <2>3. ASSUME NoRepeats(q), x \notin Elems(q) PROVE NoRepeats(r)
      BY <1>1, <2>1, <2>3 DEF NoRepeats, Elems
    <2>4. QED
      BY <1>1, <2>2, <2>3
  <1>3. CASE r = <<x>> \o q
    <2>1. \A k \in 1 .. Len(q) + 1 : r[k] = IF k = 1 THEN x ELSE q[k - 1]
      BY <1>3
    <2>2. Elems(r) = Elems(q) \cup {x}
      <3>1. Elems(r) \subseteq Elems(q) \cup {x}
        BY <1>1, <2>1 DEF Elems
      <3>2. x \in Elems(r)
        BY <1>1, <2>1 DEF Elems
      <3>3. ASSUME NEW k \in 1 .. Len(q) PROVE q[k] \in Elems(r)
        <4>1. k + 1 \in 1 .. Len(r) /\ r[k + 1] = q[k]
          BY <1>1, <2>1
        <4>2. QED
          BY <4>1 DEF Elems
      <3>4. QED
        BY <3>1, <3>2, <3>3 DEF Elems
    <2>3. ASSUME NoRepeats(q), x \notin Elems(q) PROVE NoRepeats(r)
      <3>1. SUFFICES ASSUME NEW j \in 1 .. Len(q) + 1, NEW k \in 1 .. Len(q) + 1,
                            r[j] = r[k]
                     PROVE  j = k
        BY <1>1 DEF NoRepeats
      <3>2. /\ j # 1 => j - 1 \in 1 .. Len(q) /\ r[j] = q[j - 1]
            /\ k # 1 => k - 1 \in 1 .. Len(q) /\ r[k] = q[k - 1]
            /\ r[1] = x
        BY <1>1, <2>1
      <3>3. CASE j = 1 \/ k = 1
        BY <2>3, <3>1, <3>2, <3>3 DEF Elems
      <3>4. CASE j # 1 /\ k # 1
        <4>1. j - 1 = k - 1
          BY <2>3, <3>1, <3>2, <3>4 DEF NoRepeats
        <4>2. QED
          BY <4>1
      <3>5. QED
        BY <3>3, <3>4
    <2>4. QED
      BY <1>1, <2>2, <2>3
  <1>4. QED
    BY <1>2, <1>3

LEMMA TakenFromQueue ==
  ASSUME NEW S, NEW q \in Seq(S), q # <<>>
  PROVE  /\ Head(q) \in S /\ Tail(q) \in Seq(S) /\ Len(Tail(q)) = Len(q) - 1
         /\ Elems(q) = Elems(Tail(q)) \cup {Head(q)}
         /\ NoRepeats(q) => NoRepeats(Tail(q)) /\ Head(q) \notin Elems(Tail(q))
  <1> DEFINE r == Tail(q)
  <1>1. /\ Len(q) \in Nat \ {0} /\ Head(q) = q[1] /\ Head(q) \in S
        /\ r \in Seq(S) /\ Len(r) = Len(q) - 1
        /\ \A k \in 1 .. Len(r) : r[k] = q[k + 1]
    OBVIOUS
  <1> HIDE DEF r
  <1>2. Elems(q) = Elems(r) \cup {q[1]}
    <2>1. Elems(r) \subseteq Elems(q) /\ q[1] \in Elems(q)
      BY <1>1 DEF Elems
    <2>2. ASSUME NEW k \in 1 .. Len(q), k # 1 PROVE q[k] \in Elems(r)
      <3>1. k - 1 \in 1 .. Len(r) /\ r[k - 1] = q[k]
        BY <1>1, <2>2
      <3>2. QED
        BY <3>1 DEF Elems
    <2>3. QED
      BY <2>1, <2>2 DEF Elems
  <1>3. ASSUME NoRepeats(q) PROVE NoRepeats(r) /\ q[1] \notin Elems(r)
    BY <1>1, <1>3 DEF NoRepeats, Elems
  <1>4. QED
    BY <1>1, <1>2, <1>3 DEF r

(* The threads with a task of a group are finitely many. *)
LEMMA BusyIsFinite ==
  \A g \in Group : /\ IsFiniteSet(Busy(g)) /\ Cardinality(Busy(g)) \in Nat
                   /\ Cardinality(Busy(g)) <= Cardinality(TaskThread)
                   /\ Cardinality(Busy(g)) = 0 <=> Busy(g) = {}
  <1> SUFFICES ASSUME NEW g \in Group
               PROVE  /\ IsFiniteSet(Busy(g)) /\ Cardinality(Busy(g)) \in Nat
                      /\ Cardinality(Busy(g)) <= Cardinality(TaskThread)
                      /\ Cardinality(Busy(g)) = 0 <=> Busy(g) = {}
    OBVIOUS
  <1>1. Busy(g) \in SUBSET TaskThread
    BY DEF Busy
  <1>2. QED
    BY <1>1, TaskThreadsAssumption, FS_Subset, FS_CardinalityType, FS_EmptySet

(* Parts of the invariant that a step leaves alone. *)
LEMMA FramePlaces ==
  ASSUME UNCHANGED <<queue, task, done, next_id>>, Running' = Running,
         PlacesInv, NoneIsLost
  PROVE  PlacesInv' /\ NoneIsLost'
  BY DEF PlacesInv, NoneIsLost, Placed, Queued

LEMMA FrameCounters ==
  ASSUME UNCHANGED <<queue, waiting, executing>>, CountersInv,
         \A g \in Group : Busy(g)' = Busy(g)
  PROVE  CountersInv'
  BY DEF CountersInv

(* Initially there is no task. *)
LEMMA InitInv == TasksInit => IInv
  <1> SUFFICES ASSUME TasksInit PROVE IInv
    OBVIOUS
  <1>1. TypeInv /\ aborted = FALSE
    BY TaskBoundsAssumption DEF TasksInit, TypeInv, Group, GroupOf
  <1>2. RolesInv
    BY TaskThreadsAssumption DEF TasksInit, RolesInv, TaskThread
  <1>3. Running = {} /\ \A g \in Group : Queued(g) = {} /\ NoRepeats(queue[g]) /\ Len(queue[g]) = 0
    BY DEF TasksInit, Running, Queued, Elems, NoRepeats
  <1>4. PlacesInv /\ NoneIsLost
    BY <1>3 DEF TasksInit, PlacesInv, NoneIsLost, Placed
  <1>5. CountersInv
    <2>1. \A g \in Group : Busy(g) = {}
      BY DEF TasksInit, Busy
    <2>2. QED
      BY <1>3, <2>1, FS_EmptySet DEF TasksInit, CountersInv
  <1>6. ShutdownInv /\ LocksInv /\ QuietInv
    BY TaskThreadsAssumption
    DEF TasksInit, ShutdownInv, ShutdownSteps, LocksInv, QuietInv, TaskThread,
        Group
  <1>7. QED
    BY <1>1, <1>2, <1>4, <1>5, <1>6 DEF IInv

LEMMA FrameTasks ==
  ASSUME UNCHANGED <<queue, waiting, executing, task, done, next_id>>,
         PlacesInv, NoneIsLost, CountersInv,
         \A t \in TaskThread : /\ tpc'[t] = "run" <=> tpc[t] = "run"
                               /\ tpc'[t] = "ran" <=> tpc[t] = "ran"
                               /\ tpc[t] \in {"run", "ran"} => at'[t] = at[t]
  PROVE  PlacesInv' /\ NoneIsLost' /\ CountersInv'
  <1>1. Running' = Running
    BY DEF Running
  <1>2. \A g \in Group : Busy(g)' = Busy(g)
    BY DEF Busy
  <1>3. QED
    BY <1>1, <1>2, FramePlaces, FrameCounters

-----------------------------------------------------------------------------
(* Each step of a worker or a client, and what it can disturb. *)
LEMMA WorkerWaitStep ==
  ASSUME IInv, NEW w \in Worker, WorkerWait(w)
  PROVE  IInv'
  <1>1. TypeInv'
    BY TaskThreadsAssumption
    DEF IInv, TypeInv, WorkerWait, GroupOf, Move, Unlocked, Group, Worker,
        TaskThread
  <1>2. RolesInv'
    BY TaskThreadsAssumption
    DEF IInv, TypeInv, RolesInv, WorkerWait, GroupOf, Move, Unlocked, Group,
        Worker, TaskThread
  <1>3. PlacesInv' /\ NoneIsLost' /\ CountersInv'
    BY TaskThreadsAssumption, FrameTasks
    DEF IInv, TypeInv, RolesInv, WorkerWait, GroupOf, Move, Unlocked, Group,
        Worker, TaskThread
  <1>4. ShutdownInv'
    BY TaskThreadsAssumption
    DEF IInv, TypeInv, RolesInv, ShutdownInv, ShutdownSteps, WorkerWait,
        GroupOf, Move, Unlocked, Group, Worker, TaskThread
  <1>5. LocksInv'
    BY TaskThreadsAssumption
    DEF IInv, TypeInv, RolesInv, ShutdownInv, ShutdownSteps, LocksInv,
        WorkerWait, GroupOf, Move, Unlocked, Group, Worker, TaskThread
  <1>6. QuietInv'
    BY TaskThreadsAssumption
    DEF IInv, TypeInv, RolesInv, ShutdownInv, ShutdownSteps, LocksInv,
        QuietInv, Quiet, WorkerWait, GroupOf, Move, Unlocked, Group, Worker,
        TaskThread
  <1>7. aborted' = FALSE
    BY DEF IInv, WorkerWait
  <1>8. QED
    BY <1>1, <1>2, <1>3, <1>4, <1>5, <1>6, <1>7 DEF IInv

LEMMA WorkerExitStep ==
  ASSUME IInv, NEW w \in Worker, WorkerExit(w)
  PROVE  IInv'
  <1>1. TypeInv'
    BY TaskThreadsAssumption
    DEF IInv, TypeInv, WorkerExit, GroupOf, Move, Unlocked, Group, Worker,
        TaskThread
  <1>2. RolesInv'
    BY TaskThreadsAssumption
    DEF IInv, TypeInv, RolesInv, WorkerExit, GroupOf, Move, Unlocked, Group,
        Worker, TaskThread
  <1>3. PlacesInv' /\ NoneIsLost' /\ CountersInv'
    BY TaskThreadsAssumption, FrameTasks
    DEF IInv, TypeInv, RolesInv, WorkerExit, GroupOf, Move, Unlocked, Group,
        Worker, TaskThread
  <1>4. ShutdownInv'
    BY TaskThreadsAssumption
    DEF IInv, TypeInv, RolesInv, ShutdownInv, ShutdownSteps, WorkerExit,
        GroupOf, Move, Unlocked, Group, Worker, TaskThread
  <1>5. LocksInv'
    BY TaskThreadsAssumption
    DEF IInv, TypeInv, RolesInv, ShutdownInv, ShutdownSteps, LocksInv,
        WorkerExit, GroupOf, Move, Unlocked, Group, Worker, TaskThread
  <1>6. QuietInv'
    BY TaskThreadsAssumption
    DEF IInv, TypeInv, RolesInv, ShutdownInv, ShutdownSteps, LocksInv,
        QuietInv, Quiet, WorkerExit, GroupOf, Move, Unlocked, Group, Worker,
        TaskThread
  <1>7. aborted' = FALSE
    BY DEF IInv, WorkerExit
  <1>8. QED
    BY <1>1, <1>2, <1>3, <1>4, <1>5, <1>6, <1>7 DEF IInv

LEMMA PerformOneStep ==
  ASSUME IInv, NEW c \in Client, PerformOne(c)
  PROVE  IInv'
  <1>1. TypeInv'
    BY TaskThreadsAssumption
    DEF IInv, TypeInv, PerformOne, Move, Unlocked, Group, Worker, TaskThread
  <1>2. RolesInv'
    BY TaskThreadsAssumption
    DEF IInv, TypeInv, RolesInv, PerformOne, Move, Unlocked, Group, Worker,
        TaskThread
  <1>3. PlacesInv' /\ NoneIsLost' /\ CountersInv'
    BY TaskThreadsAssumption, FrameTasks
    DEF IInv, TypeInv, RolesInv, PerformOne, Move, Unlocked, Group, Worker,
        TaskThread
  <1>4. ShutdownInv'
    BY TaskThreadsAssumption
    DEF IInv, TypeInv, RolesInv, ShutdownInv, ShutdownSteps, PerformOne, Move,
        Unlocked, Group, Worker, TaskThread
  <1>5. LocksInv'
    BY TaskThreadsAssumption
    DEF IInv, TypeInv, RolesInv, ShutdownInv, ShutdownSteps, LocksInv,
        PerformOne, Move, Unlocked, Group, Worker, TaskThread
  <1>6. QuietInv'
    BY TaskThreadsAssumption
    DEF IInv, TypeInv, RolesInv, ShutdownInv, ShutdownSteps, LocksInv,
        QuietInv, Quiet, PerformOne, Move, Unlocked, Group, Worker, TaskThread
  <1>7. aborted' = FALSE
    BY DEF IInv, PerformOne
  <1>8. QED
    BY <1>1, <1>2, <1>3, <1>4, <1>5, <1>6, <1>7 DEF IInv

LEMMA PerformTestStep ==
  ASSUME IInv, NEW c \in Client, PerformTest(c)
  PROVE  IInv'
  <1>0. /\ tpc[c] = "test" /\ c \in TaskThread
        /\ \E s \in {"take", "test", "q_lock", "idle"}, a \in Group :
               /\ tpc' = [tpc EXCEPT ![c] = s] /\ at' = [at EXCEPT ![c] = a]
               /\ s = "idle" => a = 1 /\ c \notin shutdown
               /\ s = "q_lock" => a = 1 /\ c \in shutdown
        /\ UNCHANGED <<queue, waiting, executing, stop, holder, task, scale,
                       next_id, done, shutdown, aborted>>
    <2>1. c \in TaskThread /\ (at[c] = 1 \/ at[c] = 2)
      BY DEF IInv, TypeInv, Group, TaskThread
    <2>2. CASE at[c] = 1
      BY <2>1, <2>2
      DEF IInv, TypeInv, Quiet, PerformTest, AfterGroup, NextGroup, Move,
          Unlocked, Group, Worker, TaskThread
    <2>3. CASE at[c] = 2
      BY <2>1, <2>3
      DEF IInv, TypeInv, Quiet, PerformTest, AfterGroup, NextGroup, Move,
          Unlocked, Group, Worker, TaskThread
    <2>4. QED
      BY <2>1, <2>2, <2>3
  <1>1. TypeInv'
    BY <1>0, TaskThreadsAssumption DEF IInv, TypeInv, Group, Worker, TaskThread
  <1>2. RolesInv'
    BY <1>0, TaskThreadsAssumption
    DEF IInv, TypeInv, RolesInv, Group, Worker, TaskThread
  <1>3. PlacesInv' /\ NoneIsLost' /\ CountersInv'
    BY <1>0, TaskThreadsAssumption, FrameTasks
    DEF IInv, TypeInv, RolesInv, Group, Worker, TaskThread
  <1>4. ShutdownInv'
    BY <1>0, TaskThreadsAssumption
    DEF IInv, TypeInv, RolesInv, ShutdownInv, ShutdownSteps, Group, Worker,
        TaskThread
  <1>5. LocksInv'
    BY <1>0, TaskThreadsAssumption
    DEF IInv, TypeInv, RolesInv, ShutdownInv, ShutdownSteps, LocksInv, Group,
        Worker, TaskThread
  <1>6. QuietInv'
    BY <1>0, TaskThreadsAssumption
    DEF IInv, TypeInv, RolesInv, ShutdownInv, ShutdownSteps, LocksInv,
        QuietInv, Quiet, Group, Worker, TaskThread
  <1>7. aborted' = FALSE
    BY <1>0 DEF IInv
  <1>8. QED
    BY <1>1, <1>2, <1>3, <1>4, <1>5, <1>6, <1>7 DEF IInv

LEMMA ShutdownStep ==
  ASSUME IInv, NEW c \in Client, Shutdown(c)
  PROVE  IInv'
  <1>1. TypeInv'
    BY TaskThreadsAssumption
    DEF IInv, TypeInv, Shutdown, Move, Unlocked, Group, Worker, TaskThread
  <1>2. RolesInv'
    BY TaskThreadsAssumption
    DEF IInv, TypeInv, RolesInv, Shutdown, Move, Unlocked, Group, Worker,
        TaskThread
  <1>3. PlacesInv' /\ NoneIsLost' /\ CountersInv'
    BY TaskThreadsAssumption, FrameTasks
    DEF IInv, TypeInv, RolesInv, Shutdown, Move, Unlocked, Group, Worker,
        TaskThread
  <1>4. ShutdownInv'
    BY TaskThreadsAssumption
    DEF IInv, TypeInv, RolesInv, ShutdownInv, ShutdownSteps, Shutdown, Move,
        Unlocked, Group, Worker, TaskThread
  <1>5. LocksInv'
    BY TaskThreadsAssumption
    DEF IInv, TypeInv, RolesInv, ShutdownInv, ShutdownSteps, LocksInv,
        Shutdown, Move, Unlocked, Group, Worker, TaskThread
  <1>6. QuietInv'
    BY TaskThreadsAssumption
    DEF IInv, TypeInv, RolesInv, ShutdownInv, ShutdownSteps, LocksInv,
        QuietInv, Quiet, Shutdown, Move, Unlocked, Group, Worker, TaskThread
  <1>7. aborted' = FALSE
    BY DEF IInv, Shutdown
  <1>8. QED
    BY <1>1, <1>2, <1>3, <1>4, <1>5, <1>6, <1>7 DEF IInv

LEMMA QuiescentLockStep ==
  ASSUME IInv, NEW c \in Client, QuiescentLock(c)
  PROVE  IInv'
  <1>1. TypeInv'
    BY TaskThreadsAssumption
    DEF IInv, TypeInv, QuiescentLock, NextGroup, Move, Unlocked, Group, Worker,
        TaskThread
  <1>2. RolesInv'
    BY TaskThreadsAssumption
    DEF IInv, TypeInv, RolesInv, QuiescentLock, NextGroup, Move, Unlocked,
        Group, Worker, TaskThread
  <1>3. PlacesInv' /\ NoneIsLost' /\ CountersInv'
    BY TaskThreadsAssumption, FrameTasks
    DEF IInv, TypeInv, RolesInv, QuiescentLock, NextGroup, Move, Unlocked,
        Group, Worker, TaskThread
  <1>4. ShutdownInv'
    BY TaskThreadsAssumption
    DEF IInv, TypeInv, RolesInv, ShutdownInv, ShutdownSteps, QuiescentLock,
        NextGroup, Move, Unlocked, Group, Worker, TaskThread
  <1>5. LocksInv'
    BY TaskThreadsAssumption
    DEF IInv, TypeInv, RolesInv, ShutdownInv, ShutdownSteps, LocksInv,
        QuiescentLock, NextGroup, Move, Unlocked, Group, Worker, TaskThread
  <1>6. QuietInv'
    BY TaskThreadsAssumption
    DEF IInv, TypeInv, RolesInv, ShutdownInv, ShutdownSteps, LocksInv,
        QuietInv, Quiet, QuiescentLock, NextGroup, Move, Unlocked, Group,
        Worker, TaskThread
  <1>7. aborted' = FALSE
    BY DEF IInv, QuiescentLock
  <1>8. QED
    BY <1>1, <1>2, <1>3, <1>4, <1>5, <1>6, <1>7 DEF IInv

LEMMA QuiescentCheckStep ==
  ASSUME IInv, NEW c \in Client, QuiescentCheck(c)
  PROVE  IInv'
  <1>0. /\ tpc[c] = "q_check" /\ c \in TaskThread
        /\ \/ /\ Quiet(at[c]) /\ at[c] = 1 /\ UNCHANGED <<tpc, holder>>
              /\ at' = [at EXCEPT ![c] = 2]
           \/ /\ Quiet(at[c]) /\ at[c] = 2 /\ UNCHANGED holder
              /\ tpc' = [tpc EXCEPT ![c] = "quiescent"] /\ at' = [at EXCEPT ![c] = 1]
           \/ /\ tpc' = [tpc EXCEPT ![c] = "test"] /\ at' = [at EXCEPT ![c] = 1]
              /\ holder' = [g \in Group |-> {}]
        /\ UNCHANGED <<queue, waiting, executing, stop, task, scale, next_id,
                       done, shutdown, aborted>>
    <2>1. c \in TaskThread /\ (at[c] = 1 \/ at[c] = 2)
      BY DEF IInv, TypeInv, Group, TaskThread
    <2>2. CASE at[c] = 1
      BY <2>1, <2>2
      DEF IInv, TypeInv, Quiet, QuiescentCheck, NextGroup, Move, Unlocked,
          Group, Worker, TaskThread
    <2>3. CASE at[c] = 2
      BY <2>1, <2>3
      DEF IInv, TypeInv, Quiet, QuiescentCheck, NextGroup, Move, Unlocked,
          Group, Worker, TaskThread
    <2>4. QED
      BY <2>1, <2>2, <2>3
  <1>1. TypeInv'
    BY <1>0, TaskThreadsAssumption DEF IInv, TypeInv, Group, Worker, TaskThread
  <1>2. RolesInv'
    BY <1>0, TaskThreadsAssumption
    DEF IInv, TypeInv, RolesInv, Group, Worker, TaskThread
  <1>3. PlacesInv' /\ NoneIsLost' /\ CountersInv'
    BY <1>0, TaskThreadsAssumption, FrameTasks
    DEF IInv, TypeInv, RolesInv, Group, Worker, TaskThread
  <1>4. ShutdownInv'
    BY <1>0, TaskThreadsAssumption
    DEF IInv, TypeInv, RolesInv, ShutdownInv, ShutdownSteps, Group, Worker,
        TaskThread
  <1>5. LocksInv'
    BY <1>0, TaskThreadsAssumption
    DEF IInv, TypeInv, RolesInv, ShutdownInv, ShutdownSteps, LocksInv, Group,
        Worker, TaskThread
  <1>6. QuietInv'
    BY <1>0, TaskThreadsAssumption
    DEF IInv, TypeInv, RolesInv, ShutdownInv, ShutdownSteps, LocksInv,
        QuietInv, Quiet, Group, Worker, TaskThread
  <1>7. aborted' = FALSE
    BY <1>0 DEF IInv
  <1>8. QED
    BY <1>1, <1>2, <1>3, <1>4, <1>5, <1>6, <1>7 DEF IInv

LEMMA QuiescentUnlockStep ==
  ASSUME IInv, NEW c \in Client, QuiescentUnlock(c)
  PROVE  IInv'
  <1>1. TypeInv'
    BY TaskThreadsAssumption
    DEF IInv, TypeInv, QuiescentUnlock, Move, Unlocked, Group, Worker,
        TaskThread
  <1>2. RolesInv'
    BY TaskThreadsAssumption
    DEF IInv, TypeInv, RolesInv, QuiescentUnlock, Move, Unlocked, Group,
        Worker, TaskThread
  <1>3. PlacesInv' /\ NoneIsLost' /\ CountersInv'
    BY TaskThreadsAssumption, FrameTasks
    DEF IInv, TypeInv, RolesInv, QuiescentUnlock, Move, Unlocked, Group,
        Worker, TaskThread
  <1>4. ShutdownInv'
    BY TaskThreadsAssumption
    DEF IInv, TypeInv, RolesInv, ShutdownInv, ShutdownSteps, QuiescentUnlock,
        Move, Unlocked, Group, Worker, TaskThread
  <1>5. LocksInv'
    BY TaskThreadsAssumption
    DEF IInv, TypeInv, RolesInv, ShutdownInv, ShutdownSteps, LocksInv,
        QuiescentUnlock, Move, Unlocked, Group, Worker, TaskThread
  <1>6. QuietInv'
    BY TaskThreadsAssumption
    DEF IInv, TypeInv, RolesInv, ShutdownInv, ShutdownSteps, LocksInv,
        QuietInv, Quiet, QuiescentUnlock, Move, Unlocked, Group, Worker,
        TaskThread
  <1>7. aborted' = FALSE
    BY DEF IInv, QuiescentUnlock
  <1>8. QED
    BY <1>1, <1>2, <1>3, <1>4, <1>5, <1>6, <1>7 DEF IInv

LEMMA StopGroupStep ==
  ASSUME IInv, NEW c \in Client, StopGroup(c)
  PROVE  IInv'
  <1>1. TypeInv'
    BY TaskThreadsAssumption
    DEF IInv, TypeInv, StopGroup, Sleeping, WorkersOf, Move, Unlocked, Group,
        Worker, TaskThread
  <1>2. RolesInv'
    BY TaskThreadsAssumption
    DEF IInv, TypeInv, RolesInv, StopGroup, Sleeping, WorkersOf, Move,
        Unlocked, Group, Worker, TaskThread
  <1>3. PlacesInv' /\ NoneIsLost' /\ CountersInv'
    BY TaskThreadsAssumption, FrameTasks
    DEF IInv, TypeInv, RolesInv, StopGroup, Sleeping, WorkersOf, Move,
        Unlocked, Group, Worker, TaskThread
  <1>4. ShutdownInv'
    BY TaskThreadsAssumption
    DEF IInv, TypeInv, RolesInv, ShutdownInv, ShutdownSteps, StopGroup,
        Sleeping, WorkersOf, Move, Unlocked, Group, Worker, TaskThread
  <1>5. LocksInv'
    BY TaskThreadsAssumption
    DEF IInv, TypeInv, RolesInv, ShutdownInv, ShutdownSteps, LocksInv,
        StopGroup, Sleeping, WorkersOf, Move, Unlocked, Group, Worker,
        TaskThread
  <1>6. QuietInv'
    BY TaskThreadsAssumption
    DEF IInv, TypeInv, RolesInv, ShutdownInv, ShutdownSteps, LocksInv,
        QuietInv, Quiet, StopGroup, Sleeping, WorkersOf, Move, Unlocked, Group,
        Worker, TaskThread
  <1>7. aborted' = FALSE
    <2>1. at[c] \in Group /\ waiting[at[c]] = 0
      BY DEF IInv, TypeInv, QuietInv, Quiet, StopGroup, Group, TaskThread
    <2>2. queue[at[c]] = <<>>
      BY <2>1 DEF IInv, TypeInv, CountersInv
    <2>3. QED
      BY <2>1, <2>2 DEF StopGroup
  <1>8. QED
    BY <1>1, <1>2, <1>3, <1>4, <1>5, <1>6, <1>7 DEF IInv

LEMMA JoinGroupStep ==
  ASSUME IInv, NEW c \in Client, JoinGroup(c)
  PROVE  IInv'
  <1>1. TypeInv'
    BY TaskThreadsAssumption
    DEF IInv, TypeInv, JoinGroup, NextGroup, Move, Unlocked, Group, Worker,
        TaskThread
  <1>2. RolesInv'
    BY TaskThreadsAssumption
    DEF IInv, TypeInv, RolesInv, JoinGroup, NextGroup, Move, Unlocked, Group,
        Worker, TaskThread
  <1>3. PlacesInv' /\ NoneIsLost' /\ CountersInv'
    BY TaskThreadsAssumption, FrameTasks
    DEF IInv, TypeInv, RolesInv, JoinGroup, NextGroup, Move, Unlocked, Group,
        Worker, TaskThread
  <1>4. ShutdownInv'
    BY TaskThreadsAssumption
    DEF IInv, TypeInv, RolesInv, ShutdownInv, ShutdownSteps, JoinGroup,
        NextGroup, Move, Unlocked, Group, Worker, TaskThread
  <1>5. LocksInv'
    BY TaskThreadsAssumption
    DEF IInv, TypeInv, RolesInv, ShutdownInv, ShutdownSteps, LocksInv,
        JoinGroup, NextGroup, Move, Unlocked, Group, Worker, TaskThread
  <1>6. QuietInv'
    BY TaskThreadsAssumption
    DEF IInv, TypeInv, RolesInv, ShutdownInv, ShutdownSteps, LocksInv,
        QuietInv, Quiet, JoinGroup, NextGroup, Move, Unlocked, Group, Worker,
        TaskThread
  <1>7. aborted' = FALSE
    BY DEF IInv, JoinGroup
  <1>8. QED
    BY <1>1, <1>2, <1>3, <1>4, <1>5, <1>6, <1>7 DEF IInv

(* The system stays as it is once it has stopped. *)
LEMMA StutterStep == IInv /\ UNCHANGED taskVars => IInv'
  BY DEF IInv, TypeInv, RolesInv, PlacesInv, NoneIsLost, Placed, Queued,
         Running,
         CountersInv, Busy, ShutdownInv, ShutdownSteps, LocksInv, QuietInv, Quiet,
         taskVars

(* A task that waited is now with the thread that takes it off the queue.  *)
LEMMA TakeStep ==
  ASSUME IInv, NEW t \in TaskThread, NEW g \in Group, Take(t, g),
         at[t] = g, UNCHANGED <<at, done, next_id>>, task[t] = 0,
         tpc[t] \notin {"run", "ran"}, tpc' = [tpc EXCEPT ![t] = "run"]
  PROVE  /\ queue' \in [Group -> Seq(1 .. MaxTasks)]
         /\ waiting' \in [Group -> Nat] /\ executing' \in [Group -> Nat]
         /\ task' \in [TaskThread -> 0 .. MaxTasks] /\ task'[t] # 0
         /\ PlacesInv' /\ NoneIsLost' /\ CountersInv'
  <1> DEFINE i == Head(queue[g])
  <1>1. queue[g] \in Seq(1 .. MaxTasks) /\ queue[g] # <<>> /\ waiting[g] = Len(queue[g])
    BY DEF IInv, TypeInv, CountersInv, Take
  <1>2. /\ i \in 1 .. MaxTasks /\ Tail(queue[g]) \in Seq(1 .. MaxTasks)
        /\ Len(Tail(queue[g])) = Len(queue[g]) - 1
        /\ Elems(queue[g]) = Elems(Tail(queue[g])) \cup {i}
        /\ NoRepeats(queue[g]) => NoRepeats(Tail(queue[g])) /\ i \notin Elems(Tail(queue[g]))
    BY <1>1, TakenFromQueue
  <1>3. /\ task' = [task EXCEPT ![t] = i] /\ queue' = [queue EXCEPT ![g] = Tail(queue[g])]
        /\ waiting' = [waiting EXCEPT ![g] = waiting[g] - 1]
        /\ executing' = [executing EXCEPT ![g] = executing[g] + 1]
    BY DEF Take
  <1> HIDE DEF i
  <1>4. /\ queue' \in [Group -> Seq(1 .. MaxTasks)]
        /\ waiting' \in [Group -> Nat] /\ executing' \in [Group -> Nat]
        /\ task' \in [TaskThread -> 0 .. MaxTasks] /\ task'[t] = i
    BY <1>1, <1>2, <1>3 DEF IInv, TypeInv
  <1>5. /\ i \in Queued(g) /\ Queued(g)' = Queued(g) \ {i} /\ NoRepeats(queue'[g])
        /\ \A h \in Group \ {g} : Queued(h)' = Queued(h) /\ queue'[h] = queue[h]
    BY <1>2, <1>3 DEF IInv, TypeInv, PlacesInv, Queued
  <1>6. Running' = Running \cup {t} /\ t \notin Running /\ \A u \in Running : task'[u] = task[u]
    BY <1>3 DEF IInv, TypeInv, Running
  <1>7. PlacesInv'
    <2>1. \A h \in Group : NoRepeats(queue'[h])
      BY <1>5 DEF IInv, PlacesInv
    <2>2. \A h \in Group : Queued(h)' \subseteq Queued(h) /\ i \notin Queued(h)'
      BY <1>5 DEF IInv, PlacesInv
    <2>3. i \notin done /\ \A u \in Running : task[u] # i
      BY <1>5 DEF IInv, PlacesInv
    <2>4. ASSUME NEW u \in Running'
          PROVE  (u = t /\ task'[u] = i) \/ (u \in Running /\ task'[u] = task[u])
      BY <1>4, <1>6
    <2>5. \A h, k \in Group : \A j \in Queued(h)' : j \in Queued(k)' => h = k
      BY <2>2 DEF IInv, PlacesInv
    <2>6. \A h \in Group : \A j \in Queued(h)' : j \notin done /\ \A u \in Running' : task'[u] # j
      BY <2>2, <2>4 DEF IInv, PlacesInv
    <2>7. \A u \in Running' : task'[u] \notin done /\ \A v \in Running' : task'[u] = task'[v] => u = v
      BY <2>3, <2>4 DEF IInv, PlacesInv
    <2>8. QED
      BY <2>1, <2>5, <2>6, <2>7 DEF PlacesInv
  <1>8. NoneIsLost'
    <2>1. ASSUME NEW j \in 1 .. MaxTasks PROVE Placed(j)' <=> Placed(j)
      <3>1. (\E u \in Running' : task'[u] = j) <=> j = i \/ \E u \in Running : task[u] = j
        BY <1>4, <1>6
      <3>2. (\E h \in Group : j \in Queued(h)') \/ j = i <=> \E h \in Group : j \in Queued(h)
        BY <1>5
      <3>3. QED
        BY <3>1, <3>2 DEF Placed
    <2>2. QED
      BY <2>1 DEF IInv, NoneIsLost
  <1>9. CountersInv'
    <2>1. Busy(g)' = Busy(g) \cup {t} /\ t \notin Busy(g)
      BY DEF IInv, TypeInv, Busy
    <2>2. \A h \in Group \ {g} : Busy(h)' = Busy(h)
      BY DEF IInv, TypeInv, Busy
    <2>3. Cardinality(Busy(g) \cup {t}) = Cardinality(Busy(g)) + 1
      BY <2>1, BusyIsFinite, FS_AddElement
    <2>4. waiting'[g] = Len(queue'[g]) /\ executing'[g] = Cardinality(Busy(g)')
      BY <1>1, <1>2, <1>3, <2>1, <2>3 DEF IInv, TypeInv, CountersInv
    <2>5. \A h \in Group \ {g} : waiting'[h] = Len(queue'[h]) /\ executing'[h] = Cardinality(Busy(h)')
      BY <1>3, <2>2 DEF IInv, TypeInv, CountersInv
    <2>6. QED
      BY <2>4, <2>5 DEF CountersInv
  <1>10. QED
    BY <1>2, <1>4, <1>7, <1>8, <1>9

LEMMA WorkerTakeStep ==
  ASSUME IInv, NEW w \in Worker, WorkerTake(w)
  PROVE  IInv'
  <1> DEFINE g == GroupOf(w)
  <1>1. /\ w \in TaskThread /\ g \in Group /\ at[w] = g /\ task[w] = 0 /\ Unlocked(g)
        /\ tpc[w] = "loop" /\ tpc' = [tpc EXCEPT ![w] = "run"] /\ Take(w, g)
        /\ UNCHANGED <<stop, holder, at, scale, next_id, done, shutdown, aborted>>
    BY DEF IInv, RolesInv, WorkerTake, Move, GroupOf, Group, TaskThread
  <1> HIDE DEF g
  <1>2. /\ queue' \in [Group -> Seq(1 .. MaxTasks)]
        /\ waiting' \in [Group -> Nat] /\ executing' \in [Group -> Nat]
        /\ task' \in [TaskThread -> 0 .. MaxTasks] /\ task'[w] # 0
        /\ PlacesInv' /\ NoneIsLost' /\ CountersInv'
    BY <1>1, TakeStep
  <1>3. TypeInv'
    BY <1>1, <1>2 DEF IInv, TypeInv
  <1>4. RolesInv'
    BY <1>1, <1>2, TaskThreadsAssumption
    DEF IInv, TypeInv, RolesInv, Take, Worker, TaskThread
  <1>5. ShutdownInv' /\ LocksInv'
    BY <1>1, TaskThreadsAssumption
    DEF IInv, TypeInv, ShutdownInv, ShutdownSteps, LocksInv, Worker, TaskThread
  <1>6. QuietInv'
    <2>1. waiting[g] # 0
      BY <1>1 DEF IInv, TypeInv, Take
    <2>2. \A c \in Client : tpc'[c] = tpc[c]
      BY <1>1, TaskThreadsAssumption DEF IInv, TypeInv, Worker, TaskThread
    <2>3. \A c \in Client : tpc[c] # "q_check"
      BY <1>1 DEF IInv, LocksInv, Unlocked, Group
    <2>4. \A c \in Client : tpc[c] \notin {"quiescent", "stop", "join", "destroyed"}
      BY <1>1, <2>1 DEF IInv, QuietInv, Quiet, Group
    <2>5. QED
      BY <1>1, <2>2, <2>3, <2>4 DEF QuietInv
  <1>7. QED
    BY <1>1, <1>2, <1>3, <1>4, <1>5, <1>6 DEF IInv

LEMMA PerformTakeStep ==
  ASSUME IInv, NEW c \in Client, PerformTake(c)
  PROVE  IInv'
  <1>0. PICK g \in Group : g = at[c]
    BY DEF IInv, TypeInv, TaskThread
  <1>1. /\ c \in TaskThread /\ Unlocked(g) /\ tpc[c] = "take"
        /\ UNCHANGED <<stop, holder, scale, next_id, done, shutdown, aborted>>
        /\ \/ Take(c, g) /\ tpc' = [tpc EXCEPT ![c] = "run"] /\ UNCHANGED at
           \/ /\ \E s \in {"test", "q_lock", "idle"}, a \in Group :
                    /\ tpc' = [tpc EXCEPT ![c] = s] /\ at' = [at EXCEPT ![c] = a]
                    /\ s = "idle" => a = 1 /\ c \notin shutdown
                    /\ s = "q_lock" => a = 1 /\ c \in shutdown
              /\ UNCHANGED <<queue, waiting, executing, task>>
    <2>1. c \in TaskThread /\ (at[c] = 1 \/ at[c] = 2)
      BY DEF IInv, TypeInv, Group, TaskThread
    <2>2. CASE at[c] = 1
      BY <1>0, <2>1, <2>2
      DEF IInv, TypeInv, PerformTake, AfterGroup, NextGroup, Move, Group
    <2>3. CASE at[c] = 2
      BY <1>0, <2>1, <2>3
      DEF IInv, TypeInv, PerformTake, AfterGroup, NextGroup, Move, Group
    <2>4. QED
      BY <2>1, <2>2, <2>3
  <1>2. ShutdownInv' /\ LocksInv'
    BY <1>1, TaskThreadsAssumption
    DEF IInv, TypeInv, RolesInv, ShutdownInv, ShutdownSteps, LocksInv, Worker,
        TaskThread, Group
  <1>3. CASE Take(c, g) /\ tpc' = [tpc EXCEPT ![c] = "run"] /\ UNCHANGED at
    <2>1. /\ queue' \in [Group -> Seq(1 .. MaxTasks)]
          /\ waiting' \in [Group -> Nat] /\ executing' \in [Group -> Nat]
          /\ task' \in [TaskThread -> 0 .. MaxTasks] /\ task'[c] # 0
          /\ PlacesInv' /\ NoneIsLost' /\ CountersInv'
      BY <1>0, <1>1, <1>3, TakeStep DEF IInv, RolesInv
    <2>2. TypeInv'
      BY <1>1, <1>3, <2>1 DEF IInv, TypeInv
    <2>3. RolesInv'
      BY <1>1, <1>3, <2>1, TaskThreadsAssumption
      DEF IInv, TypeInv, RolesInv, Take, Worker, TaskThread
    <2>4. QuietInv'
      <3>1. \A d \in Client : tpc[d] \notin {"q_check", "quiescent", "stop", "join", "destroyed"}
        BY <1>1 DEF IInv, ShutdownInv, ShutdownSteps
      <3>2. QED
        BY <1>1, <1>3, <3>1 DEF IInv, TypeInv, QuietInv
    <2>5. QED
      BY <1>1, <1>2, <2>1, <2>2, <2>3, <2>4 DEF IInv
  <1>4. CASE /\ UNCHANGED <<queue, waiting, executing, task>>
             /\ \E s \in {"test", "q_lock", "idle"}, a \in Group :
                    /\ tpc' = [tpc EXCEPT ![c] = s] /\ at' = [at EXCEPT ![c] = a]
                    /\ s = "idle" => a = 1
    <2>1. TypeInv' /\ RolesInv'
      BY <1>1, <1>4, TaskThreadsAssumption
      DEF IInv, TypeInv, RolesInv, Worker, TaskThread
    <2>2. PlacesInv' /\ NoneIsLost' /\ CountersInv'
      BY <1>1, <1>4, FrameTasks DEF IInv, TypeInv
    <2>3. QuietInv'
      BY <1>1, <1>4 DEF IInv, TypeInv, QuietInv, Quiet
    <2>4. QED
      BY <1>1, <1>2, <2>1, <2>2, <2>3 DEF IInv
  <1>5. QED
    BY <1>1, <1>3, <1>4

(* task_enqueue: a task that is nowhere yet goes into one queue.           *)
LEMMA EnqueueStep ==
  ASSUME IInv, NEW t \in TaskThread, NEW g \in Group, Enqueue(t, g),
         \/ t \in Client /\ tpc[t] = "idle" /\ shutdown = {}
         \/ tpc[t] = "run"
  PROVE  IInv'
  <1>0. PICK x \in 1 .. MaxTasks : x = next_id + 1
    BY TaskBoundsAssumption DEF IInv, TypeInv, Enqueue
  <1>1. /\ next_id' = x /\ Unlocked(g)
        /\ \/ queue' = [queue EXCEPT ![g] = Append(queue[g], x)]
           \/ queue' = [queue EXCEPT ![g] = <<x>> \o queue[g]]
        /\ waiting' = [waiting EXCEPT ![g] = waiting[g] + 1]
        /\ UNCHANGED <<executing, stop, holder, at, task, scale, done, shutdown, aborted>>
    BY <1>0 DEF IInv, TypeInv, Enqueue
  <1>2. /\ tpc' \in [TaskThread -> {"idle", "loop", "wait", "exited", "run", "ran",
                          "test", "take", "q_lock", "q_check", "quiescent",
                          "stop", "join", "destroyed"}]
        /\ \A u \in TaskThread : tpc'[u] # tpc[u] => u \in Worker /\ tpc[u] = "wait" /\ tpc'[u] = "loop"
    BY DEF IInv, TypeInv, Enqueue, Sleeping, WorkersOf, Move, Worker,
           TaskThread
  <1>3. queue[g] \in Seq(1 .. MaxTasks) /\ waiting[g] \in Nat /\ x \notin Queued(g)
    <2>1. ~Placed(x)
      BY <1>0, TaskBoundsAssumption DEF IInv, TypeInv, NoneIsLost
    <2>2. QED
      BY <2>1 DEF IInv, TypeInv, Placed
  <1>4. /\ queue'[g] \in Seq(1 .. MaxTasks) /\ Len(queue'[g]) = Len(queue[g]) + 1
        /\ Queued(g)' = Queued(g) \cup {x} /\ NoRepeats(queue'[g])
        /\ \A h \in Group \ {g} : queue'[h] = queue[h] /\ Queued(h)' = Queued(h)
    <2>1. queue'[g] = Append(queue[g], x) \/ queue'[g] = <<x>> \o queue[g]
      BY <1>1 DEF IInv, TypeInv
    <2>2. /\ queue'[g] \in Seq(1 .. MaxTasks) /\ Len(queue'[g]) = Len(queue[g]) + 1
          /\ Elems(queue'[g]) = Elems(queue[g]) \cup {x}
          /\ NoRepeats(queue[g]) /\ x \notin Elems(queue[g]) => NoRepeats(queue'[g])
      BY <1>1, <1>3, <2>1, AddedToQueue
    <2>3. \A h \in Group \ {g} : queue'[h] = queue[h]
      BY <1>1 DEF IInv, TypeInv
    <2>4. QED
      BY <1>3, <2>2, <2>3 DEF IInv, PlacesInv, Queued
  <1>5. Running' = Running /\ \A h \in Group : Busy(h)' = Busy(h)
    BY <1>1, <1>2 DEF Running, Busy
  <1>6. TypeInv'
    <2>1. queue' \in [Group -> Seq(1 .. MaxTasks)]
      BY <1>1, <1>4 DEF IInv, TypeInv
    <2>2. waiting' \in [Group -> Nat] /\ next_id' \in 0 .. MaxTasks
      BY <1>1, <1>3, TaskBoundsAssumption DEF IInv, TypeInv
    <2>3. QED
      BY <1>1, <1>2, <2>1, <2>2 DEF IInv, TypeInv
  <1>7. RolesInv' /\ ShutdownInv' /\ LocksInv'
    <2>1. \A c \in Client : tpc'[c] = tpc[c]
      BY <1>2, TaskThreadsAssumption DEF TaskThread
    <2>2. RolesInv'
      BY <1>1, <1>2, <2>1 DEF IInv, RolesInv, Worker, TaskThread
    <2>3. QED
      BY <1>1, <2>1, <2>2 DEF IInv, ShutdownInv, LocksInv
  <1>8. PlacesInv' /\ NoneIsLost'
    <2>1. ~Placed(x)
      BY <1>0, TaskBoundsAssumption DEF IInv, TypeInv, NoneIsLost
    <2>2. x \notin done /\ (\A h \in Group : x \notin Queued(h)) /\ \A u \in Running : task[u] # x
      BY <2>1 DEF Placed
    <2>3. \A h \in Group : NoRepeats(queue'[h])
      BY <1>4 DEF IInv, PlacesInv
    <2>4. \A h \in Group : \A j \in Queued(h)' : j \in Queued(h) \/ (h = g /\ j = x)
      BY <1>4
    <2>5. \A h, k \in Group : \A j \in Queued(h)' : j \in Queued(k)' => h = k
      BY <2>2, <2>4 DEF IInv, PlacesInv
    <2>6. \A h \in Group : \A j \in Queued(h)' : j \notin done /\ \A u \in Running : task[u] # j
      BY <2>2, <2>4 DEF IInv, PlacesInv
    <2>7. PlacesInv'
      BY <1>1, <1>5, <2>3, <2>5, <2>6 DEF IInv, PlacesInv
    <2>8. ASSUME NEW j \in 1 .. MaxTasks PROVE Placed(j)' <=> j <= next_id'
      <3>1. Placed(j)' <=> Placed(j) \/ j = x
        <4>1. (\E h \in Group : j \in Queued(h)') <=> j = x \/ \E h \in Group : j \in Queued(h)
          BY <1>4
        <4>2. QED
          BY <1>1, <1>5, <4>1 DEF Placed
      <3>2. Placed(j) <=> j <= next_id
        BY DEF IInv, NoneIsLost
      <3>3. j <= next_id \/ j = x <=> j <= x
        BY <1>0 DEF IInv, TypeInv
      <3>4. QED
        BY <1>1, <3>1, <3>2, <3>3
    <2>9. QED
      BY <2>7, <2>8 DEF NoneIsLost
  <1>9. CountersInv'
    <2>1. waiting'[g] = waiting[g] + 1 /\ \A h \in Group \ {g} : waiting'[h] = waiting[h]
      BY <1>1 DEF IInv, TypeInv
    <2>2. \A h \in Group : waiting'[h] = Len(queue'[h])
      BY <1>4, <2>1 DEF IInv, CountersInv
    <2>3. QED
      BY <1>1, <1>5, <2>2 DEF IInv, CountersInv
  <1>10. QuietInv'
    <2>1. \A c \in Client : tpc'[c] = tpc[c]
      BY <1>2, TaskThreadsAssumption DEF TaskThread
    <2>2. \A c \in Client : tpc[c] # "q_check"
      <3>1. ASSUME NEW c \in Client, tpc[c] = "q_check" PROVE FALSE
        BY <1>1, <3>1 DEF IInv, LocksInv, Unlocked, Group
      <3>2. QED
        BY <3>1
    <2>3. \A c \in Client : tpc[c] \notin {"quiescent", "stop", "join", "destroyed"}
      <3>1. CASE shutdown = {}
        BY <3>1 DEF IInv, ShutdownInv, ShutdownSteps
      <3>2. CASE tpc[t] = "run"
        <4>1. t \in Busy(at[t]) /\ at[t] \in Group
          BY <3>2 DEF IInv, TypeInv, Busy
        <4>2. executing[at[t]] # 0
          BY <4>1, BusyIsFinite DEF IInv, CountersInv
        <4>3. QED
          BY <4>1, <4>2 DEF IInv, QuietInv, Quiet, Group
      <3>3. QED
        BY <3>1, <3>2
    <2>4. QED
      BY <2>1, <2>2, <2>3 DEF QuietInv
  <1>11. QED
    BY <1>1, <1>6, <1>7, <1>8, <1>9, <1>10 DEF IInv

LEMMA RunTaskStep ==
  ASSUME IInv, NEW t \in TaskThread, RunTask(t)
  PROVE  IInv'
  <1>1. /\ tpc[t] = "run" /\ tpc' = [tpc EXCEPT ![t] = "ran"] /\ done' = done \cup {task[t]}
        /\ UNCHANGED <<queue, waiting, executing, stop, holder, at, task, scale,
                       next_id, shutdown, aborted>>
    BY DEF RunTask, Move
  <1>2. task[t] \in 1 .. MaxTasks
    BY <1>1, TaskBoundsAssumption DEF IInv, TypeInv, RolesInv
  <1>3. TypeInv'
    BY <1>1, <1>2 DEF IInv, TypeInv
  <1>4. RolesInv' /\ ShutdownInv' /\ LocksInv' /\ QuietInv'
    <2>1. RolesInv'
      BY <1>1, TaskThreadsAssumption
      DEF IInv, TypeInv, RolesInv, Worker, TaskThread
    <2>2. ShutdownInv' /\ LocksInv'
      BY <1>1, TaskThreadsAssumption
      DEF IInv, TypeInv, ShutdownInv, ShutdownSteps, LocksInv, Worker,
          TaskThread
    <2>3. QuietInv'
      BY <1>1 DEF IInv, TypeInv, QuietInv, Quiet
    <2>4. QED
      BY <2>1, <2>2, <2>3
  <1>5. t \in Running /\ Running' = Running \ {t} /\ UNCHANGED <<queue, task, next_id>>
    BY <1>1 DEF IInv, TypeInv, Running
  <1>6. \A h \in Group : Busy(h)' = Busy(h) /\ Queued(h)' = Queued(h)
    BY <1>1 DEF IInv, TypeInv, Busy, Queued
  <1>7. PlacesInv'
    BY <1>1, <1>5, <1>6 DEF IInv, PlacesInv
  <1>8. NoneIsLost'
    <2>1. ASSUME NEW i \in 1 .. MaxTasks PROVE Placed(i)' <=> Placed(i)
      BY <1>1, <1>5, <1>6 DEF Placed
    <2>2. QED
      BY <1>5, <2>1 DEF IInv, NoneIsLost
  <1>9. CountersInv'
    BY <1>1, <1>6 DEF IInv, CountersInv
  <1>10. QED
    BY <1>1, <1>3, <1>4, <1>7, <1>8, <1>9 DEF IInv

LEMMA FinishTaskStep ==
  ASSUME IInv, NEW t \in TaskThread, FinishTask(t)
  PROVE  IInv'
  <1>0. PICK g \in Group : g = at[t]
    BY DEF IInv, TypeInv
  <1>1. /\ tpc[t] = "ran" /\ (t \in Worker => Unlocked(g))
        /\ executing' = [executing EXCEPT ![g] = executing[g] - 1]
        /\ task' = [task EXCEPT ![t] = 0]
        /\ \E s \in {"loop", "q_lock", "idle"}, a \in Group :
               /\ tpc' = [tpc EXCEPT ![t] = s] /\ at' = [at EXCEPT ![t] = a]
               /\ s = "loop" <=> t \in Worker
               /\ s = "q_lock" => t \in shutdown
               /\ s = "idle" => t \notin shutdown
               /\ a = IF t \in Worker THEN g ELSE 1
        /\ UNCHANGED <<queue, waiting, stop, holder, scale, next_id, done, shutdown, aborted>>
    BY <1>0, TaskThreadsAssumption DEF IInv, TypeInv, FinishTask, Move, Group
  <1>2. t \in Busy(g) /\ t \notin Running
    BY <1>0, <1>1 DEF Busy, Running
  <1>3. executing[g] \in Nat \ {0}
    BY <1>1, <1>2, BusyIsFinite DEF IInv, TypeInv, CountersInv
  <1>4. TypeInv'
    <2>1. executing' \in [Group -> Nat] /\ task' \in [TaskThread -> 0 .. MaxTasks]
      BY <1>1, <1>3, TaskBoundsAssumption DEF IInv, TypeInv
    <2>2. QED
      BY <1>1, <2>1 DEF IInv, TypeInv
  <1>5. RolesInv'
    BY <1>0, <1>1, TaskThreadsAssumption
    DEF IInv, TypeInv, RolesInv, Worker, TaskThread
  <1>6. PlacesInv' /\ NoneIsLost'
    <2>1. Running' = Running
      BY <1>1 DEF IInv, TypeInv, Running
    <2>2. \A u \in Running : task'[u] = task[u]
      BY <1>1, <1>2 DEF IInv, TypeInv
    <2>3. \A h \in Group : Queued(h)' = Queued(h)
      BY <1>1 DEF Queued
    <2>4. PlacesInv'
      BY <1>1, <2>1, <2>2, <2>3 DEF IInv, PlacesInv
    <2>5. \A i \in 1 .. MaxTasks : Placed(i)' <=> Placed(i)
      BY <1>1, <2>1, <2>2, <2>3 DEF Placed
    <2>6. QED
      BY <1>1, <2>4, <2>5 DEF IInv, NoneIsLost
  <1>7. CountersInv'
    <2>1. Busy(g)' = Busy(g) \ {t}
      BY <1>0, <1>1 DEF IInv, TypeInv, Busy
    <2>2. \A h \in Group \ {g} : Busy(h)' = Busy(h)
      BY <1>0, <1>1 DEF IInv, TypeInv, Busy
    <2>3. Cardinality(Busy(g) \ {t}) = Cardinality(Busy(g)) - 1
      BY <1>1, <1>2, BusyIsFinite, FS_RemoveElement
    <2>4. executing'[g] = Cardinality(Busy(g)')
      BY <1>1, <2>1, <2>3 DEF IInv, TypeInv, CountersInv
    <2>5. \A h \in Group \ {g} : executing'[h] = Cardinality(Busy(h)')
      BY <1>1, <2>2 DEF IInv, TypeInv, CountersInv
    <2>6. QED
      BY <1>1, <2>4, <2>5 DEF IInv, CountersInv
  <1>8. ShutdownInv' /\ LocksInv'
    <2>1. ShutdownInv'
      <3>1. \A c \in Client : tpc'[c] \in ShutdownSteps => c \in shutdown
        BY <1>1 DEF IInv, TypeInv, ShutdownInv, ShutdownSteps, TaskThread
      <3>2. ASSUME NEW c \in shutdown, NEW d \in Client, d # c PROVE tpc'[d] = "idle"
        BY <1>1, <3>2 DEF IInv, TypeInv, ShutdownInv, TaskThread
      <3>3. QED
        BY <1>1, <3>1, <3>2 DEF IInv, ShutdownInv
    <2>2. LocksInv'
      BY <1>1, TaskThreadsAssumption
      DEF IInv, TypeInv, LocksInv, Worker, TaskThread, Group
    <2>3. QED
      BY <2>1, <2>2
  <1>9. QuietInv'
    <2>1. ASSUME NEW c \in Client, tpc'[c] \in {"quiescent", "stop", "join", "destroyed"}
          PROVE  FALSE
      <3>1. tpc[c] = tpc'[c]
        BY <1>1, <2>1 DEF IInv, TypeInv, TaskThread
      <3>2. executing[g] = 0
        BY <1>1, <2>1, <3>1 DEF IInv, QuietInv, Quiet, Group
      <3>3. QED
        BY <1>3, <3>2
    <2>2. ASSUME NEW c \in Client, tpc'[c] = "q_check", at'[c] = 2
          PROVE  Quiet(1)'
      <3>1. c # t /\ tpc[c] = "q_check" /\ at[c] = 2
        BY <1>1, <2>2 DEF IInv, TypeInv, TaskThread
      <3>2. Quiet(1)
        BY <3>1 DEF IInv, QuietInv
      <3>3. g # 1
        BY <1>3, <3>2 DEF Quiet
      <3>4. QED
        BY <1>1, <3>2, <3>3 DEF IInv, TypeInv, Quiet, Group
    <2>3. QED
      BY <2>1, <2>2 DEF QuietInv
  <1>10. QED
    BY <1>1, <1>4, <1>5, <1>6, <1>7, <1>8, <1>9 DEF IInv

-----------------------------------------------------------------------------
LEMMA NextPreserves == IInv /\ [TasksNext]_taskVars => IInv'
  <1> SUFFICES ASSUME IInv, [TasksNext]_taskVars
               PROVE  IInv'
    OBVIOUS
  <1>1. CASE UNCHANGED taskVars
    BY <1>1, StutterStep
  <1>2. ASSUME NEW c \in Client, PerformOne(c) \/ Shutdown(c) \/ ClientStep(c)
        PROVE  IInv'
    BY <1>2, RunTaskStep, FinishTaskStep, PerformOneStep, PerformTestStep,
       PerformTakeStep, ShutdownStep, QuiescentLockStep, QuiescentCheckStep,
       QuiescentUnlockStep, StopGroupStep, JoinGroupStep
    DEF ClientStep, TaskThread
  <1>3. ASSUME NEW c \in Client, NEW g \in Group, ClientEnqueue(c, g)
        PROVE  IInv'
    BY <1>3, EnqueueStep DEF ClientEnqueue, TaskThread
  <1>4. ASSUME NEW w \in Worker, WorkerStep(w)
        PROVE  IInv'
    BY <1>4, WorkerTakeStep, WorkerWaitStep, WorkerExitStep, RunTaskStep,
       FinishTaskStep
    DEF WorkerStep, TaskThread
  <1>5. ASSUME NEW t \in TaskThread, NEW g \in Group, TaskEnqueues(t, g)
        PROVE  IInv'
    BY <1>5, EnqueueStep DEF TaskEnqueues
  <1>6. QED
    BY <1>1, <1>2, <1>3, <1>4, <1>5 DEF TasksNext

(* The inductive invariant holds in every state that the program reaches.  *)
THEOREM Invariance == TasksSpec => []IInv
  <1>1. TasksInit => IInv
    BY InitInv
  <1>2. IInv /\ [TasksNext]_taskVars => IInv'
    BY NextPreserves
  <1>3. QED
    BY <1>1, <1>2, PTL DEF TasksSpec

-----------------------------------------------------------------------------
(* A queue without repetition is no longer than there are tasks. *)
LEMMA QueueIsBounded ==
  ASSUME IInv, NEW g \in Group
  PROVE  Len(queue[g]) \in Nat /\ Len(queue[g]) <= MaxTasks
  <1> DEFINE q == queue[g]
             n == Len(q)
  <1>1. q \in Seq(1 .. MaxTasks) /\ NoRepeats(q) /\ n \in Nat
    BY DEF IInv, TypeInv, PlacesInv
  <1>2. \A j, k \in 1 .. n : q[j] = q[k] => j = k
    BY <1>1 DEF NoRepeats
  <1> HIDE DEF q
  <1>3. q \in [1 .. n -> 1 .. MaxTasks]
    BY <1>1, LenProperties
  <1> HIDE DEF n
  <1>4. q \in Injection(1 .. n, 1 .. MaxTasks)
    BY <1>2, <1>3 DEF Injection, IsInjective
  <1>5. IsFiniteSet(1 .. MaxTasks) /\ Cardinality(1 .. MaxTasks) = MaxTasks
    BY TaskBoundsAssumption, FS_Interval
  <1>6. Cardinality(1 .. n) = n
    BY <1>1, FS_Interval
  <1>7. Cardinality(1 .. n) <= Cardinality(1 .. MaxTasks)
    BY <1>4, <1>5, FS_Injection
  <1>8. QED
    BY <1>1, <1>5, <1>6, <1>7 DEF n, q

(* Type correctness: in particular no counter leaves its range, so that    *)
(* neither current_waiting_tasks nor current_executing_tasks wraps around. *)
THEOREM TypeCorrect == TasksSpec => []TasksTypeOK
  <1>1. IInv => TasksTypeOK
    <2>1. SUFFICES ASSUME IInv PROVE TasksTypeOK
      OBVIOUS
    <2>2. ASSUME NEW g \in Group PROVE waiting[g] \in 0 .. MaxTasks
      <3>1. Len(queue[g]) \in Nat /\ Len(queue[g]) <= MaxTasks
        BY <2>1, QueueIsBounded
      <3>2. waiting[g] = Len(queue[g])
        BY <2>1 DEF IInv, CountersInv
      <3>3. QED
        BY <3>1, <3>2, TaskBoundsAssumption
    <2>3. ASSUME NEW g \in Group PROVE executing[g] \in 0 .. Cardinality(TaskThread)
      BY <2>1, BusyIsFinite, TaskThreadsAssumption, FS_CardinalityType
      DEF IInv, CountersInv
    <2>4. QED
      BY <2>1, <2>2, <2>3 DEF IInv, TypeInv, TasksTypeOK
  <1>2. QED
    BY <1>1, Invariance, PTL

(* Nothing waits and nothing runs: then every task enqueued has been done. *)
LEMMA QuietIsDone ==
  ASSUME IInv, Quiet(1), Quiet(2)
  PROVE  /\ \A g \in Group : queue[g] = <<>>
         /\ \A t \in TaskThread : task[t] = 0
         /\ done = 1 .. next_id
  <1>1. \A g \in Group : waiting[g] = 0 /\ executing[g] = 0
    BY DEF Quiet, Group
  <1>2. \A g \in Group : queue[g] = <<>> /\ Queued(g) = {}
    BY <1>1 DEF IInv, TypeInv, CountersInv, Queued, Elems
  <1>3. \A g \in Group : Busy(g) = {}
    BY <1>1, BusyIsFinite DEF IInv, CountersInv
  <1>4. \A t \in TaskThread : task[t] = 0 /\ t \notin Running
    BY <1>3 DEF IInv, TypeInv, RolesInv, Busy, Running
  <1>5. \A i \in 1 .. MaxTasks : i \in done <=> i <= next_id
    BY <1>2, <1>4 DEF IInv, NoneIsLost, Placed, Running
  <1>6. done = 1 .. next_id
    <2>1. next_id \in Nat /\ next_id <= MaxTasks /\ done \subseteq 1 .. MaxTasks
      BY TaskBoundsAssumption DEF IInv, TypeInv
    <2>2. \A i \in done : i \in 1 .. next_id
      BY <1>5, <2>1
    <2>3. \A i \in 1 .. next_id : i \in done
      BY <1>5, <2>1, TaskBoundsAssumption
    <2>4. QED
      BY <2>2, <2>3
  <1>7. QED
    BY <1>2, <1>4, <1>6

(* task_system_is_quiescent decides for TRUE only when no task waits in a  *)
(* queue and no thread has one, however workers, clients and tasks that    *)
(* enqueue tasks interleave with its reads of the counters.                *)
THEOREM QuiescenceIsReal == TasksSpec => []QuiescentMeansIdle
  <1>1. IInv => QuiescentMeansIdle
    BY QuietIsDone DEF IInv, QuietInv, QuiescentMeansIdle
  <1>2. QED
    BY <1>1, Invariance, PTL

(* The places of a task that the invariant TasksRunOnce counts. *)
LEMMA InOneQueue ==
  ASSUME IInv, NEW i \in 1 .. MaxTasks
  PROVE  Cardinality(InQueue(i)) = IF \E g \in Group : i \in Queued(g) THEN 1 ELSE 0
  <1>1. ASSUME NEW p \in InQueue(i)
        PROVE  p[1] \in Group /\ p[2] \in 1 .. Len(queue[p[1]]) /\ queue[p[1]][p[2]] = i /\ p = <<p[1], p[2]>>
    BY DEF InQueue, IInv, TypeInv
  <1>2. \A p \in InQueue(i) : i \in Queued(p[1])
    BY <1>1 DEF Queued, Elems
  <1>3. CASE \E g \in Group : i \in Queued(g)
    <2>1. PICK g \in Group : i \in Queued(g)
      BY <1>3
    <2>2. PICK k \in 1 .. Len(queue[g]) : queue[g][k] = i
      BY <2>1 DEF Queued, Elems
    <2>3. Len(queue[g]) \in Nat /\ Len(queue[g]) <= MaxTasks
      BY QueueIsBounded
    <2>4. <<g, k>> \in InQueue(i)
      BY <2>2, <2>3, TaskBoundsAssumption DEF InQueue
    <2>5. \A p \in InQueue(i) : p[1] = g /\ p[2] = k
      BY <1>1, <1>2, <2>1, <2>2 DEF IInv, PlacesInv, NoRepeats
    <2>6. InQueue(i) = {<<g, k>>}
      BY <1>1, <2>4, <2>5
    <2>7. QED
      BY <1>3, <2>6, FS_Singleton
  <1>4. CASE ~ \E g \in Group : i \in Queued(g)
    BY <1>1, <1>2, <1>4, FS_EmptySet
  <1>5. QED
    BY <1>3, <1>4

LEMMA WithOneThread ==
  ASSUME IInv, NEW i \in 1 .. MaxTasks
  PROVE  Cardinality(With(i)) = IF \E t \in Running : task[t] = i THEN 1 ELSE 0
  <1>1. With(i) = {t \in Running : task[t] = i}
    BY DEF With, Running
  <1>2. CASE \E t \in Running : task[t] = i
    <2>1. PICK t \in Running : task[t] = i
      BY <1>2
    <2>2. With(i) = {t}
      BY <1>1, <2>1 DEF IInv, PlacesInv
    <2>3. QED
      BY <1>2, <2>2, FS_Singleton
  <1>3. CASE ~ \E t \in Running : task[t] = i
    BY <1>1, <1>3, FS_EmptySet
  <1>4. QED
    BY <1>2, <1>3

(* Each task is in one queue, with one thread or done, and never in two of *)
(* these places; and a shutdown finds every task done and trips no assert. *)
THEOREM EveryTaskOnce == TasksSpec => []TasksRunOnce
  <1>1. IInv => TasksRunOnce
    <2>1. SUFFICES ASSUME IInv PROVE TasksRunOnce
      OBVIOUS
    <2>2. ASSUME NEW i \in 1 .. next_id
          PROVE  Cardinality(InQueue(i)) + Cardinality(With(i)) + (IF i \in done THEN 1 ELSE 0) = 1
      <3>1. i \in 1 .. MaxTasks /\ i <= next_id
        BY <2>1, TaskBoundsAssumption DEF IInv, TypeInv
      <3>2. Cardinality(InQueue(i)) = IF \E g \in Group : i \in Queued(g) THEN 1 ELSE 0
        BY <2>1, <3>1, InOneQueue
      <3>3. Cardinality(With(i)) = IF \E t \in Running : task[t] = i THEN 1 ELSE 0
        BY <2>1, <3>1, WithOneThread
      <3>4. Placed(i)
        BY <2>1, <3>1 DEF IInv, NoneIsLost
      <3>5. /\ i \in done => (\A g \in Group : i \notin Queued(g)) /\ \A t \in Running : task[t] # i
            /\ (\E g \in Group : i \in Queued(g)) => \A t \in Running : task[t] # i
        BY <2>1 DEF IInv, PlacesInv
      <3>6. QED
        BY <3>2, <3>3, <3>4, <3>5 DEF Placed
    <2>3. ShutdownRunsEverything
      BY <2>1, QuietIsDone DEF IInv, QuietInv, ShutdownRunsEverything
    <2>4. QED
      BY <2>2, <2>3 DEF TasksRunOnce
  <1>2. QED
    BY <1>1, Invariance, PTL
=============================================================================
