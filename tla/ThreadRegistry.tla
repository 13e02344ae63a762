--------------------------- MODULE ThreadRegistry ---------------------------
(***************************************************************************)
(* Thread ids of the task system, task.c: task_register_thread,            *)
(* task_deregister_thread and the lock-free bitmask behind them.           *)
(*                                                                         *)
(* tid_bitmask is the set of free ids (a set bit means free).  Every read  *)
(* of the mask and every compare-and-swap is one step.                     *)
(***************************************************************************)
EXTENDS Integers, FiniteSets, FiniteSetsExt

CONSTANTS
    Thread,         \* threads that register and deregister
    MAX_THREADS     \* ids available

ASSUME MaxThreadsAssumption == MAX_THREADS \in Nat \ {0}

Tid == 0 .. MAX_THREADS - 1
INVALID_TID == -1

VARIABLES
    tid_bitmask,    \* free ids
    max_tid,        \* largest id ever allocated
    scratch,        \* ids that own scratch memory
    pc,             \* next step of each thread
    tid,            \* the thread's id, or the one it is about to take
    old,            \* its copy of the bitmask
    tmp             \* its copy of max_tid

vars == <<tid_bitmask, max_tid, scratch, pc, tid, old, tmp>>

Init ==
    /\ tid_bitmask = Tid
    /\ max_tid = 0
    /\ scratch = {}
    /\ pc = [t \in Thread |-> "idle"]
    /\ tid = [t \in Thread |-> INVALID_TID]
    /\ old = [t \in Thread |-> {}]
    /\ tmp = [t \in Thread |-> 0]

Goto(t, from, to) ==
    /\ pc[t] = from
    /\ pc' = [pc EXCEPT ![t] = to]

-----------------------------------------------------------------------------
(* task_allocate_threadid *)

Register(t) ==
    /\ Goto(t, "idle", "read")
    /\ UNCHANGED <<tid_bitmask, max_tid, scratch, tid, old, tmp>>

(* Read the mask and find its first set bit; INVALID_TID if there is none. *)
ReadMask(t) ==
    \/ /\ tid_bitmask # {}
       /\ Goto(t, "read", "swap")
       /\ old' = [old EXCEPT ![t] = tid_bitmask]
       /\ tid' = [tid EXCEPT ![t] = Min(tid_bitmask)]
       /\ UNCHANGED <<tid_bitmask, max_tid, scratch, tmp>>
    \/ /\ tid_bitmask = {}
       /\ Goto(t, "read", "idle")
       /\ UNCHANGED <<tid_bitmask, max_tid, scratch, tid, old, tmp>>

\* mutant: the mask is stored without comparing it first
SwapMaskBlind(t) ==
    /\ Goto(t, "swap", "max")
    /\ tid_bitmask' = old[t] \ {tid[t]}
    /\ tmp' = [tmp EXCEPT ![t] = max_tid]
    /\ old' = [old EXCEPT ![t] = {}]
    /\ UNCHANGED <<max_tid, scratch, tid>>

(* The compare-and-swap, followed by the first read of max_tid. *)
SwapMask(t) ==
    \/ /\ tid_bitmask = old[t]
       /\ Goto(t, "swap", "max")
       /\ tid_bitmask' = old[t] \ {tid[t]}
       /\ tmp' = [tmp EXCEPT ![t] = max_tid]
       /\ old' = [old EXCEPT ![t] = {}]
       /\ UNCHANGED <<max_tid, scratch, tid>>
    \/ /\ tid_bitmask # old[t]
       /\ Goto(t, "swap", "read")
       /\ old' = [old EXCEPT ![t] = {}]
       /\ UNCHANGED <<tid_bitmask, max_tid, scratch, tid, tmp>>

\* mutant: a lost race for max_tid is not retried
RaiseMaxOnce(t) ==
    /\ Goto(t, "max", "scratch")
    /\ max_tid' = IF tmp[t] < tid[t] /\ max_tid = tmp[t] THEN tid[t]
                  ELSE max_tid
    /\ tmp' = [tmp EXCEPT ![t] = 0]
    /\ UNCHANGED <<tid_bitmask, scratch, tid, old>>

(* Raise max_tid to the new id unless it is that large already. *)
RaiseMax(t) ==
    \/ /\ tmp[t] >= tid[t]
       /\ Goto(t, "max", "scratch")
       /\ tmp' = [tmp EXCEPT ![t] = 0]
       /\ UNCHANGED <<tid_bitmask, max_tid, scratch, tid, old>>
    \/ /\ tmp[t] < tid[t] /\ max_tid = tmp[t]
       /\ Goto(t, "max", "scratch")
       /\ max_tid' = tid[t]
       /\ tmp' = [tmp EXCEPT ![t] = 0]
       /\ UNCHANGED <<tid_bitmask, scratch, tid, old>>
    \/ /\ tmp[t] < tid[t] /\ max_tid # tmp[t]
       /\ pc[t] = "max"
       /\ tmp' = [tmp EXCEPT ![t] = max_tid]
       /\ UNCHANGED <<tid_bitmask, max_tid, scratch, pc, tid, old>>

(* The rest of task_register_thread: scratch memory; none asked for; or    *)
(* none available, in which case the id is given back.                     *)
TakeScratch(t) ==
    \/ /\ Goto(t, "scratch", "registered")
       /\ scratch' = scratch \cup {tid[t]}
       /\ UNCHANGED <<tid_bitmask, max_tid, tid, old, tmp>>
    \/ /\ Goto(t, "scratch", "registered")
       /\ UNCHANGED <<tid_bitmask, max_tid, scratch, tid, old, tmp>>
    \/ /\ Goto(t, "scratch", "free")
       /\ UNCHANGED <<tid_bitmask, max_tid, scratch, tid, old, tmp>>

-----------------------------------------------------------------------------
\* mutant: the scratch memory stays with the id
DeregisterKeepsScratch(t) ==
    /\ Goto(t, "registered", "free")
    /\ UNCHANGED <<tid_bitmask, max_tid, scratch, tid, old, tmp>>

(* task_deregister_thread frees the scratch memory before the id; so does  *)
(* task_create_thread_with_hooks when the new thread cannot be started.    *)
Deregister(t) ==
    /\ Goto(t, "registered", "free")
    /\ scratch' = scratch \ {tid[t]}
    /\ UNCHANGED <<tid_bitmask, max_tid, tid, old, tmp>>

(* task_deallocate_threadid: read the mask, then compare-and-swap. *)
ReadMaskToFree(t) ==
    /\ Goto(t, "free", "free_swap")
    /\ old' = [old EXCEPT ![t] = tid_bitmask]
    /\ UNCHANGED <<tid_bitmask, max_tid, scratch, tid, tmp>>

FreeTid(t) ==
    \/ /\ tid_bitmask = old[t]
       /\ Goto(t, "free_swap", "idle")
       /\ tid_bitmask' = old[t] \cup {tid[t]}
       /\ tid' = [tid EXCEPT ![t] = INVALID_TID]
       /\ old' = [old EXCEPT ![t] = {}]
       /\ UNCHANGED <<max_tid, scratch, tmp>>
    \/ /\ tid_bitmask # old[t]
       /\ Goto(t, "free_swap", "free")
       /\ old' = [old EXCEPT ![t] = {}]
       /\ UNCHANGED <<tid_bitmask, max_tid, scratch, tid, tmp>>

Next ==
    \E t \in Thread :
        \/ Register(t) \/ ReadMask(t) \/ SwapMask(t) \/ RaiseMax(t)
        \/ TakeScratch(t)
        \/ Deregister(t) \/ ReadMaskToFree(t) \/ FreeTid(t)

Spec == Init /\ [][Next]_vars

-----------------------------------------------------------------------------
(* The thread's id is its own: taken out of the bitmask and not back yet. *)
Owns(t) == pc[t] \in {"max", "scratch", "registered", "free", "free_swap"}

TypeOK ==
    /\ tid_bitmask \subseteq Tid
    /\ max_tid \in Tid
    /\ scratch \subseteq Tid
    /\ pc \in [Thread -> {"idle", "read", "swap", "max", "scratch",
                          "registered", "free", "free_swap"}]
    /\ tid \in [Thread -> Tid \cup {INVALID_TID}]
    /\ old \in [Thread -> SUBSET Tid]
    /\ tmp \in [Thread -> Tid]
    /\ \A t \in Thread : Owns(t) \/ pc[t] = "swap" => tid[t] \in Tid

(* No two threads have the same id, and the ids in use are exactly those   *)
(* missing from the bitmask: none is lost.  Everything that is indexed by  *)
(* thread id, the read counters of the locks first, relies on it.          *)
IdsAreUnique ==
    /\ \A t, u \in Thread : t # u /\ Owns(t) /\ Owns(u) => tid[t] # tid[u]
    /\ Tid \ tid_bitmask = {tid[t] : t \in {u \in Thread : Owns(u)}}

(* A registered thread's id does not exceed max_tid, so a loop up to       *)
(* task_get_max_tid covers it.                                             *)
MaxTidCoversAll ==
    \A t \in Thread : pc[t] = "registered" => tid[t] <= max_tid

(* platform_assert in task_register_thread: the id a thread gets owns no   *)
(* scratch memory of an earlier thread.                                    *)
ScratchIsFresh ==
    \A t \in Thread : pc[t] = "scratch" => tid[t] \notin scratch

(* What a thread knows between its read of the mask and the swap. *)
SwapInv == \A t \in Thread : pc[t] = "swap" => tid[t] \in old[t]

(* max_tid only grows: a copy of it is not larger, and it covers every id  *)
(* once the thread has raised it.                                          *)
MaxInv ==
    \A t \in Thread :
        /\ tmp[t] <= max_tid
        /\ pc[t] \in {"scratch", "registered", "free", "free_swap"} =>
              tid[t] <= max_tid

(* Scratch memory belongs to the id of a registered thread. *)
ScratchInv ==
    \A i \in scratch :
        \E t \in Thread : pc[t] = "registered" /\ tid[t] = i

(* The inductive invariant behind the properties above. *)
IInv ==
    /\ TypeOK
    /\ SwapInv
    /\ IdsAreUnique
    /\ MaxInv
    /\ ScratchInv
=============================================================================
