---------------------------- MODULE BatchRWLock -----------------------------
(***************************************************************************)
(* The batch reader/writer lock of src/platform_linux/platform.c.          *)
(*                                                                         *)
(* A batch holds several locks side by side that share nothing but cache   *)
(* lines, so the module models one lock_idx: a claim flag, a lock flag and *)
(* one read counter per thread id.  Every action is one atomic memory      *)
(* access of the code (a flag test, __sync_fetch_and_add, ...); pc[t] says *)
(* which access thread t performs next.                                    *)
(*                                                                         *)
(*   pc          the thread is about to ...                                *)
(*   "idle"      call get                                                  *)
(*   "spin"      wait for the lock flag to be clear                        *)
(*   "inc"       add itself to its read counter                            *)
(*   "check"     test the lock flag again                                  *)
(*   "undo"      subtract itself again and return to "spin"                *)
(*   "read"      call unget or try_claim (it holds a read lock)            *)
(*   "try"       test-and-set the claim flag inside claim_loop             *)
(*   "loopunget" give the read lock back inside claim_loop                 *)
(*   "claimdec"  drop its read counter, the claim flag is its own          *)
(*   "claimed"   call lock or unclaim (it holds a claim)                   *)
(*   "drain"     wait for the read counter of thread scan[t]               *)
(*   "write"     use the write lock, or call unlock                        *)
(*   "unclaim"   clear the claim flag, its read counter is back            *)
(*                                                                         *)
(* data stands for whatever the lock protects and seen[t] for the value    *)
(* of it that t last knew; they state what an upgrade guarantees.          *)
(***************************************************************************)
EXTENDS Integers

CONSTANT MAX_THREADS

ASSUME MaxThreadsAssumption == MAX_THREADS \in Nat \ {0}

VARIABLES
    claim,          \* write_lock[lock_idx].claim
    lock,           \* write_lock[lock_idx].lock
    read_counter,   \* read_counter[tid][lock_idx]
    pc,             \* next memory access of each thread
    looping,        \* the get in progress belongs to claim_loop
    scan,           \* index i of the draining loop of lock
    data,           \* the protected data, one bit that every write flips
    seen            \* the data as each thread last read or wrote it

vars == <<claim, lock, read_counter, pc, looping, scan, data, seen>>

Thread == 0 .. MAX_THREADS - 1

PC == {"idle", "spin", "inc", "check", "undo", "read", "try", "loopunget",
       "claimdec", "claimed", "drain", "write", "unclaim"}

Init ==
    /\ claim = 0
    /\ lock = 0
    /\ read_counter = [t \in Thread |-> 0]
    /\ pc = [t \in Thread |-> "idle"]
    /\ looping = [t \in Thread |-> FALSE]
    /\ scan = [t \in Thread |-> 0]
    /\ data = 0
    /\ seen = [t \in Thread |-> 0]

Goto(t, from, to) ==
    /\ pc[t] = from
    /\ pc' = [pc EXCEPT ![t] = to]

Count(t, n) == read_counter' = [read_counter EXCEPT ![t] = @ + n]

-----------------------------------------------------------------------------
(* platform_batch_rwlock_get *)

GetCall(t) ==
    /\ Goto(t, "idle", "spin")
    /\ \E loop \in BOOLEAN : looping' = [looping EXCEPT ![t] = loop]
    /\ UNCHANGED <<claim, lock, read_counter, scan, data, seen>>

\* mutant: get does not wait for the lock flag to clear
GetSpinImpatient(t) ==
    /\ Goto(t, "spin", "inc")
    /\ UNCHANGED <<claim, lock, read_counter, looping, scan, data, seen>>

GetSpin(t) ==
    /\ lock = 0
    /\ Goto(t, "spin", "inc")
    /\ UNCHANGED <<claim, lock, read_counter, looping, scan, data, seen>>

GetInc(t) ==
    /\ Goto(t, "inc", "check")
    /\ Count(t, 1)
    /\ UNCHANGED <<claim, lock, looping, scan, data, seen>>

\* mutant: get trusts its first test of the lock flag
GetReturnUnchecked(t) ==
    /\ Goto(t, "check", IF looping[t] THEN "try" ELSE "read")
    /\ seen' = [seen EXCEPT ![t] = data]
    /\ UNCHANGED <<claim, lock, read_counter, looping, scan, data>>

(* The second test of the lock flag succeeds: get returns and the caller   *)
(* reads the protected data.                                               *)
GetReturn(t) ==
    /\ lock = 0
    /\ Goto(t, "check", IF looping[t] THEN "try" ELSE "read")
    /\ seen' = [seen EXCEPT ![t] = data]
    /\ UNCHANGED <<claim, lock, read_counter, looping, scan, data>>

GetLost(t) ==
    /\ lock = 1
    /\ Goto(t, "check", "undo")
    /\ UNCHANGED <<claim, lock, read_counter, looping, scan, data, seen>>

GetUndo(t) ==
    /\ Goto(t, "undo", "spin")
    /\ Count(t, -1)
    /\ UNCHANGED <<claim, lock, looping, scan, data, seen>>

Unget(t) ==
    /\ Goto(t, "read", "idle")
    /\ Count(t, -1)
    /\ UNCHANGED <<claim, lock, looping, scan, data, seen>>

-----------------------------------------------------------------------------
(* platform_batch_rwlock_try_claim and claim_loop.  A failed try_claim     *)
(* leaves the caller with its read lock, so nothing changes; inside        *)
(* claim_loop it is followed by unget and another get.                     *)

\* mutant: the old value of the claim flag is ignored
TryClaimBlind(t) ==
    /\ \/ Goto(t, "read", "claimdec")
       \/ Goto(t, "try", "claimdec")
    /\ claim' = 1
    /\ looping' = [looping EXCEPT ![t] = FALSE]
    /\ UNCHANGED <<lock, read_counter, scan, data, seen>>

TryClaim(t) ==
    /\ claim = 0
    /\ \/ Goto(t, "read", "claimdec")
       \/ Goto(t, "try", "claimdec")
    /\ claim' = 1
    /\ looping' = [looping EXCEPT ![t] = FALSE]
    /\ UNCHANGED <<lock, read_counter, scan, data, seen>>

TryClaimLost(t) ==
    /\ claim = 1
    /\ Goto(t, "try", "loopunget")
    /\ UNCHANGED <<claim, lock, read_counter, looping, scan, data, seen>>

LoopUnget(t) ==
    /\ Goto(t, "loopunget", "spin")
    /\ Count(t, -1)
    /\ UNCHANGED <<claim, lock, looping, scan, data, seen>>

ClaimDec(t) ==
    /\ Goto(t, "claimdec", "claimed")
    /\ Count(t, -1)
    /\ UNCHANGED <<claim, lock, looping, scan, data, seen>>

-----------------------------------------------------------------------------
(* platform_batch_rwlock_lock: set the flag, then wait for the counters    *)
(* one after the other.                                                    *)

LockSet(t) ==
    /\ Goto(t, "claimed", "drain")
    /\ lock' = 1
    /\ UNCHANGED <<claim, read_counter, looping, scan, data, seen>>

LockDrain(t) ==
    /\ pc[t] = "drain"
    /\ scan[t] < MAX_THREADS
    /\ read_counter[scan[t]] = 0
    /\ scan' = [scan EXCEPT ![t] = @ + 1]
    /\ UNCHANGED <<claim, lock, read_counter, pc, looping, data, seen>>

LockReturn(t) ==
    /\ scan[t] = MAX_THREADS
    /\ Goto(t, "drain", "write")
    /\ scan' = [scan EXCEPT ![t] = 0]
    /\ UNCHANGED <<claim, lock, read_counter, looping, data, seen>>

(* The holder of the write lock changes what the lock protects. *)
Write(t) ==
    /\ pc[t] = "write"
    /\ data' = 1 - data
    /\ seen' = [seen EXCEPT ![t] = 1 - data]
    /\ UNCHANGED <<claim, lock, read_counter, pc, looping, scan>>

Unlock(t) ==
    /\ Goto(t, "write", "claimed")
    /\ lock' = 0
    /\ UNCHANGED <<claim, read_counter, looping, scan, data, seen>>

\* mutant: the claim flag is cleared before the read lock is back
UnclaimIncLate(t) ==
    /\ Goto(t, "claimed", "unclaim")
    /\ Count(t, 1)
    /\ claim' = 0
    /\ UNCHANGED <<lock, looping, scan, data, seen>>

(* platform_batch_rwlock_unclaim gives the read lock back before it clears *)
(* the claim flag.                                                         *)
UnclaimInc(t) ==
    /\ Goto(t, "claimed", "unclaim")
    /\ Count(t, 1)
    /\ UNCHANGED <<claim, lock, looping, scan, data, seen>>

UnclaimRelease(t) ==
    /\ Goto(t, "unclaim", "read")
    /\ claim' = 0
    /\ UNCHANGED <<lock, read_counter, looping, scan, data, seen>>

-----------------------------------------------------------------------------
(* Accesses the code performs by itself once an operation is under way. *)
Proceed(t) ==
    \/ GetSpin(t) \/ GetInc(t) \/ GetReturn(t) \/ GetLost(t) \/ GetUndo(t)
    \/ TryClaimLost(t) \/ LoopUnget(t) \/ ClaimDec(t)
    \/ LockDrain(t) \/ LockReturn(t)
    \/ UnclaimRelease(t)

Next ==
    \E t \in Thread :
        \/ GetCall(t)
        \/ TryClaim(t)
        \/ LockSet(t)
        \/ Write(t)
        \/ Unlock(t)
        \/ UnclaimInc(t)
        \/ Unget(t)
        \/ Proceed(t)

(* Every caller in src/ releases what it acquired: an operation under way  *)
(* runs to its end and a read lock is given back.                          *)
Fairness ==
    \A t \in Thread :
        /\ WF_vars(Proceed(t))
        /\ WF_vars(Unget(t))

Spec == Init /\ [][Next]_vars /\ Fairness

-----------------------------------------------------------------------------
(* A read lock is held; the claim holder's own read counter is dropped. *)
Reading(t) == pc[t] \in {"read", "try", "loopunget", "claimdec", "unclaim"}

Claiming(t) == pc[t] \in {"claimdec", "claimed", "drain", "write", "unclaim"}

(* The thread relies on the data it has seen. *)
Relies(t) == Reading(t) \/ Claiming(t)

TypeOK ==
    /\ claim \in {0, 1}
    /\ lock \in {0, 1}
    /\ read_counter \in [Thread -> {0, 1}]
    /\ pc \in [Thread -> PC]
    /\ looping \in [Thread -> BOOLEAN]
    /\ scan \in [Thread -> 0 .. MAX_THREADS]
    /\ data \in {0, 1}
    /\ seen \in [Thread -> {0, 1}]

(* A writer is alone: while one thread holds the write lock no other       *)
(* thread holds a read lock, a claim or the write lock, although another   *)
(* thread may pass its read counter through 1 inside get.                  *)
WriterAlone ==
    \A t, u \in Thread :
        (t # u /\ pc[t] = "write") => ~Reading(u) /\ ~Claiming(u)

(* Whatever a thread read under the lock stays true until it releases it,  *)
(* through the upgrade to a claim and to the write lock and back: this is  *)
(* what memtable rotation relies on when it acts, after lock, on the       *)
(* state it tested before try_claim.                                       *)
UpgradeKeepsReads == \A t \in Thread : Relies(t) => seen[t] = data

(* The flags and counters follow the program counters. *)
CounterInv ==
    \A t \in Thread :
        read_counter[t] = IF Reading(t) \/ pc[t] \in {"check", "undo"}
                          THEN 1 ELSE 0

ClaimInv ==
    /\ claim = 1 <=> \E t \in Thread : Claiming(t)
    /\ \A t, u \in Thread : Claiming(t) /\ Claiming(u) => t = u

LockInv == lock = 1 <=> \E t \in Thread : pc[t] \in {"drain", "write"}

(* The draining loop of the next lock starts at thread 0. *)
ScanInv == \A t \in Thread : pc[t] # "drain" => scan[t] = 0

(* A thread that the draining loop has passed can only be on its way       *)
(* through a get that will see the lock flag.                              *)
DrainInv ==
    \A t, u \in Thread :
        (t # u /\ pc[t] = "drain" /\ u < scan[t]) => ~Reading(u)

(* The inductive invariant behind WriterAlone and UpgradeKeepsReads. *)
IInv ==
    /\ TypeOK
    /\ CounterInv
    /\ ClaimInv
    /\ LockInv
    /\ ScanInv
    /\ DrainInv
    /\ WriterAlone
    /\ UpgradeKeepsReads

(* Refinement: what each thread holds of the abstract lock. *)
ModeOf(t) ==
    CASE pc[t] \in {"drain", "write"} -> pc[t]
      [] pc[t] \in {"claimdec", "claimed", "unclaim"} -> "claim"
      [] pc[t] \in {"read", "try", "loopunget"} -> "read"
      [] OTHER -> "none"

Abstract == INSTANCE RWLock WITH mode <- [t \in Thread |-> ModeOf(t)]

(* The counters and flags implement the abstract reader/claim/writer lock. *)
ImplementsRWLock == Abstract!RWSpec

(* Setting the lock flag shuts new readers out, so a thread that has       *)
(* called lock is never starved: it gets the write lock.                   *)
LockNotStarved ==
    \A t \in Thread : pc[t] = "drain" ~> pc[t] = "write"
=============================================================================
