----------------------------- MODULE RcAllocator ----------------------------
(***************************************************************************)
(* The reference counting extent allocator, rc_allocator.c.                *)
(*                                                                         *)
(* ref_count[e] is 0 for a free extent; rc_allocator_alloc sets it to 2    *)
(* and the extent is free again when its users have dropped all of it.     *)
(* Allocation is lock free: threads share one clock hand that each of them *)
(* advances atomically, so a thread sees only the extents whose hand value *)
(* it drew itself.  Each memory access is one step.  The super block table *)
(* of the meta page is changed under a mutex and written through.          *)
(***************************************************************************)
EXTENDS Integers, FiniteSets, FiniteSetsExt

CONSTANTS
    Thread,
    ExtentCapacity,     \* cfg->extent_capacity
    Reserved,           \* extents of the super block and the ref counts
    RefMax,             \* largest value of a ref count, UINT8_MAX
    RootId,             \* ids of splinter tables
    MaxRootIds          \* RC_ALLOCATOR_MAX_ROOT_IDS

ASSUME CapacityAssumption ==
    /\ ExtentCapacity \in Nat /\ Reserved \in Nat
    /\ Reserved > 0 /\ Reserved < ExtentCapacity
ASSUME RefMaxAssumption == RefMax \in Nat /\ RefMax > 2
ASSUME MaxRootIdsAssumption == MaxRootIds \in Nat \ {0}
ASSUME ThreadsAssumption == IsFiniteSet(Thread)

Extent == 0 .. ExtentCapacity - 1
RootSlot == 0 .. MaxRootIds - 1
INVALID == "INVALID_ALLOCATOR_ROOT_ID"
ASSUME RootIdAssumption == INVALID \notin RootId
NotWritten == [i \in RootSlot |-> "no checksum"]

VARIABLES
    hand,           \* al->hand modulo the capacity
    ref_count,      \* al->ref_count
    curr_allocated, \* al->stats.curr_allocated
    splinters,      \* meta_page->splinters
    disk_refs,      \* the ref counts as last written to disk
    disk_meta,      \* the meta page as last written to disk
    mounted,
    pc,             \* next step of each thread
    first_hand,     \* first_hand of an allocation in progress
    mine,           \* hand value the thread has drawn
    holds,          \* references each thread's structures own
    super_idx       \* slot handed out for each live table, or -1

allocVars == <<pc, first_hand, mine>>
superVars == <<splinters, disk_meta, super_idx>>
vars == <<hand, ref_count, curr_allocated, disk_refs, mounted, holds,
          allocVars, superVars>>

Free == {e \in Extent : ref_count[e] = 0}

(* rc_allocator_init has allocated the reserved extents one by one. *)
Init ==
    /\ hand = Reserved
    /\ ref_count = [e \in Extent |-> IF e < Reserved THEN 2 ELSE 0]
    /\ curr_allocated = Reserved
    /\ splinters = [i \in RootSlot |-> INVALID]
    /\ disk_refs = [e \in Extent |-> 0]
    /\ disk_meta = NotWritten
    /\ mounted = TRUE
    /\ pc = [t \in Thread |-> "idle"]
    /\ first_hand = [t \in Thread |-> 0]
    /\ mine = [t \in Thread |-> 0]
    /\ holds = [t \in Thread |-> [e \in Extent |-> 0]]
    /\ super_idx = [r \in RootId |-> -1]

Goto(t, from, to) ==
    /\ pc[t] = from
    /\ pc' = [pc EXCEPT ![t] = to]

-----------------------------------------------------------------------------
(* rc_allocator_alloc *)

AllocCall(t) ==
    /\ mounted
    /\ Goto(t, "idle", "advance")
    /\ first_hand' = [first_hand EXCEPT ![t] = hand]
    /\ UNCHANGED <<hand, ref_count, curr_allocated, disk_refs, mounted,
                   holds, mine, superVars>>

AllocAdvance(t) ==
    /\ Goto(t, "advance", "test")
    /\ mine' = [mine EXCEPT ![t] = hand]
    /\ hand' = (hand + 1) % ExtentCapacity
    /\ UNCHANGED <<ref_count, curr_allocated, disk_refs, mounted, holds,
                   first_hand, superVars>>

AllocTest(t) ==
    /\ Goto(t, "test", IF ref_count[mine[t]] = 0 THEN "swap" ELSE "next")
    /\ UNCHANGED <<hand, ref_count, curr_allocated, disk_refs, mounted,
                   holds, first_hand, mine, superVars>>

\* mutant: the extent is taken with a plain store
AllocSwapStore(t) ==
    LET e == mine[t]
    IN  /\ Goto(t, "swap", "count")
        /\ ref_count' = [ref_count EXCEPT ![e] = 2]
        /\ holds' = [holds EXCEPT ![t][e] = @ + 2]
        /\ UNCHANGED <<hand, curr_allocated, disk_refs, mounted, first_hand,
                       mine, superVars>>

(* The compare-and-swap of 0 by 2. *)
AllocSwap(t) ==
    LET e == mine[t]
    IN  \/ /\ ref_count[e] = 0
           /\ Goto(t, "swap", "count")
           /\ ref_count' = [ref_count EXCEPT ![e] = 2]
           /\ holds' = [holds EXCEPT ![t][e] = @ + 2]
           /\ UNCHANGED <<hand, curr_allocated, disk_refs, mounted,
                          first_hand, mine, superVars>>
        \/ /\ ref_count[e] # 0
           /\ Goto(t, "swap", "next")
           /\ UNCHANGED <<hand, ref_count, curr_allocated, disk_refs,
                          mounted, holds, first_hand, mine,
                          superVars>>

(* The search ends when the thread has drawn the hand value just before    *)
(* the one it started from.                                                *)
AllocNext(t) ==
    /\ Goto(t, "next", IF (mine[t] + 1) % ExtentCapacity = first_hand[t]
                       THEN "failed" ELSE "advance")
    /\ UNCHANGED <<hand, ref_count, curr_allocated, disk_refs, mounted,
                   holds, first_hand, mine, superVars>>

AllocCount(t) ==
    /\ Goto(t, "count", "idle")
    /\ curr_allocated' = curr_allocated + 1
    /\ mine' = [mine EXCEPT ![t] = 0]
    /\ first_hand' = [first_hand EXCEPT ![t] = 0]
    /\ UNCHANGED <<hand, ref_count, disk_refs, mounted, holds, superVars>>

(* STATUS_NO_SPACE *)
AllocFailed(t) ==
    /\ Goto(t, "failed", "idle")
    /\ mine' = [mine EXCEPT ![t] = 0]
    /\ first_hand' = [first_hand EXCEPT ![t] = 0]
    /\ UNCHANGED <<hand, ref_count, curr_allocated, disk_refs, mounted,
                   holds, superVars>>

-----------------------------------------------------------------------------
(* rc_allocator_inc_ref by the owner of a reference; RefMax bounds it. *)
IncRef(t, e) ==
    /\ pc[t] = "idle" /\ mounted
    /\ holds[t][e] > 0
    /\ ref_count[e] < RefMax
    /\ ref_count' = [ref_count EXCEPT ![e] = @ + 1]
    /\ holds' = [holds EXCEPT ![t][e] = @ + 1]
    /\ UNCHANGED <<hand, curr_allocated, disk_refs, mounted, allocVars,
                   superVars>>

(* rc_allocator_dec_ref: the count first, the statistics afterwards. *)
DecRef(t, e) ==
    /\ mounted
    /\ holds[t][e] > 0
    /\ Goto(t, "idle", IF ref_count[e] = 1 THEN "uncount" ELSE "idle")
    /\ ref_count' = [ref_count EXCEPT ![e] = @ - 1]
    /\ holds' = [holds EXCEPT ![t][e] = @ - 1]
    /\ UNCHANGED <<hand, curr_allocated, disk_refs, mounted, first_hand,
                   mine, superVars>>

Uncount(t) ==
    /\ Goto(t, "uncount", "idle")
    /\ curr_allocated' = curr_allocated - 1
    /\ UNCHANGED <<hand, ref_count, disk_refs, mounted, holds, first_hand,
                   mine, superVars>>

-----------------------------------------------------------------------------
(* The super block table; each operation holds al->lock. *)

FirstWith(id) ==
    LET found == {i \in RootSlot : splinters[i] = id}
    IN  IF found = {} THEN -1 ELSE Min(found)

(* rc_allocator_alloc_super_addr; STATUS_NOT_FOUND when the table is full  *)
(* changes nothing.                                                        *)
AllocSuperAddr(r) ==
    LET i == FirstWith(INVALID)
    IN  /\ mounted /\ super_idx[r] = -1 /\ i # -1
        /\ splinters' = [splinters EXCEPT ![i] = r]
        /\ disk_meta' = splinters'
        /\ super_idx' = [super_idx EXCEPT ![r] = i]
        /\ UNCHANGED <<hand, ref_count, curr_allocated, disk_refs, mounted,
                       holds, allocVars>>

\* mutant: the meta page is not written to disk
RemoveSuperAddrLazy(r) ==
    LET i == FirstWith(r)
    IN  /\ mounted /\ i # -1
        /\ splinters' = [splinters EXCEPT ![i] = INVALID]
        /\ super_idx' = [super_idx EXCEPT ![r] = -1]
        /\ UNCHANGED <<hand, ref_count, curr_allocated, disk_refs, disk_meta,
                       mounted, holds, allocVars>>

RemoveSuperAddr(r) ==
    LET i == FirstWith(r)
    IN  /\ mounted /\ i # -1
        /\ splinters' = [splinters EXCEPT ![i] = INVALID]
        /\ disk_meta' = splinters'
        /\ super_idx' = [super_idx EXCEPT ![r] = -1]
        /\ UNCHANGED <<hand, ref_count, curr_allocated, disk_refs, mounted,
                       holds, allocVars>>

-----------------------------------------------------------------------------
(* rc_allocator_unmount: the ref counts are written, memory is released.   *)
(* A database that is closed has had a table, so the meta page that mount  *)
(* checks has been written.                                                *)
Unmount ==
    /\ mounted /\ \A t \in Thread : pc[t] = "idle"
    /\ disk_meta # NotWritten
    /\ disk_refs' = ref_count
    /\ mounted' = FALSE
    /\ UNCHANGED <<hand, ref_count, curr_allocated, holds, allocVars,
                   superVars>>

(* rc_allocator_mount rebuilds everything from disk. *)
Mount ==
    /\ ~mounted
    /\ ref_count' = disk_refs
    /\ curr_allocated' = Cardinality({e \in Extent : disk_refs[e] # 0})
    /\ hand' = 0
    /\ splinters' = disk_meta
    /\ mounted' = TRUE
    /\ UNCHANGED <<disk_refs, holds, allocVars, disk_meta, super_idx>>

AllocStep(t) ==
    \/ AllocAdvance(t) \/ AllocTest(t) \/ AllocSwap(t) \/ AllocNext(t)
    \/ AllocCount(t) \/ AllocFailed(t)
    \/ Uncount(t)

Next ==
    \/ \E t \in Thread :
          \/ AllocCall(t)
          \/ AllocStep(t)
          \/ \E e \in Extent : IncRef(t, e) \/ DecRef(t, e)
    \/ \E r \in RootId : AllocSuperAddr(r) \/ RemoveSuperAddr(r)
    \/ Unmount
    \/ Mount

Spec == Init /\ [][Next]_vars

-----------------------------------------------------------------------------
TypeOK ==
    /\ hand \in Extent
    /\ ref_count \in [Extent -> 0 .. RefMax]
    /\ curr_allocated \in 0 .. ExtentCapacity + Cardinality(Thread)
    /\ splinters \in [RootSlot -> RootId \cup {INVALID}]
    /\ disk_refs \in [Extent -> 0 .. RefMax]
    /\ disk_meta \in [RootSlot -> RootId \cup {INVALID}] \cup {NotWritten}
    /\ mounted \in BOOLEAN
    /\ pc \in [Thread -> {"idle", "advance", "test", "swap", "next",
                          "count", "failed", "uncount"}]
    /\ first_hand \in [Thread -> Extent]
    /\ mine \in [Thread -> Extent]
    /\ holds \in [Thread -> [Extent -> 0 .. RefMax]]
    /\ super_idx \in [RootId -> RootSlot \cup {-1}]

(* The references that threads own on an extent, each an element of its    *)
(* own.                                                                    *)
Owned(e) == {o \in Thread \X (1 .. RefMax) : o[2] <= holds[o[1]][e]}

(* The super block and the ref counts have two references of their own.    *)
OwnRefs(e) == IF e < Reserved THEN 2 ELSE 0

(* The ref count of an extent is exactly the references its users own:     *)
(* an extent in use is never handed out again by a concurrent allocation,  *)
(* and a free one has no user left (rc_allocator_alloc, dec_ref).          *)
RefCountsMatchOwners ==
    mounted => \A e \in Extent :
        ref_count[e] = OwnRefs(e) + Cardinality(Owned(e))

(* Besides, whenever no call is in progress the statistics count the       *)
(* extents in use, also across unmount and mount (curr_allocated).         *)
CountsMatchOwners ==
    /\ RefCountsMatchOwners
    /\ (mounted /\ \A t \in Thread : pc[t] = "idle") =>
          curr_allocated = ExtentCapacity - Cardinality(Free)

(* A table finds its super block at the address it was given, after any    *)
(* number of mounts, and no other table has the same one.                  *)
SuperAddrsAreKept ==
    mounted => \A r \in RootId : FirstWith(r) = super_idx[r]
=============================================================================
