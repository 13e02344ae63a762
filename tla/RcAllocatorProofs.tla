------------------------- MODULE RcAllocatorProofs -------------------------
(***************************************************************************)
(* Proofs about the extent allocator, for any finite set of threads, any   *)
(* number of extents and any table of super blocks: the reference counts   *)
(* are exact, the statistics add up, and super block addresses are kept,   *)
(* across every interleaving of allocations and any number of mounts.      *)
(***************************************************************************)
EXTENDS RcAllocator, FiniteSetTheorems, WellFoundedInduction, TLAPS

(* The extents that are in use, and the threads whose step on the          *)
(* statistics is still to come.                                            *)
InUse == {e \in Extent : ref_count[e] # 0}
Counting == {t \in Thread : pc[t] = "count"}
Uncounting == {t \in Thread : pc[t] = "uncount"}

(* The type invariant without the bounds of the statistics, which follow   *)
(* from StatsInv and CountingInv.                                          *)
TypeInv ==
    /\ hand \in Extent
    /\ ref_count \in [Extent -> 0 .. RefMax]
    /\ curr_allocated \in Int
    /\ splinters \in [RootSlot -> RootId \cup {INVALID}]
    /\ disk_refs \in [Extent -> 0 .. RefMax]
    /\ disk_meta \in [RootSlot -> RootId \cup {INVALID}] \cup {NotWritten}
    /\ mounted \in BOOLEAN
    /\ pc \in [Thread -> {"idle", "advance", "test", "swap", "next",
                          "count", "failed", "uncount"}]
    /\ first_hand \in [Thread -> Extent]
    /\ mine \in [Thread -> Extent]
    /\ holds \in [Thread -> [Extent -> 0 .. RefMax]]
    /\ super_idx \in [RootId -> RootSlot \cup {-1}]

RefsInv == \A e \in Extent : ref_count[e] = OwnRefs(e) + Cardinality(Owned(e))

(* A thread that is about to count its extent owns it, alone. *)
CountingInv ==
    \A t \in Counting :
        /\ holds[t][mine[t]] > 0
        /\ \A u \in Counting : mine[t] = mine[u] => t = u

StatsInv ==
    curr_allocated = Cardinality(InUse) - Cardinality(Counting)
                     + Cardinality(Uncounting)

(* What is on disk is what memory had when the allocator was unmounted. *)
DiskInv ==
    /\ disk_meta \in {splinters, NotWritten}
    /\ ~mounted => /\ disk_refs = ref_count
                   /\ disk_meta = splinters
                   /\ \A t \in Thread : pc[t] = "idle"

(* A slot of the table and the table in it know each other. *)
SuperInv ==
    \A r \in RootId : \A i \in RootSlot : splinters[i] = r <=> super_idx[r] = i

IInv == TypeInv /\ RefsInv /\ CountingInv /\ StatsInv /\ DiskInv /\ SuperInv

-----------------------------------------------------------------------------
(* The first set bit of a mask that is not empty is one of its bits. *)
LEMMA MinIsMember ==
  ASSUME NEW S \in SUBSET Nat, S # {}
  PROVE  Min(S) \in S
  <1> DEFINE R == {p \in Nat \X Nat : p[1] < p[2]}
  <1>1. OpToRel(<, Nat) = R
    BY Zenon DEF OpToRel
  <1>2. IsWellFoundedOn(R, Nat)
    BY <1>1, NatLessThanWellFounded
  <1>3. PICK x \in S : \A y \in S : ~(<<y, x>> \in R)
    BY <1>2, WFMin
  <1>4. ASSUME NEW y \in S PROVE x <= y
    <2>1. x \in Nat /\ y \in Nat
      OBVIOUS
    <2>2. y < x => <<y, x>> \in R
      BY <2>1
    <2>3. QED
      BY <1>3, <2>1, <2>2
  <1>5. QED
    BY <1>4 DEF Min

(* The table that FirstWith finds is in the slot it returns. *)
LEMMA FirstWithFinds ==
  ASSUME NEW id
  PROVE  \/ FirstWith(id) = -1 /\ \A i \in RootSlot : splinters[i] # id
         \/ FirstWith(id) \in RootSlot /\ splinters[FirstWith(id)] = id
  <1> DEFINE found == {i \in RootSlot : splinters[i] = id}
  <1>1. found \in SUBSET Nat
    BY MaxRootIdsAssumption DEF RootSlot
  <1>2. found # {} => Min(found) \in found
    BY <1>1, MinIsMember
  <1>3. FirstWith(id) = IF found = {} THEN -1 ELSE Min(found)
    BY Zenon DEF FirstWith
  <1>4. QED
    BY <1>2, <1>3

(* The sets that are counted are finite. *)
LEMMA SetsAreFinite ==
  /\ IsFiniteSet(Extent) /\ Cardinality(Extent) = ExtentCapacity
  /\ IsFiniteSet(InUse) /\ Cardinality(InUse) \in 0 .. ExtentCapacity
  /\ IsFiniteSet(Counting) /\ Cardinality(Counting) \in 0 .. Cardinality(Thread)
  /\ IsFiniteSet(Uncounting)
  /\ Cardinality(Uncounting) \in 0 .. Cardinality(Thread)
  <1>1. IsFiniteSet(Extent) /\ Cardinality(Extent) = ExtentCapacity
    <2>1. 0 \in Int /\ ExtentCapacity - 1 \in Int
      BY CapacityAssumption
    <2>2. /\ IsFiniteSet(0 .. ExtentCapacity - 1)
          /\ Cardinality(0 .. ExtentCapacity - 1)
             = IF 0 > ExtentCapacity - 1 THEN 0 ELSE (ExtentCapacity - 1) - 0 + 1
      BY <2>1, FS_Interval
    <2>3. QED
      BY <2>2, CapacityAssumption DEF Extent
  <1>2. InUse \in SUBSET Extent
    BY DEF InUse
  <1>3. Counting \in SUBSET Thread /\ Uncounting \in SUBSET Thread
    BY DEF Counting, Uncounting
  <1>4. /\ IsFiniteSet(InUse) /\ Cardinality(InUse) <= ExtentCapacity
        /\ Cardinality(InUse) \in Nat
    BY <1>1, <1>2, FS_Subset, FS_CardinalityType
  <1>5. /\ IsFiniteSet(Counting) /\ Cardinality(Counting) <= Cardinality(Thread)
        /\ Cardinality(Counting) \in Nat
    BY <1>3, ThreadsAssumption, FS_Subset, FS_CardinalityType
  <1>6. /\ IsFiniteSet(Uncounting)
        /\ Cardinality(Uncounting) <= Cardinality(Thread)
        /\ Cardinality(Uncounting) \in Nat
    BY <1>3, ThreadsAssumption, FS_Subset, FS_CardinalityType
  <1>7. Cardinality(Thread) \in Nat
    BY ThreadsAssumption, FS_CardinalityType
  <1>8. QED
    BY <1>1, <1>4, <1>5, <1>6, <1>7, CapacityAssumption

(* The references on an extent are a finite set, and no thread owns more   *)
(* than all of them.                                                       *)
LEMMA OwnedIsFinite ==
  ASSUME TypeInv, NEW e \in Extent
  PROVE  /\ IsFiniteSet(Owned(e)) /\ Cardinality(Owned(e)) \in Nat
         /\ \A t \in Thread : holds[t][e] <= Cardinality(Owned(e))
  <1> DEFINE All == Thread \X (1 .. RefMax)
  <1>1. IsFiniteSet(All)
    <2>1. IsFiniteSet(1 .. RefMax)
      BY RefMaxAssumption, FS_Interval
    <2>2. QED
      BY <2>1, ThreadsAssumption, FS_Product
  <1>2. Owned(e) \in SUBSET All
    BY DEF Owned
  <1>3. IsFiniteSet(Owned(e)) /\ Cardinality(Owned(e)) \in Nat
    BY <1>1, <1>2, FS_Subset, FS_CardinalityType
  <1>4. ASSUME NEW t \in Thread
        PROVE  holds[t][e] <= Cardinality(Owned(e))
    <2> DEFINE h == holds[t][e]
               T == {t} \X (1 .. h)
    <2>1. h \in 0 .. RefMax
      BY DEF TypeInv
    <2>2. IsFiniteSet(1 .. h) /\ Cardinality(1 .. h) = h
      <3> HIDE DEF h
      <3>1. h \in Int /\ h >= 0
        BY <2>1, RefMaxAssumption
      <3>2. /\ IsFiniteSet(1 .. h)
            /\ Cardinality(1 .. h) = IF 1 > h THEN 0 ELSE h - 1 + 1
        BY <3>1, FS_Interval
      <3>3. QED
        BY <3>1, <3>2
    <2>3. IsFiniteSet({t}) /\ Cardinality({t}) = 1
      BY FS_Singleton
    <2>4. Cardinality(T) = 1 * h
      BY <2>2, <2>3, FS_Product
    <2>5. T \in SUBSET Owned(e)
      BY <2>1, RefMaxAssumption DEF Owned
    <2>6. Cardinality(T) <= Cardinality(Owned(e))
      BY <2>5, <1>3, FS_Subset
    <2>7. QED
      BY <2>1, <2>4, <2>6
  <1>5. QED
    BY <1>3, <1>4

(* The hand goes round. *)
LEMMA HandInRange ==
  ASSUME NEW h \in Extent
  PROVE  (h + 1) % ExtentCapacity \in Extent
  BY CapacityAssumption DEF Extent

(* What is not stored in or derived from a variable of an action is kept. *)
LEMMA FrameRefs ==
  ASSUME UNCHANGED <<ref_count, holds>>, RefsInv
  PROVE  RefsInv'
  BY DEF RefsInv, OwnRefs, Owned

LEMMA FrameSupers ==
  ASSUME UNCHANGED superVars, SuperInv
  PROVE  SuperInv'
  BY DEF SuperInv, superVars

LEMMA FrameStats ==
  ASSUME UNCHANGED <<ref_count, curr_allocated>>, StatsInv,
         Counting' = Counting, Uncounting' = Uncounting
  PROVE  StatsInv'
  BY DEF StatsInv, InUse

LEMMA FrameCounting ==
  ASSUME UNCHANGED holds, CountingInv, Counting' = Counting,
         \A t \in Counting : mine'[t] = mine[t]
  PROVE  CountingInv'
  BY DEF CountingInv

-----------------------------------------------------------------------------
(* Initially the reserved extents are all that is in use. *)
LEMMA InitInv == Init => IInv
  <1> SUFFICES ASSUME Init PROVE IInv
    OBVIOUS
  <1> USE CapacityAssumption, RefMaxAssumption
  <1>1. TypeInv
    BY MaxRootIdsAssumption DEF Init, TypeInv, Extent
  <1>2. RefsInv
    <2> SUFFICES ASSUME NEW e \in Extent
                 PROVE  ref_count[e] = OwnRefs(e) + Cardinality(Owned(e))
      BY DEF RefsInv
    <2>1. Owned(e) = {}
      BY DEF Init, Owned
    <2>2. Cardinality(Owned(e)) = 0
      BY <2>1, FS_EmptySet
    <2>3. QED
      BY <2>2 DEF Init, OwnRefs
  <1>3. Counting = {} /\ Uncounting = {}
    BY DEF Init, Counting, Uncounting
  <1>4. StatsInv
    <2>1. InUse = 0 .. Reserved - 1
      BY DEF Init, InUse, Extent
    <2>2. 0 \in Int /\ Reserved - 1 \in Int
      OBVIOUS
    <2>3. Cardinality(0 .. Reserved - 1)
          = IF 0 > Reserved - 1 THEN 0 ELSE (Reserved - 1) - 0 + 1
      BY <2>2, FS_Interval
    <2>4. Cardinality(Counting) = 0 /\ Cardinality(Uncounting) = 0
      BY <1>3, FS_EmptySet
    <2>5. QED
      BY <2>1, <2>3, <2>4 DEF Init, StatsInv
  <1>5. DiskInv
    BY DEF Init, DiskInv
  <1>6. SuperInv
    BY RootIdAssumption, MaxRootIdsAssumption DEF Init, SuperInv, RootSlot
  <1>7. QED
    BY <1>1, <1>2, <1>3, <1>4, <1>5, <1>6 DEF IInv, CountingInv

(* A search for a free extent changes nothing before its compare-and-swap. *)
LEMMA SearchPreserves ==
  ASSUME IInv, NEW t \in Thread,
         \/ AllocCall(t) \/ AllocAdvance(t) \/ AllocTest(t)
         \/ AllocNext(t) \/ AllocFailed(t)
  PROVE  IInv'
  <1> USE DEF IInv
  <1>1. TypeInv'
    <2>1. (hand + 1) % ExtentCapacity \in Extent /\ 0 \in Extent
      BY HandInRange, CapacityAssumption DEF TypeInv, Extent
    <2>2. CASE AllocCall(t)
      BY <2>2 DEF TypeInv, Goto, AllocCall, superVars
    <2>3. CASE AllocAdvance(t)
      BY <2>1, <2>3 DEF TypeInv, Goto, AllocAdvance, superVars
    <2>4. CASE AllocTest(t)
      BY <2>4 DEF TypeInv, Goto, AllocTest, superVars
    <2>5. CASE AllocNext(t)
      BY <2>5 DEF TypeInv, Goto, AllocNext, superVars
    <2>6. CASE AllocFailed(t)
      BY <2>1, <2>6 DEF TypeInv, Goto, AllocFailed, superVars
    <2>7. QED
      BY <2>2, <2>3, <2>4, <2>5, <2>6
  <1>2. UNCHANGED <<ref_count, curr_allocated, disk_refs, mounted, holds, superVars>>
    BY DEF AllocCall, AllocAdvance, AllocTest, AllocNext, AllocFailed, superVars
  <1>3. Counting' = Counting /\ Uncounting' = Uncounting
    BY DEF TypeInv, Counting, Uncounting, Goto, AllocCall, AllocAdvance, AllocTest,
           AllocNext, AllocFailed
  <1>4. \A u \in Counting : mine'[u] = mine[u]
    BY DEF TypeInv, Counting, Goto, AllocCall, AllocAdvance, AllocTest,
           AllocNext, AllocFailed
  <1>5. RefsInv' /\ SuperInv' /\ StatsInv' /\ CountingInv'
    BY <1>2, <1>3, <1>4, FrameRefs, FrameSupers, FrameStats, FrameCounting
  <1>6. DiskInv'
    <2>1. mounted
      BY DEF TypeInv, DiskInv, Goto, AllocCall, AllocAdvance, AllocTest,
             AllocNext, AllocFailed
    <2>2. QED
      BY <1>2, <2>1 DEF DiskInv, superVars
  <1>7. QED
    BY <1>1, <1>5, <1>6

(* The compare-and-swap: the extent it takes had no owner, so its two      *)
(* references are all there are; a lost race changes nothing.              *)
LEMMA SwapPreserves ==
  ASSUME IInv, NEW t \in Thread, AllocSwap(t)
  PROVE  IInv'
  <1> USE DEF IInv
  <1> DEFINE e == mine[t]
  <1>1. /\ e \in Extent /\ t \notin Counting /\ mounted
        /\ UNCHANGED <<superVars, curr_allocated, disk_refs, mounted, mine,
                       hand, first_hand>>
    BY DEF TypeInv, DiskInv, Counting, Goto, AllocSwap, superVars
  <1>2. DiskInv'
    BY <1>1 DEF DiskInv, superVars
  <1>3. CASE ref_count[e] # 0 /\ Goto(t, "swap", "next") /\ UNCHANGED <<ref_count, holds>>
    <2>1. TypeInv'
      BY <1>1, <1>3 DEF TypeInv, Goto, superVars
    <2>2. Counting' = Counting /\ Uncounting' = Uncounting
      BY <1>3 DEF TypeInv, Counting, Uncounting, Goto
    <2>3. RefsInv' /\ SuperInv' /\ StatsInv' /\ CountingInv'
      BY <1>1, <1>3, <2>2, FrameRefs, FrameSupers, FrameStats, FrameCounting
    <2>4. QED
      BY <1>2, <2>1, <2>3
  <1>4. CASE /\ ref_count[e] = 0 /\ Goto(t, "swap", "count")
             /\ ref_count' = [ref_count EXCEPT ![e] = 2]
             /\ holds' = [holds EXCEPT ![t][e] = @ + 2]
    <2>1. OwnRefs(e) = 0 /\ Cardinality(Owned(e)) = 0 /\ IsFiniteSet(Owned(e))
          /\ \A u \in Thread : holds[u][e] = 0
      <3>1. /\ IsFiniteSet(Owned(e)) /\ Cardinality(Owned(e)) \in Nat
            /\ \A u \in Thread : holds[u][e] <= Cardinality(Owned(e))
        BY <1>1, OwnedIsFinite
      <3>2. ref_count[e] = OwnRefs(e) + Cardinality(Owned(e)) /\ OwnRefs(e) \in Nat
        BY <1>1 DEF RefsInv, OwnRefs
      <3>3. \A u \in Thread : holds[u][e] \in Nat
        BY <1>1, RefMaxAssumption DEF TypeInv
      <3>4. OwnRefs(e) = 0 /\ Cardinality(Owned(e)) = 0
        BY <3>1, <3>2, <1>4
      <3>5. QED
        BY <3>1, <3>3, <3>4
    <2>2. TypeInv'
      <3>1. holds' \in [Thread -> [Extent -> 0 .. RefMax]]
        BY <1>1, <1>4, <2>1, RefMaxAssumption DEF TypeInv
      <3>2. ref_count' \in [Extent -> 0 .. RefMax]
        BY <1>1, <1>4, RefMaxAssumption DEF TypeInv
      <3>3. QED
        BY <1>1, <1>4, <3>1, <3>2 DEF TypeInv, Goto, superVars
    <2>3. RefsInv'
      <3> SUFFICES ASSUME NEW x \in Extent
                   PROVE  ref_count'[x] = OwnRefs(x) + Cardinality(Owned(x)')
        BY DEF RefsInv, OwnRefs
      <3>1. CASE x # e
        <4>1. Owned(x)' = Owned(x) /\ ref_count'[x] = ref_count[x]
          BY <1>1, <1>4, <3>1 DEF TypeInv, Owned
        <4>2. QED
          BY <4>1 DEF RefsInv
      <3>2. CASE x = e
        <4>1. Owned(e)' = {<<t, 1>>, <<t, 2>>}
          <5>1. Owned(e)' = {o \in Thread \X (1 .. RefMax) : o[2] <= holds'[o[1]][e]}
            BY <1>1 DEF Owned
          <5>2. \A u \in Thread : holds'[u][e] = IF u = t THEN 2 ELSE 0
            BY <1>1, <1>4, <2>1 DEF TypeInv
          <5>3. ASSUME NEW o \in Thread \X (1 .. RefMax)
                PROVE  o[2] <= holds'[o[1]][e] <=> o \in {<<t, 1>>, <<t, 2>>}
            BY <5>2, RefMaxAssumption
          <5>4. <<t, 1>> \in Thread \X (1 .. RefMax) /\ <<t, 2>> \in Thread \X (1 .. RefMax)
            BY RefMaxAssumption
          <5>5. QED
            BY <5>1, <5>3, <5>4
        <4>2. IsFiniteSet({<<t, 1>>}) /\ Cardinality({<<t, 1>>}) = 1
          BY FS_Singleton
        <4>3. Cardinality({<<t, 1>>} \cup {<<t, 2>>}) = 2
          <5> DEFINE A == {<<t, 1>>}
                     b == <<t, 2>>
          <5>1. b \notin A
            OBVIOUS
          <5> HIDE DEF A, b
          <5>2. Cardinality(A \cup {b}) = Cardinality(A) + 1
            BY <4>2, <5>1, FS_AddElement DEF A
          <5>3. QED
            BY <4>2, <5>2 DEF A, b
        <4>4. Owned(e)' = {<<t, 1>>} \cup {<<t, 2>>}
          BY <4>1
        <4>5. ref_count'[e] = 2
          BY <1>1, <1>4 DEF TypeInv
        <4>6. ref_count'[e] = OwnRefs(e) + Cardinality(Owned(e)')
          BY <4>3, <4>4, <4>5, <2>1
        <4>7. Owned(x)' = Owned(e)'
          BY <3>2, <1>1 DEF Owned
        <4>8. QED
          BY <3>2, <4>6, <4>7
      <3>3. QED
        BY <3>1, <3>2
    <2>4. Counting' = Counting \cup {t} /\ Uncounting' = Uncounting
      BY <1>4 DEF TypeInv, Counting, Uncounting, Goto
    <2>5. CountingInv'
      <3>1. holds'[t][e] > 0
        BY <1>1, <1>4, <2>1 DEF TypeInv
      <3>2. \A u \in Counting : mine[u] # e /\ holds'[u][mine[u]] = holds[u][mine[u]]
        BY <1>1, <1>4, <2>1 DEF TypeInv, CountingInv, Counting
      <3>3. QED
        BY <1>1, <2>4, <3>1, <3>2 DEF CountingInv
    <2>6. StatsInv'
      <3>1. InUse' = InUse \cup {e} /\ e \notin InUse
        BY <1>1, <1>4 DEF TypeInv, InUse
      <3>2. Cardinality(InUse \cup {e}) = Cardinality(InUse) + 1
        BY <3>1, SetsAreFinite, FS_AddElement
      <3>3. Cardinality(Counting \cup {t}) = Cardinality(Counting) + 1
        BY <1>1, SetsAreFinite, FS_AddElement
      <3>4. /\ Cardinality(InUse) \in Int /\ Cardinality(Counting) \in Int
            /\ Cardinality(Uncounting) \in Int /\ curr_allocated \in Int
        BY SetsAreFinite, FS_CardinalityType DEF TypeInv
      <3>5. QED
        BY <1>1, <2>4, <3>1, <3>2, <3>3, <3>4 DEF StatsInv
    <2>7. SuperInv'
      BY <1>1, FrameSupers
    <2>8. QED
      BY <1>2, <2>2, <2>3, <2>5, <2>6, <2>7
  <1>5. QED
    BY <1>3, <1>4 DEF AllocSwap

(* The statistics are brought up to date after the ref count has changed. *)
LEMMA CountPreserves ==
  ASSUME IInv, NEW t \in Thread, AllocCount(t) \/ Uncount(t)
  PROVE  IInv'
  <1> USE DEF IInv
  <1>1. /\ UNCHANGED <<ref_count, disk_refs, mounted, holds, hand, superVars>>
        /\ mounted
        /\ \A u \in Thread \ {t} : mine'[u] = mine[u]
    BY DEF TypeInv, DiskInv, Goto, AllocCount, Uncount, superVars
  <1>2. TypeInv'
    <2>1. 0 \in Extent
      BY CapacityAssumption DEF Extent
    <2>2. CASE AllocCount(t)
      BY <2>1, <2>2 DEF TypeInv, Goto, AllocCount, superVars
    <2>3. CASE Uncount(t)
      BY <2>3 DEF TypeInv, Goto, Uncount, superVars
    <2>4. QED
      BY <2>2, <2>3
  <1>3. RefsInv' /\ SuperInv'
    BY <1>1, FrameRefs, FrameSupers
  <1>4. DiskInv'
    BY <1>1 DEF DiskInv, superVars
  <1>5. /\ Cardinality(InUse) \in Int /\ Cardinality(Counting) \in Int
        /\ Cardinality(Uncounting) \in Int /\ curr_allocated \in Int
        /\ IsFiniteSet(Counting) /\ IsFiniteSet(Uncounting)
    BY SetsAreFinite, FS_CardinalityType DEF TypeInv
  <1>6. InUse' = InUse
    BY <1>1 DEF InUse
  <1>7. CASE AllocCount(t)
    <2>1. Counting' = Counting \ {t} /\ t \in Counting /\ Uncounting' = Uncounting
      BY <1>7 DEF TypeInv, Counting, Uncounting, Goto, AllocCount
    <2>2. Cardinality(Counting \ {t}) = Cardinality(Counting) - 1
      BY <1>5, <2>1, FS_RemoveElement
    <2>3. StatsInv'
      BY <1>5, <1>6, <1>7, <2>1, <2>2 DEF StatsInv, AllocCount
    <2>4. CountingInv'
      BY <1>1, <2>1 DEF CountingInv, Counting
    <2>5. QED
      BY <1>2, <1>3, <1>4, <2>3, <2>4
  <1>8. CASE Uncount(t)
    <2>1. Uncounting' = Uncounting \ {t} /\ t \in Uncounting /\ Counting' = Counting
      BY <1>8 DEF TypeInv, Counting, Uncounting, Goto, Uncount
    <2>2. Cardinality(Uncounting \ {t}) = Cardinality(Uncounting) - 1
      BY <1>5, <2>1, FS_RemoveElement
    <2>3. StatsInv'
      BY <1>5, <1>6, <1>8, <2>1, <2>2 DEF StatsInv, Uncount
    <2>4. CountingInv'
      BY <1>8, <2>1, FrameCounting DEF Uncount
    <2>5. QED
      BY <1>2, <1>3, <1>4, <2>3, <2>4
  <1>9. QED
    BY <1>7, <1>8

(* An owner takes another reference. *)
LEMMA IncRefPreserves ==
  ASSUME IInv, NEW t \in Thread, NEW e \in Extent, IncRef(t, e)
  PROVE  IInv'
  <1> USE DEF IInv
  <1>1. /\ UNCHANGED <<curr_allocated, disk_refs, mounted, mine, pc, hand,
                       first_hand, superVars>>
        /\ mounted /\ pc[t] = "idle"
        /\ holds[t][e] > 0 /\ ref_count[e] < RefMax
        /\ ref_count' = [ref_count EXCEPT ![e] = ref_count[e] + 1]
        /\ holds' = [holds EXCEPT ![t][e] = holds[t][e] + 1]
    BY DEF IncRef, superVars, allocVars
  <1>2. /\ IsFiniteSet(Owned(e)) /\ Cardinality(Owned(e)) \in Nat
        /\ holds[t][e] <= Cardinality(Owned(e))
        /\ holds[t][e] \in Nat /\ ref_count[e] \in Nat
        /\ ref_count[e] = OwnRefs(e) + Cardinality(Owned(e)) /\ OwnRefs(e) \in Nat
    BY OwnedIsFinite, RefMaxAssumption DEF TypeInv, RefsInv, OwnRefs
  <1>3. holds[t][e] + 1 <= RefMax
    BY <1>1, <1>2, RefMaxAssumption
  <1>4. TypeInv'
    <2>1. holds' \in [Thread -> [Extent -> 0 .. RefMax]]
      BY <1>1, <1>2, <1>3, RefMaxAssumption DEF TypeInv
    <2>2. ref_count' \in [Extent -> 0 .. RefMax]
      BY <1>1, <1>2, RefMaxAssumption DEF TypeInv
    <2>3. QED
      BY <1>1, <2>1, <2>2 DEF TypeInv, superVars
  <1>5. RefsInv'
    <2> SUFFICES ASSUME NEW x \in Extent
                 PROVE  ref_count'[x] = OwnRefs(x) + Cardinality(Owned(x)')
      BY DEF RefsInv, OwnRefs
    <2>1. CASE x # e
      <3>1. Owned(x)' = Owned(x) /\ ref_count'[x] = ref_count[x]
        BY <1>1, <2>1 DEF TypeInv, Owned
      <3>2. QED
        BY <3>1 DEF RefsInv
    <2>2. CASE x = e
      <3> DEFINE new == <<t, holds[t][e] + 1>>
      <3>1. \A u \in Thread : holds'[u][e] = IF u = t THEN holds[t][e] + 1 ELSE holds[u][e]
        BY <1>1 DEF TypeInv
      <3>2. \A o \in Thread \X (1 .. RefMax) :
               o[2] <= holds'[o[1]][e] <=> o[2] <= holds[o[1]][e] \/ o = new
        <4>1. ASSUME NEW u \in Thread, NEW n \in 1 .. RefMax
              PROVE  n <= holds'[u][e] <=> n <= holds[u][e] \/ <<u, n>> = new
          <5>1. <<u, n>> = new <=> u = t /\ n = holds[t][e] + 1
            OBVIOUS
          <5>2. holds[u][e] \in Nat
            BY RefMaxAssumption DEF TypeInv
          <5>3. QED
            BY <1>2, <3>1, <5>1, <5>2, RefMaxAssumption
        <4>2. ASSUME NEW o \in Thread \X (1 .. RefMax)
              PROVE  o[1] \in Thread /\ o[2] \in 1 .. RefMax /\ o = <<o[1], o[2]>>
          OBVIOUS
        <4>3. QED
          BY <4>1, <4>2
      <3>3. new \in Thread \X (1 .. RefMax) /\ ~(new[2] <= holds[new[1]][e])
        BY <1>2, <1>3, RefMaxAssumption
      <3> HIDE DEF new
      <3>4. Owned(e)' = Owned(e) \cup {new} /\ new \notin Owned(e)
        BY <3>2, <3>3 DEF Owned
      <3>5. Cardinality(Owned(e) \cup {new}) = Cardinality(Owned(e)) + 1
        BY <1>2, <3>4, FS_AddElement
      <3>6. ref_count'[e] = OwnRefs(e) + Cardinality(Owned(e)')
        BY <1>1, <1>2, <3>4, <3>5 DEF TypeInv
      <3>7. Owned(x)' = Owned(e)'
        BY <2>2 DEF Owned
      <3>8. QED
        BY <2>2, <3>6, <3>7
    <2>3. QED
      BY <2>1, <2>2
  <1>6. Counting' = Counting /\ Uncounting' = Uncounting
    BY <1>1 DEF Counting, Uncounting
  <1>7. CountingInv'
    <2>1. \A u \in Counting : mine'[u] = mine[u] /\ holds'[u][mine[u]] = holds[u][mine[u]]
      BY <1>1 DEF TypeInv, Counting
    <2>2. QED
      BY <1>6, <2>1 DEF CountingInv
  <1>8. StatsInv'
    <2>1. InUse' = InUse
      BY <1>1, <1>2 DEF InUse, TypeInv
    <2>2. QED
      BY <1>1, <1>6, <2>1 DEF StatsInv
  <1>9. DiskInv' /\ SuperInv'
    BY <1>1, FrameSupers DEF DiskInv, superVars
  <1>10. QED
    BY <1>4, <1>5, <1>7, <1>8, <1>9

(* An owner drops a reference; the thread that drops the last one of all   *)
(* counts the extent out later.                                            *)
LEMMA DecRefPreserves ==
  ASSUME IInv, NEW t \in Thread, NEW e \in Extent, DecRef(t, e)
  PROVE  IInv'
  <1> USE DEF IInv
  <1> DEFINE last == ref_count[e] = 1
  <1>1. /\ UNCHANGED <<curr_allocated, disk_refs, mounted, mine, hand,
                       first_hand, superVars>>
        /\ mounted /\ pc[t] = "idle"
        /\ pc' = [pc EXCEPT ![t] = IF last THEN "uncount" ELSE "idle"]
        /\ holds[t][e] > 0
        /\ ref_count' = [ref_count EXCEPT ![e] = ref_count[e] - 1]
        /\ holds' = [holds EXCEPT ![t][e] = holds[t][e] - 1]
    BY DEF DecRef, Goto, superVars
  <1>2. /\ IsFiniteSet(Owned(e)) /\ Cardinality(Owned(e)) \in Nat
        /\ holds[t][e] <= Cardinality(Owned(e))
        /\ holds[t][e] \in 0 .. RefMax /\ ref_count[e] \in 0 .. RefMax
        /\ ref_count[e] = OwnRefs(e) + Cardinality(Owned(e)) /\ OwnRefs(e) \in Nat
    BY OwnedIsFinite DEF TypeInv, RefsInv, OwnRefs
  <1>3. ref_count[e] >= 1
    BY <1>1, <1>2, RefMaxAssumption
  <1>4. TypeInv'
    <2>1. holds' \in [Thread -> [Extent -> 0 .. RefMax]]
      BY <1>1, <1>2, RefMaxAssumption DEF TypeInv
    <2>2. ref_count' \in [Extent -> 0 .. RefMax]
      BY <1>1, <1>2, <1>3, RefMaxAssumption DEF TypeInv
    <2>3. QED
      BY <1>1, <2>1, <2>2 DEF TypeInv, superVars
  <1>5. RefsInv'
    <2> SUFFICES ASSUME NEW x \in Extent
                 PROVE  ref_count'[x] = OwnRefs(x) + Cardinality(Owned(x)')
      BY DEF RefsInv, OwnRefs
    <2>1. CASE x # e
      <3>1. Owned(x)' = Owned(x) /\ ref_count'[x] = ref_count[x]
        BY <1>1, <2>1 DEF TypeInv, Owned
      <3>2. QED
        BY <3>1 DEF RefsInv
    <2>2. CASE x = e
      <3> DEFINE old == <<t, holds[t][e]>>
      <3>1. \A u \in Thread : holds'[u][e] = IF u = t THEN holds[t][e] - 1 ELSE holds[u][e]
        BY <1>1 DEF TypeInv
      <3>2. \A o \in Thread \X (1 .. RefMax) :
               o[2] <= holds'[o[1]][e] <=> o[2] <= holds[o[1]][e] /\ o # old
        <4>1. ASSUME NEW u \in Thread, NEW n \in 1 .. RefMax
              PROVE  n <= holds'[u][e] <=> n <= holds[u][e] /\ <<u, n>> # old
          <5>1. <<u, n>> = old <=> u = t /\ n = holds[t][e]
            OBVIOUS
          <5>2. holds[u][e] \in Nat
            BY RefMaxAssumption DEF TypeInv
          <5>3. QED
            BY <1>2, <3>1, <5>1, <5>2, RefMaxAssumption
        <4>2. ASSUME NEW o \in Thread \X (1 .. RefMax)
              PROVE  o[1] \in Thread /\ o[2] \in 1 .. RefMax /\ o = <<o[1], o[2]>>
          OBVIOUS
        <4>3. QED
          BY <4>1, <4>2
      <3>3. old \in Thread \X (1 .. RefMax) /\ old[2] <= holds[old[1]][e]
        BY <1>1, <1>2, RefMaxAssumption
      <3> HIDE DEF old
      <3>4. Owned(e)' = Owned(e) \ {old} /\ old \in Owned(e)
        BY <3>2, <3>3 DEF Owned
      <3>5. Cardinality(Owned(e) \ {old}) = Cardinality(Owned(e)) - 1
        BY <1>2, <3>4, FS_RemoveElement
      <3>6. ref_count'[e] = OwnRefs(e) + Cardinality(Owned(e)')
        BY <1>1, <1>2, <3>4, <3>5, RefMaxAssumption DEF TypeInv
      <3>7. Owned(x)' = Owned(e)'
        BY <2>2 DEF Owned
      <3>8. QED
        BY <2>2, <3>6, <3>7
    <2>3. QED
      BY <2>1, <2>2
  <1>6. Counting' = Counting
    BY <1>1 DEF Counting, TypeInv
  <1>7. CountingInv'
    <2>1. \A u \in Counting : mine'[u] = mine[u] /\ holds'[u][mine[u]] = holds[u][mine[u]]
      BY <1>1 DEF TypeInv, Counting
    <2>2. QED
      BY <1>6, <2>1 DEF CountingInv
  <1>8. StatsInv'
    <2>1. CASE ~last
      <3>1. InUse' = InUse
        BY <1>1, <1>2, <1>3, <2>1, RefMaxAssumption DEF InUse, TypeInv
      <3>2. Uncounting' = Uncounting
        BY <1>1, <2>1 DEF Uncounting, TypeInv
      <3>3. QED
        BY <1>1, <1>6, <3>1, <3>2 DEF StatsInv
    <2>2. CASE last
      <3>1. InUse' = InUse \ {e} /\ e \in InUse
        BY <1>1, <2>2 DEF InUse, TypeInv
      <3>2. Uncounting' = Uncounting \cup {t} /\ t \notin Uncounting
        BY <1>1, <2>2 DEF Uncounting, TypeInv
      <3>3. Cardinality(InUse \ {e}) = Cardinality(InUse) - 1
        BY <3>1, SetsAreFinite, FS_RemoveElement
      <3>4. Cardinality(Uncounting \cup {t}) = Cardinality(Uncounting) + 1
        BY <3>2, SetsAreFinite, FS_AddElement
      <3>5. /\ Cardinality(InUse) \in Int /\ Cardinality(Counting) \in Int
            /\ Cardinality(Uncounting) \in Int /\ curr_allocated \in Int
        BY SetsAreFinite, FS_CardinalityType DEF TypeInv
      <3>6. QED
        BY <1>1, <1>6, <3>1, <3>2, <3>3, <3>4, <3>5 DEF StatsInv
    <2>3. QED
      BY <2>1, <2>2
  <1>9. DiskInv' /\ SuperInv'
    BY <1>1, FrameSupers DEF DiskInv, superVars
  <1>10. QED
    BY <1>4, <1>5, <1>7, <1>8, <1>9

(* A table takes a free slot, or gives up the one it has. *)
LEMMA SuperPreserves ==
  ASSUME IInv, NEW r \in RootId, AllocSuperAddr(r) \/ RemoveSuperAddr(r)
  PROVE  IInv'
  <1> USE DEF IInv
  <1>1. /\ UNCHANGED <<hand, ref_count, curr_allocated, disk_refs, mounted,
                       holds, pc, first_hand, mine>>
        /\ mounted
    BY DEF AllocSuperAddr, RemoveSuperAddr, allocVars
  <1>2. RefsInv' /\ CountingInv' /\ StatsInv'
    <2>1. Counting' = Counting /\ Uncounting' = Uncounting
      BY <1>1 DEF Counting, Uncounting
    <2>2. QED
      BY <1>1, <2>1, FrameRefs, FrameStats, FrameCounting
  <1>3. CASE AllocSuperAddr(r)
    <2> DEFINE i == FirstWith(INVALID)
    <2>1. /\ i \in RootSlot /\ splinters[i] = INVALID /\ super_idx[r] = -1
          /\ splinters' = [splinters EXCEPT ![i] = r]
          /\ disk_meta' = splinters'
          /\ super_idx' = [super_idx EXCEPT ![r] = i]
      BY <1>3, FirstWithFinds DEF AllocSuperAddr
    <2> HIDE DEF i
    <2>2. TypeInv'
      BY <1>1, <2>1 DEF TypeInv
    <2>3. DiskInv'
      BY <1>1, <2>1 DEF DiskInv
    <2>4. ASSUME NEW q \in RootId, NEW j \in RootSlot
          PROVE  splinters'[j] = q <=> super_idx'[q] = j
      <3>1. splinters[j] = q <=> super_idx[q] = j
        BY DEF SuperInv
      <3>2. INVALID # q /\ j # -1
        BY RootIdAssumption, MaxRootIdsAssumption DEF RootSlot
      <3>3. splinters'[j] = IF j = i THEN r ELSE splinters[j]
        BY <2>1 DEF TypeInv
      <3>4. super_idx'[q] = IF q = r THEN i ELSE super_idx[q]
        BY <2>1 DEF TypeInv
      <3>5. super_idx[r] # j /\ (j = i => splinters[j] = INVALID)
        BY <2>1, <3>2
      <3>6. QED
        BY <3>1, <3>2, <3>3, <3>4, <3>5, <2>1
    <2>5. QED
      BY <1>2, <2>2, <2>3, <2>4 DEF SuperInv
  <1>4. CASE RemoveSuperAddr(r)
    <2> DEFINE i == FirstWith(r)
    <2>1. /\ i \in RootSlot /\ splinters[i] = r
          /\ splinters' = [splinters EXCEPT ![i] = INVALID]
          /\ disk_meta' = splinters'
          /\ super_idx' = [super_idx EXCEPT ![r] = -1]
      BY <1>4, FirstWithFinds DEF RemoveSuperAddr
    <2> HIDE DEF i
    <2>2. TypeInv'
      BY <1>1, <2>1 DEF TypeInv
    <2>3. DiskInv'
      BY <1>1, <2>1 DEF DiskInv
    <2>4. ASSUME NEW q \in RootId, NEW j \in RootSlot
          PROVE  splinters'[j] = q <=> super_idx'[q] = j
      <3>1. splinters[j] = q <=> super_idx[q] = j
        BY DEF SuperInv
      <3>2. INVALID # q /\ j # -1
        BY RootIdAssumption, MaxRootIdsAssumption DEF RootSlot
      <3>3. splinters'[j] = IF j = i THEN INVALID ELSE splinters[j]
        BY <2>1 DEF TypeInv
      <3>4. super_idx'[q] = IF q = r THEN -1 ELSE super_idx[q]
        BY <2>1 DEF TypeInv
      <3>5. splinters[j] = r => j = i
        BY <2>1 DEF SuperInv
      <3>6. QED
        BY <3>1, <3>2, <3>3, <3>4, <3>5, <2>1
    <2>5. QED
      BY <1>2, <2>2, <2>3, <2>4 DEF SuperInv
  <1>5. QED
    BY <1>3, <1>4

(* Unmount writes what memory has; mount finds it again and counts it.     *)
LEMMA MountPreserves ==
  ASSUME IInv, Unmount \/ Mount
  PROVE  IInv'
  <1> USE DEF IInv
  <1>1. CASE Unmount
    <2>1. TypeInv'
      BY <1>1 DEF TypeInv, Unmount, allocVars, superVars
    <2>2. Counting' = Counting /\ Uncounting' = Uncounting
      BY <1>1 DEF Counting, Uncounting, Unmount, allocVars
    <2>3. RefsInv' /\ CountingInv' /\ StatsInv' /\ SuperInv'
      BY <1>1, <2>2, FrameRefs, FrameStats, FrameCounting, FrameSupers
      DEF Unmount, allocVars
    <2>4. DiskInv'
      BY <1>1 DEF DiskInv, Unmount, allocVars, superVars
    <2>5. QED
      BY <2>1, <2>3, <2>4
  <1>2. CASE Mount
    <2>1. /\ ref_count' = ref_count /\ splinters' = splinters
          /\ UNCHANGED <<disk_refs, holds, pc, first_hand, mine, disk_meta, super_idx>>
          /\ mounted' /\ hand' = 0
          /\ curr_allocated' = Cardinality({e \in Extent : disk_refs[e] # 0})
      BY <1>2 DEF DiskInv, Mount, allocVars
    <2>2. InUse' = InUse /\ {e \in Extent : disk_refs[e] # 0} = InUse
      BY <1>2, <2>1 DEF DiskInv, InUse, Mount
    <2>3. /\ Counting = {} /\ Uncounting = {} /\ Counting' = {} /\ Uncounting' = {}
      BY <1>2, <2>1 DEF DiskInv, Counting, Uncounting, Mount
    <2>4. Cardinality(InUse) \in Int
      BY SetsAreFinite
    <2>5. TypeInv'
      <3>1. 0 \in Extent
        BY CapacityAssumption DEF Extent
      <3>2. QED
        BY <2>1, <2>2, <2>4, <3>1 DEF TypeInv
    <2>6. StatsInv'
      <3>1. Cardinality({}) = 0
        BY FS_EmptySet
      <3>2. Cardinality(Counting)' = 0 /\ Cardinality(Uncounting)' = 0
        BY <2>3, <3>1
      <3>3. Cardinality(InUse)' = Cardinality(InUse) /\ curr_allocated' = Cardinality(InUse)
        BY <2>1, <2>2
      <3>4. QED
        BY <2>4, <3>2, <3>3 DEF StatsInv
    <2>7. CountingInv'
      BY <2>3 DEF CountingInv
    <2>8. RefsInv' /\ SuperInv'
      BY <2>1, FrameRefs, FrameSupers DEF superVars
    <2>9. DiskInv'
      BY <2>1 DEF DiskInv
    <2>10. QED
      BY <2>5, <2>6, <2>7, <2>8, <2>9
  <1>3. QED
    BY <1>1, <1>2

LEMMA NextPreserves == IInv /\ [Next]_vars => IInv'
  <1> SUFFICES ASSUME IInv, [Next]_vars PROVE IInv'
    OBVIOUS
  <1>1. CASE Next
    <2>1. ASSUME NEW t \in Thread, AllocCall(t) PROVE IInv'
      BY <2>1, SearchPreserves
    <2>2. ASSUME NEW t \in Thread, AllocStep(t) PROVE IInv'
      BY <2>2, SearchPreserves, SwapPreserves, CountPreserves DEF AllocStep
    <2>3. ASSUME NEW t \in Thread, NEW e \in Extent, IncRef(t, e) \/ DecRef(t, e)
          PROVE  IInv'
      BY <2>3, IncRefPreserves, DecRefPreserves
    <2>4. ASSUME NEW r \in RootId, AllocSuperAddr(r) \/ RemoveSuperAddr(r)
          PROVE  IInv'
      BY <2>4, SuperPreserves
    <2>5. CASE Unmount \/ Mount
      BY <2>5, MountPreserves
    <2>6. QED
      BY <1>1, <2>1, <2>2, <2>3, <2>4, <2>5 DEF Next
  <1>2. CASE UNCHANGED vars
    <2>1. /\ UNCHANGED <<hand, ref_count, curr_allocated, disk_refs, mounted, holds,
                         pc, first_hand, mine, splinters, disk_meta, super_idx>>
      BY <1>2 DEF vars, allocVars, superVars
    <2>2. Counting' = Counting /\ Uncounting' = Uncounting
      BY <2>1 DEF Counting, Uncounting
    <2>3. TypeInv' /\ DiskInv'
      BY <2>1 DEF IInv, TypeInv, DiskInv
    <2>4. RefsInv' /\ CountingInv' /\ StatsInv' /\ SuperInv'
      BY <2>1, <2>2, FrameRefs, FrameStats, FrameCounting, FrameSupers
      DEF IInv, superVars
    <2>5. QED
      BY <2>3, <2>4 DEF IInv
  <1>3. QED
    BY <1>1, <1>2

(* IInv holds in every reachable state. *)
THEOREM Invariance == Spec => []IInv
  BY InitInv, NextPreserves, PTL DEF Spec

-----------------------------------------------------------------------------
(* What IInv implies. *)

(* Fewer threads are about to count than extents are in use: each of them  *)
(* owns an extent of its own.                                              *)
LEMMA CountingIsInUse ==
  ASSUME IInv
  PROVE  Cardinality(Counting) <= Cardinality(InUse)
  <1> DEFINE f == [t \in Counting |-> mine[t]]
  <1>1. ASSUME NEW t \in Counting PROVE mine[t] \in InUse
    <2>1. mine[t] \in Extent /\ t \in Thread /\ holds[t][mine[t]] > 0
      BY DEF IInv, TypeInv, CountingInv, Counting
    <2>2. /\ Cardinality(Owned(mine[t])) \in Nat
          /\ holds[t][mine[t]] <= Cardinality(Owned(mine[t]))
          /\ holds[t][mine[t]] \in Nat
      BY <2>1, OwnedIsFinite, RefMaxAssumption DEF IInv, TypeInv
    <2>3. /\ ref_count[mine[t]] = OwnRefs(mine[t]) + Cardinality(Owned(mine[t]))
          /\ OwnRefs(mine[t]) \in Nat
      BY <2>1 DEF IInv, RefsInv, OwnRefs
    <2>4. ref_count[mine[t]] # 0
      BY <2>1, <2>2, <2>3
    <2>5. QED
      BY <2>1, <2>4 DEF InUse
  <1>2. f \in Injection(Counting, InUse)
    BY <1>1 DEF Injection, IsInjective, IInv, CountingInv
  <1>3. QED
    BY <1>2, SetsAreFinite, FS_Injection

LEMMA IInvTypes == IInv => TypeOK
  <1> SUFFICES ASSUME IInv PROVE TypeOK
    OBVIOUS
  <1>1. /\ Cardinality(Counting) <= Cardinality(InUse)
        /\ Cardinality(InUse) \in 0 .. ExtentCapacity
        /\ Cardinality(Counting) \in Nat
        /\ Cardinality(Uncounting) \in 0 .. Cardinality(Thread)
        /\ Cardinality(Thread) \in Nat
    BY CountingIsInUse, SetsAreFinite, ThreadsAssumption, FS_CardinalityType
  <1>2. curr_allocated \in 0 .. ExtentCapacity + Cardinality(Thread)
    BY <1>1, CapacityAssumption DEF IInv, StatsInv
  <1>3. QED
    BY <1>2 DEF IInv, TypeInv, TypeOK

LEMMA IInvCounts == IInv => CountsMatchOwners
  <1> SUFFICES ASSUME IInv PROVE CountsMatchOwners
    OBVIOUS
  <1>1. RefCountsMatchOwners
    BY DEF IInv, RefsInv, RefCountsMatchOwners
  <1>2. ASSUME \A t \in Thread : pc[t] = "idle"
        PROVE  curr_allocated = ExtentCapacity - Cardinality(Free)
    <2>1. Counting = {} /\ Uncounting = {}
      BY <1>2 DEF Counting, Uncounting
    <2>2. Cardinality(Counting) = 0 /\ Cardinality(Uncounting) = 0
      BY <2>1, FS_EmptySet
    <2>3. InUse \in SUBSET Extent /\ Extent \ InUse = Free
      BY DEF InUse, Free
    <2>4. Cardinality(Extent \ InUse) = Cardinality(Extent) - Cardinality(Extent \cap InUse)
      BY SetsAreFinite, FS_Difference
    <2>5. Extent \cap InUse = InUse
      BY <2>3
    <2>6. Cardinality(InUse) \in Nat /\ Cardinality(Extent) = ExtentCapacity
      BY SetsAreFinite, FS_CardinalityType
    <2>7. Cardinality(Free) = ExtentCapacity - Cardinality(InUse)
      BY <2>3, <2>4, <2>5, <2>6
    <2>8. curr_allocated = Cardinality(InUse)
      BY <2>2, <2>6 DEF IInv, StatsInv
    <2>9. QED
      BY <2>6, <2>7, <2>8, CapacityAssumption
  <1>3. QED
    BY <1>1, <1>2 DEF CountsMatchOwners

LEMMA IInvSupers == IInv => SuperAddrsAreKept
  <1> SUFFICES ASSUME IInv, NEW r \in RootId PROVE FirstWith(r) = super_idx[r]
    BY DEF SuperAddrsAreKept
  <1>1. super_idx[r] \in RootSlot \cup {-1}
    BY DEF IInv, TypeInv
  <1>2. \A i \in RootSlot : splinters[i] = r <=> super_idx[r] = i
    BY DEF IInv, SuperInv
  <1>3. QED
    BY <1>1, <1>2, FirstWithFinds

(* The allocator's variables have their types; in particular the           *)
(* statistics never go below zero (rc_allocator_dec_ref, stats).           *)
THEOREM TypeCorrect == Spec => []TypeOK
  BY Invariance, IInvTypes, PTL

(* Every ref count is the references that owners hold, and the statistics  *)
(* count the extents in use whenever no call is in progress, whatever the  *)
(* interleaving of lock-free allocations and across every mount            *)
(* (rc_allocator_alloc, inc_ref, dec_ref, unmount, mount).                 *)
THEOREM CountsAreExact == Spec => []CountsMatchOwners
  BY Invariance, IInvCounts, PTL

(* A table finds its super block where it was put, after any number of     *)
(* mounts (rc_allocator_alloc_super_addr, get_super_addr,                  *)
(* remove_super_addr).                                                     *)
THEOREM SupersAreKept == Spec => []SuperAddrsAreKept
  BY Invariance, IInvSupers, PTL
=============================================================================
