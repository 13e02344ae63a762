------------------------ MODULE ThreadRegistryProofs ------------------------
(***************************************************************************)
(* Proofs about thread registration, for any set of threads and any number *)
(* of ids: the inductive invariant IInv of ThreadRegistry and the three    *)
(* safety properties it implies.                                           *)
(***************************************************************************)
EXTENDS ThreadRegistry, WellFoundedInduction, TLAPS

(* The first set bit of a mask that is not empty is one of its bits. *)
LEMMA MinIsMember ==
  ASSUME NEW S \in SUBSET Nat, S # {}
  PROVE  Min(S) \in S
  <1> DEFINE R == {p \in Nat \X Nat : p[1] < p[2]}
  <1>1. OpToRel(<, Nat) = R
    BY Zenon DEF OpToRel
  <1>2. IsWellFoundedOn(R, Nat)
    BY <1>1, NatLessThanWellFounded
  <1>3. PICK x \in S : \A y \in S : ~(<<y, x>> \in R)
    BY <1>2, WFMin
  <1>4. ASSUME NEW y \in S PROVE x <= y
    <2>1. x \in Nat /\ y \in Nat
      OBVIOUS
    <2>2. y < x => <<y, x>> \in R
      BY <2>1
    <2>3. QED
      BY <1>3, <2>1, <2>2
  <1>5. QED
    BY <1>4 DEF Min

(* Initially every id is free and nobody owns one. *)
LEMMA InitInv == Init => IInv
  BY MaxThreadsAssumption
  DEF Init, IInv, TypeOK, SwapInv, IdsAreUnique, MaxInv, ScratchInv, Owns,
      Tid, INVALID_TID

(* The accesses of task_allocate_threadid: an id is taken from a mask that *)
(* has not changed since it was read, so nobody else can own it.           *)
LEMMA RegisterPreserves ==
  ASSUME IInv, NEW t \in Thread,
         \/ Register(t) \/ ReadMask(t) \/ SwapMask(t) \/ RaiseMax(t) \/ TakeScratch(t)
  PROVE  IInv'
  <1> USE MaxThreadsAssumption
      DEF IInv, TypeOK, Owns, Tid, Goto, INVALID_TID
  <1>1. CASE Register(t)
    <2>1. TypeOK'
      BY <1>1 DEF SwapInv, Register
    <2>2. SwapInv'
      BY <1>1 DEF SwapInv, Register
    <2>3. IdsAreUnique'
      BY <1>1 DEF SwapInv, IdsAreUnique, Register
    <2>4. MaxInv'
      BY <1>1 DEF MaxInv, Register
    <2>5. ScratchInv'
      BY <1>1 DEF IdsAreUnique, ScratchInv, Register
    <2>6. QED
      BY <2>1, <2>2, <2>3, <2>4, <2>5
  <1>2. CASE ReadMask(t)
    <2>1. tid_bitmask # {} => Min(tid_bitmask) \in tid_bitmask
      BY MinIsMember
    <2>2. TypeOK'
      BY <1>2, <2>1 DEF SwapInv, ReadMask
    <2>3. SwapInv'
      BY <1>2, <2>1 DEF SwapInv, ReadMask
    <2>4. IdsAreUnique'
      BY <1>2, <2>1 DEF SwapInv, IdsAreUnique, ReadMask
    <2>5. MaxInv'
      BY <1>2, <2>1 DEF MaxInv, ReadMask
    <2>6. ScratchInv'
      BY <1>2, <2>1 DEF IdsAreUnique, ScratchInv, ReadMask
    <2>7. QED
      BY <2>2, <2>3, <2>4, <2>5, <2>6
  <1>3. CASE SwapMask(t)
    <2>1. TypeOK'
      BY <1>3 DEF SwapInv, SwapMask
    <2>2. SwapInv'
      BY <1>3 DEF SwapInv, SwapMask
    <2>3. IdsAreUnique'
      BY <1>3 DEF SwapInv, IdsAreUnique, SwapMask
    <2>4. MaxInv'
      BY <1>3 DEF MaxInv, SwapMask
    <2>5. ScratchInv'
      BY <1>3 DEF IdsAreUnique, ScratchInv, SwapMask
    <2>6. QED
      BY <2>1, <2>2, <2>3, <2>4, <2>5
  <1>4. CASE RaiseMax(t)
    <2>1. CASE /\ tmp[t] >= tid[t]
               /\ Goto(t, "max", "scratch")
               /\ tmp' = [tmp EXCEPT ![t] = 0]
               /\ UNCHANGED <<tid_bitmask, max_tid, scratch, tid, old>>
      <3>1. TypeOK'
        BY <2>1 DEF SwapInv
      <3>2. SwapInv'
        BY <2>1 DEF SwapInv
      <3>3. IdsAreUnique'
        BY <2>1 DEF SwapInv, IdsAreUnique
      <3>4. MaxInv'
        BY <2>1 DEF MaxInv
      <3>5. ScratchInv'
        BY <2>1 DEF IdsAreUnique, ScratchInv
      <3>6. QED
        BY <3>1, <3>2, <3>3, <3>4, <3>5
    <2>2. CASE /\ tmp[t] < tid[t] /\ max_tid = tmp[t]
               /\ Goto(t, "max", "scratch")
               /\ max_tid' = tid[t]
               /\ tmp' = [tmp EXCEPT ![t] = 0]
               /\ UNCHANGED <<tid_bitmask, scratch, tid, old>>
      <3>1. TypeOK'
        BY <2>2 DEF SwapInv
      <3>2. SwapInv'
        BY <2>2 DEF SwapInv
      <3>3. IdsAreUnique'
        BY <2>2 DEF SwapInv, IdsAreUnique
      <3>4. MaxInv'
        BY <2>2 DEF MaxInv
      <3>5. ScratchInv'
        BY <2>2 DEF IdsAreUnique, ScratchInv
      <3>6. QED
        BY <3>1, <3>2, <3>3, <3>4, <3>5
    <2>3. CASE /\ tmp[t] < tid[t] /\ max_tid # tmp[t]
               /\ pc[t] = "max"
               /\ tmp' = [tmp EXCEPT ![t] = max_tid]
               /\ UNCHANGED <<tid_bitmask, max_tid, scratch, pc, tid, old>>
      <3>1. TypeOK'
        BY <2>3 DEF SwapInv
      <3>2. SwapInv'
        BY <2>3 DEF SwapInv
      <3>3. IdsAreUnique'
        BY <2>3 DEF SwapInv, IdsAreUnique
      <3>4. MaxInv'
        BY <2>3 DEF MaxInv
      <3>5. ScratchInv'
        BY <2>3 DEF IdsAreUnique, ScratchInv
      <3>6. QED
        BY <3>1, <3>2, <3>3, <3>4, <3>5
    <2>4. QED
      BY <1>4, <2>1, <2>2, <2>3 DEF RaiseMax
  <1>5. CASE TakeScratch(t)
    <2>1. CASE /\ Goto(t, "scratch", "registered")
               /\ scratch' = scratch \cup {tid[t]}
               /\ UNCHANGED <<tid_bitmask, max_tid, tid, old, tmp>>
      <3>1. TypeOK'
        BY <2>1 DEF SwapInv
      <3>2. SwapInv'
        BY <2>1 DEF SwapInv
      <3>3. IdsAreUnique'
        BY <2>1 DEF SwapInv, IdsAreUnique
      <3>4. MaxInv'
        BY <2>1 DEF MaxInv
      <3>5. ScratchInv'
        BY <2>1 DEF IdsAreUnique, ScratchInv
      <3>6. QED
        BY <3>1, <3>2, <3>3, <3>4, <3>5
    <2>2. CASE /\ \/ Goto(t, "scratch", "registered")
                  \/ Goto(t, "scratch", "free")
               /\ UNCHANGED <<tid_bitmask, max_tid, scratch, tid, old, tmp>>
      <3>1. TypeOK'
        BY <2>2 DEF SwapInv
      <3>2. SwapInv'
        BY <2>2 DEF SwapInv
      <3>3. IdsAreUnique'
        BY <2>2 DEF SwapInv, IdsAreUnique
      <3>4. MaxInv'
        BY <2>2 DEF MaxInv
      <3>5. ScratchInv'
        BY <2>2 DEF IdsAreUnique, ScratchInv
      <3>6. QED
        BY <3>1, <3>2, <3>3, <3>4, <3>5
    <2>3. QED
      BY <1>5, <2>1, <2>2 DEF TakeScratch
  <1>6. QED
    BY <1>1, <1>2, <1>3, <1>4, <1>5

(* The accesses of task_deregister_thread: the scratch memory goes before  *)
(* the id, and the id returns to a mask nobody changed meanwhile.          *)
LEMMA DeregisterPreserves ==
  ASSUME IInv, NEW t \in Thread,
         \/ Deregister(t) \/ ReadMaskToFree(t) \/ FreeTid(t)
  PROVE  IInv'
  <1> USE MaxThreadsAssumption
      DEF IInv, TypeOK, Owns, Tid, Goto, INVALID_TID
  <1>1. CASE Deregister(t)
    <2>1. TypeOK'
      BY <1>1 DEF SwapInv, Deregister
    <2>2. SwapInv'
      BY <1>1 DEF SwapInv, Deregister
    <2>3. IdsAreUnique'
      BY <1>1 DEF SwapInv, IdsAreUnique, Deregister
    <2>4. MaxInv'
      BY <1>1 DEF MaxInv, Deregister
    <2>5. ScratchInv'
      BY <1>1 DEF IdsAreUnique, ScratchInv, Deregister
    <2>6. QED
      BY <2>1, <2>2, <2>3, <2>4, <2>5
  <1>2. CASE ReadMaskToFree(t)
    <2>1. TypeOK'
      BY <1>2 DEF SwapInv, ReadMaskToFree
    <2>2. SwapInv'
      BY <1>2 DEF SwapInv, ReadMaskToFree
    <2>3. IdsAreUnique'
      BY <1>2 DEF SwapInv, IdsAreUnique, ReadMaskToFree
    <2>4. MaxInv'
      BY <1>2 DEF MaxInv, ReadMaskToFree
    <2>5. ScratchInv'
      BY <1>2 DEF IdsAreUnique, ScratchInv, ReadMaskToFree
    <2>6. QED
      BY <2>1, <2>2, <2>3, <2>4, <2>5
  <1>3. CASE FreeTid(t)
    <2>1. TypeOK'
      BY <1>3 DEF SwapInv, FreeTid
    <2>2. SwapInv'
      BY <1>3 DEF SwapInv, FreeTid
    <2>3. IdsAreUnique'
      BY <1>3 DEF SwapInv, IdsAreUnique, FreeTid
    <2>4. MaxInv'
      BY <1>3 DEF MaxInv, FreeTid
    <2>5. ScratchInv'
      BY <1>3 DEF IdsAreUnique, ScratchInv, FreeTid
    <2>6. QED
      BY <2>1, <2>2, <2>3, <2>4, <2>5
  <1>4. QED
    BY <1>1, <1>2, <1>3

(* IInv is an invariant for any set of threads and any number of ids. *)
THEOREM Invariance == Spec => []IInv
  <1>1. IInv /\ [Next]_vars => IInv'
    <2> SUFFICES ASSUME IInv, [Next]_vars PROVE IInv'
      OBVIOUS
    <2>1. CASE UNCHANGED vars
      BY <2>1
      DEF vars, IInv, TypeOK, SwapInv, IdsAreUnique, MaxInv, ScratchInv, Owns
    <2>2. CASE Next
      BY <2>2, RegisterPreserves, DeregisterPreserves DEF Next
    <2>3. QED
      BY <2>1, <2>2
  <1>2. QED
    BY InitInv, <1>1, PTL DEF Spec

(* No two registered threads share an id and no id is lost. *)
THEOREM UniqueIds == Spec => []IdsAreUnique
  <1>1. IInv => IdsAreUnique
    BY DEF IInv
  <1>2. QED
    BY Invariance, <1>1, PTL

(* A loop up to task_get_max_tid covers every registered thread. *)
THEOREM MaxTidCorrect == Spec => []MaxTidCoversAll
  <1>1. IInv => MaxTidCoversAll
    BY DEF IInv, MaxInv, MaxTidCoversAll
  <1>2. QED
    BY Invariance, <1>1, PTL

(* The platform_assert on thread_scratch in task_register_thread never     *)
(* fails: a reused id comes without scratch memory.                        *)
THEOREM ScratchCorrect == Spec => []ScratchIsFresh
  <1>1. IInv => ScratchIsFresh
    BY DEF IInv, ScratchInv, IdsAreUnique, Owns, ScratchIsFresh
  <1>2. QED
    BY Invariance, <1>1, PTL
=============================================================================
