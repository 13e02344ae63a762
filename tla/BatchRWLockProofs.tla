-------------------------- MODULE BatchRWLockProofs -------------------------
(***************************************************************************)
(* Proofs about the batch lock, for every number of threads: the inductive *)
(* invariant IInv of BatchRWLock, the safety properties it implies, and    *)
(* the refinement of the abstract lock RWLock.                             *)
(***************************************************************************)
EXTENDS BatchRWLock, TLAPS

(* The initial state, no thread inside the lock, satisfies the invariant. *)
LEMMA InitInv == Init => IInv
  BY MaxThreadsAssumption
  DEF Init, IInv, TypeOK, CounterInv, ClaimInv, LockInv, ScanInv, DrainInv,
      WriterAlone, UpgradeKeepsReads, Reading, Claiming, Relies, Thread, PC

(* The accesses of platform_batch_rwlock_get and unget: a thread joins the *)
(* readers only where it finds the lock flag clear, hence nobody drains or *)
(* writes.                                                                 *)
LEMMA GetPreserves ==
  ASSUME IInv, NEW t \in Thread,
         \/ GetCall(t) \/ GetSpin(t) \/ GetInc(t) \/ GetReturn(t)
         \/ GetLost(t) \/ GetUndo(t) \/ Unget(t)
  PROVE  IInv'
  <1> USE MaxThreadsAssumption
      DEF IInv, TypeOK, Reading, Claiming, Thread, PC, Goto, Count
  <1>1. CASE GetCall(t)
    <2>1. TypeOK' /\ CounterInv'
      BY <1>1 DEF CounterInv, GetCall
    <2>2. ClaimInv' /\ LockInv' /\ ScanInv'
      BY <1>1 DEF ClaimInv, LockInv, ScanInv, GetCall
    <2>3. DrainInv' /\ WriterAlone'
      BY <1>1 DEF CounterInv, ClaimInv, LockInv, ScanInv, DrainInv,
            WriterAlone, GetCall
    <2>4. UpgradeKeepsReads'
      BY <1>1 DEF WriterAlone, UpgradeKeepsReads, Relies, GetCall
    <2>5. QED
      BY <2>1, <2>2, <2>3, <2>4
  <1>2. CASE GetSpin(t)
    <2>1. TypeOK' /\ CounterInv'
      BY <1>2 DEF CounterInv, GetSpin
    <2>2. ClaimInv' /\ LockInv' /\ ScanInv'
      BY <1>2 DEF ClaimInv, LockInv, ScanInv, GetSpin
    <2>3. DrainInv' /\ WriterAlone'
      BY <1>2 DEF CounterInv, ClaimInv, LockInv, ScanInv, DrainInv,
            WriterAlone, GetSpin
    <2>4. UpgradeKeepsReads'
      BY <1>2 DEF WriterAlone, UpgradeKeepsReads, Relies, GetSpin
    <2>5. QED
      BY <2>1, <2>2, <2>3, <2>4
  <1>3. CASE GetInc(t)
    <2>1. read_counter[t] = 0
      BY <1>3 DEF CounterInv, GetInc
    <2>2. TypeOK' /\ CounterInv'
      BY <1>3, <2>1 DEF CounterInv, GetInc
    <2>3. ClaimInv' /\ LockInv' /\ ScanInv'
      BY <1>3, <2>1 DEF ClaimInv, LockInv, ScanInv, GetInc
    <2>4. DrainInv' /\ WriterAlone'
      BY <1>3, <2>1 DEF CounterInv, ClaimInv, LockInv, ScanInv, DrainInv,
            WriterAlone, GetInc
    <2>5. UpgradeKeepsReads'
      BY <1>3, <2>1 DEF WriterAlone, UpgradeKeepsReads, Relies, GetInc
    <2>6. QED
      BY <2>2, <2>3, <2>4, <2>5
  <1>4. CASE GetReturn(t)
    <2>1. TypeOK' /\ CounterInv'
      BY <1>4 DEF CounterInv, GetReturn
    <2>2. ClaimInv' /\ LockInv' /\ ScanInv'
      BY <1>4 DEF ClaimInv, LockInv, ScanInv, GetReturn
    <2>3. DrainInv' /\ WriterAlone'
      BY <1>4 DEF CounterInv, ClaimInv, LockInv, ScanInv, DrainInv,
            WriterAlone, GetReturn
    <2>4. UpgradeKeepsReads'
      BY <1>4 DEF WriterAlone, UpgradeKeepsReads, Relies, GetReturn
    <2>5. QED
      BY <2>1, <2>2, <2>3, <2>4
  <1>5. CASE GetLost(t)
    <2>1. TypeOK' /\ CounterInv'
      BY <1>5 DEF CounterInv, GetLost
    <2>2. ClaimInv' /\ LockInv' /\ ScanInv'
      BY <1>5 DEF ClaimInv, LockInv, ScanInv, GetLost
    <2>3. DrainInv' /\ WriterAlone'
      BY <1>5 DEF CounterInv, ClaimInv, LockInv, ScanInv, DrainInv,
            WriterAlone, GetLost
    <2>4. UpgradeKeepsReads'
      BY <1>5 DEF WriterAlone, UpgradeKeepsReads, Relies, GetLost
    <2>5. QED
      BY <2>1, <2>2, <2>3, <2>4
  <1>6. CASE GetUndo(t)
    <2>1. TypeOK' /\ CounterInv'
      BY <1>6 DEF CounterInv, GetUndo
    <2>2. ClaimInv' /\ LockInv' /\ ScanInv'
      BY <1>6 DEF ClaimInv, LockInv, ScanInv, GetUndo
    <2>3. DrainInv' /\ WriterAlone'
      BY <1>6 DEF CounterInv, ClaimInv, LockInv, ScanInv, DrainInv,
            WriterAlone, GetUndo
    <2>4. UpgradeKeepsReads'
      BY <1>6 DEF WriterAlone, UpgradeKeepsReads, Relies, GetUndo
    <2>5. QED
      BY <2>1, <2>2, <2>3, <2>4
  <1>7. CASE Unget(t)
    <2>1. TypeOK' /\ CounterInv'
      BY <1>7 DEF CounterInv, Unget
    <2>2. ClaimInv' /\ LockInv' /\ ScanInv'
      BY <1>7 DEF ClaimInv, LockInv, ScanInv, Unget
    <2>3. DrainInv' /\ WriterAlone'
      BY <1>7 DEF CounterInv, ClaimInv, LockInv, ScanInv, DrainInv,
            WriterAlone, Unget
    <2>4. UpgradeKeepsReads'
      BY <1>7 DEF WriterAlone, UpgradeKeepsReads, Relies, Unget
    <2>5. QED
      BY <2>1, <2>2, <2>3, <2>4
  <1>8. QED
    BY <1>1, <1>2, <1>3, <1>4, <1>5, <1>6, <1>7

(* The accesses of try_claim, claim_loop and unclaim: the claim flag lets  *)
(* one thread at a time through, and a claim never drops what was seen.    *)
LEMMA ClaimPreserves ==
  ASSUME IInv, NEW t \in Thread,
         \/ TryClaim(t) \/ TryClaimLost(t) \/ LoopUnget(t)
         \/ ClaimDec(t) \/ UnclaimInc(t) \/ UnclaimRelease(t)
  PROVE  IInv'
  <1> USE MaxThreadsAssumption
      DEF IInv, TypeOK, Reading, Claiming, Thread, PC, Goto, Count
  <1>1. CASE TryClaim(t)
    <2>1. TypeOK' /\ CounterInv'
      BY <1>1 DEF CounterInv, TryClaim
    <2>2. ClaimInv' /\ LockInv' /\ ScanInv'
      BY <1>1 DEF ClaimInv, LockInv, ScanInv, TryClaim
    <2>3. DrainInv' /\ WriterAlone'
      BY <1>1 DEF CounterInv, ClaimInv, LockInv, ScanInv, DrainInv,
            WriterAlone, TryClaim
    <2>4. UpgradeKeepsReads'
      BY <1>1 DEF WriterAlone, UpgradeKeepsReads, Relies, TryClaim
    <2>5. QED
      BY <2>1, <2>2, <2>3, <2>4
  <1>2. CASE TryClaimLost(t)
    <2>1. TypeOK' /\ CounterInv'
      BY <1>2 DEF CounterInv, TryClaimLost
    <2>2. ClaimInv' /\ LockInv' /\ ScanInv'
      BY <1>2 DEF ClaimInv, LockInv, ScanInv, TryClaimLost
    <2>3. DrainInv' /\ WriterAlone'
      BY <1>2 DEF CounterInv, ClaimInv, LockInv, ScanInv, DrainInv,
            WriterAlone, TryClaimLost
    <2>4. UpgradeKeepsReads'
      BY <1>2 DEF WriterAlone, UpgradeKeepsReads, Relies, TryClaimLost
    <2>5. QED
      BY <2>1, <2>2, <2>3, <2>4
  <1>3. CASE LoopUnget(t)
    <2>1. TypeOK' /\ CounterInv'
      BY <1>3 DEF CounterInv, LoopUnget
    <2>2. ClaimInv' /\ LockInv' /\ ScanInv'
      BY <1>3 DEF ClaimInv, LockInv, ScanInv, LoopUnget
    <2>3. DrainInv' /\ WriterAlone'
      BY <1>3 DEF CounterInv, ClaimInv, LockInv, ScanInv, DrainInv,
            WriterAlone, LoopUnget
    <2>4. UpgradeKeepsReads'
      BY <1>3 DEF WriterAlone, UpgradeKeepsReads, Relies, LoopUnget
    <2>5. QED
      BY <2>1, <2>2, <2>3, <2>4
  <1>4. CASE ClaimDec(t)
    <2>1. TypeOK' /\ CounterInv'
      BY <1>4 DEF CounterInv, ClaimDec
    <2>2. ClaimInv' /\ LockInv' /\ ScanInv'
      BY <1>4 DEF ClaimInv, LockInv, ScanInv, ClaimDec
    <2>3. DrainInv' /\ WriterAlone'
      BY <1>4 DEF CounterInv, ClaimInv, LockInv, ScanInv, DrainInv,
            WriterAlone, ClaimDec
    <2>4. UpgradeKeepsReads'
      BY <1>4 DEF WriterAlone, UpgradeKeepsReads, Relies, ClaimDec
    <2>5. QED
      BY <2>1, <2>2, <2>3, <2>4
  <1>5. CASE UnclaimInc(t)
    <2>1. read_counter[t] = 0
      BY <1>5 DEF CounterInv, UnclaimInc
    <2>2. TypeOK' /\ CounterInv'
      BY <1>5, <2>1 DEF CounterInv, UnclaimInc
    <2>3. ClaimInv' /\ LockInv' /\ ScanInv'
      BY <1>5, <2>1 DEF ClaimInv, LockInv, ScanInv, UnclaimInc
    <2>4. DrainInv' /\ WriterAlone'
      BY <1>5, <2>1 DEF CounterInv, ClaimInv, LockInv, ScanInv, DrainInv,
            WriterAlone, UnclaimInc
    <2>5. UpgradeKeepsReads'
      BY <1>5, <2>1 DEF WriterAlone, UpgradeKeepsReads, Relies, UnclaimInc
    <2>6. QED
      BY <2>2, <2>3, <2>4, <2>5
  <1>6. CASE UnclaimRelease(t)
    <2>1. TypeOK' /\ CounterInv'
      BY <1>6 DEF CounterInv, UnclaimRelease
    <2>2. ClaimInv' /\ LockInv' /\ ScanInv'
      BY <1>6 DEF ClaimInv, LockInv, ScanInv, UnclaimRelease
    <2>3. DrainInv' /\ WriterAlone'
      BY <1>6 DEF CounterInv, ClaimInv, LockInv, ScanInv, DrainInv,
            WriterAlone, UnclaimRelease
    <2>4. UpgradeKeepsReads'
      BY <1>6 DEF WriterAlone, UpgradeKeepsReads, Relies, UnclaimRelease
    <2>5. QED
      BY <2>1, <2>2, <2>3, <2>4
  <1>7. QED
    BY <1>1, <1>2, <1>3, <1>4, <1>5, <1>6

(* The accesses of lock and unlock: the draining loop leaves behind it only *)
(* threads that do not read, so the writer ends up alone.                  *)
LEMMA LockPreserves ==
  ASSUME IInv, NEW t \in Thread,
         \/ LockSet(t) \/ LockDrain(t) \/ LockReturn(t) \/ Write(t)
         \/ Unlock(t)
  PROVE  IInv'
  <1> USE MaxThreadsAssumption
      DEF IInv, TypeOK, Reading, Claiming, Thread, PC, Goto, Count
  <1>1. CASE LockSet(t)
    <2>1. TypeOK' /\ CounterInv'
      BY <1>1 DEF CounterInv, LockSet
    <2>2. ClaimInv' /\ LockInv' /\ ScanInv'
      BY <1>1 DEF ClaimInv, LockInv, ScanInv, LockSet
    <2>3. DrainInv' /\ WriterAlone'
      BY <1>1 DEF CounterInv, ClaimInv, LockInv, ScanInv, DrainInv,
            WriterAlone, LockSet
    <2>4. UpgradeKeepsReads'
      BY <1>1 DEF WriterAlone, UpgradeKeepsReads, Relies, LockSet
    <2>5. QED
      BY <2>1, <2>2, <2>3, <2>4
  <1>2. CASE LockDrain(t)
    <2>1. TypeOK' /\ CounterInv'
      BY <1>2 DEF CounterInv, LockDrain
    <2>2. ClaimInv' /\ LockInv' /\ ScanInv'
      BY <1>2 DEF ClaimInv, LockInv, ScanInv, LockDrain
    <2>3. DrainInv' /\ WriterAlone'
      BY <1>2 DEF CounterInv, ClaimInv, LockInv, ScanInv, DrainInv,
            WriterAlone, LockDrain
    <2>4. UpgradeKeepsReads'
      BY <1>2 DEF WriterAlone, UpgradeKeepsReads, Relies, LockDrain
    <2>5. QED
      BY <2>1, <2>2, <2>3, <2>4
  <1>3. CASE LockReturn(t)
    <2>1. TypeOK'
      BY <1>3 DEF LockReturn
    <2>2. CounterInv'
      BY <1>3 DEF CounterInv, LockReturn
    <2>3. ClaimInv' /\ LockInv' /\ ScanInv'
      BY <1>3 DEF ClaimInv, LockInv, ScanInv, LockReturn
    <2>4. DrainInv' /\ WriterAlone'
      BY <1>3 DEF CounterInv, ClaimInv, LockInv, ScanInv, DrainInv,
            WriterAlone, LockReturn
    <2>5. UpgradeKeepsReads'
      BY <1>3 DEF WriterAlone, UpgradeKeepsReads, Relies, LockReturn
    <2>6. QED
      BY <2>1, <2>2, <2>3, <2>4, <2>5
  <1>4. CASE Write(t)
    <2>1. TypeOK' /\ CounterInv'
      BY <1>4 DEF CounterInv, Write
    <2>2. ClaimInv' /\ LockInv' /\ ScanInv'
      BY <1>4 DEF ClaimInv, LockInv, ScanInv, Write
    <2>3. DrainInv' /\ WriterAlone'
      BY <1>4 DEF CounterInv, ClaimInv, LockInv, ScanInv, DrainInv,
            WriterAlone, Write
    <2>4. UpgradeKeepsReads'
      BY <1>4 DEF WriterAlone, UpgradeKeepsReads, Relies, Write
    <2>5. QED
      BY <2>1, <2>2, <2>3, <2>4
  <1>5. CASE Unlock(t)
    <2>1. TypeOK' /\ CounterInv'
      BY <1>5 DEF CounterInv, Unlock
    <2>2. ClaimInv' /\ LockInv' /\ ScanInv'
      BY <1>5 DEF ClaimInv, LockInv, ScanInv, Unlock
    <2>3. DrainInv' /\ WriterAlone'
      BY <1>5 DEF CounterInv, ClaimInv, LockInv, ScanInv, DrainInv,
            WriterAlone, Unlock
    <2>4. UpgradeKeepsReads'
      BY <1>5 DEF WriterAlone, UpgradeKeepsReads, Relies, Unlock
    <2>5. QED
      BY <2>1, <2>2, <2>3, <2>4
  <1>6. QED
    BY <1>1, <1>2, <1>3, <1>4, <1>5

(* Every step of the lock preserves the invariant. *)
LEMMA StepInv == IInv /\ [Next]_vars => IInv'
  <1> SUFFICES ASSUME IInv, [Next]_vars PROVE IInv'
    OBVIOUS
  <1>1. CASE UNCHANGED vars
    BY <1>1
    DEF vars, IInv, TypeOK, CounterInv, ClaimInv, LockInv, ScanInv, DrainInv,
        WriterAlone, UpgradeKeepsReads, Reading, Claiming, Relies
  <1>2. CASE Next
    <2>1. PICK t \in Thread :
             \/ GetCall(t) \/ TryClaim(t) \/ LockSet(t) \/ Write(t)
             \/ Unlock(t) \/ UnclaimInc(t) \/ Unget(t) \/ Proceed(t)
      BY <1>2 DEF Next
    <2>2. QED
      BY <2>1, GetPreserves, ClaimPreserves, LockPreserves DEF Proceed
  <1>3. QED
    BY <1>1, <1>2

(* IInv is an invariant of the lock, whatever the number of threads. *)
THEOREM Invariance == Spec => []IInv
  <1>1. QED
    BY InitInv, StepInv, PTL DEF Spec

(* The variables keep their types; in particular a read counter never      *)
(* leaves 0 and 1, so no increment of get is taken back twice or forgotten. *)
THEOREM TypeCorrect == Spec => []TypeOK
  <1>1. IInv => TypeOK
    BY DEF IInv
  <1>2. QED
    BY Invariance, <1>1, PTL

(* platform_batch_rwlock_lock returns only to a thread that is alone: no   *)
(* other thread holds a read lock, a claim or the write lock.              *)
THEOREM MutualExclusion == Spec => []WriterAlone
  <1>1. IInv => WriterAlone
    BY DEF IInv
  <1>2. QED
    BY Invariance, <1>1, PTL

(* What a thread read under the lock is still true after try_claim and     *)
(* lock have upgraded it.                                                  *)
THEOREM UpgradeIsAtomic == Spec => []UpgradeKeepsReads
  <1>1. IInv => UpgradeKeepsReads
    BY DEF IInv
  <1>2. QED
    BY Invariance, <1>1, PTL

-----------------------------------------------------------------------------
(* The refinement of RWLock. *)

Mode == [t \in Thread |-> ModeOf(t)]

(* A step that moves thread t from one program counter to another changes  *)
(* the abstract lock only where t's mode is concerned.                     *)
LEMMA ModeChange ==
  ASSUME NEW t \in Thread, NEW from \in PC, NEW to \in PC,
         pc \in [Thread -> PC], Goto(t, from, to)
  PROVE  /\ Mode' = [Mode EXCEPT ![t] = ModeOf(t)']
         /\ pc'[t] = to
         /\ \A u \in Thread \ {t} : ModeOf(u)' = ModeOf(u)
  BY DEF Goto, ModeOf, Mode

(* Each access of the code is one step of the abstract lock or leaves it   *)
(* unchanged: a reader enters at its second look at the lock flag, a claim *)
(* is made by the test-and-set and given back by the clearing of the flag. *)
LEMMA StepRefines ==
  ASSUME IInv, [Next]_vars
  PROVE  Abstract!RWNext \/ Mode' = Mode
  <1>1. CASE UNCHANGED vars
    BY <1>1 DEF vars, Mode, ModeOf
  <1>2. CASE Next
    <2>1. PICK t \in Thread :
             \/ GetCall(t) \/ TryClaim(t) \/ LockSet(t) \/ Write(t)
             \/ Unlock(t) \/ UnclaimInc(t) \/ Unget(t) \/ Proceed(t)
      BY <1>2 DEF Next
    <2>2. pc \in [Thread -> PC]
      BY DEF IInv, TypeOK
    <2>3. CASE GetReturn(t)
      <3>1. \A u \in Thread : pc[u] \notin {"drain", "write"}
        BY <2>3 DEF GetReturn, IInv, LockInv
      <3>2. Goto(t, "check", "try") \/ Goto(t, "check", "read")
        BY <2>3 DEF GetReturn
      <3>3. /\ Mode[t] = "none" /\ Mode' = [Mode EXCEPT ![t] = "read"]
            /\ \A u \in Thread : Mode[u] \notin {"drain", "write"}
        BY <2>2, <3>1, <3>2, ModeChange DEF ModeOf, Mode, PC, Goto
      <3>4. Abstract!Get(t)
        BY <3>3 DEF Abstract!Get, Abstract!Move, Mode
      <3>5. QED
        BY <3>4 DEF Abstract!RWNext
    <2>4. CASE Unget(t) \/ LoopUnget(t)
      <3>1. Goto(t, "read", "idle") \/ Goto(t, "loopunget", "spin")
        BY <2>4 DEF Unget, LoopUnget
      <3>2. Mode[t] = "read" /\ Mode' = [Mode EXCEPT ![t] = "none"]
        BY <2>2, <3>1, ModeChange DEF ModeOf, Mode, PC, Goto
      <3>3. Abstract!Unget(t)
        BY <3>2 DEF Abstract!Unget, Abstract!Move, Mode
      <3>4. QED
        BY <3>3 DEF Abstract!RWNext
    <2>5. CASE TryClaim(t)
      <3>1. \A u \in Thread : ~Claiming(u)
        BY <2>5 DEF TryClaim, IInv, ClaimInv
      <3>2. Goto(t, "read", "claimdec") \/ Goto(t, "try", "claimdec")
        BY <2>5 DEF TryClaim
      <3>3. /\ Mode[t] = "read" /\ Mode' = [Mode EXCEPT ![t] = "claim"]
            /\ \A u \in Thread : Mode[u] \notin {"claim", "drain", "write"}
        BY <2>2, <3>1, <3>2, ModeChange DEF ModeOf, Mode, PC, Goto, Claiming
      <3>4. Abstract!Claim(t)
        BY <3>3 DEF Abstract!Claim, Abstract!Claims, Abstract!Move, Mode
      <3>5. QED
        BY <3>4 DEF Abstract!RWNext
    <2>6. CASE UnclaimRelease(t)
      <3>1. Mode[t] = "claim" /\ Mode' = [Mode EXCEPT ![t] = "read"]
        BY <2>2, <2>6, ModeChange DEF UnclaimRelease, ModeOf, Mode, PC, Goto
      <3>2. Abstract!Unclaim(t)
        BY <3>1 DEF Abstract!Unclaim, Abstract!Move, Mode
      <3>3. QED
        BY <3>2 DEF Abstract!RWNext
    <2>7. CASE LockSet(t)
      <3>1. Mode[t] = "claim" /\ Mode' = [Mode EXCEPT ![t] = "drain"]
        BY <2>2, <2>7, ModeChange DEF LockSet, ModeOf, Mode, PC, Goto
      <3>2. Abstract!Lock(t)
        BY <3>1 DEF Abstract!Lock, Abstract!Move, Mode
      <3>3. QED
        BY <3>2 DEF Abstract!RWNext
    <2>8. CASE LockReturn(t)
      <3>1. \A u \in Thread \ {t} : ~Reading(u) /\ ~Claiming(u)
        BY <2>8, MaxThreadsAssumption
        DEF LockReturn, Goto, IInv, DrainInv, ClaimInv, Claiming, Thread
      <3>2. /\ Mode[t] = "drain" /\ Mode' = [Mode EXCEPT ![t] = "write"]
            /\ \A u \in Thread \ {t} : Mode[u] = "none"
        BY <2>2, <2>8, <3>1, ModeChange
        DEF LockReturn, ModeOf, Mode, PC, Goto, Reading, Claiming
      <3>3. Abstract!Drained(t)
        BY <3>2 DEF Abstract!Drained, Abstract!Move, Mode
      <3>4. QED
        BY <3>3 DEF Abstract!RWNext
    <2>9. CASE Unlock(t)
      <3>1. Mode[t] = "write" /\ Mode' = [Mode EXCEPT ![t] = "claim"]
        BY <2>2, <2>9, ModeChange DEF Unlock, ModeOf, Mode, PC, Goto
      <3>2. Abstract!Unlock(t)
        BY <3>1 DEF Abstract!Unlock, Abstract!Move, Mode
      <3>3. QED
        BY <3>2 DEF Abstract!RWNext
    <2>10. CASE \/ GetCall(t) \/ GetSpin(t) \/ GetInc(t) \/ GetLost(t)
                \/ GetUndo(t) \/ TryClaimLost(t) \/ ClaimDec(t)
                \/ LockDrain(t) \/ Write(t) \/ UnclaimInc(t)
      <3>1. \A u \in Thread : ModeOf(u)' = ModeOf(u)
        BY <2>2, <2>10
        DEF GetCall, GetSpin, GetInc, GetLost, GetUndo, TryClaimLost,
            ClaimDec, LockDrain, Write, UnclaimInc, Goto, ModeOf
      <3>2. QED
        BY <3>1 DEF Mode
    <2>11. QED
      BY <2>1, <2>3, <2>4, <2>5, <2>6, <2>7, <2>8, <2>9, <2>10 DEF Proceed
  <1>3. QED
    BY <1>1, <1>2

(* The flags and counters of the batch lock implement the abstract         *)
(* reader/claim/writer lock for every number of threads.                   *)
THEOREM Refinement == Spec => ImplementsRWLock
  <1>1. Init => Abstract!RWInit
    BY DEF Init, Abstract!RWInit, ModeOf
  <1>2. IInv /\ [Next]_vars => [Abstract!RWNext]_Mode
    BY StepRefines
  <1>3. QED
    BY <1>1, <1>2, Invariance, PTL
    DEF Spec, ImplementsRWLock, Abstract!RWSpec, Mode
=============================================================================
