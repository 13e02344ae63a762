------------------------------- MODULE RWLock -------------------------------
(***************************************************************************)
(* What a distributed reader/claim/writer lock promises its callers, as    *)
(* the comments of platform_batch_rwlock and of the page locks state it:   *)
(* a writer is alone, a claim excludes every other claim and every writer  *)
(* but coexists with readers, and the upgrade from a read lock to a claim  *)
(* and on to a write lock never lets another writer in between.            *)
(*                                                                         *)
(* Every operation is one atomic step here.  BatchRWLock implements it     *)
(* with counters and flags, and the modules that use such a lock (the      *)
(* memtable protocol) use these atomic steps.                              *)
(***************************************************************************)
CONSTANT Thread

VARIABLE mode    \* what each thread holds of the lock

(* "drain" is a claim whose holder has called lock and waits for the       *)
(* readers to leave.                                                       *)
Modes == {"none", "read", "claim", "drain", "write"}

Claims(t) == mode[t] \in {"claim", "drain", "write"}

RWInit == mode = [t \in Thread |-> "none"]

Move(t, from, to) ==
    /\ mode[t] = from
    /\ mode' = [mode EXCEPT ![t] = to]

(* A thread that drains or writes shuts new readers out. *)
Get(t) ==
    /\ \A u \in Thread : mode[u] \notin {"drain", "write"}
    /\ Move(t, "none", "read")

Unget(t) == Move(t, "read", "none")

Claim(t) ==
    /\ \A u \in Thread : ~Claims(u)
    /\ Move(t, "read", "claim")

Unclaim(t) == Move(t, "claim", "read")

Lock(t) == Move(t, "claim", "drain")

Drained(t) ==
    /\ \A u \in Thread \ {t} : mode[u] = "none"
    /\ Move(t, "drain", "write")

Unlock(t) == Move(t, "write", "claim")

RWNext ==
    \E t \in Thread :
        \/ Get(t)
        \/ Unget(t)
        \/ Claim(t)
        \/ Unclaim(t)
        \/ Lock(t)
        \/ Drained(t)
        \/ Unlock(t)

(* Composites that the users of the lock call and that the modules above   *)
(* take as one step.  get followed by claim_loop holds no read lock while  *)
(* it waits; after full_unlock a waiting thread goes on only once unlock,  *)
(* unclaim and unget are all done.                                         *)
GetAndClaim(t) ==
    /\ \A u \in Thread : ~Claims(u)
    /\ Move(t, "none", "claim")

FullUnlock(t) == Move(t, "write", "none")

RWSpec == RWInit /\ [][RWNext]_mode
=============================================================================
