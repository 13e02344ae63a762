---------------------------- MODULE MCClockCache ----------------------------
(* Instances of ClockCache for TLC. *)
EXTENDS ClockCache, TLC

CONSTANTS t0, p0, p1

(* Each thread has a counter of its own. *)
OwnSlot == [t \in Thread |-> IF t = t0 THEN 0 ELSE 1]

(* p0 and p1 are neighbours, any other page is in an extent of its own. *)
OneExtent == {<<p0, p1>>}

(* What nobody reads before it is written again: whether the memory of an  *)
(* entry without a page is current, and whether a page that is not in use  *)
(* is saved.  States that differ in these alone are one.                   *)
LiveState ==
    <<[e \in Entry |-> disk_addr[e] = None \/ current[e]], [p \in Page |-> p \notin live \/ saved[p]],
      status, disk_addr, lookup, refcount, inflight, live, handVars, callVars, pc, broken>>

EntrySymmetry == Permutations(Entry)
=============================================================================
