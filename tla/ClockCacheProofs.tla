-------------------------- MODULE ClockCacheProofs --------------------------
(***************************************************************************)
(* Proofs about the page cache, for any finite set of threads and any      *)
(* number of entries, pages and counters.  The invariant is about the      *)
(* program up to the moment something has gone wrong for good (broken);    *)
(* GetsSeeLastWrite includes that moment.                                  *)
(***************************************************************************)
EXTENDS ClockCache, FiniteSetTheorems, TLAPS

-----------------------------------------------------------------------------
(* Where a thread is.                                                      *)

\* It has a reference on ent[t] and may still find the entry locked or gone.
Blocked == {"free", "locked", "conflict", "evicted", "d_dec",
            "e_free", "e_locked", "e_dec"}
\* It has seen the entry neither free nor locked.
Trying == {"accessed", "addr", "loading"}
\* It has the page.
Valid == {"held", "synced", "claimed", "lock_flush", "lock_drain", "write",
          "d_claim", "d_lock", "d_unmap"}
\* It fills the entry it has taken.
Loading == {"abort", "setaddr", "request", "unmap", "release", "load"}
Filling == Loading \cup {"got", "map", "a_map"}
\* It evicts the entry of its hand, with a reference.
Evicting == {"e_free", "e_locked", "e_claim", "e_loading", "e_lock", "e_flush",
             "e_drain", "e_verify", "e_unmap", "e_release", "e_unlock",
             "e_unclaim", "e_dec"}
HandTests == {"e_test", "e_read", "e_inc"}
Cleaning == {"clean", "back", "back_set", "forward", "forward_set", "submit"}
EntryPCs == {"read", "inc", "free", "locked", "conflict", "evicted", "d_dec",
             "d_release"} \cup Trying \cup Valid \cup Filling
PCs == {"idle", "lookup", "take", "hand"} \cup EntryPCs \cup Evicting
       \cup HandTests \cup Cleaning

\* The operations a thread may be in at a step.
OpsAt(at) ==
    CASE at = "idle" -> {"none"}
      [] at \in {"lookup", "read", "inc", "free", "locked", "conflict", "evicted",
                 "accessed", "addr", "loading", "lock_flush", "lock_drain"} -> {"get", "async", "discard"}
      [] at \in {"held", "synced", "claimed", "write", "abort", "setaddr", "load"} -> {"get", "async"}
      [] at \in {"request", "unmap", "release"} -> {"async"}
      [] at = "a_map" -> {"alloc"}
      [] at \in {"d_claim", "d_lock", "d_unmap", "d_release", "d_dec"} -> {"discard"}
      [] OTHER -> {"get", "async", "alloc"}

(* The variables of the threads that TypeOK does not speak of. *)
LocalTypeOK ==
    /\ pc \in [Thread -> PCs]
    /\ span \in [Thread -> SUBSET (Page \X Entry)]
    /\ edge \in [Thread -> Page \cup {None}]

PlacesInv ==
    \A t \in Thread :
        /\ op[t] \in OpsAt(pc[t])
        /\ want[t] = None <=> pc[t] = "idle"
        /\ ent[t] = None <=> pc[t] \notin EntryPCs
        /\ pc[t] \in Filling => ent[t] = free_hand[t]
        /\ pc[t] \in Evicting \cup HandTests => free_hand[t] # None
        /\ pc[t] = "hand" \/ pc[t] \in Cleaning => free_hand[t] = None
        /\ cleaning[t] = None <=> pc[t] \notin Cleaning
        /\ pc[t] \in {"back_set", "forward_set"} => cand[t] # None /\ NextPage(t) # None
        /\ scan[t] # 0 => pc[t] \in {"lock_drain", "e_drain"}

(* A busy batch has one owner. *)
HandsInv ==
    \A t, u \in Thread :
        /\ free_hand[t] # None /\ free_hand[t] = free_hand[u] => t = u
        /\ cleaning[t] # None => cleaning[t] # free_hand[u]
        /\ cleaning[t] # None /\ cleaning[t] = cleaning[u] => t = u

(* The counters count the references. *)
RefOf(t) == IF pc[t] \in EntryPCs \ {"read", "inc", "got"} THEN ent[t]
            ELSE IF pc[t] \in Evicting THEN free_hand[t] ELSE None
RefsIn(e, s) == {t \in Thread : SlotOf[t] = s /\ RefOf(t) = e}
CountsInv ==
    \A e \in Entry, s \in Slot : refcount[e][s] = Cardinality(RefsIn(e, s))

(* Who has set the flags of an entry. *)
Allocs(t) == pc[t] \in {"got", "a_map"} \/ (pc[t] = "map" /\ op[t] = "alloc")
HasClaim(t, e) ==
    \/ /\ ent[t] = e
       /\ \/ Allocs(t)
          \/ pc[t] \in {"claimed", "lock_flush", "lock_drain", "write", "d_lock", "d_unmap", "d_release"}
    \/ /\ free_hand[t] = e
       /\ pc[t] \in {"e_loading", "e_lock", "e_flush", "e_drain", "e_verify",
                     "e_unmap", "e_release", "e_unlock", "e_unclaim"}
HasLock(t, e) ==
    \/ /\ ent[t] = e
       /\ Allocs(t) \/ pc[t] \in {"lock_flush", "lock_drain", "write", "d_unmap", "d_release"}
    \/ /\ free_hand[t] = e
       /\ pc[t] \in {"e_flush", "e_drain", "e_verify", "e_unmap", "e_release", "e_unlock"}
Loads(t, e) == /\ ent[t] = e
               /\ pc[t] \in Loading \/ (pc[t] = "map" /\ op[t] # "alloc")
AllocsIn(t, e) == ent[t] = e /\ Allocs(t)
Fills(t, e) == ent[t] = e /\ pc[t] \in Filling
FlagsAt(e) ==
    /\ Has(e, "CLAIMED") <=> \E t \in Thread : HasClaim(t, e)
    /\ Has(e, "WRITELOCKED") <=> \E t \in Thread : HasLock(t, e)
    /\ Has(e, "LOADING") <=> \E t \in Thread : Loads(t, e)
    /\ \A t, u \in Thread : HasClaim(t, e) /\ HasClaim(u, e) => t = u
    /\ \A t, u \in Thread : Fills(t, e) /\ HasClaim(u, e) => t = u
    /\ \A t \in Thread : Fills(t, e) => ~Has(e, "FREE") /\ ~Has(e, "WRITEBACK")
    /\ \A t \in Thread : Loads(t, e) => Has(e, "CLEAN")
    /\ \A t \in Thread : AllocsIn(t, e) => ~Has(e, "CLEAN")
FlagsInv == \A e \in Entry : FlagsAt(e)

(* Pages being allocated or discarded are nobody else's. *)
UsersInv ==
    /\ \A t \in Thread : op[t] \in {"get", "async"} => want[t] \in live
    /\ \A t, u \in Thread : op[t] \in {"alloc", "discard"} /\ want[t] = want[u] => t = u
    /\ \A t \in Thread : op[t] \in {"alloc", "discard"} => want[t] \notin live
    /\ \A p \in Page \ live :
           \/ lookup[p] = None
           \/ \E t \in Thread : op[t] = "discard" /\ want[t] = p /\ pc[t] \notin {"d_release", "d_dec"}

(* The lookup table and the addresses in the entries. *)
Unmapped(e) == \A p \in Page : lookup[p] # e
Mapped(e) == disk_addr[e] # None /\ lookup[disk_addr[e]] = e
MapsInv ==
    /\ \A p \in Page : lookup[p] # None =>
           /\ ~Has(lookup[p], "FREE")
           /\ \/ disk_addr[lookup[p]] = p
              \/ \E t \in Thread : pc[t] = "setaddr" /\ ent[t] = lookup[p] /\ want[t] = p
    /\ \A e \in Entry : disk_addr[e] # None =>
           /\ ~Has(e, "FREE")
           /\ \/ lookup[disk_addr[e]] = e
              \/ \E t \in Thread : pc[t] \in {"a_map", "unmap"} /\ ent[t] = e /\ want[t] = disk_addr[e]
    /\ \A t \in Thread :
           /\ pc[t] \in {"got", "map", "abort", "setaddr", "release", "d_release"} => disk_addr[ent[t]] = None
           /\ pc[t] \in {"request", "load", "unmap", "a_map"} => disk_addr[ent[t]] = want[t]
           /\ pc[t] \in {"setaddr", "request", "load"} => lookup[want[t]] = ent[t]
           /\ pc[t] \in {"got", "map", "abort", "unmap", "release", "a_map", "d_release"} => Unmapped(ent[t])
           /\ pc[t] = "e_release" => disk_addr[free_hand[t]] = None /\ Unmapped(free_hand[t])
    /\ \A e \in Entry :
           \/ Has(e, "FREE") \/ Mapped(e)
           \/ \E t \in Thread :
                  \/ Fills(t, e)
                  \/ pc[t] = "d_release" /\ ent[t] = e
                  \/ pc[t] = "e_release" /\ free_hand[t] = e

(* A thread that has a page has its entry. *)
ValidInv ==
    \A t \in Thread : pc[t] \in Valid =>
        /\ disk_addr[ent[t]] = want[t] /\ lookup[want[t]] = ent[t]
        /\ ~Has(ent[t], "FREE") /\ ~Has(ent[t], "LOADING")

(* As far as the thread with the write lock has waited for the readers,    *)
(* the others with a reference will find that they lost.                   *)
Drained(t) == IF pc[t] \in {"lock_drain", "e_drain"} THEN scan[t]
              ELSE IF pc[t] \in {"write", "d_unmap", "d_release", "e_verify", "e_unmap", "e_release"}
                   THEN RcWidth ELSE 0
Harmless(u, e) == pc[u] \in Blocked \/ (pc[u] \in Trying /\ want[u] # disk_addr[e])
DrainInv ==
    \A e \in Entry : \A t, u \in Thread :
        HasLock(t, e) /\ u # t /\ RefOf(u) = e /\ SlotOf[u] < Drained(t) => Harmless(u, e)

(* Write back: whoever sets CC_WRITEBACK has the entry until its page is   *)
(* on disk, and lockers wait for that.                                     *)
Flushed == {"lock_drain", "write", "d_unmap", "d_release",
            "e_drain", "e_verify", "e_unmap", "e_release"}
WritebackInv ==
    /\ \A e \in Entry : Has(e, "WRITEBACK") =>
           /\ Mapped(e)
           /\ ~Has(e, "LOADING")
           /\ \A t \in Thread : HasLock(t, e) => pc[t] \notin Flushed
    /\ \A t \in Thread : span[t] # {} => pc[t] \in Cleaning \ {"clean"}
    /\ \A t \in Thread : \A x \in span[t] :
           Has(x[2], "WRITEBACK") /\ inflight[x[2]] = {} /\ ~Has(x[2], "CLEAN")
    /\ \A t, u \in Thread : \A x \in span[t], y \in span[u] : x[2] = y[2] => t = u /\ x = y
    /\ \A e \in Entry : inflight[e] # {} => Has(e, "WRITEBACK") /\ inflight[e] = {disk_addr[e]}

(* The page of a loaded entry is current in memory, or saved on disk.      *)
DataInv ==
    /\ \A e \in Entry : Mapped(e) /\ ~Has(e, "LOADING") => current[e]
    /\ \A p \in live : saved[p] \/ (/\ lookup[p] # None /\ disk_addr[lookup[p]] = p
                                    /\ ~Has(lookup[p], "CLEAN"))
    /\ \A t \in Thread : pc[t] = "e_unmap" => Has(free_hand[t], "CLEAN") /\ ~Has(free_hand[t], "LOADING")

CoreInv ==
    /\ LocalTypeOK /\ PlacesInv /\ HandsInv /\ CountsInv /\ FlagsInv /\ UsersInv
    /\ MapsInv /\ ValidInv /\ DrainInv /\ WritebackInv /\ DataInv

IInv == TypeOK /\ (broken = "no" => CoreInv)

-----------------------------------------------------------------------------
(* Frames                                                                  *)

Others(t) ==
    \A u \in Thread \ {t} :
        /\ pc'[u] = pc[u] /\ op'[u] = op[u] /\ want'[u] = want[u]
        /\ ent'[u] = ent[u] /\ scan'[u] = scan[u]
        /\ free_hand'[u] = free_hand[u] /\ cleaning'[u] = cleaning[u]
        /\ cand'[u] = cand[u] /\ span'[u] = span[u] /\ edge'[u] = edge[u]

SameRolesOn(u, e) ==
    /\ HasClaim(u, e)' <=> HasClaim(u, e)
    /\ HasLock(u, e)' <=> HasLock(u, e)
    /\ Loads(u, e)' <=> Loads(u, e)
    /\ AllocsIn(u, e)' <=> AllocsIn(u, e)
    /\ Fills(u, e)' <=> Fills(u, e)
SameRoles(u) == \A e \in Entry : SameRolesOn(u, e)

LEMMA OthersKeepRoles ==
    ASSUME NEW t, Others(t), NEW u \in Thread \ {t}
    PROVE  /\ SameRoles(u)
           /\ RefOf(u)' = RefOf(u)
           /\ Drained(u)' = Drained(u)
  BY DEF Others, SameRoles, SameRolesOn, HasClaim, HasLock, Loads, AllocsIn,
         Fills, Allocs,
         RefOf, Drained

(* Who fills an entry loads it or has its claim, who has the lock has the  *)
(* claim.                                                                  *)
LEMMA RolesRelate ==
    ASSUME NEW t, NEW e
    PROVE  /\ Fills(t, e) <=> Loads(t, e) \/ AllocsIn(t, e)
           /\ AllocsIn(t, e) => HasClaim(t, e) /\ HasLock(t, e)
           /\ HasLock(t, e) => HasClaim(t, e)
  BY DEF HasClaim, HasLock, Loads, AllocsIn, Fills, Allocs, Filling, Loading

SameFlags(e) ==
    /\ Has(e, "CLAIMED")' <=> Has(e, "CLAIMED")
    /\ Has(e, "WRITELOCKED")' <=> Has(e, "WRITELOCKED")
    /\ Has(e, "LOADING")' <=> Has(e, "LOADING")
    /\ Has(e, "FREE")' <=> Has(e, "FREE")
    /\ Has(e, "WRITEBACK")' => Has(e, "WRITEBACK") \/ Cleanable(e)
    /\ Has(e, "CLEAN")' <=> Has(e, "CLEAN")

LEMMA FlagsFrame ==
    ASSUME FlagsInv, NEW e \in Entry,
           \A u \in Thread : SameRolesOn(u, e),
           SameFlags(e)
    PROVE  FlagsAt(e)'
  <1>1. ASSUME NEW u \in Thread, Fills(u, e), Cleanable(e)
        PROVE  FALSE
    <2>1. ~Has(e, "LOADING") /\ ~Has(e, "CLAIMED")
      BY <1>1 DEF Cleanable, Has
    <2> QED BY <1>1, <2>1, RolesRelate DEF FlagsInv, FlagsAt
  <1> QED BY <1>1 DEF FlagsInv, FlagsAt, SameRolesOn, SameFlags

(* Steps at which a thread changes the map or relies on having changed it. *)
Staged == {"got", "map", "abort", "setaddr", "request", "load", "unmap",
           "release", "a_map", "d_release", "e_release"}

LEMMA MapsFrame ==
    ASSUME MapsInv, lookup' = lookup, disk_addr' = disk_addr,
           \A e \in Entry : Has(e, "FREE")' <=> Has(e, "FREE"),
           \A u \in Thread :
              \/ /\ pc'[u] = pc[u] /\ ent'[u] = ent[u] /\ want'[u] = want[u]
                 /\ free_hand'[u] = free_hand[u]
              \/ pc[u] \notin Staged /\ pc'[u] \notin Staged,
           TypeOK, PlacesInv
    PROVE  MapsInv'
  <1>1. \A u \in Thread, e \in Entry : Fills(u, e) => Fills(u, e)'
    BY DEF Fills, Filling, Loading, Staged
  <1>2. \A e \in Entry : Mapped(e)' = Mapped(e) /\ Unmapped(e)' = Unmapped(e)
    BY DEF Mapped, Unmapped
  <1>3. \A u \in Thread : pc'[u] \in Staged =>
           /\ pc'[u] = pc[u] /\ ent'[u] = ent[u] /\ want'[u] = want[u]
           /\ free_hand'[u] = free_hand[u]
    OBVIOUS
  <1>4. \A u \in Thread : pc[u] \in Staged =>
           /\ pc'[u] = pc[u] /\ ent'[u] = ent[u] /\ want'[u] = want[u]
           /\ free_hand'[u] = free_hand[u]
    OBVIOUS
  <1>5. \A p \in Page : lookup[p] # None => lookup[p] \in Entry
    BY DEF TypeOK
  <1>6. \A u \in Thread : /\ pc[u] \in Staged \ {"e_release"} => ent[u] \in Entry
                          /\ pc[u] = "e_release" => free_hand[u] \in Entry
    BY DEF TypeOK, PlacesInv, Staged, EntryPCs, Filling, Loading, Evicting
  <1>a. (\A p \in Page : lookup[p] # None =>
           /\ ~Has(lookup[p], "FREE")
           /\ \/ disk_addr[lookup[p]] = p
              \/ \E t \in Thread : pc[t] = "setaddr" /\ ent[t] = lookup[p] /\ want[t] = p)'
    BY <1>4, <1>5 DEF MapsInv, Staged
  <1>b. (\A e \in Entry : disk_addr[e] # None =>
           /\ ~Has(e, "FREE")
           /\ \/ lookup[disk_addr[e]] = e
              \/ \E t \in Thread : pc[t] \in {"a_map", "unmap"} /\ ent[t] = e /\ want[t] = disk_addr[e])'
    BY <1>4 DEF MapsInv, Staged
  <1>c. (\A t \in Thread :
           /\ pc[t] \in {"got", "map", "abort", "setaddr", "release", "d_release"} => disk_addr[ent[t]] = None
           /\ pc[t] \in {"request", "load", "unmap", "a_map"} => disk_addr[ent[t]] = want[t]
           /\ pc[t] \in {"setaddr", "request", "load"} => lookup[want[t]] = ent[t]
           /\ pc[t] \in {"got", "map", "abort", "unmap", "release", "a_map", "d_release"} => Unmapped(ent[t])
           /\ pc[t] = "e_release" => disk_addr[free_hand[t]] = None /\ Unmapped(free_hand[t]))'
    BY <1>3, <1>6 DEF MapsInv, Staged, Unmapped
  <1>d. (\A e \in Entry :
           \/ Has(e, "FREE") \/ Mapped(e)
           \/ \E t \in Thread :
                  \/ Fills(t, e)
                  \/ pc[t] = "d_release" /\ ent[t] = e
                  \/ pc[t] = "e_release" /\ free_hand[t] = e)'
    BY <1>1, <1>2, <1>4 DEF MapsInv, Staged
  <1> QED BY <1>a, <1>b, <1>c, <1>d DEF MapsInv

LEMMA ValidFrame ==
    ASSUME ValidInv, lookup' = lookup, disk_addr' = disk_addr, TypeOK, PlacesInv,
           \A e \in Entry : Has(e, "FREE")' => Has(e, "FREE"),
           \A e \in Entry : Has(e, "LOADING")' => Has(e, "LOADING"),
           \A u \in Thread : pc'[u] \in Valid =>
              pc[u] \in Valid /\ ent'[u] = ent[u] /\ want'[u] = want[u]
    PROVE  ValidInv'
  <1>1. \A u \in Thread : pc[u] \in Valid => ent[u] \in Entry
    BY DEF TypeOK, PlacesInv, EntryPCs
  <1> QED BY <1>1 DEF ValidInv

LEMMA DrainedNat ==
    ASSUME TypeOK, NEW u \in Thread
    PROVE  Drained(u) \in Nat /\ SlotOf[u] \in Nat /\ SlotOf[u] < RcWidth
  BY RcWidthAssumption, SlotAssumption DEF TypeOK, Drained, Slot

LEMMA DrainFrame ==
    ASSUME DrainInv, TypeOK, TypeOK',
           \A u \in Thread, e \in Entry : HasLock(u, e)' /\ Drained(u)' > 0 =>
              HasLock(u, e) /\ Drained(u)' <= Drained(u),
           \A u \in Thread, e \in Entry : RefOf(u)' = e /\ ~Harmless(u, e)' =>
              \/ RefOf(u) = e /\ ~Harmless(u, e)
              \/ \A v \in Thread \ {u} : ~HasLock(v, e)
    PROVE  DrainInv'
  <1> SUFFICES ASSUME NEW e \in Entry, NEW t \in Thread, NEW u \in Thread,
                      HasLock(t, e)', u # t, RefOf(u)' = e, SlotOf[u] < Drained(t)', ~Harmless(u, e)'
               PROVE  FALSE
    BY DEF DrainInv
  <1>1. Drained(t) \in Nat /\ Drained(t)' \in Nat /\ SlotOf[u] \in Nat
    BY RcWidthAssumption, SlotAssumption DEF TypeOK, Drained, Slot
  <1>2. HasLock(t, e) /\ Drained(t)' <= Drained(t)
    BY <1>1
  <1>3. RefOf(u) = e /\ ~Harmless(u, e)
    BY <1>2
  <1> QED BY <1>1, <1>2, <1>3 DEF DrainInv

LEMMA WritebackFrame ==
    ASSUME WritebackInv, inflight' = inflight, span' = span,
           \A e \in Entry : Has(e, "WRITEBACK")' <=> Has(e, "WRITEBACK"),
           \A e \in Entry : Has(e, "WRITEBACK") =>
              /\ Mapped(e)' /\ disk_addr'[e] = disk_addr[e]
              /\ Has(e, "LOADING")' => Has(e, "LOADING")
              /\ Has(e, "CLEAN")' => Has(e, "CLEAN")
              /\ \A u \in Thread : HasLock(u, e)' /\ pc'[u] \in Flushed =>
                     HasLock(u, e) /\ pc[u] \in Flushed,
           \A u \in Thread : pc[u] \in Cleaning \ {"clean"} => pc'[u] \in Cleaning \ {"clean"},
           LocalTypeOK
    PROVE  WritebackInv'
  <1>1. \A u \in Thread : \A x \in span[u] : x[2] \in Entry
    BY DEF LocalTypeOK
  <1> QED BY <1>1 DEF WritebackInv

LEMMA DataFrame ==
    ASSUME DataInv, TypeOK, lookup' = lookup, disk_addr' = disk_addr, current' = current,
           saved' = saved, live' \subseteq live,
           \A e \in Entry : Has(e, "LOADING")' <=> Has(e, "LOADING"),
           \A e \in Entry : Has(e, "CLEAN")' <=> Has(e, "CLEAN"),
           \A u \in Thread : pc'[u] = "e_unmap" =>
              /\ free_hand'[u] \in Entry
              /\ \/ pc[u] = "e_unmap" /\ free_hand'[u] = free_hand[u]
                 \/ Has(free_hand'[u], "CLEAN") /\ ~Has(free_hand'[u], "LOADING")
    PROVE  DataInv'
  BY DEF DataInv, Mapped, TypeOK

(* The counts. *)
LEMMA RefsFinite ==
    ASSUME NEW e, NEW s
    PROVE  IsFiniteSet(RefsIn(e, s)) /\ Cardinality(RefsIn(e, s)) \in Nat
  <1>1. RefsIn(e, s) \subseteq Thread
    BY DEF RefsIn
  <1> QED BY <1>1, ThreadAssumption, FS_Subset, FS_CardinalityType

LEMMA CountsFrame ==
    ASSUME CountsInv, refcount' = refcount,
           \A u \in Thread : RefOf(u)' = RefOf(u)
    PROVE  CountsInv'
  <1>1. \A e \in Entry, s \in Slot : RefsIn(e, s)' = RefsIn(e, s)
    BY DEF RefsIn
  <1> QED BY <1>1 DEF CountsInv

LEMMA CountsInc ==
    ASSUME CountsInv, TypeOK, NEW t \in Thread, NEW b \in Entry, IncRef(t, b),
           \A u \in Thread \ {t} : RefOf(u)' = RefOf(u),
           RefOf(t) \notin Entry, RefOf(t)' = b
    PROVE  CountsInv'
  <1> SUFFICES ASSUME NEW e \in Entry, NEW s \in Slot
               PROVE  refcount'[e][s] = Cardinality(RefsIn(e, s)')
    BY DEF CountsInv
  <1>1. IsFiniteSet(RefsIn(e, s)) /\ refcount[e][s] = Cardinality(RefsIn(e, s))
    BY RefsFinite DEF CountsInv
  <1>2. SlotOf[t] \in Slot
    BY SlotAssumption
  <1>3. CASE e = b /\ s = SlotOf[t]
    <2>1. RefsIn(e, s)' = RefsIn(e, s) \cup {t} /\ t \notin RefsIn(e, s)
      BY <1>3 DEF RefsIn
    <2>2. Cardinality(RefsIn(e, s) \cup {t}) = Cardinality(RefsIn(e, s)) + 1
      BY <1>1, <2>1, FS_AddElement
    <2>3. refcount'[e][s] = refcount[e][s] + 1
      BY <1>2, <1>3 DEF IncRef, TypeOK
    <2> QED BY <1>1, <2>1, <2>2, <2>3
  <1>4. CASE ~(e = b /\ s = SlotOf[t])
    <2>1. RefsIn(e, s)' = RefsIn(e, s)
      BY <1>4 DEF RefsIn
    <2>2. refcount'[e][s] = refcount[e][s]
      BY <1>2, <1>4 DEF IncRef, TypeOK
    <2> QED BY <1>1, <2>1, <2>2
  <1> QED BY <1>3, <1>4

LEMMA CountsPositive ==
    ASSUME CountsInv, TypeOK, NEW t \in Thread, NEW b \in Entry, RefOf(t) = b
    PROVE  refcount[b][SlotOf[t]] \in Nat /\ refcount[b][SlotOf[t]] > 0
  <1>1. SlotOf[t] \in Slot /\ t \in RefsIn(b, SlotOf[t])
    BY SlotAssumption DEF RefsIn
  <1>2. Cardinality(RefsIn(b, SlotOf[t])) # 0
    BY <1>1, RefsFinite, FS_EmptySet
  <1> QED BY <1>1, <1>2, RefsFinite DEF CountsInv

LEMMA CountsDec ==
    ASSUME CountsInv, TypeOK, NEW t \in Thread, NEW b \in Entry, DecRef(t, b),
           \A u \in Thread \ {t} : RefOf(u)' = RefOf(u),
           RefOf(t) = b, RefOf(t)' \notin Entry
    PROVE  CountsInv' /\ refcount' \in [Entry -> [Slot -> Nat]]
  <1>1. SlotOf[t] \in Slot /\ refcount[b][SlotOf[t]] - 1 \in Nat
    BY CountsPositive, SlotAssumption
  <1>2. refcount' \in [Entry -> [Slot -> Nat]]
    BY <1>1 DEF DecRef, TypeOK
  <1>3. ASSUME NEW e \in Entry, NEW s \in Slot
        PROVE  refcount'[e][s] = Cardinality(RefsIn(e, s)')
    <2>1. IsFiniteSet(RefsIn(e, s)) /\ refcount[e][s] = Cardinality(RefsIn(e, s))
      BY RefsFinite DEF CountsInv
    <2>2. CASE e = b /\ s = SlotOf[t]
      <3>1. RefsIn(e, s)' = RefsIn(e, s) \ {t} /\ t \in RefsIn(e, s)
        BY <2>2 DEF RefsIn
      <3>2. Cardinality(RefsIn(e, s) \ {t}) = Cardinality(RefsIn(e, s)) - 1
        BY <2>1, <3>1, FS_RemoveElement
      <3>3. refcount'[e][s] = refcount[e][s] - 1
        BY <1>1, <2>2 DEF DecRef, TypeOK
      <3> QED BY <2>1, <3>1, <3>2, <3>3
    <2>3. CASE ~(e = b /\ s = SlotOf[t])
      <3>1. RefsIn(e, s)' = RefsIn(e, s)
        BY <2>3 DEF RefsIn
      <3>2. refcount'[e][s] = refcount[e][s]
        BY <1>1, <2>3 DEF DecRef, TypeOK
      <3> QED BY <2>1, <3>1, <3>2
    <2> QED BY <2>2, <2>3
  <1> QED BY <1>2, <1>3 DEF CountsInv

(* A counter that shows no reader. *)
LEMMA NoOther ==
    ASSUME CountsInv, TypeOK, NEW t \in Thread, NEW b \in Entry, RefOf(t) = b,
           NEW s \in Slot, NoReader(t, b, s),
           NEW u \in Thread \ {t}, RefOf(u) = b, SlotOf[u] = s
    PROVE  FALSE
  <1> DEFINE R == RefsIn(b, s)
  <1>1. IsFiniteSet(R) /\ Cardinality(R) \in Nat /\ refcount[b][s] = Cardinality(R)
    BY RefsFinite DEF CountsInv
  <1>2. u \in R
    BY DEF RefsIn
  <1>3. SlotOf[t] = s => t \in R
    BY DEF RefsIn
  <1> HIDE DEF R
  <1>4. IsFiniteSet(R \ {u}) /\ Cardinality(R \ {u}) = Cardinality(R) - 1
    BY <1>1, <1>2, FS_RemoveElement
  <1>5. Cardinality(R \ {u}) \in Nat
    BY <1>4, FS_CardinalityType
  <1>6. SlotOf[t] = s => Cardinality(R \ {u}) # 0
    BY <1>3, <1>4, FS_EmptySet
  <1> QED BY <1>1, <1>4, <1>5, <1>6 DEF NoReader

-----------------------------------------------------------------------------
(* The same frames for a step of the thread t. *)

LEMMA FlagsKept ==
    ASSUME FlagsInv, NEW t, Others(t), SameRoles(t),
           \A e \in Entry : SameFlags(e)
    PROVE  FlagsInv'
  <1>1. \A e \in Entry : \A u \in Thread : SameRolesOn(u, e)
    BY OthersKeepRoles DEF SameRoles
  <1> QED BY <1>1, FlagsFrame DEF FlagsInv

(* A step that changes the flags of b, or what the thread does with it. *)
LEMMA FlagsStep ==
    ASSUME FlagsInv, NEW t, Others(t), NEW b,
           \A e \in Entry \ {b} : SameRolesOn(t, e) /\ SameFlags(e),
           FlagsAt(b)'
    PROVE  FlagsInv'
  <1>1. \A e \in Entry \ {b} : \A u \in Thread : SameRolesOn(u, e)
    BY OthersKeepRoles DEF SameRoles
  <1>2. \A e \in Entry \ {b} : FlagsAt(e)'
    BY <1>1, FlagsFrame
  <1> QED BY <1>2 DEF FlagsInv

LEMMA CountsKept ==
    ASSUME CountsInv, NEW t, Others(t), refcount' = refcount, RefOf(t)' = RefOf(t)
    PROVE  CountsInv'
  BY OthersKeepRoles, CountsFrame

LEMMA MapsKept ==
    ASSUME TypeOK, PlacesInv, MapsInv, NEW t, Others(t),
           lookup' = lookup, disk_addr' = disk_addr,
           \A e \in Entry : Has(e, "FREE")' <=> Has(e, "FREE"),
           \/ /\ pc'[t] = pc[t] /\ ent'[t] = ent[t] /\ want'[t] = want[t]
              /\ free_hand'[t] = free_hand[t]
           \/ pc[t] \notin Staged /\ pc'[t] \notin Staged
    PROVE  MapsInv'
  BY MapsFrame DEF Others

LEMMA ValidKept ==
    ASSUME TypeOK, PlacesInv, ValidInv, NEW t, Others(t),
           lookup' = lookup, disk_addr' = disk_addr,
           \A e \in Entry : Has(e, "FREE")' => Has(e, "FREE"),
           \A e \in Entry : Has(e, "LOADING")' => Has(e, "LOADING"),
           pc'[t] \in Valid =>
              pc[t] \in Valid /\ ent'[t] = ent[t] /\ want'[t] = want[t]
    PROVE  ValidInv'
  BY ValidFrame DEF Others

LEMMA DrainKept ==
    ASSUME DrainInv, TypeOK, TypeOK', NEW t \in Thread, Others(t),
           disk_addr' = disk_addr,
           \A e \in Entry : HasLock(t, e)' /\ Drained(t)' > 0 =>
              HasLock(t, e) /\ Drained(t)' <= Drained(t),
           \A e \in Entry : RefOf(t)' = e /\ ~Harmless(t, e)' =>
              \/ RefOf(t) = e /\ ~Harmless(t, e)
              \/ \A v \in Thread \ {t} : ~HasLock(v, e)
    PROVE  DrainInv'
  <1>1. \A u \in Thread \ {t} :
           /\ RefOf(u)' = RefOf(u) /\ Drained(u)' = Drained(u)
           /\ \A e \in Entry : HasLock(u, e)' <=> HasLock(u, e)
    BY OthersKeepRoles DEF SameRoles, SameRolesOn
  <1>h. \A u \in Thread \ {t} : \A e \in Entry : Harmless(u, e)' <=> Harmless(u, e)
    BY DEF Others, Harmless
  <1>2. \A u \in Thread : Drained(u) \in Nat
    BY DrainedNat
  <1>3. \A u \in Thread, e \in Entry : HasLock(u, e)' /\ Drained(u)' > 0 =>
              HasLock(u, e) /\ Drained(u)' <= Drained(u)
    <2> SUFFICES ASSUME NEW u \in Thread, NEW e \in Entry,
                        HasLock(u, e)', Drained(u)' > 0
                 PROVE  HasLock(u, e) /\ Drained(u)' <= Drained(u)
      OBVIOUS
    <2>1. CASE u # t
      <3>1. HasLock(u, e) /\ Drained(u)' = Drained(u)
        BY <1>1, <2>1
      <3> QED BY <1>2, <3>1
    <2> QED BY <2>1
  <1>4. \A u \in Thread, e \in Entry : RefOf(u)' = e /\ ~Harmless(u, e)' =>
              \/ RefOf(u) = e /\ ~Harmless(u, e)
              \/ \A v \in Thread \ {u} : ~HasLock(v, e)
    <2> SUFFICES ASSUME NEW u \in Thread, NEW e \in Entry,
                        RefOf(u)' = e, ~Harmless(u, e)'
                 PROVE  \/ RefOf(u) = e /\ ~Harmless(u, e)
                        \/ \A v \in Thread \ {u} : ~HasLock(v, e)
      OBVIOUS
    <2>1. CASE u # t
      BY <1>1, <1>h, <2>1
    <2> QED BY <2>1
  <1> QED BY <1>3, <1>4, DrainFrame

LEMMA WritebackKept ==
    ASSUME WritebackInv, LocalTypeOK, NEW t, Others(t),
           lookup' = lookup, disk_addr' = disk_addr, inflight' = inflight, span' = span,
           \A e \in Entry : Has(e, "WRITEBACK")' <=> Has(e, "WRITEBACK"),
           \A e \in Entry : Has(e, "WRITEBACK") =>
              /\ Has(e, "LOADING")' => Has(e, "LOADING")
              /\ Has(e, "CLEAN")' => Has(e, "CLEAN")
              /\ HasLock(t, e)' /\ pc'[t] \in Flushed =>
                     HasLock(t, e) /\ pc[t] \in Flushed,
           pc[t] \in Cleaning \ {"clean"} => pc'[t] \in Cleaning \ {"clean"}
    PROVE  WritebackInv'
  <1>1. \A u \in Thread \ {t} : \A e \in Entry : HasLock(u, e)' <=> HasLock(u, e)
    BY OthersKeepRoles DEF SameRoles, SameRolesOn
  <1>2. \A e \in Entry : Has(e, "WRITEBACK") => Mapped(e)'
    BY DEF WritebackInv, Mapped
  <1>3. \A e \in Entry : Has(e, "WRITEBACK") =>
              \A u \in Thread : HasLock(u, e)' /\ pc'[u] \in Flushed =>
                     HasLock(u, e) /\ pc[u] \in Flushed
    BY <1>1 DEF Others
  <1>4. \A u \in Thread : pc[u] \in Cleaning \ {"clean"} => pc'[u] \in Cleaning \ {"clean"}
    BY DEF Others
  <1> QED BY <1>2, <1>3, <1>4, WritebackFrame

LEMMA DataKept ==
    ASSUME DataInv, TypeOK, PlacesInv, NEW t, Others(t),
           lookup' = lookup, disk_addr' = disk_addr, current' = current,
           saved' = saved, live' \subseteq live,
           \A e \in Entry : Has(e, "LOADING")' <=> Has(e, "LOADING"),
           \A e \in Entry : Has(e, "CLEAN")' <=> Has(e, "CLEAN"),
           pc'[t] = "e_unmap" =>
              /\ free_hand'[t] \in Entry
              /\ Has(free_hand'[t], "CLEAN") /\ ~Has(free_hand'[t], "LOADING")
    PROVE  DataInv'
  <1>1. \A u \in Thread : pc[u] = "e_unmap" => free_hand[u] \in Entry
    BY DEF TypeOK, PlacesInv, Evicting
  <1> QED BY <1>1, DataFrame DEF Others

(* A step that changes no flag but CC_ACCESSED, no address and no data. *)
LEMMA QuietStep ==
    ASSUME TypeOK, CoreInv, NEW t \in Thread, Others(t), SameRoles(t),
           lookup' = lookup, disk_addr' = disk_addr, current' = current,
           saved' = saved, live' \subseteq live, inflight' = inflight,
           span' = span,
           \A e \in Entry : \A f \in Flag \ {"ACCESSED"} : Has(e, f)' <=> Has(e, f),
           pc[t] \notin Staged, pc'[t] \notin Staged,
           pc'[t] = "e_unmap" =>
              /\ free_hand'[t] \in Entry
              /\ Has(free_hand'[t], "CLEAN") /\ ~Has(free_hand'[t], "LOADING"),
           pc'[t] \in Flushed => pc[t] \in Flushed \cup {"lock_flush", "e_flush"},
           pc[t] = "lock_flush" => ~Has(ent[t], "WRITEBACK") \/ pc'[t] \notin Flushed,
           pc[t] = "e_flush" => ~Has(free_hand[t], "WRITEBACK") \/ pc'[t] \notin Flushed,
           pc[t] \in Cleaning \ {"clean"} => pc'[t] \in Cleaning \ {"clean"}
    PROVE  FlagsInv' /\ MapsInv' /\ WritebackInv' /\ DataInv'
  <1> USE DEF CoreInv
  <1>1. \A e \in Entry :
           /\ Has(e, "CLAIMED")' <=> Has(e, "CLAIMED")
           /\ Has(e, "WRITELOCKED")' <=> Has(e, "WRITELOCKED")
           /\ Has(e, "LOADING")' <=> Has(e, "LOADING")
           /\ Has(e, "FREE")' <=> Has(e, "FREE")
           /\ Has(e, "WRITEBACK")' <=> Has(e, "WRITEBACK")
           /\ Has(e, "CLEAN")' <=> Has(e, "CLEAN")
    BY DEF Flag
  <1>2. FlagsInv'
    BY <1>1, FlagsKept DEF SameFlags
  <1>3. MapsInv'
    BY <1>1, MapsKept
  <1>4. \A e \in Entry : Has(e, "WRITEBACK") =>
           (HasLock(t, e)' /\ pc'[t] \in Flushed => HasLock(t, e) /\ pc[t] \in Flushed)
    <2> SUFFICES ASSUME NEW e \in Entry, Has(e, "WRITEBACK"), HasLock(t, e)', pc'[t] \in Flushed
                 PROVE  HasLock(t, e) /\ pc[t] \in Flushed
      OBVIOUS
    <2>1. HasLock(t, e)
      BY DEF SameRoles, SameRolesOn
    <2>2. pc[t] = "lock_flush" => ent[t] = e
      BY <2>1 DEF HasLock, Allocs
    <2>3. pc[t] = "e_flush" => free_hand[t] = e
      BY <2>1 DEF HasLock, Allocs
    <2> QED BY <2>1, <2>2, <2>3
  <1>5. WritebackInv'
    BY <1>1, <1>4, WritebackKept
  <1>6. DataInv'
    BY <1>1, DataKept
  <1> QED BY <1>2, <1>3, <1>5, <1>6

LEMMA UsersKept ==
    ASSUME TypeOK, TypeOK', PlacesInv, UsersInv, NEW t \in Thread, Others(t),
           lookup' = lookup, live' = live, op'[t] = "none" => want'[t] = None,
           op'[t] \in {"get", "async"} =>
              want'[t] \in live \/ (op'[t] = op[t] /\ want'[t] = want[t]),
           op'[t] \in {"alloc", "discard"} => op'[t] = op[t] /\ want'[t] = want[t],
           op[t] = "discard" =>
              \/ pc[t] \in {"d_release", "d_dec"}
              \/ lookup[want[t]] = None
              \/ /\ op'[t] = "discard" /\ want'[t] = want[t]
                 /\ pc'[t] \notin {"d_release", "d_dec"}
    PROVE  UsersInv'
  <1>1. \A u \in Thread : op'[u] \in {"get", "async"} => want'[u] \in live'
    BY DEF UsersInv, Others
  <1>2. \A u \in Thread : op'[u] \in {"alloc", "discard"} => op'[u] = op[u] /\ want'[u] = want[u]
    BY DEF Others
  <1>3. ASSUME NEW u \in Thread, NEW v \in Thread, op'[u] \in {"alloc", "discard"}, want'[u] = want'[v]
        PROVE  u = v
    <2>1. op[u] \in {"alloc", "discard"} /\ want[u] = want'[v] /\ want[u] \notin live
      BY <1>2, <1>3 DEF UsersInv
    <2>2. CASE v # t
      BY <2>1, <2>2 DEF UsersInv, Others
    <2>3. CASE v = t /\ want'[t] = want[t]
      BY <2>1, <2>3 DEF UsersInv
    <2>4. CASE v = t /\ want'[t] # want[t]
      <3>1. op'[t] \in {"none", "get", "async"}
        BY <2>4 DEF TypeOK
      <3>2. want[u] # None
        BY <2>1 DEF PlacesInv, OpsAt
      <3> QED BY <1>1, <2>1, <2>4, <3>1, <3>2
    <2> QED BY <2>2, <2>3, <2>4
  <1>4. \A u \in Thread : op'[u] \in {"alloc", "discard"} => want'[u] \notin live'
    BY <1>2 DEF UsersInv
  <1>5. ASSUME NEW p \in Page \ live
        PROVE  \/ lookup[p] = None
               \/ \E u \in Thread : /\ op'[u] = "discard" /\ want'[u] = p
                                    /\ pc'[u] \notin {"d_release", "d_dec"}
    <2>1. CASE lookup[p] # None
      <3>1. PICK u \in Thread : op[u] = "discard" /\ want[u] = p /\ pc[u] \notin {"d_release", "d_dec"}
        BY <2>1 DEF UsersInv
      <3> QED BY <2>1, <3>1 DEF Others
    <2> QED BY <2>1
  <1> QED BY <1>1, <1>3, <1>4, <1>5 DEF UsersInv

(* The thread with the write lock has seen one more counter at zero. *)
LEMMA DrainAdvance ==
    ASSUME TypeOK, TypeOK', CountsInv, DrainInv, NEW t \in Thread, Others(t),
           NEW b \in Entry, \A e \in Entry : HasLock(t, e) => e = b,
           RefOf(t) = b, RefOf(t)' = b, ~Harmless(t, b), SameRoles(t),
           disk_addr' = disk_addr,
           Drained(t) \in Slot, NoReader(t, b, Drained(t)),
           Drained(t)' <= Drained(t) + 1
    PROVE  DrainInv'
  <1> SUFFICES ASSUME NEW e \in Entry, NEW v \in Thread, NEW u \in Thread,
                      HasLock(v, e)', u # v, RefOf(u)' = e, SlotOf[u] < Drained(v)'
               PROVE  Harmless(u, e)'
    BY DEF DrainInv
  <1>1. \A w \in Thread \ {t} : RefOf(w)' = RefOf(w) /\ Drained(w)' = Drained(w)
    BY OthersKeepRoles
  <1>2. \A w \in Thread : SameRoles(w)
    BY OthersKeepRoles
  <1>3. \A w \in Thread \ {t} : Harmless(w, e)' <=> Harmless(w, e)
    BY DEF Others, Harmless
  <1>4. HasLock(v, e) /\ RefOf(u) = e
    BY <1>1, <1>2 DEF SameRoles, SameRolesOn
  <1>5. CASE v # t
    <2>1. Harmless(u, e)
      BY <1>1, <1>4, <1>5 DEF DrainInv
    <2>2. u # t
      BY <1>4, <2>1
    <2> QED BY <1>3, <2>1, <2>2
  <1>6. CASE v = t
    <2>1. e = b /\ u # t
      BY <1>4, <1>6
    <2>2. SlotOf[u] \in Nat /\ Drained(t) \in Nat /\ Drained(t)' \in Nat
      BY RcWidthAssumption, SlotAssumption DEF TypeOK, Drained, Slot
    <2>3. SlotOf[u] # Drained(t)
      BY <1>4, <2>1, NoOther
    <2>4. SlotOf[u] < Drained(t)
      BY <1>6, <2>2, <2>3
    <2>5. Harmless(u, e)
      BY <1>4, <1>6, <2>1, <2>4 DEF DrainInv
    <2> QED BY <1>3, <2>1, <2>5
  <1> QED BY <1>5, <1>6

(* The entry that has the address a thread looks for, when nobody loads    *)
(* it, is the one that the table names.                                    *)
LEMMA RightEntry ==
    ASSUME TypeOK, CoreInv, NEW t \in Thread, pc[t] # "a_map", want[t] # None,
           NEW e \in Entry, disk_addr[e] = want[t], ~Has(e, "LOADING")
    PROVE  lookup[want[t]] = e /\ ~Has(e, "FREE")
  <1>1. \/ lookup[want[t]] = e
        \/ \E v \in Thread : pc[v] \in {"a_map", "unmap"} /\ ent[v] = e /\ want[v] = want[t]
    BY DEF CoreInv, MapsInv
  <1>2. ASSUME NEW v \in Thread, pc[v] = "a_map", want[v] = want[t]
        PROVE  FALSE
    <2>1. op[v] = "alloc"
      BY <1>2 DEF CoreInv, PlacesInv, OpsAt
    <2> QED BY <1>2, <2>1 DEF CoreInv, UsersInv
  <1>3. ASSUME NEW v \in Thread, pc[v] = "unmap", ent[v] = e
        PROVE  FALSE
    <2>1. Loads(v, e)
      BY <1>3 DEF Loads, Loading
    <2> QED BY <2>1 DEF CoreInv, FlagsInv, FlagsAt
  <1>4. ~Has(e, "FREE")
    BY DEF CoreInv, MapsInv
  <1> QED BY <1>1, <1>2, <1>3, <1>4

(* A page that is being discarded is not being loaded. *)
LEMMA DiscardedIsLoaded ==
    ASSUME TypeOK, CoreInv, NEW t \in Thread, op[t] = "discard", want[t] # None,
           NEW e \in Entry, disk_addr[e] = want[t]
    PROVE  ~Has(e, "LOADING")
  <1> SUFFICES ASSUME NEW v \in Thread, Loads(v, e)
               PROVE  FALSE
    BY DEF CoreInv, FlagsInv, FlagsAt
  <1>1. pc[v] \in {"map", "abort", "setaddr", "release"} => disk_addr[e] = None
    BY DEF Loads, CoreInv, MapsInv
  <1>2. pc[v] \in {"request", "unmap", "load"}
    BY <1>1 DEF Loads, Loading
  <1>3. want[v] = want[t]
    BY <1>2 DEF Loads, CoreInv, MapsInv
  <1>4. op[v] \in {"get", "async"}
    BY <1>2 DEF CoreInv, PlacesInv, OpsAt
  <1> QED BY <1>3, <1>4 DEF CoreInv, UsersInv

LEMMA NextPageType ==
    ASSUME NEW t
    PROVE  NextPage(t) \in Page \cup {None}
  <1>1. ASSUME NEW p, NEW d
        PROVE  Neighbour(p, d) \in Page \cup {None}
    <2> DEFINE next == {q \in Page : \E x \in Extents : \E k \in 1 .. Len(x) :
                            k + d \in 1 .. Len(x) /\ x[k] = p /\ x[k + d] = q}
    <2>1. next # {} => (CHOOSE q \in next : TRUE) \in next
      OBVIOUS
    <2>2. next \subseteq Page
      OBVIOUS
    <2>3. Neighbour(p, d) = IF next = {} THEN None ELSE CHOOSE q \in next : TRUE
      BY DEF Neighbour
    <2> HIDE DEF next
    <2> QED BY <2>1, <2>2, <2>3
  <1> QED BY <1>1 DEF NextPage

LEMMA NextCounter ==
    ASSUME TypeOK, NEW t \in Thread
    PROVE  /\ scan[t] \in Slot /\ 0 \in Slot
           /\ scan[t] # RcWidth - 1 => scan[t] + 1 \in Slot
  <1>1. scan[t] \in Slot
    BY DEF TypeOK
  <1> QED BY <1>1, RcWidthAssumption DEF Slot
(* An entry that may be cleaned has its page: nobody is filling it or      *)
(* taking its page away.                                                   *)
LEMMA CleanableMapped ==
    ASSUME TypeOK, CoreInv, NEW e \in Entry, Cleanable(e)
    PROVE  /\ Mapped(e) /\ disk_addr[e] \in Page
           /\ ~Has(e, "WRITEBACK") /\ ~Has(e, "CLEAN") /\ ~Has(e, "LOADING")
           /\ ~Has(e, "FREE") /\ inflight[e] = {}
           /\ \A u \in Thread : ~HasLock(u, e)
  <1>1. /\ ~Has(e, "WRITEBACK") /\ ~Has(e, "CLEAN") /\ ~Has(e, "LOADING")
        /\ ~Has(e, "FREE") /\ ~Has(e, "CLAIMED") /\ ~Has(e, "WRITELOCKED")
    BY DEF Cleanable, Has
  <1>2. \A u \in Thread : /\ ~HasLock(u, e) /\ ~HasClaim(u, e)
                          /\ ~Loads(u, e) /\ ~AllocsIn(u, e) /\ ~Fills(u, e)
    BY <1>1, RolesRelate DEF CoreInv, FlagsInv, FlagsAt
  <1>3. \A u \in Thread : /\ ~(pc[u] = "d_release" /\ ent[u] = e)
                          /\ ~(pc[u] = "e_release" /\ free_hand[u] = e)
    BY <1>2 DEF HasClaim
  <1>4. Mapped(e)
    BY <1>1, <1>2, <1>3 DEF CoreInv, MapsInv
  <1>5. inflight[e] = {}
    BY <1>1 DEF CoreInv, WritebackInv
  <1>6. disk_addr[e] \in Page
    BY <1>4 DEF Mapped, TypeOK
  <1> QED BY <1>1, <1>2, <1>4, <1>5, <1>6

(* CC_WRITEBACK of an entry is set, and its page is put in the thread's    *)
(* request or is given to the device.                                      *)
LEMMA WritebackSet ==
    ASSUME TypeOK, CoreInv, NEW t \in Thread, Others(t), SameRoles(t),
           NEW b \in Entry, Cleanable(b),
           status' = [status EXCEPT ![b] = @ \cup {"WRITEBACK"}],
           lookup' = lookup, disk_addr' = disk_addr,
           pc'[t] \in Flushed => pc[t] \in Flushed,
           pc[t] \in Cleaning \ {"clean"} => pc'[t] \in Cleaning \ {"clean"},
           NEW p,
           \/ /\ span' = span
              /\ inflight' = [inflight EXCEPT ![b] = {disk_addr[b]}]
           \/ /\ inflight' = inflight /\ pc'[t] \in Cleaning \ {"clean"}
              /\ span'[t] \subseteq span[t] \cup {<<p, b>>}
    PROVE  WritebackInv'
  <1>1. /\ Mapped(b) /\ inflight[b] = {} /\ ~Has(b, "WRITEBACK")
        /\ ~Has(b, "CLEAN") /\ ~Has(b, "LOADING")
        /\ \A u \in Thread : ~HasLock(u, b)
    BY CleanableMapped
  <1>2. \A u \in Thread : \A e \in Entry : HasLock(u, e)' <=> HasLock(u, e)
    BY OthersKeepRoles DEF SameRoles, SameRolesOn
  <1>3. \A u \in Thread : pc'[u] \in Flushed => pc[u] \in Flushed
    BY DEF Others
  <1>4. \A e \in Entry : Mapped(e)' <=> Mapped(e)
    BY DEF Mapped
  <1>5. \A e \in Entry \ {b} : \A f : Has(e, f)' <=> Has(e, f)
    BY DEF Has, TypeOK
  <1>6. Has(b, "WRITEBACK")' /\ ~Has(b, "CLEAN")' /\ ~Has(b, "LOADING")'
    BY <1>1 DEF Has, TypeOK
  <1>7. \A e \in Entry \ {b} : inflight'[e] = inflight[e]
    BY DEF TypeOK
  <1>8. \A u \in Thread : \A x \in span[u] : x[2] \in Entry \ {b}
    BY <1>1 DEF CoreInv, WritebackInv, LocalTypeOK
  <1>9. \A u \in Thread : \A x \in span'[u] :
           \/ x \in span[u]
           \/ u = t /\ x = <<p, b>> /\ inflight' = inflight
    BY DEF Others
  <1>a. (\A e \in Entry : Has(e, "WRITEBACK") =>
           /\ Mapped(e)
           /\ ~Has(e, "LOADING")
           /\ \A u \in Thread : HasLock(u, e) => pc[u] \notin Flushed)'
    <2> SUFFICES ASSUME NEW e \in Entry, Has(e, "WRITEBACK")'
                 PROVE  /\ Mapped(e)'
                        /\ ~Has(e, "LOADING")'
                        /\ \A u \in Thread : HasLock(u, e)' => pc'[u] \notin Flushed
      OBVIOUS
    <2>1. CASE e = b
      BY <1>1, <1>2, <1>4, <1>6, <2>1
    <2>2. CASE e # b
      <3>1. Has(e, "WRITEBACK") /\ (Has(e, "LOADING")' <=> Has(e, "LOADING"))
        BY <1>5, <2>2
      <3>2. /\ Mapped(e) /\ ~Has(e, "LOADING")
            /\ \A u \in Thread : HasLock(u, e) => pc[u] \notin Flushed
        BY <3>1 DEF CoreInv, WritebackInv
      <3> QED BY <1>2, <1>3, <1>4, <3>1, <3>2
    <2> QED BY <2>1, <2>2
  <1>b. (\A u \in Thread : span[u] # {} => pc[u] \in Cleaning \ {"clean"})'
    <2>1. \A u \in Thread : span[u] # {} => pc[u] \in Cleaning \ {"clean"}
      BY DEF CoreInv, WritebackInv
    <2>2. CASE span' = span
      BY <2>1, <2>2 DEF Others
    <2>3. CASE pc'[t] \in Cleaning \ {"clean"}
      BY <2>1, <2>3 DEF Others
    <2> QED BY <2>2, <2>3
  <1>c. (\A u \in Thread : \A x \in span[u] :
           Has(x[2], "WRITEBACK") /\ inflight[x[2]] = {} /\ ~Has(x[2], "CLEAN"))'
    <2> SUFFICES ASSUME NEW u \in Thread, NEW x \in span'[u]
                 PROVE  /\ Has(x[2], "WRITEBACK")' /\ inflight'[x[2]] = {}
                        /\ ~Has(x[2], "CLEAN")'
      OBVIOUS
    <2>1. CASE x \in span[u]
      <3>1. x[2] \in Entry \ {b}
        BY <1>8, <2>1
      <3>2. Has(x[2], "WRITEBACK") /\ inflight[x[2]] = {} /\ ~Has(x[2], "CLEAN")
        BY <2>1 DEF CoreInv, WritebackInv
      <3> QED BY <1>5, <1>7, <3>1, <3>2 DEF Has
    <2>2. CASE x = <<p, b>> /\ inflight' = inflight
      <3>1. x[2] = b
        BY <2>2
      <3> QED BY <1>1, <1>6, <2>2, <3>1 DEF Has
    <2> QED BY <1>9, <2>1, <2>2
  <1>d. (\A u, v \in Thread : \A x \in span[u], y \in span[v] : x[2] = y[2] => u = v /\ x = y)'
    <2> SUFFICES ASSUME NEW u \in Thread, NEW v \in Thread,
                        NEW x \in span'[u], NEW y \in span'[v], x[2] = y[2]
                 PROVE  u = v /\ x = y
      OBVIOUS
    <2>1. CASE x \in span[u] /\ y \in span[v]
      BY <2>1 DEF CoreInv, WritebackInv
    <2>2. CASE x \notin span[u]
      <3>1. u = t /\ x = <<p, b>>
        BY <1>9, <2>2
      <3>2. y[2] = b
        BY <3>1
      <3>3. y \notin span[v]
        BY <1>8, <3>2
      <3> QED BY <1>9, <3>1, <3>3
    <2>3. CASE y \notin span[v]
      <3>1. v = t /\ y = <<p, b>>
        BY <1>9, <2>3
      <3>2. x[2] = b
        BY <3>1
      <3>3. x \notin span[u]
        BY <1>8, <3>2
      <3> QED BY <1>9, <3>1, <3>3
    <2> QED BY <2>1, <2>2, <2>3
  <1>e. (\A e \in Entry : inflight[e] # {} => Has(e, "WRITEBACK") /\ inflight[e] = {disk_addr[e]})'
    <2>1. \A e \in Entry \ {b} : inflight'[e] # {} =>
             Has(e, "WRITEBACK")' /\ inflight'[e] = {disk_addr'[e]}
      BY <1>5, <1>7 DEF CoreInv, WritebackInv
    <2>2. inflight'[b] # {} => Has(b, "WRITEBACK")' /\ inflight'[b] = {disk_addr'[b]}
      BY <1>1, <1>6 DEF TypeOK
    <2> QED BY <2>1, <2>2
  <1> QED BY <1>a, <1>b, <1>c, <1>d, <1>e DEF WritebackInv
-----------------------------------------------------------------------------
(* Steps of a thread that has an entry for itself.                         *)

(* No other thread has set a flag of b, fills b or takes its page away. *)
Alone(t, b) ==
    \A u \in Thread \ {t} :
        /\ ~Fills(u, b) /\ ~HasClaim(u, b) /\ ~HasLock(u, b)
        /\ ~Loads(u, b) /\ ~AllocsIn(u, b)
        /\ pc[u] \in Staged \ {"e_release"} => ent[u] # b
        /\ pc[u] \in {"e_release", "e_unmap"} => free_hand[u] # b

LEMMA AloneRoles ==
    ASSUME NEW t, NEW b, \A u \in Thread \ {t} : ~Fills(u, b) /\ ~HasClaim(u, b)
    PROVE  Alone(t, b)
  <1> SUFFICES ASSUME NEW u \in Thread \ {t}
               PROVE  /\ ~Fills(u, b) /\ ~HasClaim(u, b) /\ ~HasLock(u, b)
                      /\ ~Loads(u, b) /\ ~AllocsIn(u, b)
                      /\ pc[u] \in Staged \ {"e_release"} => ent[u] # b
                      /\ pc[u] \in {"e_release", "e_unmap"} => free_hand[u] # b
    BY DEF Alone
  <1>1. ~HasLock(u, b) /\ ~Loads(u, b) /\ ~AllocsIn(u, b)
    BY RolesRelate
  <1>2. pc[u] \in Staged \ {"e_release"} => ent[u] # b
    BY DEF Staged, Fills, HasClaim, Filling, Loading
  <1>3. pc[u] \in {"e_release", "e_unmap"} => free_hand[u] # b
    BY DEF HasClaim
  <1> QED BY <1>1, <1>2, <1>3

LEMMA OwnerAlone ==
    ASSUME TypeOK, CoreInv, NEW t \in Thread, NEW b \in Entry,
           Fills(t, b) \/ HasClaim(t, b)
    PROVE  Alone(t, b)
  <1> SUFFICES ASSUME NEW u \in Thread \ {t}
               PROVE  ~Fills(u, b) /\ ~HasClaim(u, b)
    BY AloneRoles
  <1>1. Fills(t, b) => ~HasClaim(u, b)
    BY DEF CoreInv, FlagsInv, FlagsAt
  <1>2. HasClaim(t, b) => ~HasClaim(u, b) /\ ~Fills(u, b)
    BY DEF CoreInv, FlagsInv, FlagsAt
  <1>3. ASSUME Fills(t, b), Fills(u, b)
        PROVE  FALSE
    <2>1. free_hand[t] = b /\ free_hand[u] = b
      BY <1>3 DEF Fills, CoreInv, PlacesInv
    <2>2. b # None
      BY NoneAssumption
    <2> QED BY <2>1, <2>2 DEF CoreInv, HandsInv
  <1> QED BY <1>1, <1>2, <1>3

(* A thread that has a page has neither an entry that is being loaded nor  *)
(* one that no page is mapped to.                                          *)
LEMMA NobodyHas ==
    ASSUME TypeOK, CoreInv, NEW b \in Entry,
           Unmapped(b) \/ \E v \in Thread : Loads(v, b)
    PROVE  \A u \in Thread : pc[u] \in Valid => ent[u] # b
  <1> SUFFICES ASSUME NEW u \in Thread, pc[u] \in Valid, ent[u] = b
               PROVE  FALSE
    OBVIOUS
  <1>1. lookup[want[u]] = b /\ ~Has(b, "LOADING")
    BY DEF CoreInv, ValidInv
  <1>2. want[u] \in Page
    BY DEF TypeOK, CoreInv, PlacesInv, Valid
  <1> QED BY <1>1, <1>2 DEF Unmapped, CoreInv, FlagsInv, FlagsAt

(* Of the lookup table and the addresses, only what concerns b changes. *)
MapsOnly(b) ==
    /\ \A e \in Entry \ {b} : disk_addr'[e] = disk_addr[e]
    /\ \A q \in Page : \/ lookup'[q] = lookup[q]
                       \/ lookup[q] \in {None, b} /\ lookup'[q] \in {None, b}

(* Of the flags, only those of b change. *)
FlagsOnly(b) == \A e \in Entry \ {b} : \A f : Has(e, f)' <=> Has(e, f)

LEMMA OtherMaps ==
    ASSUME TypeOK, TypeOK', NEW b, MapsOnly(b)
    PROVE  \A e \in Entry \ {b} :
              /\ \A q \in Page : lookup'[q] = e <=> lookup[q] = e
              /\ Mapped(e)' <=> Mapped(e)
              /\ Unmapped(e)' <=> Unmapped(e)
  <1> SUFFICES ASSUME NEW e \in Entry \ {b}
               PROVE  /\ \A q \in Page : lookup'[q] = e <=> lookup[q] = e
                      /\ Mapped(e)' <=> Mapped(e)
                      /\ Unmapped(e)' <=> Unmapped(e)
    OBVIOUS
  <1>1. e # None
    BY NoneAssumption
  <1>2. \A q \in Page : lookup'[q] = e <=> lookup[q] = e
    BY <1>1 DEF MapsOnly
  <1>3. disk_addr'[e] = disk_addr[e] /\ disk_addr[e] \in Page \cup {None}
    BY DEF MapsOnly, TypeOK
  <1> QED BY <1>2, <1>3 DEF Mapped, Unmapped

LEMMA FlagsAlone ==
    ASSUME NEW t \in Thread, Others(t), NEW b \in Entry, Alone(t, b),
           Has(b, "CLAIMED")' <=> HasClaim(t, b)',
           Has(b, "WRITELOCKED")' <=> HasLock(t, b)',
           Has(b, "LOADING")' <=> Loads(t, b)',
           Fills(t, b)' => ~Has(b, "FREE")' /\ ~Has(b, "WRITEBACK")',
           Loads(t, b)' => Has(b, "CLEAN")',
           AllocsIn(t, b)' => ~Has(b, "CLEAN")'
    PROVE  FlagsAt(b)'
  <1>1. \A u \in Thread \ {t} :
           /\ ~Fills(u, b)' /\ ~HasClaim(u, b)' /\ ~HasLock(u, b)'
           /\ ~Loads(u, b)' /\ ~AllocsIn(u, b)'
    BY OthersKeepRoles DEF Alone, SameRoles, SameRolesOn
  <1> QED BY <1>1 DEF FlagsAt

LEMMA OwnMaps ==
    ASSUME TypeOK, TypeOK', CoreInv, NEW t \in Thread, Others(t),
           NEW b \in Entry, Alone(t, b), MapsOnly(b), FlagsOnly(b),
           pc[t] \in Staged \ {"e_release"} => ent[t] = b,
           pc[t] = "e_release" => free_hand[t] = b,
           \A q \in Page : lookup'[q] = b =>
              /\ ~Has(b, "FREE")'
              /\ \/ disk_addr'[b] = q
                 \/ pc'[t] = "setaddr" /\ ent'[t] = b /\ want'[t] = q,
           disk_addr'[b] # None =>
              /\ ~Has(b, "FREE")'
              /\ \/ lookup'[disk_addr'[b]] = b
                 \/ pc'[t] \in {"a_map", "unmap"} /\ ent'[t] = b /\ want'[t] = disk_addr'[b],
           pc'[t] \in {"got", "map", "abort", "setaddr", "release", "d_release"} =>
              ent'[t] = b /\ disk_addr'[b] = None,
           pc'[t] \in {"request", "load", "unmap", "a_map"} =>
              ent'[t] = b /\ disk_addr'[b] = want'[t],
           pc'[t] \in {"setaddr", "request", "load"} =>
              ent'[t] = b /\ lookup'[want'[t]] = b,
           pc'[t] \in {"got", "map", "abort", "unmap", "release", "a_map", "d_release"} =>
              Unmapped(b)',
           pc'[t] = "e_release" =>
              free_hand'[t] = b /\ disk_addr'[b] = None /\ Unmapped(b)',
           \/ Has(b, "FREE")' \/ Mapped(b)' \/ Fills(t, b)'
           \/ pc'[t] = "d_release" /\ ent'[t] = b
           \/ pc'[t] = "e_release" /\ free_hand'[t] = b
    PROVE  MapsInv'
  <1>1. \A u \in Thread \ {t} :
           /\ pc'[u] = pc[u] /\ ent'[u] = ent[u] /\ want'[u] = want[u]
           /\ free_hand'[u] = free_hand[u]
    BY DEF Others
  <1>2. \A e \in Entry \ {b} :
           /\ \A q \in Page : lookup'[q] = e <=> lookup[q] = e
           /\ Mapped(e)' <=> Mapped(e)
           /\ Unmapped(e)' <=> Unmapped(e)
           /\ disk_addr'[e] = disk_addr[e]
           /\ Has(e, "FREE")' <=> Has(e, "FREE")
    BY OtherMaps DEF MapsOnly, FlagsOnly
  <1>3. \A u \in Thread : /\ pc[u] \in Staged \ {"e_release"} => ent[u] \in Entry /\ want[u] \in Page
                          /\ pc[u] = "e_release" => free_hand[u] \in Entry
    BY DEF TypeOK, CoreInv, PlacesInv, Staged, EntryPCs, Filling, Loading,
           Evicting
  <1>5. \A e \in Entry \ {b} : ~Fills(t, e)
    BY DEF Fills, Filling, Loading, Staged
  <1>6. \A u \in Thread \ {t} : \A e \in Entry : Fills(u, e)' <=> Fills(u, e)
    BY OthersKeepRoles DEF SameRoles, SameRolesOn
  <1>a. (\A p \in Page : lookup[p] # None =>
           /\ ~Has(lookup[p], "FREE")
           /\ \/ disk_addr[lookup[p]] = p
              \/ \E u \in Thread : pc[u] = "setaddr" /\ ent[u] = lookup[p] /\ want[u] = p)'
    <2> SUFFICES ASSUME NEW p \in Page, NEW e \in Entry, lookup'[p] = e
                 PROVE  /\ ~Has(e, "FREE")'
                        /\ \/ disk_addr'[e] = p
                           \/ \E u \in Thread : pc'[u] = "setaddr" /\ ent'[u] = e /\ want'[u] = p
      BY DEF TypeOK
    <2>1. CASE e = b
      BY <2>1
    <2>2. CASE e # b
      <3>1. lookup[p] = e /\ e # None
        BY <1>2, <2>2, NoneAssumption
      <3>2. /\ ~Has(e, "FREE")
            /\ \/ disk_addr[e] = p
               \/ \E u \in Thread : pc[u] = "setaddr" /\ ent[u] = e /\ want[u] = p
        BY <3>1 DEF CoreInv, MapsInv
      <3>3. pc[t] = "setaddr" => ent[t] # e
        BY <2>2 DEF Staged
      <3> QED BY <1>1, <1>2, <2>2, <3>2, <3>3
    <2> QED BY <2>1, <2>2
  <1>b. (\A e \in Entry : disk_addr[e] # None =>
           /\ ~Has(e, "FREE")
           /\ \/ lookup[disk_addr[e]] = e
              \/ \E u \in Thread : pc[u] \in {"a_map", "unmap"} /\ ent[u] = e /\ want[u] = disk_addr[e])'
    <2> SUFFICES ASSUME NEW e \in Entry, NEW p \in Page, disk_addr'[e] = p, p # None
                 PROVE  /\ ~Has(e, "FREE")'
                        /\ \/ lookup'[p] = e
                           \/ \E u \in Thread : pc'[u] \in {"a_map", "unmap"} /\ ent'[u] = e /\ want'[u] = p
      BY DEF TypeOK
    <2>1. CASE e = b
      BY <2>1
    <2>2. CASE e # b
      <3>1. disk_addr[e] = p
        BY <1>2, <2>2
      <3>2. /\ ~Has(e, "FREE")
            /\ \/ lookup[p] = e
               \/ \E u \in Thread : pc[u] \in {"a_map", "unmap"} /\ ent[u] = e /\ want[u] = p
        BY <3>1 DEF CoreInv, MapsInv
      <3>3. pc[t] \in {"a_map", "unmap"} => ent[t] # e
        BY <2>2 DEF Staged
      <3> QED BY <1>1, <1>2, <2>2, <3>2, <3>3
    <2> QED BY <2>1, <2>2
  <1>c. (\A u \in Thread :
           /\ pc[u] \in {"got", "map", "abort", "setaddr", "release", "d_release"} => disk_addr[ent[u]] = None
           /\ pc[u] \in {"request", "load", "unmap", "a_map"} => disk_addr[ent[u]] = want[u]
           /\ pc[u] \in {"setaddr", "request", "load"} => lookup[want[u]] = ent[u]
           /\ pc[u] \in {"got", "map", "abort", "unmap", "release", "a_map", "d_release"} => Unmapped(ent[u])
           /\ pc[u] = "e_release" => disk_addr[free_hand[u]] = None /\ Unmapped(free_hand[u]))'
    <2> SUFFICES ASSUME NEW u \in Thread
                 PROVE  (/\ pc[u] \in {"got", "map", "abort", "setaddr", "release", "d_release"} => disk_addr[ent[u]] = None
                         /\ pc[u] \in {"request", "load", "unmap", "a_map"} => disk_addr[ent[u]] = want[u]
                         /\ pc[u] \in {"setaddr", "request", "load"} => lookup[want[u]] = ent[u]
                         /\ pc[u] \in {"got", "map", "abort", "unmap", "release", "a_map", "d_release"} => Unmapped(ent[u])
                         /\ pc[u] = "e_release" => disk_addr[free_hand[u]] = None /\ Unmapped(free_hand[u]))'
      OBVIOUS
    <2>1. CASE u = t
      BY <2>1 DEF Unmapped
    <2>2. CASE u # t
      <3>0. /\ pc[u] \in Staged \ {"e_release"} => ent[u] # b
            /\ pc[u] = "e_release" => free_hand[u] # b
        BY <2>2 DEF Alone
      <3>1. /\ pc[u] \in Staged \ {"e_release"} => ent[u] \in Entry \ {b} /\ want[u] \in Page
            /\ pc[u] = "e_release" => free_hand[u] \in Entry \ {b}
        <4>1. /\ pc[u] \in Staged \ {"e_release"} => ent[u] \in Entry /\ want[u] \in Page
              /\ pc[u] = "e_release" => free_hand[u] \in Entry
          BY <1>3
        <4> QED BY <3>0, <4>1
      <3>2. /\ pc[u] \in {"got", "map", "abort", "setaddr", "release", "d_release"} => disk_addr[ent[u]] = None
            /\ pc[u] \in {"request", "load", "unmap", "a_map"} => disk_addr[ent[u]] = want[u]
            /\ pc[u] \in {"setaddr", "request", "load"} => lookup[want[u]] = ent[u]
            /\ pc[u] \in {"got", "map", "abort", "unmap", "release", "a_map", "d_release"} => Unmapped(ent[u])
            /\ pc[u] = "e_release" => disk_addr[free_hand[u]] = None /\ Unmapped(free_hand[u])
        BY DEF CoreInv, MapsInv
      <3>3. pc'[u] = pc[u] /\ ent'[u] = ent[u] /\ want'[u] = want[u] /\ free_hand'[u] = free_hand[u]
        BY <1>1, <2>2
      <3> QED BY <1>2, <3>1, <3>2, <3>3 DEF Staged, Unmapped
    <2> QED BY <2>1, <2>2
  <1>d. (\A e \in Entry :
           \/ Has(e, "FREE") \/ Mapped(e)
           \/ \E u \in Thread :
                  \/ Fills(u, e)
                  \/ pc[u] = "d_release" /\ ent[u] = e
                  \/ pc[u] = "e_release" /\ free_hand[u] = e)'
    <2> SUFFICES ASSUME NEW e \in Entry
                 PROVE  (\/ Has(e, "FREE") \/ Mapped(e)
                         \/ \E u \in Thread :
                                \/ Fills(u, e)
                                \/ pc[u] = "d_release" /\ ent[u] = e
                                \/ pc[u] = "e_release" /\ free_hand[u] = e)'
      OBVIOUS
    <2>1. CASE e = b
      BY <2>1
    <2>2. CASE e # b
      <3>1. CASE Has(e, "FREE") \/ Mapped(e)
        BY <1>2, <2>2, <3>1
      <3>2. CASE \E u \in Thread :
                    \/ Fills(u, e)
                    \/ pc[u] = "d_release" /\ ent[u] = e
                    \/ pc[u] = "e_release" /\ free_hand[u] = e
        <4>1. PICK u \in Thread :
                    \/ Fills(u, e)
                    \/ pc[u] = "d_release" /\ ent[u] = e
                    \/ pc[u] = "e_release" /\ free_hand[u] = e
          BY <3>2
        <4>2. u # t
          BY <1>5, <2>2, <4>1 DEF Staged
        <4> QED BY <1>1, <1>6, <4>1, <4>2
      <3>3. \/ Has(e, "FREE") \/ Mapped(e)
            \/ \E u \in Thread :
                  \/ Fills(u, e)
                  \/ pc[u] = "d_release" /\ ent[u] = e
                  \/ pc[u] = "e_release" /\ free_hand[u] = e
        BY DEF CoreInv, MapsInv
      <3> QED BY <3>1, <3>2, <3>3
    <2> QED BY <2>1, <2>2
  <1> QED BY <1>a, <1>b, <1>c, <1>d DEF MapsInv
LEMMA OwnValid ==
    ASSUME TypeOK, TypeOK', CoreInv, NEW t \in Thread, Others(t),
           NEW b \in Entry, MapsOnly(b), FlagsOnly(b),
           \A u \in Thread \ {t} : pc[u] \in Valid => ent[u] # b,
           pc'[t] \in Valid =>
              /\ disk_addr'[ent'[t]] = want'[t] /\ lookup'[want'[t]] = ent'[t]
              /\ ~Has(ent[t], "FREE")' /\ ~Has(ent[t], "LOADING")'
    PROVE  ValidInv'
  <1> SUFFICES ASSUME NEW u \in Thread \ {t}, pc'[u] \in Valid
               PROVE  /\ disk_addr'[ent'[u]] = want'[u] /\ lookup'[want'[u]] = ent'[u]
                      /\ ~Has(ent[u], "FREE")' /\ ~Has(ent[u], "LOADING")'
    BY DEF ValidInv
  <1>1. pc[u] \in Valid /\ ent'[u] = ent[u] /\ want'[u] = want[u]
    BY DEF Others
  <1>2. ent[u] \in Entry \ {b} /\ want[u] \in Page
    BY <1>1 DEF TypeOK, CoreInv, PlacesInv, EntryPCs, Valid
  <1>3. /\ disk_addr[ent[u]] = want[u] /\ lookup[want[u]] = ent[u]
        /\ ~Has(ent[u], "FREE") /\ ~Has(ent[u], "LOADING")
    BY <1>1 DEF CoreInv, ValidInv
  <1>4. disk_addr'[ent[u]] = want[u] /\ lookup'[want[u]] = ent[u]
    BY <1>2, <1>3, OtherMaps DEF MapsOnly
  <1>5. "FREE" \notin status'[ent[u]] /\ "LOADING" \notin status'[ent[u]]
    BY <1>2, <1>3 DEF FlagsOnly, Has
  <1> QED BY <1>1, <1>4, <1>5 DEF Has

LEMMA OwnDrain ==
    ASSUME TypeOK, TypeOK', CoreInv, NEW t \in Thread, Others(t),
           NEW b \in Entry, Alone(t, b), MapsOnly(b),
           \A e \in Entry : HasLock(t, e)' => e = b /\ Drained(t)' = 0,
           RefOf(t)' \in {RefOf(t), None, b}, RefOf(t)' \notin {None, b} => Harmless(t, RefOf(t))'
    PROVE  DrainInv'
  <1> SUFFICES ASSUME NEW e \in Entry, NEW v \in Thread, NEW u \in Thread,
                      HasLock(v, e)', u # v, RefOf(u)' = e, SlotOf[u] < Drained(v)'
               PROVE  Harmless(u, e)'
    BY DEF DrainInv
  <1>1. v # t
    <2>1. SlotOf[u] \in Nat
      BY SlotAssumption DEF Slot
    <2> QED BY <2>1
  <1>2. HasLock(v, e) /\ Drained(v)' = Drained(v)
    BY <1>1, OthersKeepRoles DEF SameRoles, SameRolesOn
  <1>3. e # b
    BY <1>1, <1>2 DEF Alone
  <1>4. CASE u = t
    BY <1>3, <1>4, NoneAssumption
  <1>5. CASE u # t
    <2>1. RefOf(u) = e
      BY <1>5, OthersKeepRoles
    <2>2. Harmless(u, e)
      BY <1>2, <2>1 DEF CoreInv, DrainInv
    <2> QED BY <1>3, <1>5, <2>2 DEF Harmless, Others, MapsOnly
  <1> QED BY <1>4, <1>5

LEMMA OwnWriteback ==
    ASSUME TypeOK, TypeOK', CoreInv, NEW t \in Thread, Others(t),
           NEW b \in Entry, MapsOnly(b), FlagsOnly(b),
           ~Has(b, "WRITEBACK"), ~Has(b, "WRITEBACK")',
           span' = span, inflight' = inflight, pc[t] \notin Cleaning,
           \A e \in Entry \ {b} : ~HasLock(t, e)'
    PROVE  WritebackInv'
  <1>1. \A e \in Entry \ {b} :
           /\ Mapped(e)' <=> Mapped(e)
           /\ disk_addr'[e] = disk_addr[e]
           /\ \A f : Has(e, f)' <=> Has(e, f)
    BY OtherMaps DEF MapsOnly, FlagsOnly
  <1>2. \A u \in Thread : \A x \in span[u] : x[2] \in Entry \ {b}
    BY DEF CoreInv, WritebackInv, LocalTypeOK
  <1>a. (\A e \in Entry : Has(e, "WRITEBACK") =>
           /\ Mapped(e)
           /\ ~Has(e, "LOADING")
           /\ \A u \in Thread : HasLock(u, e) => pc[u] \notin Flushed)'
    <2> SUFFICES ASSUME NEW e \in Entry \ {b}, Has(e, "WRITEBACK")'
                 PROVE  /\ Mapped(e)'
                        /\ ~Has(e, "LOADING")'
                        /\ \A u \in Thread : HasLock(u, e)' => pc'[u] \notin Flushed
      OBVIOUS
    <2>1. Has(e, "WRITEBACK")
      BY <1>1
    <2>2. /\ Mapped(e) /\ ~Has(e, "LOADING")
          /\ \A u \in Thread : HasLock(u, e) => pc[u] \notin Flushed
      BY <2>1 DEF CoreInv, WritebackInv
    <2>3. \A u \in Thread \ {t} : HasLock(u, e)' => HasLock(u, e) /\ pc'[u] = pc[u]
      BY OthersKeepRoles DEF SameRoles, SameRolesOn, Others
    <2>4. \A u \in Thread : HasLock(u, e)' => pc'[u] \notin Flushed
      BY <2>2, <2>3
    <2> QED BY <1>1, <2>2, <2>4
  <1>b. (\A u \in Thread : span[u] # {} => pc[u] \in Cleaning \ {"clean"})'
    <2>1. \A u \in Thread : span[u] # {} => pc[u] \in Cleaning \ {"clean"}
      BY DEF CoreInv, WritebackInv
    <2> QED BY <2>1 DEF Others
  <1>c. (\A u \in Thread : \A x \in span[u] :
           Has(x[2], "WRITEBACK") /\ inflight[x[2]] = {} /\ ~Has(x[2], "CLEAN"))'
    <2> SUFFICES ASSUME NEW u \in Thread, NEW x \in span[u]
                 PROVE  /\ Has(x[2], "WRITEBACK")' /\ inflight'[x[2]] = {}
                        /\ ~Has(x[2], "CLEAN")'
      OBVIOUS
    <2>1. Has(x[2], "WRITEBACK") /\ inflight[x[2]] = {} /\ ~Has(x[2], "CLEAN")
      BY DEF CoreInv, WritebackInv
    <2> QED BY <1>1, <1>2, <2>1
  <1>d. (\A u, v \in Thread : \A x \in span[u], y \in span[v] : x[2] = y[2] => u = v /\ x = y)'
    BY DEF CoreInv, WritebackInv
  <1>e. (\A e \in Entry : inflight[e] # {} => Has(e, "WRITEBACK") /\ inflight[e] = {disk_addr[e]})'
    <2>1. \A e \in Entry : inflight[e] # {} => Has(e, "WRITEBACK") /\ inflight[e] = {disk_addr[e]}
      BY DEF CoreInv, WritebackInv
    <2> QED BY <1>1, <2>1
  <1> QED BY <1>a, <1>b, <1>c, <1>d, <1>e DEF WritebackInv

LEMMA OwnData ==
    ASSUME TypeOK, TypeOK', CoreInv, NEW t \in Thread, Others(t),
           NEW b \in Entry, Alone(t, b), MapsOnly(b), FlagsOnly(b),
           \A e \in Entry \ {b} : current'[e] = current[e],
           Mapped(b)' /\ ~Has(b, "LOADING")' => current'[b],
           \A q \in live' :
              \/ lookup'[q] = b /\ disk_addr'[b] = q /\ ~Has(b, "CLEAN")'
              \/ /\ q \in live /\ saved'[q] = saved[q]
                 /\ saved[q] \/ lookup[q] # b \/ disk_addr[b] # q \/ Has(b, "CLEAN"),
           pc'[t] # "e_unmap"
    PROVE  DataInv'
  <1>1. \A e \in Entry \ {b} :
           /\ \A q \in Page : lookup'[q] = e <=> lookup[q] = e
           /\ Mapped(e)' <=> Mapped(e)
           /\ disk_addr'[e] = disk_addr[e]
           /\ \A f : Has(e, f)' <=> Has(e, f)
    BY OtherMaps DEF MapsOnly, FlagsOnly
  <1>a. \A e \in Entry : Mapped(e)' /\ ~Has(e, "LOADING")' => current'[e]
    BY <1>1 DEF CoreInv, DataInv
  <1>b. \A q \in live' : saved'[q] \/ (/\ lookup'[q] # None /\ disk_addr'[lookup'[q]] = q
                                    /\ ~Has(lookup[q], "CLEAN")')
    <2> SUFFICES ASSUME NEW q \in live', ~saved'[q]
                 PROVE  \E e \in Entry : lookup'[q] = e /\ disk_addr'[e] = q /\ ~Has(e, "CLEAN")'
      BY NoneAssumption DEF Has
    <2>1. CASE lookup'[q] = b /\ disk_addr'[b] = q /\ ~Has(b, "CLEAN")'
      BY <2>1
    <2>2. CASE /\ q \in live /\ saved'[q] = saved[q]
               /\ saved[q] \/ lookup[q] # b \/ disk_addr[b] # q \/ Has(b, "CLEAN")
      <3>1. q \in Page /\ ~saved[q]
        BY <2>2 DEF TypeOK
      <3>2. /\ lookup[q] # None /\ disk_addr[lookup[q]] = q
            /\ ~Has(lookup[q], "CLEAN")
        BY <2>2, <3>1 DEF CoreInv, DataInv
      <3>3. lookup[q] \in Entry
        BY <3>1, <3>2 DEF TypeOK
      <3>4. lookup[q] # b
        BY <2>2, <3>1, <3>2
      <3> QED BY <1>1, <3>1, <3>2, <3>3, <3>4
    <2> QED BY <2>1, <2>2
  <1>c. \A u \in Thread : pc'[u] = "e_unmap" => Has(free_hand[u], "CLEAN")' /\ ~Has(free_hand[u], "LOADING")'
    <2> SUFFICES ASSUME NEW u \in Thread \ {t}, pc'[u] = "e_unmap"
                 PROVE  "CLEAN" \in status'[free_hand'[u]] /\ "LOADING" \notin status'[free_hand'[u]]
      BY DEF Has
    <2>1. pc[u] = "e_unmap" /\ free_hand'[u] = free_hand[u]
      BY DEF Others
    <2>2. free_hand[u] \in Entry \ {b}
      BY <2>1 DEF Alone, TypeOK, CoreInv, PlacesInv, Evicting
    <2>3. Has(free_hand[u], "CLEAN") /\ ~Has(free_hand[u], "LOADING")
      BY <2>1 DEF CoreInv, DataInv
    <2> QED BY <1>1, <2>1, <2>2, <2>3 DEF Has
  <1> QED BY <1>a, <1>b, <1>c DEF DataInv

LEMMA OwnUsers ==
    ASSUME TypeOK, TypeOK', CoreInv, NEW t \in Thread, Others(t),
           UNCHANGED <<op, want, live>>,
           op[t] = "discard" => FALSE,
           \A q \in Page \ live : lookup'[q] \in {lookup[q], None}
    PROVE  UsersInv'
  <1>1. \A u \in Thread : op[u] = "discard" => u # t
    OBVIOUS
  <1>2. ASSUME NEW q \in Page \ live
        PROVE  \/ lookup'[q] = None
               \/ \E u \in Thread : op[u] = "discard" /\ want[u] = q /\ pc'[u] \notin {"d_release", "d_dec"}
    BY <1>1 DEF CoreInv, UsersInv, Others
  <1> QED BY <1>2 DEF CoreInv, UsersInv

(* The entry holds no page: its status may be anything but written back. *)
LEMMA UnmappedStatus ==
    ASSUME TypeOK, TypeOK', CoreInv, NEW t \in Thread, Others(t),
           NEW b \in Entry, Alone(t, b), Unmapped(b), disk_addr[b] = None,
           UNCHANGED <<lookup, disk_addr, current, saved, live, span, inflight>>,
           FlagsOnly(b), ~Has(b, "WRITEBACK")', FlagsAt(b)',
           \A e \in Entry \ {b} : SameRolesOn(t, e) /\ ~HasLock(t, e)',
           pc[t] \notin Cleaning, pc'[t] \notin Valid \cup {"e_unmap"},
           pc[t] \in Staged \ {"e_release"} => ent[t] = b,
           pc[t] = "e_release" => free_hand[t] = b,
           pc'[t] \notin Staged \ {"got", "map"},
           pc'[t] \in {"got", "map"} => ent'[t] = b,
           Has(b, "FREE")' \/ Fills(t, b)'
    PROVE  FlagsInv' /\ MapsInv' /\ ValidInv' /\ WritebackInv' /\ DataInv'
  <1>0. /\ MapsOnly(b) /\ ~Mapped(b) /\ ~Mapped(b)' /\ Unmapped(b)'
        /\ \A q \in Page : lookup[q] # b
    BY DEF MapsOnly, Mapped, Unmapped
  <1>1. FlagsInv'
    <2>1. \A e \in Entry \ {b} : SameFlags(e)
      BY DEF FlagsOnly, SameFlags
    <2> QED BY <2>1, FlagsStep DEF CoreInv
  <1>2. MapsInv'
    BY <1>0, OwnMaps DEF Staged
  <1>3. ValidInv'
    BY <1>0, NobodyHas, OwnValid
  <1>4. WritebackInv'
    <2>1. ~Has(b, "WRITEBACK")
      BY <1>0 DEF CoreInv, WritebackInv
    <2> QED BY <1>0, <2>1, OwnWriteback
  <1>5. DataInv'
    <2>1. live \subseteq Page
      BY DEF TypeOK
    <2> QED BY <1>0, <2>1, OwnData
  <1> QED BY <1>1, <1>2, <1>3, <1>4, <1>5
(* The thread with the lock takes the page of the entry away. *)
LEMMA UnmapEntry ==
    ASSUME TypeOK, TypeOK', CoreInv, NEW t \in Thread, Others(t),
           NEW b \in Entry, HasLock(t, b), ~Has(b, "LOADING"),
           \/ pc[t] = "d_unmap" /\ pc'[t] = "d_release"
           \/ pc[t] = "e_unmap" /\ pc'[t] = "e_release",
           SameRoles(t), RefOf(t)' = RefOf(t), Drained(t)' = Drained(t),
           disk_addr' = [disk_addr EXCEPT ![b] = None],
           \A q \in Page : lookup'[q] = IF q = disk_addr[b] THEN None ELSE lookup[q],
           UNCHANGED <<status, current, saved, live, span, inflight,
                       op, want, ent, free_hand>>,
           \A u \in Thread \ {t} : pc[u] \in Valid => ent[u] # b,
           \A q \in live : saved[q] \/ disk_addr[b] # q \/ Has(b, "CLEAN")
    PROVE  MapsInv' /\ ValidInv' /\ DrainInv' /\ WritebackInv' /\ DataInv'
  <1>1. HasClaim(t, b) /\ Alone(t, b) /\ b # None
    BY RolesRelate, OwnerAlone, NoneAssumption
  <1>2. \A q \in Page : lookup[q] = b => disk_addr[b] = q
    <2>1. \A u \in Thread : ~(pc[u] = "setaddr" /\ ent[u] = b)
      BY <1>1 DEF Alone, Staged
    <2> QED BY <1>1, <2>1 DEF CoreInv, MapsInv
  <1>3. disk_addr[b] # None => lookup[disk_addr[b]] = b
    <2>1. \A u \in Thread : ~(pc[u] \in {"a_map", "unmap"} /\ ent[u] = b)
      BY <1>1 DEF Alone, Staged
    <2> QED BY <2>1 DEF CoreInv, MapsInv
  <1>4. disk_addr'[b] = None /\ Unmapped(b)' /\ ~Mapped(b)'
    <2>1. disk_addr'[b] = None /\ \A q \in Page : lookup'[q] # b
      BY <1>1, <1>2 DEF TypeOK
    <2> QED BY <2>1 DEF Unmapped, Mapped
  <1>5. MapsOnly(b) /\ FlagsOnly(b)
    <2>1. \A e \in Entry \ {b} : disk_addr'[e] = disk_addr[e]
      BY DEF TypeOK
    <2>2. \A q \in Page : \/ lookup'[q] = lookup[q]
                          \/ lookup[q] = b /\ lookup'[q] = None
      BY <1>3, NoneAssumption
    <2> QED BY <2>1, <2>2 DEF MapsOnly, FlagsOnly, Has
  <1>6. MapsInv'
    <2>1. /\ pc'[t] = "d_release" => ent'[t] = b
          /\ pc'[t] = "e_release" => free_hand'[t] = b
          /\ pc[t] \notin Staged
      BY DEF HasLock, Allocs, Staged
    <2>2. \A q \in Page : lookup'[q] # b
      BY <1>4 DEF Unmapped
    <2> QED BY <1>1, <1>4, <1>5, <2>1, <2>2, OwnMaps
  <1>7. ValidInv'
    <2>1. pc'[t] \notin Valid
      BY DEF Valid
    <2> QED BY <1>5, <2>1, OwnValid
  <1>8. DrainInv'
    <2> SUFFICES ASSUME NEW e \in Entry, NEW v \in Thread, NEW u \in Thread,
                        HasLock(v, e)', u # v, RefOf(u)' = e, SlotOf[u] < Drained(v)'
                 PROVE  Harmless(u, e)'
      BY DEF DrainInv
    <2>1. HasLock(v, e) /\ Drained(v)' = Drained(v) /\ RefOf(u) = e
      BY OthersKeepRoles DEF SameRoles, SameRolesOn
    <2>2. Harmless(u, e)
      BY <2>1 DEF CoreInv, DrainInv
    <2>3. u # t
      BY <2>2 DEF Harmless, Blocked, Trying
    <2>4. pc'[u] = pc[u] /\ want'[u] = want[u]
      BY <2>3 DEF Others
    <2>5. pc[u] \in Trying => want[u] # None
      BY DEF CoreInv, PlacesInv, Trying
    <2>6. disk_addr'[e] \in {disk_addr[e], None}
      BY <1>4, <1>5 DEF MapsOnly
    <2> QED BY <2>2, <2>4, <2>5, <2>6 DEF Harmless
  <1>9. WritebackInv'
    <2>1. pc[t] \in Flushed /\ pc[t] \notin Cleaning
      BY DEF Flushed, Cleaning
    <2>2. ~Has(b, "WRITEBACK")
      BY <2>1 DEF CoreInv, WritebackInv
    <2>3. ~Has(b, "WRITEBACK")'
      BY <2>2 DEF Has
    <2>4. \A e \in Entry \ {b} : ~HasLock(t, e)'
      BY DEF HasLock, Allocs
    <2> QED BY <1>5, <2>1, <2>2, <2>3, <2>4, OwnWriteback
  <1>a. DataInv'
    <2>1. \A q \in live' : q \in live /\ q \in Page /\ saved'[q] = saved[q]
      BY DEF TypeOK
    <2> QED BY <1>1, <1>2, <1>4, <1>5, <2>1, OwnData
  <1> QED BY <1>6, <1>7, <1>8, <1>9, <1>a


-----------------------------------------------------------------------------
(* The steps of a call.                                                    *)

(* LookupEntry: A call has found an entry in the table, or looks for a     *)
(* free one.                                                               *)
LEMMA LookupEntryStep ==
    ASSUME TypeOK, CoreInv, NEW t \in Thread, LookupEntry(t),
           broken = "no", broken' = "no"
    PROVE  TypeOK' /\ CoreInv'
  <1> USE NoneAssumption
          DEF CoreInv, LookupEntry, Goto, Return, vars, entryVars, diskVars,
              handVars, callVars
  <1>1. Others(t)
    BY DEF Others, TypeOK, LocalTypeOK
  <1>2. LocalTypeOK'
    <2>1. PICK at \in PCs : pc' = [pc EXCEPT ![t] = at]
      BY DEF LocalTypeOK, Blocked, Trying, Valid, Loading, Filling, Evicting,
             HandTests, Cleaning, EntryPCs, PCs
    <2> QED BY <2>1 DEF LocalTypeOK
  <1>3. /\ pc[t] = "lookup"
        /\ \/ /\ pc'[t] = "read" /\ ent'[t] \in Entry
              /\ op'[t] = op[t] /\ want'[t] = want[t]
           \/ /\ pc'[t] = "take" /\ op[t] # "discard"
              /\ op'[t] = op[t] /\ want'[t] = want[t] /\ ent'[t] = ent[t]
           \/ /\ pc'[t] = "idle" /\ op[t] = "discard" /\ lookup[want[t]] = None
              /\ op'[t] = "none" /\ want'[t] = None /\ ent'[t] = None
    BY DEF TypeOK, LocalTypeOK, PlacesInv
  <1>4. TypeOK'
    <2>1. want[t] # None
      BY DEF PlacesInv
    <2>2. CASE UNCHANGED <<op, want, ent, scan>>
      BY <2>2 DEF TypeOK
    <2>3. CASE lookup[want[t]] # None
      BY <2>1, <2>3 DEF TypeOK
    <2>4. CASE Return(t)
      BY <2>4 DEF TypeOK
    <2> QED BY <2>2, <2>3, <2>4
  <1>5. PlacesInv'
    BY <1>1, <1>4, <1>3
    DEF TypeOK, LocalTypeOK, PlacesInv, OpsAt, NextPage, Blocked, Trying,
        Valid, Loading, Filling, Evicting, HandTests, Cleaning, EntryPCs, PCs
  <1>6. HandsInv'
    BY DEF TypeOK, LocalTypeOK, HandsInv, PlacesInv
  <1>7. UsersInv'
    BY <1>1, <1>4, <1>3, UsersKept DEF PlacesInv, OpsAt
  <1>8. SameRoles(t) /\ RefOf(t)' = RefOf(t)
    BY <1>3
    DEF PlacesInv, RefOf, SameRoles, SameRolesOn, HasClaim, HasLock, Loads,
        Fills, AllocsIn, Allocs, Blocked, Trying, Valid, Loading, Filling,
        Evicting, HandTests, Cleaning, EntryPCs, PCs
  <1>9. CountsInv'
    BY <1>1, <1>8, CountsKept
  <1>10. FlagsInv' /\ MapsInv' /\ WritebackInv' /\ DataInv'
    <2>1. /\ pc[t] \notin Staged /\ pc'[t] \notin Staged \cup {"e_unmap"}
          /\ pc[t] \notin {"lock_flush", "e_flush"} /\ pc'[t] \notin Flushed
          /\ pc[t] \in Cleaning \ {"clean"} => pc'[t] \in Cleaning \ {"clean"}
      BY <1>3 DEF Staged, Flushed, Cleaning
    <2>2. \A e \in Entry : \A f \in Flag \ {"ACCESSED"} : Has(e, f)' <=> Has(e, f)
      BY DEF Has, TypeOK
    <2> QED BY <1>1, <1>4, <1>8, <2>1, <2>2, QuietStep
  <1>11. ValidInv'
    <2>1. pc'[t] \in Valid => pc[t] \in Valid /\ ent'[t] = ent[t] /\ want'[t] = want[t]
      BY <1>3 DEF Valid
    <2> QED BY <1>1, <1>4, <2>1, ValidKept DEF Has
  <1>12. DrainInv'
    <2>1. \A e \in Entry : HasLock(t, e)' /\ Drained(t)' > 0 =>
             HasLock(t, e) /\ Drained(t)' <= Drained(t)
      BY <1>8, <1>3 DEF Drained, SameRoles, SameRolesOn
    <2>2. \A e \in Entry : RefOf(t)' = e /\ ~Harmless(t, e)' =>
             RefOf(t) = e /\ ~Harmless(t, e)
      BY <1>8, <1>3 DEF Harmless, Blocked, Trying
    <2> QED BY <1>1, <1>4, <2>1, <2>2, DrainKept
  <1> QED BY <1>1, <1>2, <1>3, <1>4, <1>5, <1>6, <1>7, <1>8, <1>9, <1>10,
             <1>11, <1>12

(* ReadTest: The entry is not locked yet; an asynchronous get gives up on  *)
(* a lock.                                                                 *)
LEMMA ReadTestStep ==
    ASSUME TypeOK, CoreInv, NEW t \in Thread, ReadTest(t),
           broken = "no", broken' = "no"
    PROVE  TypeOK' /\ CoreInv'
  <1> USE NoneAssumption
          DEF CoreInv, ReadTest, Goto, Return, vars, entryVars, diskVars,
              handVars, callVars
  <1>1. Others(t)
    BY DEF Others, TypeOK, LocalTypeOK
  <1>2. LocalTypeOK'
    BY DEF TypeOK, LocalTypeOK, PlacesInv, Blocked, Trying, Valid, Loading,
           Filling, Evicting, HandTests, Cleaning, EntryPCs, PCs
  <1>3. /\ pc[t] = "read"
        /\ \/ pc'[t] = "inc" /\ op'[t] = op[t] /\ want'[t] = want[t] /\ ent'[t] = ent[t]
           \/ pc'[t] = "idle" /\ op[t] = "async" /\ op'[t] = "none" /\ want'[t] = None /\ ent'[t] = None
    BY DEF TypeOK, LocalTypeOK, PlacesInv
  <1>4. TypeOK'
    <2>1. given_up' \subseteq Thread
      BY DEF TypeOK
    <2>2. QED
      BY <2>1 DEF TypeOK, LocalTypeOK, Flag, PlacesInv, Slot, EntryPCs, Filling,
           Loading, Evicting, HandTests
  <1>5. PlacesInv'
    BY <1>1, <1>4, <1>3
    DEF TypeOK, LocalTypeOK, PlacesInv, OpsAt, NextPage, Blocked, Trying,
        Valid, Loading, Filling, Evicting, HandTests, Cleaning, EntryPCs, PCs
  <1>6. HandsInv'
    BY DEF TypeOK, LocalTypeOK, HandsInv, PlacesInv
  <1>7. UsersInv'
    BY <1>1, <1>4, <1>3, UsersKept DEF PlacesInv, OpsAt
  <1>8. SameRoles(t) /\ RefOf(t)' = RefOf(t)
    BY <1>3
    DEF PlacesInv, RefOf, SameRoles, SameRolesOn, HasClaim, HasLock, Loads,
        Fills, AllocsIn, Allocs, Blocked, Trying, Valid, Loading, Filling,
        Evicting, HandTests, Cleaning, EntryPCs, PCs
  <1>9. CountsInv'
    BY <1>1, <1>8, CountsKept
  <1>10. FlagsInv' /\ MapsInv' /\ WritebackInv' /\ DataInv'
    <2>1. /\ pc[t] \notin Staged /\ pc'[t] \notin Staged \cup {"e_unmap"}
          /\ pc[t] \notin {"lock_flush", "e_flush"} /\ pc'[t] \notin Flushed
          /\ pc[t] \in Cleaning \ {"clean"} => pc'[t] \in Cleaning \ {"clean"}
      BY <1>3 DEF Staged, Flushed, Cleaning
    <2>2. \A e \in Entry : \A f \in Flag \ {"ACCESSED"} : Has(e, f)' <=> Has(e, f)
      BY DEF Has, TypeOK
    <2> QED BY <1>1, <1>4, <1>8, <2>1, <2>2, QuietStep
  <1>11. ValidInv'
    <2>1. pc'[t] \in Valid => pc[t] \in Valid /\ ent'[t] = ent[t] /\ want'[t] = want[t]
      BY <1>3 DEF Valid
    <2> QED BY <1>1, <1>4, <2>1, ValidKept DEF Has
  <1>12. DrainInv'
    <2>1. \A e \in Entry : HasLock(t, e)' /\ Drained(t)' > 0 =>
             HasLock(t, e) /\ Drained(t)' <= Drained(t)
      BY <1>8, <1>3 DEF Drained, SameRoles, SameRolesOn
    <2>2. \A e \in Entry : RefOf(t)' = e /\ ~Harmless(t, e)' =>
             RefOf(t) = e /\ ~Harmless(t, e)
      BY <1>8, <1>3 DEF Harmless, Blocked, Trying
    <2> QED BY <1>1, <1>4, <2>1, <2>2, DrainKept
  <1> QED BY <1>1, <1>2, <1>3, <1>4, <1>5, <1>6, <1>7, <1>8, <1>9, <1>10,
             <1>11, <1>12

(* ReadInc: The reference is counted before the entry is looked at again.  *)
LEMMA ReadIncStep ==
    ASSUME TypeOK, CoreInv, NEW t \in Thread, ReadInc(t),
           broken = "no", broken' = "no"
    PROVE  TypeOK' /\ CoreInv'
  <1> USE NoneAssumption
          DEF CoreInv, ReadInc, Goto, vars, entryVars, diskVars, handVars,
              callVars
  <1>1. Others(t)
    BY DEF Others, TypeOK, LocalTypeOK
  <1>2. LocalTypeOK'
    BY DEF TypeOK, LocalTypeOK, PlacesInv, Blocked, Trying, Valid, Loading,
           Filling, Evicting, HandTests, Cleaning, EntryPCs, PCs
  <1>3. SameRoles(t)
    BY DEF TypeOK, LocalTypeOK, PlacesInv, OpsAt, SameRoles, SameRolesOn,
           HasClaim, HasLock, Loads, Fills, AllocsIn, Allocs, Blocked, Trying,
           Valid, Loading, Filling, Evicting, HandTests, Cleaning, EntryPCs,
           PCs
  <1>4. ent[t] \in Entry /\ RefOf(t) = None /\ RefOf(t)' = ent[t]
    BY DEF TypeOK, LocalTypeOK, PlacesInv, RefOf, Blocked, Trying, Valid,
           Loading, Filling, Evicting, HandTests, Cleaning, EntryPCs, PCs
  <1>5. CountsInv' /\ refcount' \in [Entry -> [Slot -> Nat]]
    <2>1. CountsInv'
      BY <1>1, <1>4, OthersKeepRoles, CountsInc DEF IncRef
    <2>2. refcount' \in [Entry -> [Slot -> Nat]]
      BY <1>4, SlotAssumption DEF IncRef, TypeOK
    <2> QED BY <2>1, <2>2
  <1>6. TypeOK'
    BY <1>5 DEF TypeOK, LocalTypeOK
  <1>7. PlacesInv'
    BY DEF TypeOK, LocalTypeOK, PlacesInv, OpsAt, NextPage, Blocked, Trying,
           Valid, Loading, Filling, Evicting, HandTests, Cleaning, EntryPCs,
           PCs
  <1>8. HandsInv'
    BY DEF TypeOK, LocalTypeOK, HandsInv, PlacesInv
  <1>9. UsersInv'
    BY <1>1, <1>6, UsersKept DEF TypeOK, LocalTypeOK, PlacesInv, OpsAt
  <1>10. FlagsInv' /\ MapsInv' /\ WritebackInv' /\ DataInv'
    BY <1>1, <1>6, <1>3, QuietStep
    DEF TypeOK, LocalTypeOK, Has, Staged, Flushed, Cleaning, Flag, PlacesInv,
        Blocked, Trying, Valid, Loading, Filling, Evicting, HandTests,
        EntryPCs, PCs
  <1>11. ValidInv'
    BY <1>1, <1>6, ValidKept DEF TypeOK, LocalTypeOK, Valid, Has
  <1>12. DrainInv'
    BY <1>1, <1>6, <1>4, DrainKept
    DEF LocalTypeOK, Drained, Harmless, HasLock, Allocs, PlacesInv, Blocked,
        Trying, Valid, Loading, Filling, Evicting, HandTests, Cleaning,
        EntryPCs, PCs
  <1> QED BY <1>1, <1>2, <1>3, <1>4, <1>5, <1>6, <1>7, <1>8, <1>9, <1>10,
             <1>11, <1>12

(* ReadTestFree: A reference to a free entry is given back.                *)
LEMMA ReadTestFreeStep ==
    ASSUME TypeOK, CoreInv, NEW t \in Thread, ReadTestFree(t),
           broken = "no", broken' = "no"
    PROVE  TypeOK' /\ CoreInv'
  <1> USE NoneAssumption
          DEF CoreInv, ReadTestFree, Goto, vars, entryVars, diskVars, handVars,
              callVars
  <1>1. Others(t)
    BY DEF Others, TypeOK, LocalTypeOK
  <1>2. LocalTypeOK'
    BY DEF TypeOK, LocalTypeOK, PlacesInv, Blocked, Trying, Valid, Loading,
           Filling, Evicting, HandTests, Cleaning, EntryPCs, PCs
  <1>3. TypeOK'
    BY DEF TypeOK, LocalTypeOK, Flag, PlacesInv, Slot, EntryPCs, Filling,
           Loading, Evicting, HandTests
  <1>4. PlacesInv'
    BY DEF TypeOK, LocalTypeOK, PlacesInv, OpsAt, NextPage, Blocked, Trying,
           Valid, Loading, Filling, Evicting, HandTests, Cleaning, EntryPCs,
           PCs
  <1>5. HandsInv'
    BY DEF TypeOK, LocalTypeOK, HandsInv, PlacesInv
  <1>6. UsersInv'
    BY <1>1, <1>3, UsersKept DEF TypeOK, LocalTypeOK, PlacesInv, OpsAt
  <1>7. SameRoles(t) /\ RefOf(t)' = RefOf(t)
    BY DEF TypeOK, LocalTypeOK, PlacesInv, OpsAt, RefOf, SameRoles,
           SameRolesOn, HasClaim, HasLock, Loads, Fills, AllocsIn, Allocs,
           Blocked, Trying, Valid, Loading, Filling, Evicting, HandTests,
           Cleaning, EntryPCs, PCs
  <1>8. CountsInv'
    BY <1>1, <1>7, CountsKept
  <1>9. FlagsInv' /\ MapsInv' /\ WritebackInv' /\ DataInv'
    BY <1>1, <1>3, <1>7, QuietStep
    DEF TypeOK, LocalTypeOK, Has, Staged, Flushed, Cleaning, Flag
  <1>10. ValidInv'
    BY <1>1, <1>3, ValidKept DEF TypeOK, LocalTypeOK, Valid, Has
  <1>11. DrainInv'
    BY <1>1, <1>3, <1>7, DrainKept
    DEF LocalTypeOK, RefOf, Drained, Harmless, HasLock, Allocs, PlacesInv,
        Blocked, Trying, Valid, Loading, Filling, Evicting, HandTests,
        Cleaning, EntryPCs, PCs
  <1> QED BY <1>1, <1>2, <1>3, <1>4, <1>5, <1>6, <1>7, <1>8, <1>9, <1>10, <1>11

(* ReadTestLocked: A reference to a locked entry is given back: from here  *)
(* on the lock's owner sees it, or the thread has seen the lock.           *)
LEMMA ReadTestLockedStep ==
    ASSUME TypeOK, CoreInv, NEW t \in Thread, ReadTestLocked(t),
           broken = "no", broken' = "no"
    PROVE  TypeOK' /\ CoreInv'
  <1> USE NoneAssumption
          DEF CoreInv, ReadTestLocked, Goto, vars, entryVars, diskVars,
              handVars, callVars
  <1>1. Others(t)
    BY DEF Others, TypeOK, LocalTypeOK
  <1>2. LocalTypeOK'
    BY DEF TypeOK, LocalTypeOK, PlacesInv, Blocked, Trying, Valid, Loading,
           Filling, Evicting, HandTests, Cleaning, EntryPCs, PCs
  <1>3. /\ pc[t] = "locked"
        /\ \/ pc'[t] = "accessed" /\ ~Has(ent[t], "WRITELOCKED")
           \/ pc'[t] = "conflict"
        /\ op'[t] = op[t] /\ want'[t] = want[t] /\ ent'[t] = ent[t]
    BY DEF TypeOK, LocalTypeOK, PlacesInv
  <1>4. TypeOK'
    BY DEF TypeOK, LocalTypeOK, Flag, PlacesInv, Slot, EntryPCs, Filling,
           Loading, Evicting, HandTests
  <1>5. PlacesInv'
    BY <1>1, <1>4, <1>3
    DEF TypeOK, LocalTypeOK, PlacesInv, OpsAt, NextPage, Blocked, Trying,
        Valid, Loading, Filling, Evicting, HandTests, Cleaning, EntryPCs, PCs
  <1>6. HandsInv'
    BY DEF TypeOK, LocalTypeOK, HandsInv, PlacesInv
  <1>7. UsersInv'
    BY <1>1, <1>4, <1>3, UsersKept DEF PlacesInv, OpsAt
  <1>8. SameRoles(t) /\ RefOf(t)' = RefOf(t)
    BY <1>3
    DEF PlacesInv, RefOf, SameRoles, SameRolesOn, HasClaim, HasLock, Loads,
        Fills, AllocsIn, Allocs, Blocked, Trying, Valid, Loading, Filling,
        Evicting, HandTests, Cleaning, EntryPCs, PCs
  <1>9. CountsInv'
    BY <1>1, <1>8, CountsKept
  <1>10. FlagsInv' /\ MapsInv' /\ WritebackInv' /\ DataInv'
    BY <1>1, <1>4, <1>8, QuietStep
    DEF TypeOK, LocalTypeOK, Has, Staged, Flushed, Cleaning, Flag
  <1>11. ValidInv'
    BY <1>1, <1>4, ValidKept DEF TypeOK, LocalTypeOK, Valid, Has
  <1>12. DrainInv'
    <2>1. \A e \in Entry : HasLock(t, e)' /\ Drained(t)' > 0 =>
             HasLock(t, e) /\ Drained(t)' <= Drained(t)
      BY <1>8, <1>3 DEF Drained, SameRoles, SameRolesOn
    <2>2. ent[t] \in Entry /\ RefOf(t) \in {ent[t], None}
      BY <1>3
      DEF RefOf, TypeOK, PlacesInv, Blocked, Trying, Valid, Loading, Filling,
          Evicting, HandTests, Cleaning, EntryPCs, PCs
    <2>3. ~Has(ent[t], "WRITELOCKED") => \A v \in Thread : ~HasLock(v, ent[t])
      BY <2>2 DEF FlagsInv, FlagsAt
    <2>4. \A e \in Entry : RefOf(t)' = e /\ ~Harmless(t, e)' =>
             \/ RefOf(t) = e /\ ~Harmless(t, e)
             \/ \A v \in Thread \ {t} : ~HasLock(v, e)
      BY <1>8, <2>2, <2>3, <1>3 DEF Harmless, Blocked, Trying
    <2> QED BY <1>1, <1>4, <2>1, <2>4, DrainKept
  <1> QED BY <1>1, <1>2, <1>3, <1>4, <1>5, <1>6, <1>7, <1>8, <1>9, <1>10,
             <1>11, <1>12

(* SetAccessed: CC_ACCESSED is nobody's flag.                              *)
LEMMA SetAccessedStep ==
    ASSUME TypeOK, CoreInv, NEW t \in Thread, SetAccessed(t),
           broken = "no", broken' = "no"
    PROVE  TypeOK' /\ CoreInv'
  <1> USE NoneAssumption
          DEF CoreInv, SetAccessed, Goto, SetFlags, vars, entryVars, diskVars,
              handVars, callVars
  <1>1. Others(t)
    BY DEF Others, TypeOK, LocalTypeOK
  <1>2. LocalTypeOK'
    BY DEF TypeOK, LocalTypeOK, PlacesInv, Blocked, Trying, Valid, Loading,
           Filling, Evicting, HandTests, Cleaning, EntryPCs, PCs
  <1>3. TypeOK'
    BY DEF TypeOK, LocalTypeOK, Flag, PlacesInv, Slot, EntryPCs, Filling,
           Loading, Evicting, HandTests
  <1>4. PlacesInv'
    BY DEF TypeOK, LocalTypeOK, PlacesInv, OpsAt, NextPage, Blocked, Trying,
           Valid, Loading, Filling, Evicting, HandTests, Cleaning, EntryPCs,
           PCs
  <1>5. HandsInv'
    BY DEF TypeOK, LocalTypeOK, HandsInv, PlacesInv
  <1>6. UsersInv'
    BY <1>1, <1>3, UsersKept DEF TypeOK, LocalTypeOK, PlacesInv, OpsAt
  <1>7. SameRoles(t) /\ RefOf(t)' = RefOf(t)
    BY DEF TypeOK, LocalTypeOK, PlacesInv, OpsAt, RefOf, SameRoles,
           SameRolesOn, HasClaim, HasLock, Loads, Fills, AllocsIn, Allocs,
           Blocked, Trying, Valid, Loading, Filling, Evicting, HandTests,
           Cleaning, EntryPCs, PCs
  <1>8. CountsInv'
    BY <1>1, <1>7, CountsKept
  <1>9. FlagsInv' /\ MapsInv' /\ WritebackInv' /\ DataInv'
    BY <1>1, <1>3, <1>7, QuietStep
    DEF TypeOK, LocalTypeOK, Has, Staged, Flushed, Cleaning, Flag
  <1>10. ValidInv'
    BY <1>1, <1>3, ValidKept DEF TypeOK, LocalTypeOK, Valid, Has
  <1>11. DrainInv'
    BY <1>1, <1>3, <1>7, DrainKept
    DEF LocalTypeOK, RefOf, Drained, Harmless, HasLock, Allocs, PlacesInv,
        Blocked, Trying, Valid, Loading, Filling, Evicting, HandTests,
        Cleaning, EntryPCs, PCs
  <1> QED BY <1>1, <1>2, <1>3, <1>4, <1>5, <1>6, <1>7, <1>8, <1>9, <1>10, <1>11

(* ReadUndo: The reference leaves the count it is in.                      *)
LEMMA ReadUndoStep ==
    ASSUME TypeOK, CoreInv, NEW t \in Thread, ReadUndo(t),
           broken = "no", broken' = "no"
    PROVE  TypeOK' /\ CoreInv'
  <1> USE NoneAssumption
          DEF CoreInv, ReadUndo, Goto, Return, vars, entryVars, diskVars,
              handVars, callVars
  <1>1. Others(t)
    BY DEF Others, TypeOK, LocalTypeOK
  <1>2. LocalTypeOK'
    <2>1. PICK at \in PCs : pc' = [pc EXCEPT ![t] = at]
      BY DEF LocalTypeOK, Blocked, Trying, Valid, Loading, Filling, Evicting,
             HandTests, Cleaning, EntryPCs, PCs
    <2> QED BY <2>1 DEF LocalTypeOK
  <1>3. \/ /\ pc'[t] = "idle" /\ op[t] = "async"
           /\ op'[t] = "none" /\ want'[t] = None /\ ent'[t] = None
        \/ /\ pc'[t] = "read" /\ pc[t] = "conflict"
           /\ op'[t] = op[t] /\ want'[t] = want[t] /\ ent'[t] = ent[t]
        \/ /\ pc'[t] = "lookup" /\ pc[t] = "evicted"
           /\ op'[t] = op[t] /\ want'[t] = want[t] /\ ent'[t] = None
    BY DEF TypeOK, LocalTypeOK, PlacesInv
  <1>4. SameRoles(t)
    BY <1>3
    DEF SameRoles, SameRolesOn, HasClaim, HasLock, Loads, Fills, AllocsIn,
        Allocs, Blocked, Trying, Valid, Loading, Filling, Evicting, HandTests,
        Cleaning, EntryPCs, PCs
  <1>5. ent[t] \in Entry /\ RefOf(t) = ent[t] /\ RefOf(t)' = None
    BY DEF TypeOK, LocalTypeOK, PlacesInv, RefOf, Blocked, Trying, Valid,
           Loading, Filling, Evicting, HandTests, Cleaning, EntryPCs, PCs
  <1>6. CountsInv' /\ refcount' \in [Entry -> [Slot -> Nat]]
    BY <1>1, <1>5, OthersKeepRoles, CountsDec, SlotAssumption
  <1>7. TypeOK'
    BY <1>6
    DEF TypeOK, LocalTypeOK, Flag, PlacesInv, Slot, EntryPCs, Filling, Loading,
        Evicting, HandTests
  <1>8. PlacesInv'
    BY DEF TypeOK, LocalTypeOK, PlacesInv, OpsAt, NextPage, Blocked, Trying,
           Valid, Loading, Filling, Evicting, HandTests, Cleaning, EntryPCs,
           PCs
  <1>9. HandsInv'
    BY DEF TypeOK, LocalTypeOK, HandsInv, PlacesInv
  <1>10. UsersInv'
    BY <1>1, <1>7, <1>3, UsersKept DEF PlacesInv, OpsAt
  <1>11. FlagsInv' /\ MapsInv' /\ WritebackInv' /\ DataInv'
    <2>1. /\ pc[t] \notin Staged /\ pc'[t] \notin Staged \cup {"e_unmap"}
          /\ pc[t] \notin {"lock_flush", "e_flush"} /\ pc'[t] \notin Flushed
          /\ pc[t] \in Cleaning \ {"clean"} => pc'[t] \in Cleaning \ {"clean"}
      BY DEF LocalTypeOK, Staged, Flushed, Cleaning
    <2>2. \A e \in Entry : \A f \in Flag \ {"ACCESSED"} : Has(e, f)' <=> Has(e, f)
      BY DEF Has, TypeOK
    <2> QED BY <1>1, <1>7, <1>4, <2>1, <2>2, QuietStep
  <1>12. ValidInv'
    <2>1. pc'[t] \in Valid => pc[t] \in Valid /\ ent'[t] = ent[t] /\ want'[t] = want[t]
      BY DEF TypeOK, LocalTypeOK, Valid
    <2> QED BY <1>1, <2>1, ValidKept DEF Has
  <1>13. DrainInv'
    <2>1. \A e \in Entry : HasLock(t, e)' /\ Drained(t)' > 0 =>
             HasLock(t, e) /\ Drained(t)' <= Drained(t)
      BY <1>1, <1>7, <1>4 DEF LocalTypeOK, Drained, SameRoles, SameRolesOn
    <2>2. \A e \in Entry : RefOf(t)' = e /\ ~Harmless(t, e)' =>
             RefOf(t) = e /\ ~Harmless(t, e)
      BY <1>5 DEF LocalTypeOK, Harmless, Blocked, Trying
    <2> QED BY <1>1, <1>7, <2>1, <2>2, DrainKept
  <1> QED BY <1>1, <1>2, <1>3, <1>4, <1>5, <1>6, <1>7, <1>8, <1>9, <1>10,
             <1>11, <1>12, <1>13

(* AddrTest: The entry has the page, or a conflict is found.               *)
LEMMA AddrTestStep ==
    ASSUME TypeOK, CoreInv, NEW t \in Thread, AddrTest(t),
           broken = "no", broken' = "no"
    PROVE  TypeOK' /\ CoreInv'
  <1> USE NoneAssumption
          DEF CoreInv, AddrTest, Goto, vars, entryVars, diskVars, handVars,
              callVars
  <1>1. Others(t)
    BY DEF Others, TypeOK, LocalTypeOK
  <1>2. LocalTypeOK'
    <2>1. PICK at \in PCs : pc' = [pc EXCEPT ![t] = at]
      BY DEF LocalTypeOK, Blocked, Trying, Valid, Loading, Filling, Evicting,
             HandTests, Cleaning, EntryPCs, PCs
    <2> QED BY <2>1 DEF LocalTypeOK
  <1>3. /\ pc[t] = "addr"
        /\ \/ /\ pc'[t] = "d_claim" /\ op[t] = "discard"
              /\ disk_addr[ent[t]] = want[t]
           \/ /\ pc'[t] = "loading" /\ op[t] # "discard"
              /\ disk_addr[ent[t]] = want[t]
           \/ pc'[t] = "evicted"
        /\ op'[t] = op[t] /\ want'[t] = want[t] /\ ent'[t] = ent[t]
    BY DEF TypeOK, LocalTypeOK, PlacesInv
  <1>4. TypeOK'
    BY DEF TypeOK, LocalTypeOK, Flag, PlacesInv, Slot, EntryPCs, Filling,
           Loading, Evicting, HandTests
  <1>5. PlacesInv'
    BY <1>1, <1>4, <1>3
    DEF TypeOK, LocalTypeOK, PlacesInv, OpsAt, NextPage, Blocked, Trying,
        Valid, Loading, Filling, Evicting, HandTests, Cleaning, EntryPCs, PCs
  <1>6. HandsInv'
    BY DEF TypeOK, LocalTypeOK, HandsInv, PlacesInv
  <1>7. UsersInv'
    BY <1>1, <1>4, <1>3, UsersKept DEF PlacesInv, OpsAt
  <1>8. SameRoles(t) /\ RefOf(t)' = RefOf(t)
    BY <1>3
    DEF PlacesInv, RefOf, SameRoles, SameRolesOn, HasClaim, HasLock, Loads,
        Fills, AllocsIn, Allocs, Blocked, Trying, Valid, Loading, Filling,
        Evicting, HandTests, Cleaning, EntryPCs, PCs
  <1>9. CountsInv'
    BY <1>1, <1>8, CountsKept
  <1>10. FlagsInv' /\ MapsInv' /\ WritebackInv' /\ DataInv'
    <2>1. /\ pc[t] \notin Staged /\ pc'[t] \notin Staged \cup {"e_unmap"}
          /\ pc[t] \notin {"lock_flush", "e_flush"} /\ pc'[t] \notin Flushed
          /\ pc[t] \in Cleaning \ {"clean"} => pc'[t] \in Cleaning \ {"clean"}
      BY <1>3 DEF Staged, Flushed, Cleaning
    <2>2. \A e \in Entry : \A f \in Flag \ {"ACCESSED"} : Has(e, f)' <=> Has(e, f)
      BY DEF Has, TypeOK
    <2> QED BY <1>1, <1>4, <1>8, <2>1, <2>2, QuietStep
  <1>11. ValidInv'
    <2>1. CASE pc'[t] # "d_claim"
      <3>1. pc'[t] \notin Valid
        BY <1>3, <2>1 DEF Valid
      <3> QED BY <1>1, <1>4, <3>1, ValidKept DEF Has
    <2>2. CASE pc'[t] = "d_claim"
      <3>1. want[t] # None /\ ent[t] \in Entry
        BY <1>3 DEF TypeOK, PlacesInv, EntryPCs, Trying
      <3>2. ~Has(ent[t], "LOADING")
        BY <1>3, <2>2, <3>1, DiscardedIsLoaded
      <3>3. lookup[want[t]] = ent[t] /\ ~Has(ent[t], "FREE")
        BY <1>3, <2>2, <3>1, <3>2, RightEntry
      <3> QED BY <1>1, <1>3, <2>2, <3>2, <3>3 DEF ValidInv, Others, Has
    <2> QED BY <2>1, <2>2
  <1>12. DrainInv'
    <2>1. \A e \in Entry : HasLock(t, e)' /\ Drained(t)' > 0 =>
             HasLock(t, e) /\ Drained(t)' <= Drained(t)
      BY <1>8, <1>3 DEF Drained, SameRoles, SameRolesOn
    <2>2. \A e \in Entry : RefOf(t)' = e /\ ~Harmless(t, e)' =>
             RefOf(t) = e /\ ~Harmless(t, e)
      BY <1>8, <1>3
      DEF Harmless, Blocked, Trying, RefOf, Blocked, Trying, Valid, Loading,
          Filling, Evicting, HandTests, Cleaning, EntryPCs, PCs
    <2> QED BY <1>1, <1>4, <2>1, <2>2, DrainKept
  <1> QED BY <1>1, <1>2, <1>3, <1>4, <1>5, <1>6, <1>7, <1>8, <1>9, <1>10,
             <1>11, <1>12

(* LoadingTest: An entry that is not being loaded and has the page's       *)
(* address is the one that the table names (RightEntry).                   *)
LEMMA LoadingTestStep ==
    ASSUME TypeOK, CoreInv, NEW t \in Thread, LoadingTest(t),
           broken = "no", broken' = "no"
    PROVE  TypeOK' /\ CoreInv'
  <1> USE NoneAssumption
          DEF CoreInv, LoadingTest, Goto, vars, entryVars, diskVars, handVars,
              callVars
  <1>1. Others(t)
    BY DEF Others, TypeOK, LocalTypeOK
  <1>2. LocalTypeOK'
    <2>1. PICK at \in PCs : pc' = [pc EXCEPT ![t] = at]
      BY DEF LocalTypeOK, Blocked, Trying, Valid, Loading, Filling, Evicting,
             HandTests, Cleaning, EntryPCs, PCs
    <2> QED BY <2>1 DEF LocalTypeOK
  <1>3. /\ pc[t] = "loading"
        /\ \/ /\ pc'[t] = "addr" /\ op[t] = "discard"
           \/ /\ pc'[t] = "held" /\ op[t] # "discard"
              /\ disk_addr[ent[t]] = want[t] /\ ~Has(ent[t], "LOADING")
           \/ pc'[t] = "evicted"
        /\ op'[t] = op[t] /\ want'[t] = want[t] /\ ent'[t] = ent[t]
    BY DEF TypeOK, LocalTypeOK, PlacesInv
  <1>4. TypeOK'
    BY DEF TypeOK, LocalTypeOK, Flag, PlacesInv, Slot, EntryPCs, Filling,
           Loading, Evicting, HandTests
  <1>5. PlacesInv'
    BY <1>1, <1>4, <1>3
    DEF TypeOK, LocalTypeOK, PlacesInv, OpsAt, NextPage, Blocked, Trying,
        Valid, Loading, Filling, Evicting, HandTests, Cleaning, EntryPCs, PCs
  <1>6. HandsInv'
    BY DEF TypeOK, LocalTypeOK, HandsInv, PlacesInv
  <1>7. UsersInv'
    BY <1>1, <1>4, <1>3, UsersKept DEF PlacesInv, OpsAt
  <1>8. SameRoles(t) /\ RefOf(t)' = RefOf(t)
    BY <1>3
    DEF PlacesInv, RefOf, SameRoles, SameRolesOn, HasClaim, HasLock, Loads,
        Fills, AllocsIn, Allocs, Blocked, Trying, Valid, Loading, Filling,
        Evicting, HandTests, Cleaning, EntryPCs, PCs
  <1>9. CountsInv'
    BY <1>1, <1>8, CountsKept
  <1>10. FlagsInv' /\ MapsInv' /\ WritebackInv' /\ DataInv'
    <2>1. /\ pc[t] \notin Staged /\ pc'[t] \notin Staged \cup {"e_unmap"}
          /\ pc[t] \notin {"lock_flush", "e_flush"} /\ pc'[t] \notin Flushed
          /\ pc[t] \in Cleaning \ {"clean"} => pc'[t] \in Cleaning \ {"clean"}
      BY <1>3 DEF Staged, Flushed, Cleaning
    <2>2. \A e \in Entry : \A f \in Flag \ {"ACCESSED"} : Has(e, f)' <=> Has(e, f)
      BY DEF Has, TypeOK
    <2> QED BY <1>1, <1>4, <1>8, <2>1, <2>2, QuietStep
  <1>11. ValidInv'
    <2>1. CASE pc'[t] # "held"
      <3>1. pc'[t] \notin Valid
        BY <1>3, <2>1 DEF Valid
      <3> QED BY <1>1, <1>4, <3>1, ValidKept DEF Has
    <2>2. CASE pc'[t] = "held"
      <3>1. want[t] # None /\ ent[t] \in Entry
        BY <1>3 DEF TypeOK, PlacesInv, EntryPCs, Trying
      <3>2. lookup[want[t]] = ent[t] /\ ~Has(ent[t], "FREE")
        BY <1>3, <2>2, <3>1, RightEntry
      <3> QED BY <1>1, <1>3, <2>2, <3>2 DEF ValidInv, Others, Has
    <2> QED BY <2>1, <2>2
  <1>12. DrainInv'
    <2>1. \A e \in Entry : HasLock(t, e)' /\ Drained(t)' > 0 =>
             HasLock(t, e) /\ Drained(t)' <= Drained(t)
      BY <1>8, <1>3 DEF Drained, SameRoles, SameRolesOn
    <2>2. \A e \in Entry : RefOf(t)' = e /\ ~Harmless(t, e)' =>
             RefOf(t) = e /\ ~Harmless(t, e)
      BY <1>8, <1>3
      DEF Harmless, Blocked, Trying, RefOf, Blocked, Trying, Valid, Loading,
          Filling, Evicting, HandTests, Cleaning, EntryPCs, PCs
    <2> QED BY <1>1, <1>4, <2>1, <2>2, DrainKept
  <1> QED BY <1>1, <1>2, <1>3, <1>4, <1>5, <1>6, <1>7, <1>8, <1>9, <1>10,
             <1>11, <1>12

(* MapPage: The free slot of the table takes the entry that the thread     *)
(* fills.                                                                  *)
LEMMA MapPageStep ==
    ASSUME TypeOK, CoreInv, NEW t \in Thread, MapPage(t),
           broken = "no", broken' = "no"
    PROVE  TypeOK' /\ CoreInv'
  <1> USE NoneAssumption
          DEF CoreInv, MapPage, Goto, vars, entryVars, diskVars, handVars,
              callVars
  <1>1. Others(t)
    BY DEF Others, TypeOK, LocalTypeOK
  <1>2. LocalTypeOK'
    <2>1. PICK at \in PCs : pc' = [pc EXCEPT ![t] = at]
      BY DEF LocalTypeOK, Blocked, Trying, Valid, Loading, Filling, Evicting,
             HandTests, Cleaning, EntryPCs, PCs
    <2> QED BY <2>1 DEF LocalTypeOK
  <1>3. /\ pc[t] = "map"
        /\ pc'[t] = IF lookup[want[t]] = None THEN "setaddr" ELSE "abort"
        /\ ent[t] \in Entry /\ want[t] \in Page /\ op[t] \in {"get", "async"}
        /\ op'[t] = op[t] /\ want'[t] = want[t] /\ ent'[t] = ent[t]
    BY DEF TypeOK, LocalTypeOK, PlacesInv, Filling, Loading, EntryPCs, OpsAt
  <1>4. TypeOK'
    BY DEF TypeOK, LocalTypeOK, Flag, PlacesInv, Slot, EntryPCs, Filling,
           Loading, Evicting, HandTests
  <1>5. PlacesInv'
    BY DEF TypeOK, LocalTypeOK, PlacesInv, OpsAt, NextPage, Blocked, Trying,
           Valid, Loading, Filling, Evicting, HandTests, Cleaning, EntryPCs,
           PCs
  <1>6. HandsInv'
    BY DEF TypeOK, LocalTypeOK, HandsInv, PlacesInv
  <1>7. SameRoles(t) /\ RefOf(t)' = RefOf(t)
    BY <1>3
    DEF PlacesInv, RefOf, SameRoles, SameRolesOn, HasClaim, HasLock, Loads,
        Fills, AllocsIn, Allocs, Blocked, Trying, Valid, Loading, Filling,
        Evicting, HandTests, Cleaning, EntryPCs, PCs
  <1>8. CountsInv'
    BY <1>1, <1>7, CountsKept
  <1>9. FlagsInv'
    BY <1>1, <1>7, FlagsKept
    DEF TypeOK, LocalTypeOK, SameFlags, Has, PlacesInv, EntryPCs, Cleanable,
        FREE, ALLOC, READ_LOADING
  <1>10. MapsInv' /\ ValidInv' /\ WritebackInv' /\ DataInv' /\ UsersInv' /\ DrainInv'
    <2>0. PICK b \in Entry, p \in Page : b = ent[t] /\ p = want[t]
      BY <1>3
    <2>1. Fills(t, b) /\ FlagsOnly(b) /\ b # None /\ p # None
      BY <2>0, <1>3 DEF Fills, Filling, Loading, FlagsOnly, Has
    <2>2. Alone(t, b) /\ ~Has(b, "FREE") /\ ~Has(b, "WRITEBACK")
      BY <2>1, OwnerAlone DEF FlagsInv, FlagsAt
    <2>3. disk_addr[b] = None /\ \A q \in Page : lookup[q] # b
      BY <2>0, <1>3 DEF MapsInv, Unmapped
    <2>4. /\ disk_addr' = disk_addr
          /\ lookup' = IF lookup[p] = None THEN [lookup EXCEPT ![p] = b] ELSE lookup
          /\ p \in live
          /\ UNCHANGED <<status, current, saved, live, span, inflight, op, want, ent>>
      BY <2>0, <2>3, <1>3 DEF TypeOK, UsersInv
    <2>5. pc[t] \in Staged \ {"e_release"} /\ pc'[t] \notin Cleaning /\ pc[t] \notin Cleaning
      BY <1>3 DEF Staged, Cleaning
    <2> HIDE DEF MapPage
    <2>6. MapsOnly(b)
      BY <2>3, <2>4 DEF MapsOnly, TypeOK
    <2>p. /\ disk_addr'[b] = None /\ p \in live
          /\ lookup[p] = None => \A q \in Page : lookup'[q] = IF q = p THEN b ELSE lookup[q]
          /\ lookup[p] # None => lookup' = lookup
      BY <2>0, <2>1, <2>3, <2>4 DEF TypeOK
    <2>q. /\ ent[t] = b /\ want[t] = p /\ ent'[t] = b /\ want'[t] = p
      BY <2>0, <1>3
    <2>u. UsersInv'
      <3>1. op[t] # "discard"
        BY <1>3
      <3>2. \A q \in Page \ live : lookup'[q] \in {lookup[q], None}
        BY <2>p, <1>3
      <3> QED BY <2>4, <3>1, <3>2, <1>1, <1>4, OwnUsers
    <2>m. MapsInv'
      <3>1. \A q \in Page : lookup'[q] = b =>
               \/ disk_addr'[b] = q
               \/ pc'[t] = "setaddr" /\ ent'[t] = b /\ want'[t] = q
        BY <2>0, <2>1, <2>3, <2>p, <2>q, <1>3
      <3>2. disk_addr'[b] # None =>
               \/ lookup'[disk_addr'[b]] = b
               \/ pc'[t] \in {"a_map", "unmap"} /\ ent'[t] = b /\ want'[t] = disk_addr'[b]
        BY <2>0, <2>1, <2>3, <2>p, <2>q, <1>3
      <3>3. /\ pc'[t] \in {"got", "map", "abort", "setaddr", "release", "d_release"} =>
                  ent'[t] = b /\ disk_addr'[b] = None
            /\ pc'[t] \in {"request", "load", "unmap", "a_map"} =>
                  ent'[t] = b /\ disk_addr'[b] = want'[t]
            /\ pc'[t] \in {"setaddr", "request", "load"} => ent'[t] = b /\ lookup'[want'[t]] = b
            /\ pc'[t] \in {"got", "map", "abort", "unmap", "release", "a_map", "d_release"} =>
                  Unmapped(b)'
            /\ pc'[t] # "e_release"
        BY <2>0, <2>1, <2>3, <2>p, <2>q, <1>3 DEF Unmapped
      <3>4. ~Has(b, "FREE")' /\ Fills(t, b)'
        BY <2>1, <2>2, <2>4, <1>7 DEF Has, SameRoles, SameRolesOn
      <3>5. pc[t] # "e_release" /\ ent[t] = b
        BY <2>0, <1>3
      <3> QED BY <2>1, <2>2, <2>6, <3>1, <3>2, <3>3, <3>4, <3>5, <1>1, <1>4,
                 OwnMaps
    <2>v. ValidInv'
      <3>1. \A u \in Thread \ {t} : pc[u] \in Valid => ent[u] # b
        BY <2>0, <2>3, <1>3, NobodyHas DEF Loads, Loading, Unmapped
      <3>2. pc'[t] \notin Valid
        BY <1>3 DEF Valid
      <3> QED BY <3>1, <3>2, <2>1, <2>6, <1>1, <1>4, OwnValid
    <2>d. DrainInv'
      <3>1. \A e \in Entry : HasLock(t, e)' => e = b /\ Drained(t)' = 0
        BY <2>0, <2>4, <1>3 DEF HasLock, Drained
      <3>2. RefOf(t)' = RefOf(t) /\ RefOf(t) \in {None, b}
        BY <2>0, <1>7, <1>3 DEF RefOf, Evicting, EntryPCs, Filling, Loading
      <3> QED BY <3>1, <3>2, <2>1, <2>2, <2>6, <1>1, <1>4, OwnDrain
    <2>w. WritebackInv'
      <3>1. ~Has(b, "WRITEBACK")'
        BY <2>2, <2>4 DEF Has
      <3>2. \A e \in Entry \ {b} : ~HasLock(t, e)'
        BY <2>0, <2>4, <1>3 DEF HasLock
      <3> QED BY <3>1, <3>2, <2>1, <2>2, <2>4, <2>5, <2>6, <1>1, <1>4,
                 OwnWriteback
    <2>x. DataInv'
      <3>1. Loads(t, b) => Has(b, "LOADING") /\ Has(b, "CLEAN")
        BY DEF FlagsInv, FlagsAt
      <3>2. Mapped(b)' => Has(b, "LOADING")'
        BY <2>0, <2>1, <2>3, <2>4, <3>1, <1>3 DEF Loads, Loading, Mapped, Has
      <3>3. \A q \in live : lookup[q] # b \/ disk_addr[b] # q \/ Has(b, "CLEAN")
        BY <2>0, <2>3, <3>1, <1>3 DEF Loads, Loading, TypeOK
      <3>4. pc'[t] # "e_unmap"
        BY <1>3
      <3> QED BY <3>2, <3>3, <3>4, <2>1, <2>2, <2>4, <2>6, <1>1, <1>4, OwnData
    <2> QED BY <2>u, <2>m, <2>v, <2>d, <2>w, <2>x
  <1> QED BY <1>1, <1>2, <1>3, <1>4, <1>5, <1>6, <1>7, <1>8, <1>9, <1>10

(* MapAbort: The entry that was not needed is free again, and nobody else  *)
(* knows it.                                                               *)
LEMMA MapAbortStep ==
    ASSUME TypeOK, CoreInv, NEW t \in Thread, MapAbort(t),
           broken = "no", broken' = "no"
    PROVE  TypeOK' /\ CoreInv'
  <1> USE NoneAssumption
          DEF CoreInv, MapAbort, Goto, Return, vars, entryVars, diskVars,
              handVars, callVars
  <1>1. Others(t)
    BY DEF Others, TypeOK, LocalTypeOK
  <1>2. LocalTypeOK'
    <2>1. PICK at \in PCs : pc' = [pc EXCEPT ![t] = at]
      BY DEF LocalTypeOK, Blocked, Trying, Valid, Loading, Filling, Evicting,
             HandTests, Cleaning, EntryPCs, PCs
    <2> QED BY <2>1 DEF LocalTypeOK
  <1>3. /\ pc[t] = "abort" /\ ent[t] \in Entry /\ op[t] \in {"get", "async"}
        /\ DecRef(t, ent[t])
        /\ status' = [status EXCEPT ![ent[t]] = {"FREE"}]
        /\ \/ pc'[t] = "idle" /\ op'[t] = "none" /\ want'[t] = None /\ ent'[t] = None
           \/ /\ pc'[t] = "lookup" /\ ent'[t] = None
              /\ op'[t] = op[t] /\ want'[t] = want[t]
    BY DEF TypeOK, LocalTypeOK, PlacesInv, FREE, Filling, Loading, EntryPCs,
           OpsAt
  <1>4. /\ ent[t] \in Entry
        /\ \A e \in Entry \ {ent[t]} : SameRolesOn(t, e) /\ ~HasLock(t, e)'
        /\ \A e \in Entry : e = ent[t] =>
              /\ HasClaim(t, e)' <=> FALSE
              /\ HasLock(t, e)' <=> FALSE
              /\ Loads(t, e)' <=> FALSE
              /\ Fills(t, e)' <=> FALSE
              /\ AllocsIn(t, e)' <=> FALSE
    BY <1>3
    DEF TypeOK, PlacesInv, RefOf, SameRoles, SameRolesOn, HasClaim, HasLock,
        Loads, Fills, AllocsIn, Allocs, Blocked, Trying, Valid, Loading,
        Filling, Evicting, HandTests, Cleaning, EntryPCs, PCs
  <1>5. RefOf(t) = ent[t] /\ RefOf(t)' = None
    BY <1>3
    DEF RefOf, PlacesInv, Blocked, Trying, Valid, Loading, Filling, Evicting,
        HandTests, Cleaning, EntryPCs, PCs
  <1>6. CountsInv' /\ refcount' \in [Entry -> [Slot -> Nat]]
    <2>1. \A u \in Thread \ {t} : RefOf(u)' = RefOf(u)
      BY <1>1, OthersKeepRoles
    <2>2. CountsInv'
      BY <1>3, <1>5, <2>1, NoneAssumption, CountsDec
    <2>3. refcount' \in [Entry -> [Slot -> Nat]]
      BY <1>3, <1>5, <2>1, NoneAssumption, SlotAssumption, CountsDec
    <2> QED BY <2>2, <2>3
  <1>7. TypeOK'
    <2>1. status' \in [Entry -> SUBSET Flag]
      BY <1>3 DEF TypeOK, Flag
    <2> QED BY <2>1, <1>6 DEF TypeOK
  <1>8. PlacesInv'
    BY DEF TypeOK, LocalTypeOK, PlacesInv, OpsAt, NextPage, Blocked, Trying,
           Valid, Loading, Filling, Evicting, HandTests, Cleaning, EntryPCs,
           PCs
  <1>9. HandsInv'
    BY DEF TypeOK, LocalTypeOK, HandsInv, PlacesInv
  <1>10. UsersInv'
    BY <1>1, <1>7, <1>3, UsersKept
  <1>11. FlagsInv' /\ MapsInv' /\ ValidInv' /\ WritebackInv' /\ DataInv'
    <2>0. PICK b \in Entry : b = ent[t]
      BY <1>4
    <2>1. status'[b] = {"FREE"} /\ FlagsOnly(b)
      BY <2>0, <1>3 DEF TypeOK, FlagsOnly, Has
    <2>2. Unmapped(b) /\ disk_addr[b] = None
      BY <2>0, <1>3 DEF MapsInv
    <2>3. Alone(t, b)
      BY <2>0, <1>3, OwnerAlone DEF Fills, Filling, Loading
    <2>4. FlagsAt(b)'
      BY <2>0, <2>1, <2>3, <1>4, <1>1, <1>3, FlagsAlone DEF Has
    <2>5. /\ pc[t] \notin Cleaning /\ pc'[t] \notin Valid \cup {"e_unmap"}
          /\ pc[t] \in Staged \ {"e_release"} => ent[t] = b
          /\ pc[t] = "e_release" => free_hand[t] = b
          /\ pc'[t] \notin Staged \ {"got", "map"}
          /\ pc'[t] \in {"got", "map"} => ent'[t] = b
      BY <2>0, <1>3 DEF Cleaning, Valid, Staged
    <2>6. \/ Has(b, "FREE")' \/ Fills(t, b)'
      BY <2>0, <2>1, <1>4 DEF Has
    <2>7. ~Has(b, "WRITEBACK")'
      BY <2>1 DEF Has
    <2>8. \A e \in Entry \ {b} : SameRolesOn(t, e) /\ ~HasLock(t, e)'
      BY <2>0, <1>4
    <2>9. UNCHANGED <<lookup, disk_addr, current, saved, live, span, inflight>>
      OBVIOUS
    <2> HIDE DEF MapAbort
    <2> QED BY <2>1, <2>2, <2>3, <2>4, <2>5, <2>6, <2>7, <2>8, <2>9,
               <1>1, <1>7, UnmappedStatus
  <1>12. DrainInv'
    <2>1. PICK b \in Entry : b = ent[t]
      BY <1>3
    <2>2. Alone(t, b) /\ MapsOnly(b)
      BY <2>1, <1>3, OwnerAlone DEF Fills, Filling, Loading, MapsOnly
    <2>3. \A e \in Entry : HasLock(t, e)' => e = b /\ Drained(t)' = 0
      BY <2>1, <1>4, <1>3 DEF Drained
    <2>4. RefOf(t)' \in {None, b}
      BY <2>1, <1>5
    <2> QED BY <1>1, <1>7, <2>2, <2>3, <2>4, OwnDrain
  <1> QED BY <1>1, <1>2, <1>3, <1>4, <1>5, <1>6, <1>7, <1>8, <1>9, <1>10,
             <1>11, <1>12

(* SetAddr: The entry has its address; it is still being loaded.           *)
LEMMA SetAddrStep ==
    ASSUME TypeOK, CoreInv, NEW t \in Thread, SetAddr(t),
           broken = "no", broken' = "no"
    PROVE  TypeOK' /\ CoreInv'
  <1> USE NoneAssumption
          DEF CoreInv, SetAddr, Goto, vars, entryVars, diskVars, handVars,
              callVars
  <1>1. Others(t)
    BY DEF Others, TypeOK, LocalTypeOK
  <1>2. LocalTypeOK'
    BY DEF TypeOK, LocalTypeOK, PlacesInv, Blocked, Trying, Valid, Loading,
           Filling, Evicting, HandTests, Cleaning, EntryPCs, PCs
  <1>3. /\ pc[t] = "setaddr"
        /\ pc'[t] \in {"request", "load"}
        /\ ent[t] \in Entry /\ want[t] \in Page /\ op[t] \in {"get", "async"}
        /\ op'[t] = op[t] /\ want'[t] = want[t] /\ ent'[t] = ent[t]
    BY DEF TypeOK, LocalTypeOK, PlacesInv, Filling, Loading, EntryPCs, OpsAt
  <1>4. TypeOK'
    BY DEF TypeOK, LocalTypeOK, Flag, PlacesInv, Slot, EntryPCs, Filling,
           Loading, Evicting, HandTests
  <1>5. PlacesInv'
    BY DEF TypeOK, LocalTypeOK, PlacesInv, OpsAt, NextPage, Blocked, Trying,
           Valid, Loading, Filling, Evicting, HandTests, Cleaning, EntryPCs,
           PCs
  <1>6. HandsInv'
    BY DEF TypeOK, LocalTypeOK, HandsInv, PlacesInv
  <1>7. UsersInv'
    BY <1>1, <1>4, UsersKept DEF TypeOK, LocalTypeOK, PlacesInv, OpsAt
  <1>8. SameRoles(t) /\ RefOf(t)' = RefOf(t)
    BY <1>3
    DEF PlacesInv, RefOf, SameRoles, SameRolesOn, HasClaim, HasLock, Loads,
        Fills, AllocsIn, Allocs, Blocked, Trying, Valid, Loading, Filling,
        Evicting, HandTests, Cleaning, EntryPCs, PCs
  <1>9. CountsInv'
    BY <1>1, <1>8, CountsKept
  <1>10. FlagsInv'
    BY <1>1, <1>8, FlagsKept
    DEF TypeOK, LocalTypeOK, SameFlags, Has, PlacesInv, EntryPCs, Cleanable,
        FREE, ALLOC, READ_LOADING
  <1>11. MapsInv' /\ ValidInv' /\ WritebackInv' /\ DataInv' /\ DrainInv'
    <2>0. PICK b \in Entry, p \in Page : b = ent[t] /\ p = want[t]
      BY <1>3
    <2>1. Fills(t, b) /\ FlagsOnly(b) /\ b # None /\ p # None
      BY <2>0, <1>3 DEF Fills, Filling, Loading, FlagsOnly, Has
    <2>2. Alone(t, b) /\ ~Has(b, "FREE") /\ ~Has(b, "WRITEBACK")
      BY <2>1, OwnerAlone DEF FlagsInv, FlagsAt
    <2>3. disk_addr[b] = None /\ lookup[p] = b /\ \A q \in Page \ {p} : lookup[q] # b
      <3>1. \A u \in Thread \ {t} : pc[u] = "setaddr" => ent[u] # b
        BY <2>2 DEF Alone, Staged
      <3> QED BY <2>0, <2>1, <3>1, <1>3 DEF MapsInv
    <2>4. /\ disk_addr' = [disk_addr EXCEPT ![b] = p] /\ lookup' = lookup
          /\ UNCHANGED <<status, current, saved, live, span, inflight, op, want, ent>>
      BY <2>0, <2>3, <1>3 DEF TypeOK
    <2>5. pc[t] \in Staged \ {"e_release"} /\ pc'[t] \notin Cleaning /\ pc[t] \notin Cleaning
      BY <1>3 DEF Staged, Cleaning
    <2> HIDE DEF SetAddr
    <2>6. MapsOnly(b)
      BY <2>3, <2>4 DEF MapsOnly, TypeOK
    <2>p. disk_addr'[b] = p /\ lookup' = lookup
      BY <2>0, <2>1, <2>3, <2>4 DEF TypeOK
    <2>q. /\ ent[t] = b /\ want[t] = p /\ ent'[t] = b /\ want'[t] = p
      BY <2>0, <1>3
    <2>m. MapsInv'
      <3>1. \A q \in Page : lookup'[q] = b =>
               \/ disk_addr'[b] = q
               \/ pc'[t] = "setaddr" /\ ent'[t] = b /\ want'[t] = q
        BY <2>0, <2>1, <2>3, <2>p, <2>q, <1>3
      <3>2. disk_addr'[b] # None =>
               \/ lookup'[disk_addr'[b]] = b
               \/ pc'[t] \in {"a_map", "unmap"} /\ ent'[t] = b /\ want'[t] = disk_addr'[b]
        BY <2>0, <2>1, <2>3, <2>p, <2>q, <1>3
      <3>3. /\ pc'[t] \in {"got", "map", "abort", "setaddr", "release", "d_release"} =>
                  ent'[t] = b /\ disk_addr'[b] = None
            /\ pc'[t] \in {"request", "load", "unmap", "a_map"} =>
                  ent'[t] = b /\ disk_addr'[b] = want'[t]
            /\ pc'[t] \in {"setaddr", "request", "load"} => ent'[t] = b /\ lookup'[want'[t]] = b
            /\ pc'[t] \in {"got", "map", "abort", "unmap", "release", "a_map", "d_release"} =>
                  Unmapped(b)'
            /\ pc'[t] # "e_release"
        BY <2>0, <2>1, <2>3, <2>p, <2>q, <1>3 DEF Unmapped
      <3>4. ~Has(b, "FREE")' /\ Fills(t, b)'
        BY <2>1, <2>2, <2>4, <1>8 DEF Has, SameRoles, SameRolesOn
      <3>5. pc[t] # "e_release" /\ ent[t] = b
        BY <2>0, <1>3
      <3> QED BY <2>1, <2>2, <2>6, <3>1, <3>2, <3>3, <3>4, <3>5, <1>1, <1>4,
                 OwnMaps
    <2>v. ValidInv'
      <3>1. \A u \in Thread \ {t} : pc[u] \in Valid => ent[u] # b
        BY <2>0, <2>3, <1>3, NobodyHas DEF Loads, Loading, Unmapped
      <3>2. pc'[t] \notin Valid
        BY <1>3 DEF Valid
      <3> QED BY <3>1, <3>2, <2>1, <2>6, <1>1, <1>4, OwnValid
    <2>d. DrainInv'
      <3>1. \A e \in Entry : HasLock(t, e)' => e = b /\ Drained(t)' = 0
        BY <2>0, <2>4, <1>3 DEF HasLock, Drained
      <3>2. RefOf(t)' = RefOf(t) /\ RefOf(t) \in {None, b}
        BY <2>0, <1>8, <1>3 DEF RefOf, Evicting, EntryPCs, Filling, Loading
      <3> QED BY <3>1, <3>2, <2>1, <2>2, <2>6, <1>1, <1>4, OwnDrain
    <2>w. WritebackInv'
      <3>1. ~Has(b, "WRITEBACK")'
        BY <2>2, <2>4 DEF Has
      <3>2. \A e \in Entry \ {b} : ~HasLock(t, e)'
        BY <2>0, <2>4, <1>3 DEF HasLock
      <3> QED BY <3>1, <3>2, <2>1, <2>2, <2>4, <2>5, <2>6, <1>1, <1>4,
                 OwnWriteback
    <2>x. DataInv'
      <3>1. Loads(t, b) => Has(b, "LOADING") /\ Has(b, "CLEAN")
        BY DEF FlagsInv, FlagsAt
      <3>2. Mapped(b)' => Has(b, "LOADING")'
        BY <2>0, <2>1, <2>3, <2>4, <3>1, <1>3 DEF Loads, Loading, Mapped, Has
      <3>3. \A q \in live : lookup[q] # b \/ disk_addr[b] # q \/ Has(b, "CLEAN")
        BY <2>0, <2>3, <3>1, <1>3 DEF Loads, Loading, TypeOK
      <3>4. pc'[t] # "e_unmap"
        BY <1>3
      <3> QED BY <3>2, <3>3, <3>4, <2>1, <2>2, <2>4, <2>6, <1>1, <1>4, OwnData
    <2> QED BY <2>m, <2>v, <2>d, <2>w, <2>x
  <1> QED BY <1>1, <1>2, <1>3, <1>4, <1>5, <1>6, <1>7, <1>8, <1>9, <1>10, <1>11

(* Request: Without a request the page leaves the table before the entry   *)
(* its address.                                                            *)
LEMMA RequestStep ==
    ASSUME TypeOK, CoreInv, NEW t \in Thread, Request(t),
           broken = "no", broken' = "no"
    PROVE  TypeOK' /\ CoreInv'
  <1> USE NoneAssumption
          DEF CoreInv, Request, Goto, vars, entryVars, diskVars, handVars,
              callVars
  <1>1. Others(t)
    BY DEF Others, TypeOK, LocalTypeOK
  <1>2. LocalTypeOK'
    BY DEF TypeOK, LocalTypeOK, PlacesInv, Blocked, Trying, Valid, Loading,
           Filling, Evicting, HandTests, Cleaning, EntryPCs, PCs
  <1>3. /\ pc[t] = "request"
        /\ \/ pc'[t] = "load" /\ lookup' = lookup
           \/ pc'[t] = "unmap" /\ lookup' = [lookup EXCEPT ![want[t]] = None]
        /\ ent[t] \in Entry /\ want[t] \in Page /\ op[t] \in {"async"}
        /\ op'[t] = op[t] /\ want'[t] = want[t] /\ ent'[t] = ent[t]
    BY DEF TypeOK, LocalTypeOK, PlacesInv, Filling, Loading, EntryPCs, OpsAt
  <1>4. TypeOK'
    BY DEF TypeOK, LocalTypeOK, Flag, PlacesInv, Slot, EntryPCs, Filling,
           Loading, Evicting, HandTests
  <1>5. PlacesInv'
    BY DEF TypeOK, LocalTypeOK, PlacesInv, OpsAt, NextPage, Blocked, Trying,
           Valid, Loading, Filling, Evicting, HandTests, Cleaning, EntryPCs,
           PCs
  <1>6. HandsInv'
    BY DEF TypeOK, LocalTypeOK, HandsInv, PlacesInv
  <1>7. SameRoles(t) /\ RefOf(t)' = RefOf(t)
    BY <1>3
    DEF PlacesInv, RefOf, SameRoles, SameRolesOn, HasClaim, HasLock, Loads,
        Fills, AllocsIn, Allocs, Blocked, Trying, Valid, Loading, Filling,
        Evicting, HandTests, Cleaning, EntryPCs, PCs
  <1>8. CountsInv'
    BY <1>1, <1>7, CountsKept
  <1>9. FlagsInv'
    BY <1>1, <1>7, FlagsKept
    DEF TypeOK, LocalTypeOK, SameFlags, Has, PlacesInv, EntryPCs, Cleanable,
        FREE, ALLOC, READ_LOADING
  <1>10. MapsInv' /\ ValidInv' /\ WritebackInv' /\ DataInv' /\ UsersInv' /\ DrainInv'
    <2>0. PICK b \in Entry, p \in Page : b = ent[t] /\ p = want[t]
      BY <1>3
    <2>1. Fills(t, b) /\ FlagsOnly(b) /\ b # None /\ p # None
      BY <2>0, <1>3 DEF Fills, Filling, Loading, FlagsOnly, Has
    <2>2. Alone(t, b) /\ ~Has(b, "FREE") /\ ~Has(b, "WRITEBACK")
      BY <2>1, OwnerAlone DEF FlagsInv, FlagsAt
    <2>3. disk_addr[b] = p /\ lookup[p] = b /\ \A q \in Page \ {p} : lookup[q] # b
      <3>1. \A u \in Thread : pc[u] = "setaddr" => ent[u] # b
        BY <2>0, <2>2, <1>3 DEF Alone, Staged
      <3> QED BY <2>0, <2>1, <3>1, <1>3 DEF MapsInv
    <2>4. /\ disk_addr' = disk_addr
          /\ \/ pc'[t] = "load" /\ lookup' = lookup
             \/ pc'[t] = "unmap" /\ lookup' = [lookup EXCEPT ![p] = None]
          /\ UNCHANGED <<status, current, saved, live, span, inflight, op, want, ent>>
      BY <2>0, <2>3, <1>3 DEF TypeOK
    <2>5. pc[t] \in Staged \ {"e_release"} /\ pc'[t] \notin Cleaning /\ pc[t] \notin Cleaning
      BY <1>3 DEF Staged, Cleaning
    <2> HIDE DEF Request
    <2>6. MapsOnly(b)
      BY <2>3, <2>4 DEF MapsOnly, TypeOK
    <2>p. /\ disk_addr'[b] = p
          /\ \/ pc'[t] = "load" /\ lookup' = lookup
             \/ pc'[t] = "unmap" /\ \A q \in Page : lookup'[q] = IF q = p THEN None ELSE lookup[q]
      BY <2>0, <2>1, <2>3, <2>4 DEF TypeOK
    <2>q. /\ ent[t] = b /\ want[t] = p /\ ent'[t] = b /\ want'[t] = p
      BY <2>0, <1>3
    <2>u. UsersInv'
      <3>1. op[t] # "discard"
        BY <1>3
      <3>2. \A q \in Page \ live : lookup'[q] \in {lookup[q], None}
        BY <2>p, <1>3
      <3> QED BY <2>4, <3>1, <3>2, <1>1, <1>4, OwnUsers
    <2>m. MapsInv'
      <3>1. \A q \in Page : lookup'[q] = b =>
               \/ disk_addr'[b] = q
               \/ pc'[t] = "setaddr" /\ ent'[t] = b /\ want'[t] = q
        BY <2>0, <2>1, <2>3, <2>p, <2>q, <1>3
      <3>2. disk_addr'[b] # None =>
               \/ lookup'[disk_addr'[b]] = b
               \/ pc'[t] \in {"a_map", "unmap"} /\ ent'[t] = b /\ want'[t] = disk_addr'[b]
        BY <2>0, <2>1, <2>3, <2>p, <2>q, <1>3
      <3>3. /\ pc'[t] \in {"got", "map", "abort", "setaddr", "release", "d_release"} =>
                  ent'[t] = b /\ disk_addr'[b] = None
            /\ pc'[t] \in {"request", "load", "unmap", "a_map"} =>
                  ent'[t] = b /\ disk_addr'[b] = want'[t]
            /\ pc'[t] \in {"setaddr", "request", "load"} => ent'[t] = b /\ lookup'[want'[t]] = b
            /\ pc'[t] \in {"got", "map", "abort", "unmap", "release", "a_map", "d_release"} =>
                  Unmapped(b)'
            /\ pc'[t] # "e_release"
        BY <2>0, <2>1, <2>3, <2>p, <2>q, <1>3 DEF Unmapped
      <3>4. ~Has(b, "FREE")' /\ Fills(t, b)'
        BY <2>1, <2>2, <2>4, <1>7 DEF Has, SameRoles, SameRolesOn
      <3>5. pc[t] # "e_release" /\ ent[t] = b
        BY <2>0, <1>3
      <3> QED BY <2>1, <2>2, <2>6, <3>1, <3>2, <3>3, <3>4, <3>5, <1>1, <1>4,
                 OwnMaps
    <2>v. ValidInv'
      <3>1. \A u \in Thread \ {t} : pc[u] \in Valid => ent[u] # b
        BY <2>0, <2>3, <1>3, NobodyHas DEF Loads, Loading, Unmapped
      <3>2. pc'[t] \notin Valid
        BY <1>3 DEF Valid
      <3> QED BY <3>1, <3>2, <2>1, <2>6, <1>1, <1>4, OwnValid
    <2>d. DrainInv'
      <3>1. \A e \in Entry : HasLock(t, e)' => e = b /\ Drained(t)' = 0
        BY <2>0, <2>4, <1>3 DEF HasLock, Drained
      <3>2. RefOf(t)' = RefOf(t) /\ RefOf(t) \in {None, b}
        BY <2>0, <1>7, <1>3 DEF RefOf, Evicting, EntryPCs, Filling, Loading
      <3> QED BY <3>1, <3>2, <2>1, <2>2, <2>6, <1>1, <1>4, OwnDrain
    <2>w. WritebackInv'
      <3>1. ~Has(b, "WRITEBACK")'
        BY <2>2, <2>4 DEF Has
      <3>2. \A e \in Entry \ {b} : ~HasLock(t, e)'
        BY <2>0, <2>4, <1>3 DEF HasLock
      <3> QED BY <3>1, <3>2, <2>1, <2>2, <2>4, <2>5, <2>6, <1>1, <1>4,
                 OwnWriteback
    <2>x. DataInv'
      <3>1. Loads(t, b) => Has(b, "LOADING") /\ Has(b, "CLEAN")
        BY DEF FlagsInv, FlagsAt
      <3>2. Mapped(b)' => Has(b, "LOADING")'
        BY <2>0, <2>1, <2>3, <2>4, <3>1, <1>3 DEF Loads, Loading, Mapped, Has
      <3>3. \A q \in live : lookup[q] # b \/ disk_addr[b] # q \/ Has(b, "CLEAN")
        BY <2>0, <2>3, <3>1, <1>3 DEF Loads, Loading, TypeOK
      <3>4. pc'[t] # "e_unmap"
        BY <1>3
      <3> QED BY <3>2, <3>3, <3>4, <2>1, <2>2, <2>4, <2>6, <1>1, <1>4, OwnData
    <2> QED BY <2>u, <2>m, <2>v, <2>d, <2>w, <2>x
  <1> QED BY <1>1, <1>2, <1>3, <1>4, <1>5, <1>6, <1>7, <1>8, <1>9, <1>10

(* NoReqsUnmap: The entry has neither address nor place in the table.      *)
LEMMA NoReqsUnmapStep ==
    ASSUME TypeOK, CoreInv, NEW t \in Thread, NoReqsUnmap(t),
           broken = "no", broken' = "no"
    PROVE  TypeOK' /\ CoreInv'
  <1> USE NoneAssumption
          DEF CoreInv, NoReqsUnmap, Goto, vars, entryVars, diskVars, handVars,
              callVars
  <1>1. Others(t)
    BY DEF Others, TypeOK, LocalTypeOK
  <1>2. LocalTypeOK'
    BY DEF TypeOK, LocalTypeOK, PlacesInv, Blocked, Trying, Valid, Loading,
           Filling, Evicting, HandTests, Cleaning, EntryPCs, PCs
  <1>3. /\ pc[t] = "unmap"
        /\ pc'[t] = "release"
        /\ ent[t] \in Entry /\ want[t] \in Page /\ op[t] \in {"async"}
        /\ op'[t] = op[t] /\ want'[t] = want[t] /\ ent'[t] = ent[t]
    BY DEF TypeOK, LocalTypeOK, PlacesInv, Filling, Loading, EntryPCs, OpsAt
  <1>4. TypeOK'
    <2>1. given_up' \subseteq Thread
      BY DEF TypeOK, WaitingFor
    <2>2. QED
      BY <2>1 DEF TypeOK, LocalTypeOK, Flag, PlacesInv, Slot, EntryPCs, Filling,
           Loading, Evicting, HandTests
  <1>5. PlacesInv'
    BY DEF TypeOK, LocalTypeOK, PlacesInv, OpsAt, NextPage, Blocked, Trying,
           Valid, Loading, Filling, Evicting, HandTests, Cleaning, EntryPCs,
           PCs
  <1>6. HandsInv'
    BY DEF TypeOK, LocalTypeOK, HandsInv, PlacesInv
  <1>7. UsersInv'
    BY <1>1, <1>4, UsersKept DEF TypeOK, LocalTypeOK, PlacesInv, OpsAt
  <1>8. SameRoles(t) /\ RefOf(t)' = RefOf(t)
    BY <1>3
    DEF PlacesInv, RefOf, SameRoles, SameRolesOn, HasClaim, HasLock, Loads,
        Fills, AllocsIn, Allocs, Blocked, Trying, Valid, Loading, Filling,
        Evicting, HandTests, Cleaning, EntryPCs, PCs
  <1>9. CountsInv'
    BY <1>1, <1>8, CountsKept
  <1>10. FlagsInv'
    BY <1>1, <1>8, FlagsKept
    DEF TypeOK, LocalTypeOK, SameFlags, Has, PlacesInv, EntryPCs, Cleanable,
        FREE, ALLOC, READ_LOADING
  <1>11. MapsInv' /\ ValidInv' /\ WritebackInv' /\ DataInv' /\ DrainInv'
    <2>0. PICK b \in Entry, p \in Page : b = ent[t] /\ p = want[t]
      BY <1>3
    <2>1. Fills(t, b) /\ FlagsOnly(b) /\ b # None /\ p # None
      BY <2>0, <1>3 DEF Fills, Filling, Loading, FlagsOnly, Has
    <2>2. Alone(t, b) /\ ~Has(b, "FREE") /\ ~Has(b, "WRITEBACK")
      BY <2>1, OwnerAlone DEF FlagsInv, FlagsAt
    <2>3. \A q \in Page : lookup[q] # b
      BY <2>0, <1>3 DEF MapsInv, Unmapped
    <2>4. /\ disk_addr' = [disk_addr EXCEPT ![b] = None] /\ lookup' = lookup
          /\ UNCHANGED <<status, current, saved, live, span, inflight, op, want, ent>>
      BY <2>0, <2>3, <1>3 DEF TypeOK
    <2>5. pc[t] \in Staged \ {"e_release"} /\ pc'[t] \notin Cleaning /\ pc[t] \notin Cleaning
      BY <1>3 DEF Staged, Cleaning
    <2> HIDE DEF NoReqsUnmap
    <2>6. MapsOnly(b)
      BY <2>3, <2>4 DEF MapsOnly, TypeOK
    <2>p. disk_addr'[b] = None /\ lookup' = lookup
      BY <2>0, <2>1, <2>3, <2>4 DEF TypeOK
    <2>q. /\ ent[t] = b /\ want[t] = p /\ ent'[t] = b /\ want'[t] = p
      BY <2>0, <1>3
    <2>m. MapsInv'
      <3>1. \A q \in Page : lookup'[q] = b =>
               \/ disk_addr'[b] = q
               \/ pc'[t] = "setaddr" /\ ent'[t] = b /\ want'[t] = q
        BY <2>0, <2>1, <2>3, <2>p, <2>q, <1>3
      <3>2. disk_addr'[b] # None =>
               \/ lookup'[disk_addr'[b]] = b
               \/ pc'[t] \in {"a_map", "unmap"} /\ ent'[t] = b /\ want'[t] = disk_addr'[b]
        BY <2>0, <2>1, <2>3, <2>p, <2>q, <1>3
      <3>3. /\ pc'[t] \in {"got", "map", "abort", "setaddr", "release", "d_release"} =>
                  ent'[t] = b /\ disk_addr'[b] = None
            /\ pc'[t] \in {"request", "load", "unmap", "a_map"} =>
                  ent'[t] = b /\ disk_addr'[b] = want'[t]
            /\ pc'[t] \in {"setaddr", "request", "load"} => ent'[t] = b /\ lookup'[want'[t]] = b
            /\ pc'[t] \in {"got", "map", "abort", "unmap", "release", "a_map", "d_release"} =>
                  Unmapped(b)'
            /\ pc'[t] # "e_release"
        BY <2>0, <2>1, <2>3, <2>p, <2>q, <1>3 DEF Unmapped
      <3>4. ~Has(b, "FREE")' /\ Fills(t, b)'
        BY <2>1, <2>2, <2>4, <1>8 DEF Has, SameRoles, SameRolesOn
      <3>5. pc[t] # "e_release" /\ ent[t] = b
        BY <2>0, <1>3
      <3> QED BY <2>1, <2>2, <2>6, <3>1, <3>2, <3>3, <3>4, <3>5, <1>1, <1>4,
                 OwnMaps
    <2>v. ValidInv'
      <3>1. \A u \in Thread \ {t} : pc[u] \in Valid => ent[u] # b
        BY <2>0, <2>3, <1>3, NobodyHas DEF Loads, Loading, Unmapped
      <3>2. pc'[t] \notin Valid
        BY <1>3 DEF Valid
      <3> QED BY <3>1, <3>2, <2>1, <2>6, <1>1, <1>4, OwnValid
    <2>d. DrainInv'
      <3>1. \A e \in Entry : HasLock(t, e)' => e = b /\ Drained(t)' = 0
        BY <2>0, <2>4, <1>3 DEF HasLock, Drained
      <3>2. RefOf(t)' = RefOf(t) /\ RefOf(t) \in {None, b}
        BY <2>0, <1>8, <1>3 DEF RefOf, Evicting, EntryPCs, Filling, Loading
      <3> QED BY <3>1, <3>2, <2>1, <2>2, <2>6, <1>1, <1>4, OwnDrain
    <2>w. WritebackInv'
      <3>1. ~Has(b, "WRITEBACK")'
        BY <2>2, <2>4 DEF Has
      <3>2. \A e \in Entry \ {b} : ~HasLock(t, e)'
        BY <2>0, <2>4, <1>3 DEF HasLock
      <3> QED BY <3>1, <3>2, <2>1, <2>2, <2>4, <2>5, <2>6, <1>1, <1>4,
                 OwnWriteback
    <2>x. DataInv'
      <3>1. Loads(t, b) => Has(b, "LOADING") /\ Has(b, "CLEAN")
        BY DEF FlagsInv, FlagsAt
      <3>2. Mapped(b)' => Has(b, "LOADING")'
        BY <2>0, <2>1, <2>3, <2>4, <3>1, <1>3 DEF Loads, Loading, Mapped, Has
      <3>3. \A q \in live : lookup[q] # b \/ disk_addr[b] # q \/ Has(b, "CLEAN")
        BY <2>0, <2>3, <3>1, <1>3 DEF Loads, Loading, TypeOK
      <3>4. pc'[t] # "e_unmap"
        BY <1>3
      <3> QED BY <3>2, <3>3, <3>4, <2>1, <2>2, <2>4, <2>6, <1>1, <1>4, OwnData
    <2> QED BY <2>m, <2>v, <2>d, <2>w, <2>x
  <1> QED BY <1>1, <1>2, <1>3, <1>4, <1>5, <1>6, <1>7, <1>8, <1>9, <1>10, <1>11

(* NoReqsRelease: The entry that holds no page is free again.              *)
LEMMA NoReqsReleaseStep ==
    ASSUME TypeOK, CoreInv, NEW t \in Thread, NoReqsRelease(t),
           broken = "no", broken' = "no"
    PROVE  TypeOK' /\ CoreInv'
  <1> USE NoneAssumption
          DEF CoreInv, NoReqsRelease, Goto, vars, entryVars, diskVars,
              handVars, callVars
  <1>1. Others(t)
    BY DEF Others, TypeOK, LocalTypeOK
  <1>2. LocalTypeOK'
    BY DEF TypeOK, LocalTypeOK, PlacesInv, Blocked, Trying, Valid, Loading,
           Filling, Evicting, HandTests, Cleaning, EntryPCs, PCs
  <1>3. /\ pc[t] = "release" /\ pc'[t] = "evicted" /\ ent[t] \in Entry
        /\ status' = [status EXCEPT ![ent[t]] = {"FREE"}]
        /\ op'[t] = op[t] /\ want'[t] = want[t] /\ ent'[t] = ent[t]
    BY DEF TypeOK, LocalTypeOK, PlacesInv, FREE, Filling, Loading, EntryPCs
  <1>4. TypeOK'
    <2>1. status' \in [Entry -> SUBSET Flag]
      BY <1>3 DEF TypeOK, Flag
    <2> QED BY <2>1 DEF TypeOK
  <1>5. PlacesInv'
    BY DEF TypeOK, LocalTypeOK, PlacesInv, OpsAt, NextPage, Blocked, Trying,
           Valid, Loading, Filling, Evicting, HandTests, Cleaning, EntryPCs,
           PCs
  <1>6. HandsInv'
    BY DEF TypeOK, LocalTypeOK, HandsInv, PlacesInv
  <1>7. UsersInv'
    BY <1>1, <1>4, UsersKept DEF TypeOK, LocalTypeOK, PlacesInv, OpsAt
  <1>8. /\ ent[t] \in Entry /\ RefOf(t)' = RefOf(t)
        /\ \A e \in Entry \ {ent[t]} : SameRolesOn(t, e) /\ ~HasLock(t, e)'
        /\ \A e \in Entry : e = ent[t] =>
              /\ HasClaim(t, e)' <=> FALSE
              /\ HasLock(t, e)' <=> FALSE
              /\ Loads(t, e)' <=> FALSE
              /\ Fills(t, e)' <=> FALSE
              /\ AllocsIn(t, e)' <=> FALSE
    BY <1>3
    DEF TypeOK, PlacesInv, RefOf, SameRoles, SameRolesOn, HasClaim, HasLock,
        Loads, Fills, AllocsIn, Allocs, Blocked, Trying, Valid, Loading,
        Filling, Evicting, HandTests, Cleaning, EntryPCs, PCs
  <1>9. CountsInv'
    BY <1>1, <1>8, CountsKept
  <1>10. FlagsInv' /\ MapsInv' /\ ValidInv' /\ WritebackInv' /\ DataInv'
    <2>0. PICK b \in Entry : b = ent[t]
      BY <1>8
    <2>1. status'[b] = {"FREE"} /\ FlagsOnly(b)
      BY <2>0, <1>3 DEF TypeOK, FlagsOnly, Has
    <2>2. Unmapped(b) /\ disk_addr[b] = None
      BY <2>0, <1>3 DEF MapsInv
    <2>3. Alone(t, b)
      BY <2>0, <1>3, OwnerAlone DEF Fills, HasClaim, Filling, Loading
    <2>4. FlagsAt(b)'
      BY <2>0, <2>1, <2>3, <1>8, <1>1, <1>3, FlagsAlone DEF Has
    <2>5. /\ pc[t] \notin Cleaning /\ pc'[t] \notin Valid \cup {"e_unmap"}
          /\ pc[t] \in Staged \ {"e_release"} => ent[t] = b
          /\ pc[t] = "e_release" => free_hand[t] = b
          /\ pc'[t] \notin Staged \ {"got", "map"}
          /\ pc'[t] \in {"got", "map"} => ent'[t] = b
      BY <2>0, <1>3 DEF Cleaning, Valid, Staged
    <2>6. \/ Has(b, "FREE")' \/ Fills(t, b)'
      BY <2>0, <2>1, <1>8 DEF Has
    <2>7. ~Has(b, "WRITEBACK")'
      BY <2>1 DEF Has
    <2>8. \A e \in Entry \ {b} : SameRolesOn(t, e) /\ ~HasLock(t, e)'
      BY <2>0, <1>8
    <2>9. UNCHANGED <<lookup, disk_addr, current, saved, live, span, inflight>>
      OBVIOUS
    <2> HIDE DEF NoReqsRelease
    <2> QED BY <2>1, <2>2, <2>3, <2>4, <2>5, <2>6, <2>7, <2>8, <2>9,
               <1>1, <1>4, UnmappedStatus
  <1>11. DrainInv'
    BY <1>1, <1>4, <1>8, DrainKept
    DEF LocalTypeOK, RefOf, Drained, Harmless, HasLock, Allocs, PlacesInv,
        Blocked, Trying, Valid, Loading, Filling, Evicting, HandTests,
        Cleaning, EntryPCs, PCs
  <1> QED BY <1>1, <1>2, <1>3, <1>4, <1>5, <1>6, <1>7, <1>8, <1>9, <1>10, <1>11

(* Load: The page was saved, for the entry was clean as long as it was     *)
(* loaded.                                                                 *)
LEMMA LoadStep ==
    ASSUME TypeOK, CoreInv, NEW t \in Thread, Load(t),
           broken = "no", broken' = "no"
    PROVE  TypeOK' /\ CoreInv'
  <1> USE NoneAssumption
          DEF CoreInv, Load, Goto, ClearFlags, vars, entryVars, diskVars,
              handVars, callVars
  <1>1. Others(t)
    BY DEF Others, TypeOK, LocalTypeOK
  <1>2. LocalTypeOK'
    BY DEF TypeOK, LocalTypeOK, PlacesInv, Blocked, Trying, Valid, Loading,
           Filling, Evicting, HandTests, Cleaning, EntryPCs, PCs
  <1>3. /\ pc[t] = "load" /\ pc'[t] = "held" /\ ent[t] \in Entry /\ want[t] \in Page
        /\ status' = [status EXCEPT ![ent[t]] = @ \ {"LOADING"}]
        /\ current' = [current EXCEPT ![ent[t]] = saved[want[t]]]
        /\ want[t] \in live
        /\ op'[t] = op[t] /\ want'[t] = want[t] /\ ent'[t] = ent[t]
    <2>1. pc[t] = "load" /\ pc'[t] = "held"
      BY DEF LocalTypeOK
    <2>2. ent[t] \in Entry /\ want[t] \in Page /\ op[t] \in {"get", "async"}
      BY <2>1 DEF TypeOK, PlacesInv, Filling, Loading, EntryPCs, OpsAt
    <2>3. want[t] \in live
      BY <2>2 DEF UsersInv
    <2> QED BY <2>1, <2>2, <2>3
  <1>4. TypeOK'
    BY DEF TypeOK, LocalTypeOK, Flag, PlacesInv, Slot, EntryPCs, Filling,
           Loading, Evicting, HandTests
  <1>5. PlacesInv'
    BY DEF TypeOK, LocalTypeOK, PlacesInv, OpsAt, NextPage, Blocked, Trying,
           Valid, Loading, Filling, Evicting, HandTests, Cleaning, EntryPCs,
           PCs
  <1>6. HandsInv'
    BY DEF TypeOK, LocalTypeOK, HandsInv, PlacesInv
  <1>7. UsersInv'
    BY <1>1, <1>4, UsersKept DEF TypeOK, LocalTypeOK, PlacesInv, OpsAt
  <1>8. /\ ent[t] \in Entry /\ RefOf(t)' = RefOf(t)
        /\ \A e \in Entry \ {ent[t]} : SameRolesOn(t, e) /\ ~HasLock(t, e)'
        /\ \A e \in Entry : e = ent[t] =>
              /\ HasClaim(t, e)' <=> FALSE
              /\ HasLock(t, e)' <=> FALSE
              /\ Loads(t, e)' <=> FALSE
              /\ Fills(t, e)' <=> FALSE
              /\ AllocsIn(t, e)' <=> FALSE
    BY <1>3
    DEF TypeOK, PlacesInv, RefOf, SameRoles, SameRolesOn, HasClaim, HasLock,
        Loads, Fills, AllocsIn, Allocs, Blocked, Trying, Valid, Loading,
        Filling, Evicting, HandTests, Cleaning, EntryPCs, PCs
  <1>9. CountsInv'
    BY <1>1, <1>8, CountsKept
  <1>10. FlagsInv' /\ MapsInv' /\ ValidInv' /\ DataInv'
    <2>0. PICK b \in Entry : b = ent[t]
      BY <1>8
    <2>1. status'[b] = status[b] \ {"LOADING"} /\ FlagsOnly(b) /\ MapsOnly(b)
      BY <2>0, <1>3 DEF TypeOK, FlagsOnly, MapsOnly, Has
    <2>2. /\ Loads(t, b) /\ Fills(t, b) /\ ~HasClaim(t, b) /\ ~HasLock(t, b)
      BY <2>0, <1>3
      DEF Loads, Fills, HasClaim, HasLock, Allocs, Filling, Loading, PlacesInv
    <2>3. Alone(t, b)
      BY <2>2, OwnerAlone
    <2>4. /\ \A u \in Thread : ~HasClaim(u, b) /\ ~HasLock(u, b)
          /\ \A q \in Page : lookup[q] = b => q = want[t]
      <3>1. \A u \in Thread : ~HasClaim(u, b) /\ ~HasLock(u, b)
        BY <2>2, <2>3 DEF Alone
      <3>2. \A u \in Thread : ~(pc[u] = "setaddr" /\ ent[u] = b)
        BY <2>0, <2>3, <1>3 DEF Alone, Staged
      <3>3. disk_addr[b] = want[t] /\ b # None
        BY <2>0, <1>3 DEF MapsInv
      <3> QED BY <3>1, <3>2, <3>3 DEF MapsInv
    <2>5. /\ ~Has(b, "CLAIMED") /\ ~Has(b, "WRITELOCKED") /\ ~Has(b, "FREE")
          /\ Has(b, "CLEAN")
      BY <2>2, <2>4 DEF FlagsInv, FlagsAt
    <2>6. /\ ~Has(b, "CLAIMED")' /\ ~Has(b, "WRITELOCKED")' /\ ~Has(b, "LOADING")'
          /\ ~Has(b, "FREE")'
      BY <2>1, <2>5 DEF Has
    <2>7. disk_addr[b] = want[t] /\ lookup[want[t]] = b
      BY <2>0, <1>3 DEF MapsInv
    <2>8. current'[b] = saved[want[t]] /\ \A e \in Entry \ {b} : current'[e] = current[e]
      BY <2>0, <1>3 DEF TypeOK
    <2>9. /\ pc[t] = "load" /\ pc'[t] = "held" /\ ent[t] = b /\ ent'[t] = b
          /\ want'[t] = want[t] /\ want[t] \in Page /\ want[t] \in live
      BY <2>0, <1>3
    <2> HIDE DEF Load
    <2>a. UNCHANGED <<lookup, disk_addr, saved, live>>
      BY DEF Load
    <2>b. FlagsInv'
      <3>1. FlagsAt(b)'
        BY <2>0, <2>3, <2>6, <1>8, <1>1, FlagsAlone
      <3>2. \A e \in Entry \ {b} : SameRolesOn(t, e) /\ SameFlags(e)
        BY <2>0, <2>1, <1>8 DEF FlagsOnly, SameFlags
      <3> QED BY <3>1, <3>2, <1>1, FlagsStep
    <2>c. MapsInv'
      <3>1. Mapped(b)'
        BY <2>7, <2>a, <2>9, NoneAssumption DEF Mapped
      <3> QED BY <3>1, <2>1, <2>3, <2>4, <2>6, <2>7, <2>9, <2>a, <1>1, <1>4,
                 OwnMaps, NoneAssumption
    <2>d. ValidInv'
      <3>1. \A u \in Thread \ {t} : pc[u] \in Valid => ent[u] # b
        BY <2>2, NobodyHas
      <3>2. ~Has(ent[t], "FREE")' /\ ~Has(ent[t], "LOADING")'
        BY <2>6, <2>9 DEF Has
      <3> QED BY <3>1, <3>2, <2>1, <2>7, <2>9, <2>a, <1>1, <1>4, OwnValid
    <2>e. DataInv'
      <3>1. saved[want[t]]
        BY <2>5, <2>7, <2>9 DEF DataInv
      <3>2. \A q \in live' : q \in live /\ q \in Page /\ saved'[q] = saved[q]
        BY <2>a DEF TypeOK
      <3>3. \A q \in live : saved[q] \/ lookup[q] # b \/ disk_addr[b] # q \/ Has(b, "CLEAN")
        BY <2>5
      <3> QED BY <3>1, <3>2, <3>3, <2>1, <2>3, <2>8, <2>9, <2>a, <1>1, <1>4,
                 OwnData
    <2> QED BY <2>b, <2>c, <2>d, <2>e
  <1>11. DrainInv'
    BY <1>1, <1>4, <1>8, DrainKept
    DEF LocalTypeOK, RefOf, Drained, Harmless, HasLock, Allocs, PlacesInv,
        Blocked, Trying, Valid, Loading, Filling, Evicting, HandTests,
        Cleaning, EntryPCs, PCs
  <1>12. WritebackInv'
    BY <1>1, WritebackKept
    DEF TypeOK, LocalTypeOK, Has, HasLock, Allocs, Flushed, Cleaning,
        PlacesInv, FREE, ALLOC, READ_LOADING
  <1> QED BY <1>1, <1>2, <1>3, <1>4, <1>5, <1>6, <1>7, <1>8, <1>9, <1>10,
             <1>11, <1>12

(* LockFlush: No write back is under way once the lock is set and          *)
(* CC_WRITEBACK clear.                                                     *)
LEMMA LockFlushStep ==
    ASSUME TypeOK, CoreInv, NEW t \in Thread, LockFlush(t),
           broken = "no", broken' = "no"
    PROVE  TypeOK' /\ CoreInv'
  <1> USE NoneAssumption
          DEF CoreInv, LockFlush, Goto, vars, entryVars, diskVars, handVars,
              callVars
  <1>1. Others(t)
    BY DEF Others, TypeOK, LocalTypeOK
  <1>2. LocalTypeOK'
    BY DEF TypeOK, LocalTypeOK, PlacesInv, Blocked, Trying, Valid, Loading,
           Filling, Evicting, HandTests, Cleaning, EntryPCs, PCs
  <1>3. TypeOK'
    BY DEF TypeOK, LocalTypeOK, Flag, PlacesInv, Slot, EntryPCs, Filling,
           Loading, Evicting, HandTests
  <1>4. PlacesInv'
    BY DEF TypeOK, LocalTypeOK, PlacesInv, OpsAt, NextPage, Blocked, Trying,
           Valid, Loading, Filling, Evicting, HandTests, Cleaning, EntryPCs,
           PCs
  <1>5. HandsInv'
    BY DEF TypeOK, LocalTypeOK, HandsInv, PlacesInv
  <1>6. UsersInv'
    BY <1>1, <1>3, UsersKept DEF TypeOK, LocalTypeOK, PlacesInv, OpsAt
  <1>7. SameRoles(t) /\ RefOf(t)' = RefOf(t)
    BY DEF TypeOK, LocalTypeOK, PlacesInv, OpsAt, RefOf, SameRoles,
           SameRolesOn, HasClaim, HasLock, Loads, Fills, AllocsIn, Allocs,
           Blocked, Trying, Valid, Loading, Filling, Evicting, HandTests,
           Cleaning, EntryPCs, PCs
  <1>8. CountsInv'
    BY <1>1, <1>7, CountsKept
  <1>9. FlagsInv' /\ MapsInv' /\ WritebackInv' /\ DataInv'
    BY <1>1, <1>3, <1>7, QuietStep
    DEF TypeOK, LocalTypeOK, Has, Staged, Flushed, Cleaning, Flag
  <1>10. ValidInv'
    BY <1>1, <1>3, ValidKept DEF TypeOK, LocalTypeOK, Valid, Has
  <1>11. DrainInv'
    BY <1>1, <1>3, <1>7, DrainKept
    DEF LocalTypeOK, RefOf, Drained, Harmless, HasLock, Allocs, PlacesInv,
        Blocked, Trying, Valid, Loading, Filling, Evicting, HandTests,
        Cleaning, EntryPCs, PCs
  <1> QED BY <1>1, <1>2, <1>3, <1>4, <1>5, <1>6, <1>7, <1>8, <1>9, <1>10, <1>11

(* LockDrain: One more counter shows no reader (DrainAdvance).             *)
LEMMA LockDrainStep ==
    ASSUME TypeOK, CoreInv, NEW t \in Thread, LockDrain(t),
           broken = "no", broken' = "no"
    PROVE  TypeOK' /\ CoreInv'
  <1> USE NoneAssumption
          DEF CoreInv, LockDrain, Goto, NoReader, vars, entryVars, diskVars,
              handVars, callVars
  <1>1. Others(t)
    BY DEF Others, TypeOK, LocalTypeOK
  <1>2. LocalTypeOK'
    BY DEF TypeOK, LocalTypeOK, PlacesInv, Blocked, Trying, Valid, Loading,
           Filling, Evicting, HandTests, Cleaning, EntryPCs, PCs
  <1>3. /\ pc[t] = "lock_drain"
        /\ \/ pc'[t] = "lock_drain" /\ scan'[t] = scan[t] + 1
           \/ /\ pc'[t] \in {"d_unmap", "write"} /\ scan[t] = RcWidth - 1
        /\ NoReader(t, ent[t], scan[t])
        /\ op'[t] = op[t] /\ want'[t] = want[t] /\ ent'[t] = ent[t]
    BY DEF TypeOK, LocalTypeOK, PlacesInv
  <1>4. TypeOK'
    <2>1. scan' \in [Thread -> Slot]
      <3>2. PICK s \in Slot : scan' = [scan EXCEPT ![t] = s]
        BY NextCounter
      <3> QED BY <3>2 DEF TypeOK
    <2> QED BY <2>1 DEF TypeOK
  <1>5. PlacesInv'
    BY DEF TypeOK, LocalTypeOK, PlacesInv, OpsAt, NextPage, Blocked, Trying,
           Valid, Loading, Filling, Evicting, HandTests, Cleaning, EntryPCs,
           PCs
  <1>6. HandsInv'
    BY DEF TypeOK, LocalTypeOK, HandsInv, PlacesInv
  <1>7. UsersInv'
    BY <1>1, <1>4, <1>3, UsersKept DEF PlacesInv, OpsAt
  <1>8. SameRoles(t) /\ RefOf(t)' = RefOf(t)
    BY <1>3
    DEF PlacesInv, RefOf, SameRoles, SameRolesOn, HasClaim, HasLock, Loads,
        Fills, AllocsIn, Allocs, Blocked, Trying, Valid, Loading, Filling,
        Evicting, HandTests, Cleaning, EntryPCs, PCs
  <1>9. CountsInv'
    BY <1>1, <1>8, CountsKept
  <1>10. FlagsInv' /\ MapsInv' /\ WritebackInv' /\ DataInv'
    BY <1>1, <1>4, <1>8, QuietStep
    DEF TypeOK, LocalTypeOK, Has, Staged, Flushed, Cleaning, Flag
  <1>11. ValidInv'
    BY <1>1, <1>4, ValidKept DEF TypeOK, LocalTypeOK, Valid, Has
  <1>12. DrainInv'
    <2>1. ent[t] \in Entry /\ RefOf(t) = ent[t] /\ ~Harmless(t, ent[t])
      BY <1>3
      DEF TypeOK, PlacesInv, RefOf, Harmless, Blocked, Trying, Valid, Loading,
          Filling, Evicting, HandTests, Cleaning, EntryPCs, PCs
    <2>2. \A e \in Entry : HasLock(t, e) => e = ent[t]
      BY <1>3 DEF HasLock, Allocs
    <2>3. /\ Drained(t) = scan[t] /\ scan[t] \in Slot
          /\ Drained(t)' <= scan[t] + 1
      BY <1>3, RcWidthAssumption DEF TypeOK, Drained, Slot
    <2> QED BY <1>1, <1>4, <1>3, <1>8, <2>1, <2>2, <2>3, DrainAdvance
  <1> QED BY <1>1, <1>2, <1>3, <1>4, <1>5, <1>6, <1>7, <1>8, <1>9, <1>10,
             <1>11, <1>12

(* AllocAddr: The entry gets its address before its place in the table.    *)
LEMMA AllocAddrStep ==
    ASSUME TypeOK, CoreInv, NEW t \in Thread, AllocAddr(t),
           broken = "no", broken' = "no"
    PROVE  TypeOK' /\ CoreInv'
  <1> USE NoneAssumption
          DEF CoreInv, AllocAddr, Goto, vars, entryVars, diskVars, handVars,
              callVars
  <1>1. Others(t)
    BY DEF Others, TypeOK, LocalTypeOK
  <1>2. LocalTypeOK'
    BY DEF TypeOK, LocalTypeOK, PlacesInv, Blocked, Trying, Valid, Loading,
           Filling, Evicting, HandTests, Cleaning, EntryPCs, PCs
  <1>3. /\ pc[t] = "map"
        /\ pc'[t] = "a_map"
        /\ ent[t] \in Entry /\ want[t] \in Page /\ op[t] \in {"alloc"}
        /\ op'[t] = op[t] /\ want'[t] = want[t] /\ ent'[t] = ent[t]
    BY DEF TypeOK, LocalTypeOK, PlacesInv, Filling, Loading, EntryPCs, OpsAt
  <1>4. TypeOK'
    BY DEF TypeOK, LocalTypeOK, Flag, PlacesInv, Slot, EntryPCs, Filling,
           Loading, Evicting, HandTests
  <1>5. PlacesInv'
    BY DEF TypeOK, LocalTypeOK, PlacesInv, OpsAt, NextPage, Blocked, Trying,
           Valid, Loading, Filling, Evicting, HandTests, Cleaning, EntryPCs,
           PCs
  <1>6. HandsInv'
    BY DEF TypeOK, LocalTypeOK, HandsInv, PlacesInv
  <1>7. UsersInv'
    BY <1>1, <1>4, UsersKept DEF TypeOK, LocalTypeOK, PlacesInv, OpsAt
  <1>8. SameRoles(t) /\ RefOf(t)' = RefOf(t)
    BY <1>3
    DEF PlacesInv, RefOf, SameRoles, SameRolesOn, HasClaim, HasLock, Loads,
        Fills, AllocsIn, Allocs, Blocked, Trying, Valid, Loading, Filling,
        Evicting, HandTests, Cleaning, EntryPCs, PCs
  <1>9. CountsInv'
    BY <1>1, <1>8, CountsKept
  <1>10. FlagsInv'
    BY <1>1, <1>8, FlagsKept
    DEF TypeOK, LocalTypeOK, SameFlags, Has, PlacesInv, EntryPCs, Cleanable,
        FREE, ALLOC, READ_LOADING
  <1>11. MapsInv' /\ ValidInv' /\ WritebackInv' /\ DataInv' /\ DrainInv'
    <2>0. PICK b \in Entry, p \in Page : b = ent[t] /\ p = want[t]
      BY <1>3
    <2>1. Fills(t, b) /\ FlagsOnly(b) /\ b # None /\ p # None
      BY <2>0, <1>3 DEF Fills, Filling, Loading, FlagsOnly, Has
    <2>2. Alone(t, b) /\ ~Has(b, "FREE") /\ ~Has(b, "WRITEBACK")
      BY <2>1, OwnerAlone DEF FlagsInv, FlagsAt
    <2>3. disk_addr[b] = None /\ \A q \in Page : lookup[q] # b
      BY <2>0, <1>3 DEF MapsInv, Unmapped
    <2>4. /\ disk_addr' = [disk_addr EXCEPT ![b] = p] /\ lookup' = lookup
          /\ UNCHANGED <<status, current, saved, live, span, inflight, op, want, ent>>
      BY <2>0, <2>3, <1>3 DEF TypeOK
    <2>5. pc[t] \in Staged \ {"e_release"} /\ pc'[t] \notin Cleaning /\ pc[t] \notin Cleaning
      BY <1>3 DEF Staged, Cleaning
    <2> HIDE DEF AllocAddr
    <2>6. MapsOnly(b)
      BY <2>3, <2>4 DEF MapsOnly, TypeOK
    <2>p. disk_addr'[b] = p /\ lookup' = lookup
      BY <2>0, <2>1, <2>3, <2>4 DEF TypeOK
    <2>q. /\ ent[t] = b /\ want[t] = p /\ ent'[t] = b /\ want'[t] = p
      BY <2>0, <1>3
    <2>m. MapsInv'
      <3>1. \A q \in Page : lookup'[q] = b =>
               \/ disk_addr'[b] = q
               \/ pc'[t] = "setaddr" /\ ent'[t] = b /\ want'[t] = q
        BY <2>0, <2>1, <2>3, <2>p, <2>q, <1>3
      <3>2. disk_addr'[b] # None =>
               \/ lookup'[disk_addr'[b]] = b
               \/ pc'[t] \in {"a_map", "unmap"} /\ ent'[t] = b /\ want'[t] = disk_addr'[b]
        BY <2>0, <2>1, <2>3, <2>p, <2>q, <1>3
      <3>3. /\ pc'[t] \in {"got", "map", "abort", "setaddr", "release", "d_release"} =>
                  ent'[t] = b /\ disk_addr'[b] = None
            /\ pc'[t] \in {"request", "load", "unmap", "a_map"} =>
                  ent'[t] = b /\ disk_addr'[b] = want'[t]
            /\ pc'[t] \in {"setaddr", "request", "load"} => ent'[t] = b /\ lookup'[want'[t]] = b
            /\ pc'[t] \in {"got", "map", "abort", "unmap", "release", "a_map", "d_release"} =>
                  Unmapped(b)'
            /\ pc'[t] # "e_release"
        BY <2>0, <2>1, <2>3, <2>p, <2>q, <1>3 DEF Unmapped
      <3>4. ~Has(b, "FREE")' /\ Fills(t, b)'
        BY <2>1, <2>2, <2>4, <1>8 DEF Has, SameRoles, SameRolesOn
      <3>5. pc[t] # "e_release" /\ ent[t] = b
        BY <2>0, <1>3
      <3> QED BY <2>1, <2>2, <2>6, <3>1, <3>2, <3>3, <3>4, <3>5, <1>1, <1>4,
                 OwnMaps
    <2>v. ValidInv'
      <3>1. \A u \in Thread \ {t} : pc[u] \in Valid => ent[u] # b
        BY <2>0, <2>3, <1>3, NobodyHas DEF Loads, Loading, Unmapped
      <3>2. pc'[t] \notin Valid
        BY <1>3 DEF Valid
      <3> QED BY <3>1, <3>2, <2>1, <2>6, <1>1, <1>4, OwnValid
    <2>d. DrainInv'
      <3>1. \A e \in Entry : HasLock(t, e)' => e = b /\ Drained(t)' = 0
        BY <2>0, <2>4, <1>3 DEF HasLock, Drained
      <3>2. RefOf(t)' = RefOf(t) /\ RefOf(t) \in {None, b}
        BY <2>0, <1>8, <1>3 DEF RefOf, Evicting, EntryPCs, Filling, Loading
      <3> QED BY <3>1, <3>2, <2>1, <2>2, <2>6, <1>1, <1>4, OwnDrain
    <2>w. WritebackInv'
      <3>1. ~Has(b, "WRITEBACK")'
        BY <2>2, <2>4 DEF Has
      <3>2. \A e \in Entry \ {b} : ~HasLock(t, e)'
        BY <2>0, <2>4, <1>3 DEF HasLock
      <3> QED BY <3>1, <3>2, <2>1, <2>2, <2>4, <2>5, <2>6, <1>1, <1>4,
                 OwnWriteback
    <2>x. DataInv'
      <3>1. Loads(t, b) => Has(b, "LOADING") /\ Has(b, "CLEAN")
        BY DEF FlagsInv, FlagsAt
      <3>2. Mapped(b)' => Has(b, "LOADING")'
        BY <2>0, <2>1, <2>3, <2>4, <3>1, <1>3 DEF Loads, Loading, Mapped, Has
      <3>3. \A q \in live : lookup[q] # b \/ disk_addr[b] # q \/ Has(b, "CLEAN")
        BY <2>0, <2>3, <3>1, <1>3 DEF Loads, Loading, TypeOK
      <3>4. pc'[t] # "e_unmap"
        BY <1>3
      <3> QED BY <3>2, <3>3, <3>4, <2>1, <2>2, <2>4, <2>6, <1>1, <1>4, OwnData
    <2> QED BY <2>m, <2>v, <2>d, <2>w, <2>x
  <1> QED BY <1>1, <1>2, <1>3, <1>4, <1>5, <1>6, <1>7, <1>8, <1>9, <1>10, <1>11

(* AllocMap: The new page is dirty in an entry that the thread has locked. *)
LEMMA AllocMapStep ==
    ASSUME TypeOK, CoreInv, NEW t \in Thread, AllocMap(t),
           broken = "no", broken' = "no"
    PROVE  TypeOK' /\ CoreInv'
  <1> USE NoneAssumption
          DEF CoreInv, AllocMap, Goto, vars, entryVars, diskVars, handVars,
              callVars
  <1>1. Others(t)
    BY DEF Others, TypeOK, LocalTypeOK
  <1>2. LocalTypeOK'
    BY DEF TypeOK, LocalTypeOK, PlacesInv, Blocked, Trying, Valid, Loading,
           Filling, Evicting, HandTests, Cleaning, EntryPCs, PCs
  <1>3. /\ pc[t] = "a_map" /\ pc'[t] = "write" /\ ent[t] \in Entry /\ want[t] \in Page
        /\ op[t] = "alloc" /\ op'[t] = "get" /\ want'[t] = want[t] /\ ent'[t] = ent[t]
    BY DEF TypeOK, LocalTypeOK, PlacesInv, Filling, EntryPCs, OpsAt
  <1>4. TypeOK'
    BY DEF TypeOK, LocalTypeOK, Flag, PlacesInv, Slot, EntryPCs, Filling,
           Loading, Evicting, HandTests
  <1>5. PlacesInv'
    BY DEF TypeOK, LocalTypeOK, PlacesInv, OpsAt, NextPage, Blocked, Trying,
           Valid, Loading, Filling, Evicting, HandTests, Cleaning, EntryPCs,
           PCs
  <1>6. HandsInv'
    BY DEF TypeOK, LocalTypeOK, HandsInv, PlacesInv
  <1>7. /\ ent[t] \in Entry /\ RefOf(t)' = RefOf(t)
        /\ \A e \in Entry \ {ent[t]} : SameRolesOn(t, e) /\ ~HasLock(t, e)'
        /\ \A e \in Entry : e = ent[t] =>
              /\ HasClaim(t, e)' <=> TRUE
              /\ HasLock(t, e)' <=> TRUE
              /\ Loads(t, e)' <=> FALSE
              /\ Fills(t, e)' <=> FALSE
              /\ AllocsIn(t, e)' <=> FALSE
    BY <1>3
    DEF TypeOK, PlacesInv, RefOf, SameRoles, SameRolesOn, HasClaim, HasLock,
        Loads, Fills, AllocsIn, Allocs, Blocked, Trying, Valid, Loading,
        Filling, Evicting, HandTests, Cleaning, EntryPCs, PCs
  <1>8. CountsInv'
    BY <1>1, <1>7, CountsKept
  <1>9. UsersInv' /\ FlagsInv' /\ MapsInv' /\ ValidInv' /\ DrainInv' /\ WritebackInv' /\ DataInv'
    <2>0. PICK b \in Entry, p \in Page : b = ent[t] /\ p = want[t]
      BY <1>3
    <2>1. /\ Fills(t, b) /\ AllocsIn(t, b) /\ HasClaim(t, b) /\ HasLock(t, b)
          /\ b # None /\ p # None
      BY <2>0, <1>3 DEF Fills, AllocsIn, Allocs, Filling, HasClaim, HasLock
    <2>2. Alone(t, b) /\ ~Has(b, "FREE") /\ ~Has(b, "WRITEBACK") /\ ~Has(b, "CLEAN")
      BY <2>1, OwnerAlone DEF FlagsInv, FlagsAt
    <2>3. /\ disk_addr[b] = p /\ \A q \in Page : lookup[q] # b
      BY <2>0, <1>3 DEF MapsInv, Unmapped
    <2>4. p \notin live /\ \A u \in Thread \ {t} : want[u] # p
      BY <2>0, <1>3 DEF UsersInv
    <2>5. lookup[p] = None
      BY <2>0, <2>4, <1>3 DEF UsersInv
    <2>6. /\ \A q \in Page : lookup'[q] = IF q = p THEN b ELSE lookup[q]
          /\ disk_addr' = disk_addr /\ current'[b]
          /\ \A e \in Entry \ {b} : current'[e] = current[e]
          /\ \A q \in live : saved'[q] = saved[q]
          /\ live' = live \cup {p} /\ want' = want /\ ent' = ent
          /\ UNCHANGED <<status, span, inflight>>
          /\ \A u \in Thread \ {t} : op'[u] = op[u] /\ pc'[u] = pc[u]
      BY <2>0, <2>4, <1>3, <1>1 DEF TypeOK, Others
    <2>7. /\ ent[t] = b /\ want[t] = p /\ ent'[t] = b /\ want'[t] = p
      BY <2>0, <1>3
    <2>8. pc'[t] = "write" /\ pc[t] = "a_map" /\ op'[t] = "get" /\ op[t] = "alloc"
      BY <1>3
    <2> HIDE DEF AllocMap
    <2>9. MapsOnly(b) /\ FlagsOnly(b)
      BY <2>5, <2>6 DEF MapsOnly, FlagsOnly, Has
    <2>u. UsersInv'
      <3>1. \A u \in Thread : op'[u] \in {"get", "async"} => want'[u] \in live'
        BY <2>6, <2>7, <2>8 DEF UsersInv
      <3>2. \A u \in Thread : op'[u] \in {"alloc", "discard"} => u # t /\ op[u] = op'[u]
        BY <2>6, <2>8
      <3>3. \A u, v \in Thread : op'[u] \in {"alloc", "discard"} /\ want'[u] = want'[v] => u = v
        BY <3>2, <2>6 DEF UsersInv
      <3>4. \A u \in Thread : op'[u] \in {"alloc", "discard"} => want'[u] \notin live'
        BY <3>2, <2>4, <2>6 DEF UsersInv
      <3>5. \A q \in Page \ live' :
               \/ lookup'[q] = None
               \/ \E u \in Thread : op'[u] = "discard" /\ want'[u] = q /\ pc'[u] \notin {"d_release", "d_dec"}
        <4> SUFFICES ASSUME NEW q \in Page \ live', lookup[q] # None
                     PROVE  \E u \in Thread : op'[u] = "discard" /\ want'[u] = q /\ pc'[u] \notin {"d_release", "d_dec"}
          BY <2>6
        <4>1. PICK u \in Thread : op[u] = "discard" /\ want[u] = q /\ pc[u] \notin {"d_release", "d_dec"}
          BY <2>6 DEF UsersInv
        <4>2. u # t
          BY <4>1, <2>8
        <4> QED BY <4>1, <4>2, <2>6
      <3> QED BY <3>1, <3>3, <3>4, <3>5 DEF UsersInv
    <2>f. FlagsInv'
      <3>1. /\ Has(b, "CLAIMED") /\ Has(b, "WRITELOCKED") /\ ~Has(b, "LOADING")
        <4>1. \A u \in Thread : ~Loads(u, b)
          BY <2>2, <2>7, <2>8 DEF Alone, Loads, Loading
        <4> QED BY <4>1, <2>1 DEF FlagsInv, FlagsAt
      <3>2. Has(b, "CLAIMED")' /\ Has(b, "WRITELOCKED")' /\ ~Has(b, "LOADING")'
        BY <3>1, <2>6 DEF Has
      <3>3. FlagsAt(b)'
        BY <3>2, <2>0, <2>2, <1>7, <1>1, FlagsAlone
      <3>4. \A e \in Entry \ {b} : SameRolesOn(t, e) /\ SameFlags(e)
        BY <2>0, <2>9, <1>7 DEF FlagsOnly, SameFlags
      <3> QED BY <3>3, <3>4, <1>1, FlagsStep
    <2>m. MapsInv'
      <3>1. Mapped(b)' /\ ~Has(b, "FREE")' /\ disk_addr'[b] = p /\ lookup'[p] = b
        BY <2>1, <2>2, <2>3, <2>6 DEF Mapped, Has
      <3>2. \A q \in Page : lookup'[q] = b => q = p
        BY <2>3, <2>6
      <3> QED BY <3>1, <3>2, <2>2, <2>7, <2>8, <2>9, <1>1, <1>4, OwnMaps
    <2>v. ValidInv'
      <3>1. \A u \in Thread : pc[u] \in Valid => ent[u] # b
        BY <2>3, NobodyHas DEF Unmapped
      <3>2. ~Has(b, "LOADING")
        <4>1. \A u \in Thread : ~Loads(u, b)
          BY <2>2, <2>7, <2>8 DEF Alone, Loads, Loading
        <4> QED BY <4>1 DEF FlagsInv, FlagsAt
      <3>3. /\ disk_addr'[ent'[t]] = want'[t] /\ lookup'[want'[t]] = ent'[t]
            /\ ~Has(ent[t], "FREE")' /\ ~Has(ent[t], "LOADING")'
        BY <3>2, <2>2, <2>3, <2>6, <2>7 DEF Has
      <3> QED BY <3>1, <3>3, <2>9, <1>1, <1>4, OwnValid
    <2>d. DrainInv'
      <3> SUFFICES ASSUME NEW e \in Entry, NEW v \in Thread, NEW u \in Thread,
                          HasLock(v, e)', u # v, RefOf(u)' = e, SlotOf[u] < Drained(v)'
                   PROVE  Harmless(u, e)'
        BY DEF DrainInv
      <3>1. CASE v # t
        <4>1. HasLock(v, e) /\ Drained(v)' = Drained(v) /\ e # b
          BY <3>1, <2>2, <1>1, OthersKeepRoles
          DEF SameRoles, SameRolesOn, Alone
        <4>2. RefOf(t)' = b
          BY <2>7, <2>8 DEF RefOf, EntryPCs, Valid
        <4>3. u # t /\ RefOf(u) = e
          BY <4>1, <4>2, <1>1, OthersKeepRoles
        <4>4. Harmless(u, e)
          BY <3>1, <4>1, <4>3 DEF DrainInv
        <4> QED BY <4>3, <4>4, <2>6 DEF Harmless
      <3>2. CASE v = t
        <4>1. e = b /\ u # t /\ RefOf(u) = b
          BY <3>2, <2>7, <2>8, <1>1, OthersKeepRoles DEF HasLock, Allocs
        <4>2. pc[u] \notin Filling \cup {"d_release"} \/ ent[u] # b
          BY <2>2, <4>1 DEF Alone, Staged, Filling, Loading
        <4>3. pc[u] \in Evicting => free_hand[u] # b
          BY <2>0, <4>1, <2>1, <1>3 DEF HandsInv, PlacesInv, Filling
        <4>4. pc[u] \in Valid => ent[u] # b
          BY <2>3, NobodyHas DEF Unmapped
        <4>5. pc[u] \in Blocked \cup Trying /\ u \in Thread \ {t}
          BY <4>1, <4>2, <4>3, <4>4, <2>1 DEF RefOf, EntryPCs, Blocked, Trying
        <4>6. want'[u] # disk_addr'[b] /\ pc'[u] = pc[u]
          BY <2>3, <2>4, <2>6, <4>5
        <4> QED BY <4>1, <4>5, <4>6 DEF Harmless
      <3> QED BY <3>1, <3>2
    <2>w. WritebackInv'
      <3>1. ~Has(b, "WRITEBACK")' /\ pc[t] \notin Cleaning
        BY <2>2, <2>6, <2>8 DEF Has, Cleaning
      <3>2. \A e \in Entry \ {b} : ~HasLock(t, e)'
        BY <2>0, <1>7
      <3> QED BY <3>1, <3>2, <2>2, <2>6, <2>9, <1>1, <1>4, OwnWriteback
    <2>x. DataInv'
      <3>1. lookup'[p] = b /\ disk_addr'[b] = p /\ ~Has(b, "CLEAN")'
        BY <2>2, <2>3, <2>6 DEF Has
      <3>2. \A q \in live' : q = p \/ (q \in live /\ q \in Page /\ saved'[q] = saved[q])
        BY <2>6 DEF TypeOK
      <3> QED BY <3>1, <3>2, <2>2, <2>3, <2>6, <2>8, <2>9, <1>1, <1>4, OwnData
    <2> QED BY <2>u, <2>f, <2>m, <2>v, <2>d, <2>w, <2>x
  <1> QED BY <1>1, <1>2, <1>3, <1>4, <1>5, <1>6, <1>7, <1>8, <1>9

(* DiscardClaim: The claim is the discarder's if the flag was clear.       *)
LEMMA DiscardClaimStep ==
    ASSUME TypeOK, CoreInv, NEW t \in Thread, DiscardClaim(t),
           broken = "no", broken' = "no"
    PROVE  TypeOK' /\ CoreInv'
  <1> USE NoneAssumption
          DEF CoreInv, DiscardClaim, Goto, SetFlags, vars, entryVars, diskVars,
              handVars, callVars
  <1>1. Others(t)
    BY DEF Others, TypeOK, LocalTypeOK
  <1>2. LocalTypeOK'
    BY DEF TypeOK, LocalTypeOK, PlacesInv, Blocked, Trying, Valid, Loading,
           Filling, Evicting, HandTests, Cleaning, EntryPCs, PCs
  <1>3. /\ pc[t] = "d_claim" /\ op'[t] = op[t] /\ want'[t] = want[t] /\ ent'[t] = ent[t]
        /\ pc'[t] = IF Has(ent[t], "CLAIMED") THEN "evicted" ELSE "d_lock"
    BY DEF TypeOK, LocalTypeOK, PlacesInv
  <1>4. TypeOK'
    BY DEF TypeOK, LocalTypeOK, Flag, PlacesInv, Slot, EntryPCs, Filling,
           Loading, Evicting, HandTests
  <1>5. PlacesInv'
    BY <1>1, <1>4, <1>3
    DEF TypeOK, LocalTypeOK, PlacesInv, OpsAt, NextPage, Blocked, Trying,
        Valid, Loading, Filling, Evicting, HandTests, Cleaning, EntryPCs, PCs
  <1>6. HandsInv'
    BY DEF TypeOK, LocalTypeOK, HandsInv, PlacesInv
  <1>7. UsersInv'
    BY <1>1, <1>4, <1>3, UsersKept DEF PlacesInv, OpsAt
  <1>8. /\ ent[t] \in Entry /\ RefOf(t)' = RefOf(t)
        /\ \A e \in Entry \ {ent[t]} : SameRolesOn(t, e)
        /\ \A e \in Entry : e = ent[t] =>
              /\ ~HasClaim(t, e) /\ (HasClaim(t, e)' <=> ~Has(e, "CLAIMED"))
              /\ ~HasLock(t, e) /\ ~HasLock(t, e)'
              /\ ~Fills(t, e) /\ ~Fills(t, e)' /\ ~Loads(t, e) /\ ~Loads(t, e)'
              /\ ~AllocsIn(t, e) /\ ~AllocsIn(t, e)'
    BY <1>3
    DEF TypeOK, PlacesInv, RefOf, SameRoles, SameRolesOn, HasClaim, HasLock,
        Loads, Fills, AllocsIn, Allocs, Blocked, Trying, Valid, Loading,
        Filling, Evicting, HandTests, Cleaning, EntryPCs, PCs
  <1>9. CountsInv'
    BY <1>1, <1>8, CountsKept
  <1>10. FlagsInv'
    <2> DEFINE b == ent[t]
    <2>1. \A e \in Entry \ {b} : SameFlags(e)
      BY DEF SameFlags, Has, TypeOK
    <2>2. \A u \in Thread \ {t} : SameRolesOn(u, b)
      BY <1>1, <1>8, OthersKeepRoles DEF SameRoles
    <2>3. \A f \in Flag \ {"CLAIMED"} : f \in status'[b] <=> f \in status[b]
      BY <1>8 DEF TypeOK
    <2>4.  "CLAIMED" \in status'[b]
      BY <1>8 DEF TypeOK, Has
    <2>5. FlagsAt(b)
      BY <1>8 DEF FlagsInv
    <2>a. \A u \in Thread : Fills(u, b) => Loads(u, b) \/ HasClaim(u, b)
      BY RolesRelate
    <2>b. "LOADING" \notin status[b]
      BY <1>3 DEF ValidInv, Valid, Has
    <2>6. FlagsAt(b)'
      BY <1>8, <2>2, <2>3, <2>4, <2>5, <2>a, <2>b
      DEF FlagsAt, SameRolesOn, Has, Flag
    <2> QED BY <1>1, <1>8, <2>1, <2>6, FlagsStep
  <1>11. MapsInv'
    BY <1>1, MapsKept
    DEF TypeOK, LocalTypeOK, Has, Staged, FREE, ALLOC, READ_LOADING, PlacesInv
  <1>12. ValidInv'
    BY <1>1, <1>4, ValidKept DEF TypeOK, LocalTypeOK, Valid, Has
  <1>13. DrainInv'
    BY <1>1, <1>4, <1>8, DrainKept
    DEF LocalTypeOK, RefOf, Drained, Harmless, HasLock, Allocs, PlacesInv,
        Blocked, Trying, Valid, Loading, Filling, Evicting, HandTests,
        Cleaning, EntryPCs, PCs
  <1>14. WritebackInv'
    BY <1>1, WritebackKept
    DEF TypeOK, LocalTypeOK, Has, HasLock, Allocs, Flushed, Cleaning,
        PlacesInv, FREE, ALLOC, READ_LOADING
  <1>15. DataInv'
    BY <1>1, DataKept
    DEF TypeOK, LocalTypeOK, Has, PlacesInv, FREE, ALLOC, READ_LOADING
  <1> QED BY <1>1, <1>2, <1>3, <1>4, <1>5, <1>6, <1>7, <1>8, <1>9, <1>10,
             <1>11, <1>12, <1>13, <1>14, <1>15

(* DiscardUnmap: The page leaves the table and the entry its address: the  *)
(* readers are drained and the users gone.                                 *)
LEMMA DiscardUnmapStep ==
    ASSUME TypeOK, CoreInv, NEW t \in Thread, DiscardUnmap(t),
           broken = "no", broken' = "no"
    PROVE  TypeOK' /\ CoreInv'
  <1> USE NoneAssumption
          DEF CoreInv, DiscardUnmap, Goto, vars, entryVars, diskVars, handVars,
              callVars
  <1>1. Others(t)
    BY DEF Others, TypeOK, LocalTypeOK
  <1>2. LocalTypeOK'
    BY DEF TypeOK, LocalTypeOK, PlacesInv, Blocked, Trying, Valid, Loading,
           Filling, Evicting, HandTests, Cleaning, EntryPCs, PCs
  <1>3. /\ pc[t] = "d_unmap" /\ pc'[t] = "d_release" /\ ent[t] \in Entry
        /\ want[t] \in Page /\ op[t] = "discard"
        /\ op'[t] = op[t] /\ want'[t] = want[t] /\ ent'[t] = ent[t]
    BY DEF TypeOK, LocalTypeOK, PlacesInv, Valid, EntryPCs, OpsAt
  <1>4. TypeOK'
    BY DEF TypeOK, LocalTypeOK, Flag, PlacesInv, Slot, EntryPCs, Filling,
           Loading, Evicting, HandTests
  <1>5. PlacesInv'
    BY DEF TypeOK, LocalTypeOK, PlacesInv, OpsAt, NextPage, Blocked, Trying,
           Valid, Loading, Filling, Evicting, HandTests, Cleaning, EntryPCs,
           PCs
  <1>6. HandsInv'
    BY DEF TypeOK, LocalTypeOK, HandsInv, PlacesInv
  <1>7. SameRoles(t) /\ RefOf(t)' = RefOf(t) /\ Drained(t)' = Drained(t)
    BY <1>3
    DEF PlacesInv, RefOf, Drained, SameRoles, SameRolesOn, HasClaim, HasLock,
        Loads, Fills, AllocsIn, Allocs, Blocked, Trying, Valid, Loading,
        Filling, Evicting, HandTests, Cleaning, EntryPCs, PCs
  <1>8. CountsInv'
    BY <1>1, <1>7, CountsKept
  <1>9. FlagsInv'
    BY <1>1, <1>7, FlagsKept
    DEF TypeOK, LocalTypeOK, SameFlags, Has, PlacesInv, EntryPCs, Cleanable,
        FREE, ALLOC, READ_LOADING
  <1>10. UsersInv' /\ MapsInv' /\ ValidInv' /\ DrainInv' /\ WritebackInv' /\ DataInv'
    <2>0. PICK b \in Entry, p \in Page : b = ent[t] /\ p = want[t]
      BY <1>3
    <2>1. disk_addr[b] = p /\ lookup[p] = b /\ ~Has(b, "LOADING") /\ HasLock(t, b)
      BY <2>0, <1>3 DEF ValidInv, Valid, HasLock
    <2>2. p \notin live /\ \A u \in Thread \ {t} : want[u] # p
      BY <2>0, <1>3 DEF UsersInv
    <2>3. /\ disk_addr' = [disk_addr EXCEPT ![b] = None]
          /\ \A q \in Page : lookup'[q] = IF q = disk_addr[b] THEN None ELSE lookup[q]
          /\ UNCHANGED <<status, current, saved, live, span, inflight,
                         op, want, ent, free_hand>>
      BY <2>0, <2>1 DEF TypeOK
    <2>4. pc[t] = "d_unmap" /\ pc'[t] = "d_release" /\ op[t] = "discard" /\ want[t] = p
      BY <2>0, <1>3
    <2> HIDE DEF DiscardUnmap
    <2>5. \A u \in Thread \ {t} : pc[u] \in Valid => ent[u] # b
      BY <2>1, <2>2 DEF ValidInv
    <2>6. \A q \in live : saved[q] \/ disk_addr[b] # q \/ Has(b, "CLEAN")
      BY <2>1, <2>2
    <2>7. MapsInv' /\ ValidInv' /\ DrainInv' /\ WritebackInv' /\ DataInv'
      BY <2>1, <2>3, <2>4, <2>5, <2>6, <1>1, <1>4, <1>7, UnmapEntry
    <2>8. UsersInv'
      <3>1. \A q \in Page \ live :
               \/ lookup'[q] = None
               \/ \E u \in Thread : op[u] = "discard" /\ want[u] = q /\ pc'[u] \notin {"d_release", "d_dec"}
        <4> SUFFICES ASSUME NEW q \in Page \ live, q # p, lookup[q] # None
                     PROVE  \E u \in Thread : op[u] = "discard" /\ want[u] = q /\ pc'[u] \notin {"d_release", "d_dec"}
          BY <2>1, <2>3
        <4>1. PICK u \in Thread : op[u] = "discard" /\ want[u] = q /\ pc[u] \notin {"d_release", "d_dec"}
          BY DEF UsersInv
        <4> QED BY <4>1, <2>4, <1>1 DEF Others
      <3> QED BY <3>1, <2>3 DEF UsersInv
    <2> QED BY <2>7, <2>8
  <1> QED BY <1>1, <1>2, <1>3, <1>4, <1>5, <1>6, <1>7, <1>8, <1>9, <1>10

(* DiscardRelease: The flags of an entry without a page are reset.         *)
LEMMA DiscardReleaseStep ==
    ASSUME TypeOK, CoreInv, NEW t \in Thread, DiscardRelease(t),
           broken = "no", broken' = "no"
    PROVE  TypeOK' /\ CoreInv'
  <1> USE NoneAssumption
          DEF CoreInv, DiscardRelease, Goto, vars, entryVars, diskVars,
              handVars, callVars
  <1>1. Others(t)
    BY DEF Others, TypeOK, LocalTypeOK
  <1>2. LocalTypeOK'
    BY DEF TypeOK, LocalTypeOK, PlacesInv, Blocked, Trying, Valid, Loading,
           Filling, Evicting, HandTests, Cleaning, EntryPCs, PCs
  <1>3. /\ pc[t] = "d_release" /\ pc'[t] = "d_dec" /\ ent[t] \in Entry
        /\ status' = [status EXCEPT ![ent[t]] = {"FREE"}]
        /\ op'[t] = op[t] /\ want'[t] = want[t] /\ ent'[t] = ent[t]
    BY DEF TypeOK, LocalTypeOK, PlacesInv, FREE, Filling, Loading, EntryPCs
  <1>4. TypeOK'
    <2>1. status' \in [Entry -> SUBSET Flag]
      BY <1>3 DEF TypeOK, Flag
    <2> QED BY <2>1 DEF TypeOK
  <1>5. PlacesInv'
    BY DEF TypeOK, LocalTypeOK, PlacesInv, OpsAt, NextPage, Blocked, Trying,
           Valid, Loading, Filling, Evicting, HandTests, Cleaning, EntryPCs,
           PCs
  <1>6. HandsInv'
    BY DEF TypeOK, LocalTypeOK, HandsInv, PlacesInv
  <1>7. UsersInv'
    BY <1>1, <1>4, UsersKept DEF TypeOK, LocalTypeOK, PlacesInv, OpsAt
  <1>8. /\ ent[t] \in Entry /\ RefOf(t)' = RefOf(t)
        /\ \A e \in Entry \ {ent[t]} : SameRolesOn(t, e) /\ ~HasLock(t, e)'
        /\ \A e \in Entry : e = ent[t] =>
              /\ HasClaim(t, e)' <=> FALSE
              /\ HasLock(t, e)' <=> FALSE
              /\ Loads(t, e)' <=> FALSE
              /\ Fills(t, e)' <=> FALSE
              /\ AllocsIn(t, e)' <=> FALSE
    BY <1>3
    DEF TypeOK, PlacesInv, RefOf, SameRoles, SameRolesOn, HasClaim, HasLock,
        Loads, Fills, AllocsIn, Allocs, Blocked, Trying, Valid, Loading,
        Filling, Evicting, HandTests, Cleaning, EntryPCs, PCs
  <1>9. CountsInv'
    BY <1>1, <1>8, CountsKept
  <1>10. FlagsInv' /\ MapsInv' /\ ValidInv' /\ WritebackInv' /\ DataInv'
    <2>0. PICK b \in Entry : b = ent[t]
      BY <1>8
    <2>1. status'[b] = {"FREE"} /\ FlagsOnly(b)
      BY <2>0, <1>3 DEF TypeOK, FlagsOnly, Has
    <2>2. Unmapped(b) /\ disk_addr[b] = None
      BY <2>0, <1>3 DEF MapsInv
    <2>3. Alone(t, b)
      BY <2>0, <1>3, OwnerAlone DEF Fills, HasClaim, Filling, Loading
    <2>4. FlagsAt(b)'
      BY <2>0, <2>1, <2>3, <1>8, <1>1, <1>3, FlagsAlone DEF Has
    <2>5. /\ pc[t] \notin Cleaning /\ pc'[t] \notin Valid \cup {"e_unmap"}
          /\ pc[t] \in Staged \ {"e_release"} => ent[t] = b
          /\ pc[t] = "e_release" => free_hand[t] = b
          /\ pc'[t] \notin Staged \ {"got", "map"}
          /\ pc'[t] \in {"got", "map"} => ent'[t] = b
      BY <2>0, <1>3 DEF Cleaning, Valid, Staged
    <2>6. \/ Has(b, "FREE")' \/ Fills(t, b)'
      BY <2>0, <2>1, <1>8 DEF Has
    <2>7. ~Has(b, "WRITEBACK")'
      BY <2>1 DEF Has
    <2>8. \A e \in Entry \ {b} : SameRolesOn(t, e) /\ ~HasLock(t, e)'
      BY <2>0, <1>8
    <2>9. UNCHANGED <<lookup, disk_addr, current, saved, live, span, inflight>>
      OBVIOUS
    <2> HIDE DEF DiscardRelease
    <2> QED BY <2>1, <2>2, <2>3, <2>4, <2>5, <2>6, <2>7, <2>8, <2>9,
               <1>1, <1>4, UnmappedStatus
  <1>11. DrainInv'
    BY <1>1, <1>4, <1>8, DrainKept
    DEF LocalTypeOK, RefOf, Drained, Harmless, HasLock, Allocs, PlacesInv,
        Blocked, Trying, Valid, Loading, Filling, Evicting, HandTests,
        Cleaning, EntryPCs, PCs
  <1> QED BY <1>1, <1>2, <1>3, <1>4, <1>5, <1>6, <1>7, <1>8, <1>9, <1>10, <1>11

(* DiscardDec: The discarder's reference leaves the count.                 *)
LEMMA DiscardDecStep ==
    ASSUME TypeOK, CoreInv, NEW t \in Thread, DiscardDec(t),
           broken = "no", broken' = "no"
    PROVE  TypeOK' /\ CoreInv'
  <1> USE NoneAssumption
          DEF CoreInv, DiscardDec, Goto, Return, vars, entryVars, diskVars,
              handVars, callVars
  <1>1. Others(t)
    BY DEF Others, TypeOK, LocalTypeOK
  <1>2. LocalTypeOK'
    BY DEF TypeOK, LocalTypeOK, PlacesInv, Blocked, Trying, Valid, Loading,
           Filling, Evicting, HandTests, Cleaning, EntryPCs, PCs
  <1>3. SameRoles(t)
    BY DEF TypeOK, LocalTypeOK, PlacesInv, OpsAt, SameRoles, SameRolesOn,
           HasClaim, HasLock, Loads, Fills, AllocsIn, Allocs, Blocked, Trying,
           Valid, Loading, Filling, Evicting, HandTests, Cleaning, EntryPCs,
           PCs
  <1>4. ent[t] \in Entry /\ RefOf(t) = ent[t] /\ RefOf(t)' = None
    BY DEF TypeOK, LocalTypeOK, PlacesInv, RefOf, Blocked, Trying, Valid,
           Loading, Filling, Evicting, HandTests, Cleaning, EntryPCs, PCs
  <1>5. CountsInv' /\ refcount' \in [Entry -> [Slot -> Nat]]
    BY <1>1, <1>4, OthersKeepRoles, CountsDec, SlotAssumption
  <1>6. TypeOK'
    BY <1>5
    DEF TypeOK, LocalTypeOK, Flag, PlacesInv, Slot, EntryPCs, Filling, Loading,
        Evicting, HandTests
  <1>7. PlacesInv'
    BY DEF TypeOK, LocalTypeOK, PlacesInv, OpsAt, NextPage, Blocked, Trying,
           Valid, Loading, Filling, Evicting, HandTests, Cleaning, EntryPCs,
           PCs
  <1>8. HandsInv'
    BY DEF TypeOK, LocalTypeOK, HandsInv, PlacesInv
  <1>9. UsersInv'
    BY <1>1, <1>6, UsersKept DEF TypeOK, LocalTypeOK, PlacesInv, OpsAt
  <1>10. FlagsInv' /\ MapsInv' /\ WritebackInv' /\ DataInv'
    <2>1. /\ pc[t] \notin Staged /\ pc'[t] \notin Staged \cup {"e_unmap"}
          /\ pc[t] \notin {"lock_flush", "e_flush"} /\ pc'[t] \notin Flushed
          /\ pc[t] \in Cleaning \ {"clean"} => pc'[t] \in Cleaning \ {"clean"}
      BY DEF LocalTypeOK, Staged, Flushed, Cleaning
    <2>2. \A e \in Entry : \A f \in Flag \ {"ACCESSED"} : Has(e, f)' <=> Has(e, f)
      BY DEF Has, TypeOK
    <2> QED BY <1>1, <1>6, <1>3, <2>1, <2>2, QuietStep
  <1>11. ValidInv'
    <2>1. pc'[t] \in Valid => pc[t] \in Valid /\ ent'[t] = ent[t] /\ want'[t] = want[t]
      BY DEF TypeOK, LocalTypeOK, Valid
    <2> QED BY <1>1, <2>1, ValidKept DEF Has
  <1>12. DrainInv'
    BY <1>1, <1>6, <1>4, DrainKept
    DEF LocalTypeOK, Drained, Harmless, HasLock, Allocs, PlacesInv, Blocked,
        Trying, Valid, Loading, Filling, Evicting, HandTests, Cleaning,
        EntryPCs, PCs
  <1> QED BY <1>1, <1>2, <1>3, <1>4, <1>5, <1>6, <1>7, <1>8, <1>9, <1>10,
             <1>11, <1>12

-----------------------------------------------------------------------------
(* The steps of taking an entry and of cleaning.                           *)

(* TakeFree: The entry was free, so that no thread had claimed or filled   *)
(* it.                                                                     *)
LEMMA TakeFreeStep ==
    ASSUME TypeOK, CoreInv, NEW t \in Thread, TakeFree(t),
           broken = "no", broken' = "no"
    PROVE  TypeOK' /\ CoreInv'
  <1> USE NoneAssumption
          DEF CoreInv, TakeFree, Goto, ALLOC, vars, entryVars, diskVars,
              handVars, callVars
  <1>1. Others(t)
    BY DEF Others, TypeOK, LocalTypeOK
  <1>2. LocalTypeOK'
    BY DEF TypeOK, LocalTypeOK, PlacesInv, Blocked, Trying, Valid, Loading,
           Filling, Evicting, HandTests, Cleaning, EntryPCs, PCs
  <1>3. /\ pc[t] = "take" /\ pc'[t] = "got" /\ free_hand[t] \in Entry
        /\ status[free_hand[t]] = {"FREE"} /\ op[t] # "discard"
        /\ op'[t] = op[t] /\ want'[t] = want[t] /\ ent'[t] = free_hand[t]
    BY DEF TypeOK, LocalTypeOK, PlacesInv, OpsAt, FREE
  <1>4. TypeOK'
    <2>1. status' \in [Entry -> SUBSET Flag] /\ ent' \in [Thread -> Entry \cup {None}]
      BY <1>3 DEF TypeOK, Flag, ALLOC
    <2> QED BY <2>1 DEF TypeOK
  <1>5. PlacesInv'
    BY DEF TypeOK, LocalTypeOK, PlacesInv, OpsAt, NextPage, Blocked, Trying,
           Valid, Loading, Filling, Evicting, HandTests, Cleaning, EntryPCs,
           PCs
  <1>6. HandsInv'
    BY DEF TypeOK, LocalTypeOK, HandsInv, PlacesInv
  <1>7. UsersInv'
    BY <1>1, <1>4, UsersKept DEF TypeOK, LocalTypeOK, PlacesInv, OpsAt
  <1>8. /\ free_hand[t] \in Entry /\ RefOf(t)' = RefOf(t)
        /\ \A e \in Entry \ {free_hand[t]} : SameRolesOn(t, e) /\ ~HasLock(t, e)'
        /\ \A e \in Entry : e = free_hand[t] =>
              /\ HasClaim(t, e)' <=> TRUE
              /\ HasLock(t, e)' <=> TRUE
              /\ Loads(t, e)' <=> FALSE
              /\ Fills(t, e)' <=> TRUE
              /\ AllocsIn(t, e)' <=> TRUE
    BY <1>3
    DEF TypeOK, PlacesInv, RefOf, SameRoles, SameRolesOn, HasClaim, HasLock,
        Loads, Fills, AllocsIn, Allocs, Blocked, Trying, Valid, Loading,
        Filling, Evicting, HandTests, Cleaning, EntryPCs, PCs
  <1>9. CountsInv'
    BY <1>1, <1>8, CountsKept
  <1>10. FlagsInv' /\ MapsInv' /\ ValidInv' /\ WritebackInv' /\ DataInv'
    <2>0. PICK b \in Entry : b = free_hand[t]
      BY <1>8
    <2>1. status'[b] = {"WRITELOCKED", "CLAIMED"} /\ FlagsOnly(b)
      BY <2>0, <1>3 DEF TypeOK, FlagsOnly, Has
    <2>2. Unmapped(b) /\ disk_addr[b] = None
      BY <2>0, <1>3 DEF MapsInv, Unmapped, Has
    <2>3. Alone(t, b)
      <3>1. ~Has(b, "CLAIMED") /\ ~Has(b, "LOADING")
        BY <2>0, <1>3 DEF Has
      <3>2. \A u \in Thread : ~Fills(u, b) /\ ~HasClaim(u, b)
        BY <3>1, RolesRelate DEF FlagsInv, FlagsAt
      <3> QED BY <3>2, AloneRoles
    <2>4. FlagsAt(b)'
      BY <2>0, <2>1, <2>3, <1>8, <1>1, <1>3, FlagsAlone DEF Has
    <2>5. /\ pc[t] \notin Cleaning /\ pc'[t] \notin Valid \cup {"e_unmap"}
          /\ pc[t] \in Staged \ {"e_release"} => ent[t] = b
          /\ pc[t] = "e_release" => free_hand[t] = b
          /\ pc'[t] \notin Staged \ {"got", "map"}
          /\ pc'[t] \in {"got", "map"} => ent'[t] = b
      BY <2>0, <1>3 DEF Cleaning, Valid, Staged
    <2>6. \/ Has(b, "FREE")' \/ Fills(t, b)'
      BY <2>0, <2>1, <1>8 DEF Has
    <2>7. ~Has(b, "WRITEBACK")'
      BY <2>1 DEF Has
    <2>8. \A e \in Entry \ {b} : SameRolesOn(t, e) /\ ~HasLock(t, e)'
      BY <2>0, <1>8
    <2>9. UNCHANGED <<lookup, disk_addr, current, saved, live, span, inflight>>
      OBVIOUS
    <2> HIDE DEF TakeFree
    <2> QED BY <2>1, <2>2, <2>3, <2>4, <2>5, <2>6, <2>7, <2>8, <2>9,
               <1>1, <1>4, UnmappedStatus
  <1>11. DrainInv'
    BY <1>1, <1>4, <1>8, DrainKept
    DEF LocalTypeOK, RefOf, Drained, Harmless, HasLock, Allocs, PlacesInv,
        Blocked, Trying, Valid, Loading, Filling, Evicting, HandTests,
        Cleaning, EntryPCs, PCs
  <1> QED BY <1>1, <1>2, <1>3, <1>4, <1>5, <1>6, <1>7, <1>8, <1>9, <1>10, <1>11

(* TakeStatus: The reference is counted and the status set before the page *)
(* is mapped.                                                              *)
LEMMA TakeStatusStep ==
    ASSUME TypeOK, CoreInv, NEW t \in Thread, TakeStatus(t),
           broken = "no", broken' = "no"
    PROVE  TypeOK' /\ CoreInv'
  <1> USE NoneAssumption
          DEF CoreInv, TakeStatus, Goto, ALLOC, READ_LOADING, vars, entryVars,
              diskVars, handVars, callVars
  <1>1. Others(t)
    BY DEF Others, TypeOK, LocalTypeOK
  <1>2. LocalTypeOK'
    BY DEF TypeOK, LocalTypeOK, PlacesInv, Blocked, Trying, Valid, Loading,
           Filling, Evicting, HandTests, Cleaning, EntryPCs, PCs
  <1>3. /\ pc[t] = "got" /\ pc'[t] = "map" /\ ent[t] \in Entry
        /\ op[t] \in {"get", "async", "alloc"}
        /\ IncRef(t, ent[t])
        /\ status' = [status EXCEPT ![ent[t]] =
              IF op[t] = "alloc" THEN {"WRITELOCKED", "CLAIMED"}
              ELSE {"ACCESSED", "CLEAN", "LOADING"}]
        /\ op'[t] = op[t] /\ want'[t] = want[t] /\ ent'[t] = ent[t]
    BY DEF TypeOK, LocalTypeOK, PlacesInv, Filling, EntryPCs, OpsAt
  <1>4. /\ ent[t] \in Entry
        /\ \A e \in Entry \ {ent[t]} : SameRolesOn(t, e) /\ ~HasLock(t, e)'
        /\ \A e \in Entry : e = ent[t] =>
              /\ HasClaim(t, e)' <=> (op[t] = "alloc")
              /\ HasLock(t, e)' <=> (op[t] = "alloc")
              /\ Loads(t, e)' <=> (op[t] # "alloc")
              /\ Fills(t, e)' <=> TRUE
              /\ AllocsIn(t, e)' <=> (op[t] = "alloc")
    BY <1>3
    DEF TypeOK, PlacesInv, RefOf, SameRoles, SameRolesOn, HasClaim, HasLock,
        Loads, Fills, AllocsIn, Allocs, Blocked, Trying, Valid, Loading,
        Filling, Evicting, HandTests, Cleaning, EntryPCs, PCs
  <1>5. RefOf(t) = None /\ RefOf(t)' = ent[t]
    BY <1>3
    DEF RefOf, PlacesInv, Blocked, Trying, Valid, Loading, Filling, Evicting,
        HandTests, Cleaning, EntryPCs, PCs
  <1>6. CountsInv' /\ refcount' \in [Entry -> [Slot -> Nat]]
    <2>1. \A u \in Thread \ {t} : RefOf(u)' = RefOf(u)
      BY <1>1, OthersKeepRoles
    <2>2. CountsInv'
      BY <1>3, <1>5, <2>1, NoneAssumption, CountsInc
    <2>3. refcount' \in [Entry -> [Slot -> Nat]]
      BY <1>3, <1>5, <2>1, NoneAssumption, SlotAssumption, CountsInc
      DEF IncRef, TypeOK
    <2> QED BY <2>2, <2>3
  <1>7. TypeOK'
    <2>1. status' \in [Entry -> SUBSET Flag]
      BY <1>3 DEF TypeOK, Flag
    <2> QED BY <2>1, <1>6 DEF TypeOK
  <1>8. PlacesInv'
    BY DEF TypeOK, LocalTypeOK, PlacesInv, OpsAt, NextPage, Blocked, Trying,
           Valid, Loading, Filling, Evicting, HandTests, Cleaning, EntryPCs,
           PCs
  <1>9. HandsInv'
    BY DEF TypeOK, LocalTypeOK, HandsInv, PlacesInv
  <1>10. UsersInv'
    BY <1>1, <1>7, <1>3, UsersKept
  <1>11. FlagsInv' /\ MapsInv' /\ ValidInv' /\ WritebackInv' /\ DataInv'
    <2>0. PICK b \in Entry : b = ent[t]
      BY <1>4
    <2>1. status'[b] = (IF op[t] = "alloc" THEN {"WRITELOCKED", "CLAIMED"} ELSE {"ACCESSED", "CLEAN", "LOADING"}) /\ FlagsOnly(b)
      BY <2>0, <1>3 DEF TypeOK, FlagsOnly, Has
    <2>2. Unmapped(b) /\ disk_addr[b] = None
      BY <2>0, <1>3 DEF MapsInv
    <2>3. Alone(t, b)
      BY <2>0, <1>3, OwnerAlone DEF Fills, Filling, Loading
    <2>4. FlagsAt(b)'
      BY <2>0, <2>1, <2>3, <1>4, <1>1, <1>3, FlagsAlone DEF Has
    <2>5. /\ pc[t] \notin Cleaning /\ pc'[t] \notin Valid \cup {"e_unmap"}
          /\ pc[t] \in Staged \ {"e_release"} => ent[t] = b
          /\ pc[t] = "e_release" => free_hand[t] = b
          /\ pc'[t] \notin Staged \ {"got", "map"}
          /\ pc'[t] \in {"got", "map"} => ent'[t] = b
      BY <2>0, <1>3 DEF Cleaning, Valid, Staged
    <2>6. \/ Has(b, "FREE")' \/ Fills(t, b)'
      BY <2>0, <2>1, <1>4 DEF Has
    <2>7. ~Has(b, "WRITEBACK")'
      BY <2>1 DEF Has
    <2>8. \A e \in Entry \ {b} : SameRolesOn(t, e) /\ ~HasLock(t, e)'
      BY <2>0, <1>4
    <2>9. UNCHANGED <<lookup, disk_addr, current, saved, live, span, inflight>>
      OBVIOUS
    <2> HIDE DEF TakeStatus
    <2> QED BY <2>1, <2>2, <2>3, <2>4, <2>5, <2>6, <2>7, <2>8, <2>9,
               <1>1, <1>7, UnmappedStatus
  <1>12. DrainInv'
    <2>1. PICK b \in Entry : b = ent[t]
      BY <1>3
    <2>2. Alone(t, b) /\ MapsOnly(b)
      BY <2>1, <1>3, OwnerAlone DEF Fills, Filling, Loading, MapsOnly
    <2>3. \A e \in Entry : HasLock(t, e)' => e = b /\ Drained(t)' = 0
      BY <2>1, <1>4, <1>3 DEF Drained
    <2>4. RefOf(t)' \in {None, b}
      BY <2>1, <1>5
    <2> QED BY <1>1, <1>7, <2>2, <2>3, <2>4, OwnDrain
  <1> QED BY <1>1, <1>2, <1>3, <1>4, <1>5, <1>6, <1>7, <1>8, <1>9, <1>10,
             <1>11, <1>12

(* GiveUp: An asynchronous get that found nothing to take returns.         *)
LEMMA GiveUpStep ==
    ASSUME TypeOK, CoreInv, NEW t \in Thread, GiveUp(t),
           broken = "no", broken' = "no"
    PROVE  TypeOK' /\ CoreInv'
  <1> USE NoneAssumption
          DEF CoreInv, GiveUp, Goto, Return, NothingToTake, vars, entryVars,
              diskVars, handVars, callVars
  <1>1. Others(t)
    BY DEF Others, TypeOK, LocalTypeOK
  <1>2. LocalTypeOK'
    BY DEF TypeOK, LocalTypeOK, PlacesInv, Blocked, Trying, Valid, Loading,
           Filling, Evicting, HandTests, Cleaning, EntryPCs, PCs
  <1>3. /\ pc[t] = "take" /\ pc'[t] = "idle" /\ op[t] = "async"
        /\ op'[t] = "none" /\ want'[t] = None /\ ent'[t] = None
    BY DEF TypeOK, LocalTypeOK, PlacesInv
  <1>4. TypeOK'
    BY DEF TypeOK, LocalTypeOK, Flag, PlacesInv, Slot, EntryPCs, Filling,
           Loading, Evicting, HandTests
  <1>5. PlacesInv'
    BY <1>1, <1>4, <1>3
    DEF TypeOK, LocalTypeOK, PlacesInv, OpsAt, NextPage, Blocked, Trying,
        Valid, Loading, Filling, Evicting, HandTests, Cleaning, EntryPCs, PCs
  <1>6. HandsInv'
    BY DEF TypeOK, LocalTypeOK, HandsInv, PlacesInv
  <1>7. UsersInv'
    BY <1>1, <1>4, <1>3, UsersKept DEF PlacesInv, OpsAt
  <1>8. SameRoles(t) /\ RefOf(t)' = RefOf(t)
    BY <1>3
    DEF PlacesInv, RefOf, SameRoles, SameRolesOn, HasClaim, HasLock, Loads,
        Fills, AllocsIn, Allocs, Blocked, Trying, Valid, Loading, Filling,
        Evicting, HandTests, Cleaning, EntryPCs, PCs
  <1>9. CountsInv'
    BY <1>1, <1>8, CountsKept
  <1>10. FlagsInv' /\ MapsInv' /\ WritebackInv' /\ DataInv'
    <2>1. /\ pc[t] \notin Staged /\ pc'[t] \notin Staged \cup {"e_unmap"}
          /\ pc[t] \notin {"lock_flush", "e_flush"} /\ pc'[t] \notin Flushed
          /\ pc[t] \in Cleaning \ {"clean"} => pc'[t] \in Cleaning \ {"clean"}
      BY <1>3 DEF Staged, Flushed, Cleaning
    <2>2. \A e \in Entry : \A f \in Flag \ {"ACCESSED"} : Has(e, f)' <=> Has(e, f)
      BY DEF Has, TypeOK
    <2> QED BY <1>1, <1>4, <1>8, <2>1, <2>2, QuietStep
  <1>11. ValidInv'
    BY <1>1, <1>4, ValidKept DEF TypeOK, LocalTypeOK, Valid, Has
  <1>12. DrainInv'
    BY <1>1, <1>4, <1>8, DrainKept
    DEF LocalTypeOK, RefOf, Drained, Harmless, HasLock, Allocs, PlacesInv,
        Blocked, Trying, Valid, Loading, Filling, Evicting, HandTests,
        Cleaning, EntryPCs, PCs
  <1> QED BY <1>1, <1>2, <1>3, <1>4, <1>5, <1>6, <1>7, <1>8, <1>9, <1>10,
             <1>11, <1>12

(* MoveHand: The hand has nothing to take left and leaves its batch.       *)
LEMMA MoveHandStep ==
    ASSUME TypeOK, CoreInv, NEW t \in Thread, MoveHand(t),
           broken = "no", broken' = "no"
    PROVE  TypeOK' /\ CoreInv'
  <1> USE NoneAssumption
          DEF CoreInv, MoveHand, Goto, NothingToTake, vars, entryVars,
              diskVars, handVars, callVars
  <1>1. Others(t)
    BY DEF Others, TypeOK, LocalTypeOK
  <1>2. LocalTypeOK'
    BY DEF TypeOK, LocalTypeOK, PlacesInv, Blocked, Trying, Valid, Loading,
           Filling, Evicting, HandTests, Cleaning, EntryPCs, PCs
  <1>3. TypeOK'
    BY DEF TypeOK, LocalTypeOK, Flag, PlacesInv, Slot, EntryPCs, Filling,
           Loading, Evicting, HandTests
  <1>4. PlacesInv'
    BY DEF TypeOK, LocalTypeOK, PlacesInv, OpsAt, NextPage, Blocked, Trying,
           Valid, Loading, Filling, Evicting, HandTests, Cleaning, EntryPCs,
           PCs
  <1>5. HandsInv'
    BY DEF TypeOK, LocalTypeOK, HandsInv, PlacesInv
  <1>6. UsersInv'
    BY <1>1, <1>3, UsersKept DEF TypeOK, LocalTypeOK, PlacesInv, OpsAt
  <1>7. SameRoles(t) /\ RefOf(t)' = RefOf(t)
    BY DEF TypeOK, LocalTypeOK, PlacesInv, OpsAt, RefOf, SameRoles,
           SameRolesOn, HasClaim, HasLock, Loads, Fills, AllocsIn, Allocs,
           Blocked, Trying, Valid, Loading, Filling, Evicting, HandTests,
           Cleaning, EntryPCs, PCs
  <1>8. CountsInv'
    BY <1>1, <1>7, CountsKept
  <1>9. FlagsInv' /\ MapsInv' /\ WritebackInv' /\ DataInv'
    BY <1>1, <1>3, <1>7, QuietStep
    DEF TypeOK, LocalTypeOK, Has, Staged, Flushed, Cleaning, Flag
  <1>10. ValidInv'
    BY <1>1, <1>3, ValidKept DEF TypeOK, LocalTypeOK, Valid, Has
  <1>11. DrainInv'
    BY <1>1, <1>3, <1>7, DrainKept
    DEF LocalTypeOK, RefOf, Drained, Harmless, HasLock, Allocs, PlacesInv,
        Blocked, Trying, Valid, Loading, Filling, Evicting, HandTests,
        Cleaning, EntryPCs, PCs
  <1> QED BY <1>1, <1>2, <1>3, <1>4, <1>5, <1>6, <1>7, <1>8, <1>9, <1>10, <1>11

(* HandClean: A batch is cleaned by one thread.                            *)
LEMMA HandCleanStep ==
    ASSUME TypeOK, CoreInv, NEW t \in Thread, NEW b \in Entry, HandClean(t, b),
           broken = "no", broken' = "no"
    PROVE  TypeOK' /\ CoreInv'
  <1> USE NoneAssumption
          DEF CoreInv, HandClean, Goto, BatchBusy, vars, entryVars, diskVars,
              handVars, callVars
  <1>1. Others(t)
    BY DEF Others, TypeOK, LocalTypeOK
  <1>2. LocalTypeOK'
    BY DEF TypeOK, LocalTypeOK, PlacesInv, Blocked, Trying, Valid, Loading,
           Filling, Evicting, HandTests, Cleaning, EntryPCs, PCs
  <1>3. TypeOK'
    BY DEF TypeOK, LocalTypeOK, Flag, PlacesInv, Slot, EntryPCs, Filling,
           Loading, Evicting, HandTests
  <1>4. PlacesInv'
    BY DEF TypeOK, LocalTypeOK, PlacesInv, OpsAt, NextPage, Blocked, Trying,
           Valid, Loading, Filling, Evicting, HandTests, Cleaning, EntryPCs,
           PCs
  <1>5. HandsInv'
    BY DEF TypeOK, LocalTypeOK, HandsInv, PlacesInv
  <1>6. UsersInv'
    BY <1>1, <1>3, UsersKept DEF TypeOK, LocalTypeOK, PlacesInv, OpsAt
  <1>7. SameRoles(t) /\ RefOf(t)' = RefOf(t)
    BY DEF TypeOK, LocalTypeOK, PlacesInv, OpsAt, RefOf, SameRoles,
           SameRolesOn, HasClaim, HasLock, Loads, Fills, AllocsIn, Allocs,
           Blocked, Trying, Valid, Loading, Filling, Evicting, HandTests,
           Cleaning, EntryPCs, PCs
  <1>8. CountsInv'
    BY <1>1, <1>7, CountsKept
  <1>9. FlagsInv' /\ MapsInv' /\ WritebackInv' /\ DataInv'
    BY <1>1, <1>3, <1>7, QuietStep
    DEF TypeOK, LocalTypeOK, Has, Staged, Flushed, Cleaning, Flag
  <1>10. ValidInv'
    BY <1>1, <1>3, ValidKept DEF TypeOK, LocalTypeOK, Valid, Has
  <1>11. DrainInv'
    BY <1>1, <1>3, <1>7, DrainKept
    DEF LocalTypeOK, RefOf, Drained, Harmless, HasLock, Allocs, PlacesInv,
        Blocked, Trying, Valid, Loading, Filling, Evicting, HandTests,
        Cleaning, EntryPCs, PCs
  <1> QED BY <1>1, <1>2, <1>3, <1>4, <1>5, <1>6, <1>7, <1>8, <1>9, <1>10, <1>11

(* HandTake: A batch is taken by one thread.                               *)
LEMMA HandTakeStep ==
    ASSUME TypeOK, CoreInv, NEW t \in Thread, NEW b \in Entry, HandTake(t, b),
           broken = "no", broken' = "no"
    PROVE  TypeOK' /\ CoreInv'
  <1> USE NoneAssumption
          DEF CoreInv, HandTake, Goto, BatchBusy, vars, entryVars, diskVars,
              handVars, callVars
  <1>1. Others(t)
    BY DEF Others, TypeOK, LocalTypeOK
  <1>2. LocalTypeOK'
    BY DEF TypeOK, LocalTypeOK, PlacesInv, Blocked, Trying, Valid, Loading,
           Filling, Evicting, HandTests, Cleaning, EntryPCs, PCs
  <1>3. TypeOK'
    BY DEF TypeOK, LocalTypeOK, Flag, PlacesInv, Slot, EntryPCs, Filling,
           Loading, Evicting, HandTests
  <1>4. PlacesInv'
    BY DEF TypeOK, LocalTypeOK, PlacesInv, OpsAt, NextPage, Blocked, Trying,
           Valid, Loading, Filling, Evicting, HandTests, Cleaning, EntryPCs,
           PCs
  <1>5. HandsInv'
    BY DEF TypeOK, LocalTypeOK, HandsInv, PlacesInv
  <1>6. UsersInv'
    BY <1>1, <1>3, UsersKept DEF TypeOK, LocalTypeOK, PlacesInv, OpsAt
  <1>7. SameRoles(t) /\ RefOf(t)' = RefOf(t)
    BY DEF TypeOK, LocalTypeOK, PlacesInv, OpsAt, RefOf, SameRoles,
           SameRolesOn, HasClaim, HasLock, Loads, Fills, AllocsIn, Allocs,
           Blocked, Trying, Valid, Loading, Filling, Evicting, HandTests,
           Cleaning, EntryPCs, PCs
  <1>8. CountsInv'
    BY <1>1, <1>7, CountsKept
  <1>9. FlagsInv' /\ MapsInv' /\ WritebackInv' /\ DataInv'
    BY <1>1, <1>3, <1>7, QuietStep
    DEF TypeOK, LocalTypeOK, Has, Staged, Flushed, Cleaning, Flag
  <1>10. ValidInv'
    BY <1>1, <1>3, ValidKept DEF TypeOK, LocalTypeOK, Valid, Has
  <1>11. DrainInv'
    BY <1>1, <1>3, <1>7, DrainKept
    DEF LocalTypeOK, RefOf, Drained, Harmless, HasLock, Allocs, PlacesInv,
        Blocked, Trying, Valid, Loading, Filling, Evicting, HandTests,
        Cleaning, EntryPCs, PCs
  <1> QED BY <1>1, <1>2, <1>3, <1>4, <1>5, <1>6, <1>7, <1>8, <1>9, <1>10, <1>11

(* CleanSet: A cleanable entry has its page, and nobody else cleans it     *)
(* (CleanableMapped).                                                      *)
LEMMA CleanSetStep ==
    ASSUME TypeOK, CoreInv, NEW t \in Thread, CleanSet(t),
           broken = "no", broken' = "no"
    PROVE  TypeOK' /\ CoreInv'
  <1> USE NoneAssumption
          DEF CoreInv, CleanSet, Goto, SetFlags, vars, entryVars, diskVars,
              handVars, callVars
  <1>1. Others(t)
    BY DEF Others, TypeOK, LocalTypeOK
  <1>2. LocalTypeOK'
    <2>1. cleaning[t] \in Entry
      BY DEF TypeOK, PlacesInv, Cleaning
    <2>2. disk_addr[cleaning[t]] \in Page
      BY <2>1, CleanableMapped
    <2>3. "back" \in PCs
      BY DEF PCs, Cleaning
    <2> QED BY <2>1, <2>2, <2>3 DEF LocalTypeOK
  <1>3. /\ pc[t] = "clean" /\ pc'[t] = "back" /\ cleaning[t] \in Entry
        /\ Cleanable(cleaning[t])
        /\ op'[t] = op[t] /\ want'[t] = want[t] /\ ent'[t] = ent[t]
    BY DEF TypeOK, LocalTypeOK, PlacesInv, Cleaning
  <1>4. TypeOK'
    BY DEF TypeOK, LocalTypeOK, Flag, PlacesInv, Slot, EntryPCs, Filling,
           Loading, Evicting, HandTests
  <1>5. PlacesInv'
    BY DEF TypeOK, LocalTypeOK, PlacesInv, OpsAt, NextPage, Blocked, Trying,
           Valid, Loading, Filling, Evicting, HandTests, Cleaning, EntryPCs,
           PCs
  <1>6. HandsInv'
    BY DEF TypeOK, LocalTypeOK, HandsInv, PlacesInv
  <1>7. UsersInv'
    BY <1>1, <1>4, UsersKept DEF TypeOK, LocalTypeOK, PlacesInv, OpsAt
  <1>8. SameRoles(t) /\ RefOf(t)' = RefOf(t)
    BY <1>3
    DEF PlacesInv, RefOf, SameRoles, SameRolesOn, HasClaim, HasLock, Loads,
        Fills, AllocsIn, Allocs, Blocked, Trying, Valid, Loading, Filling,
        Evicting, HandTests, Cleaning, EntryPCs, PCs
  <1>9. CountsInv'
    BY <1>1, <1>8, CountsKept
  <1>10. FlagsInv'
    <2>1. PICK b \in Entry : b = cleaning[t]
      BY <1>3
    <2>2. /\ \A e \in Entry \ {b} : \A f : Has(e, f)' <=> Has(e, f)
          /\ \A f \in Flag \ {"WRITEBACK"} : Has(b, f)' <=> Has(b, f)
          /\ Has(b, "WRITEBACK")' => Has(b, "WRITEBACK") \/ Cleanable(b)
      BY <2>1 DEF Has, TypeOK
    <2>3. pc[t] \notin Staged /\ pc'[t] \notin Staged \cup Valid \cup {"e_unmap"}
      BY <1>3 DEF Staged, Valid
    <2> HIDE DEF CleanSet
    <2>4. UNCHANGED <<lookup, disk_addr, current, saved, live>>
      BY DEF CleanSet
    <2> QED BY <1>1, <1>8, <1>4, <2>2, <2>3, <2>4, FlagsKept
            DEF SameFlags, Flag
  <1>11. MapsInv'
    <2>1. PICK b \in Entry : b = cleaning[t]
      BY <1>3
    <2>2. /\ \A e \in Entry \ {b} : \A f : Has(e, f)' <=> Has(e, f)
          /\ \A f \in Flag \ {"WRITEBACK"} : Has(b, f)' <=> Has(b, f)
          /\ Has(b, "WRITEBACK")' => Has(b, "WRITEBACK") \/ Cleanable(b)
      BY <2>1 DEF Has, TypeOK
    <2>3. pc[t] \notin Staged /\ pc'[t] \notin Staged \cup Valid \cup {"e_unmap"}
      BY <1>3 DEF Staged, Valid
    <2> HIDE DEF CleanSet
    <2>4. UNCHANGED <<lookup, disk_addr, current, saved, live>>
      BY DEF CleanSet
    <2> QED BY <1>1, <1>8, <1>4, <2>2, <2>3, <2>4, MapsKept DEF Flag
  <1>12. ValidInv'
    <2>1. PICK b \in Entry : b = cleaning[t]
      BY <1>3
    <2>2. /\ \A e \in Entry \ {b} : \A f : Has(e, f)' <=> Has(e, f)
          /\ \A f \in Flag \ {"WRITEBACK"} : Has(b, f)' <=> Has(b, f)
          /\ Has(b, "WRITEBACK")' => Has(b, "WRITEBACK") \/ Cleanable(b)
      BY <2>1 DEF Has, TypeOK
    <2>3. pc[t] \notin Staged /\ pc'[t] \notin Staged \cup Valid \cup {"e_unmap"}
      BY <1>3 DEF Staged, Valid
    <2> HIDE DEF CleanSet
    <2>4. UNCHANGED <<lookup, disk_addr, current, saved, live>>
      BY DEF CleanSet
    <2> QED BY <1>1, <1>8, <1>4, <2>2, <2>3, <2>4, ValidKept DEF Flag
  <1>13. DrainInv'
    BY <1>1, <1>4, <1>8, DrainKept
    DEF LocalTypeOK, RefOf, Drained, Harmless, HasLock, Allocs, PlacesInv,
        Blocked, Trying, Valid, Loading, Filling, Evicting, HandTests,
        Cleaning, EntryPCs, PCs
  <1>14. WritebackInv'
    <2>0. PICK b \in Entry : b = cleaning[t]
      BY <1>3
    <2>1. /\ pc[t] \notin Cleaning \ {"clean"} /\ pc'[t] \notin Flushed
          /\ pc'[t] \in Cleaning \ {"clean"}
      BY <1>3 DEF Cleaning, Flushed
    <2>2. PICK p : p = disk_addr[b]
      OBVIOUS
    <2>3. /\ status' = [status EXCEPT ![b] = @ \cup {"WRITEBACK"}]
          /\ span'[t] = {<<p, b>>} /\ inflight' = inflight
          /\ UNCHANGED <<lookup, disk_addr>> /\ Cleanable(b)
      BY <2>0, <2>2, <1>3 DEF LocalTypeOK
    <2> HIDE DEF CleanSet
    <2> QED BY <1>1, <1>8, <2>1, <2>3, WritebackSet
  <1>15. DataInv'
    <2>1. PICK b \in Entry : b = cleaning[t]
      BY <1>3
    <2>2. /\ \A e \in Entry \ {b} : \A f : Has(e, f)' <=> Has(e, f)
          /\ \A f \in Flag \ {"WRITEBACK"} : Has(b, f)' <=> Has(b, f)
          /\ Has(b, "WRITEBACK")' => Has(b, "WRITEBACK") \/ Cleanable(b)
      BY <2>1 DEF Has, TypeOK
    <2>3. pc[t] \notin Staged /\ pc'[t] \notin Staged \cup Valid \cup {"e_unmap"}
      BY <1>3 DEF Staged, Valid
    <2> HIDE DEF CleanSet
    <2>4. UNCHANGED <<lookup, disk_addr, current, saved, live>>
      BY DEF CleanSet
    <2> QED BY <1>1, <1>8, <1>4, <2>2, <2>3, <2>4, DataKept DEF Flag
  <1> QED BY <1>1, <1>2, <1>3, <1>4, <1>5, <1>6, <1>7, <1>8, <1>9, <1>10,
             <1>11, <1>12, <1>13, <1>14, <1>15

(* CleanSkip: The entry that the thread came to clean is not cleanable.    *)
LEMMA CleanSkipStep ==
    ASSUME TypeOK, CoreInv, NEW t \in Thread, CleanSkip(t),
           broken = "no", broken' = "no"
    PROVE  TypeOK' /\ CoreInv'
  <1> USE NoneAssumption
          DEF CoreInv, CleanSkip, Goto, vars, entryVars, diskVars, handVars,
              callVars
  <1>1. Others(t)
    BY DEF Others, TypeOK, LocalTypeOK
  <1>2. LocalTypeOK'
    BY DEF TypeOK, LocalTypeOK, PlacesInv, Blocked, Trying, Valid, Loading,
           Filling, Evicting, HandTests, Cleaning, EntryPCs, PCs
  <1>3. TypeOK'
    BY DEF TypeOK, LocalTypeOK, Flag, PlacesInv, Slot, EntryPCs, Filling,
           Loading, Evicting, HandTests
  <1>4. PlacesInv'
    BY DEF TypeOK, LocalTypeOK, PlacesInv, OpsAt, NextPage, Blocked, Trying,
           Valid, Loading, Filling, Evicting, HandTests, Cleaning, EntryPCs,
           PCs
  <1>5. HandsInv'
    BY DEF TypeOK, LocalTypeOK, HandsInv, PlacesInv
  <1>6. UsersInv'
    BY <1>1, <1>3, UsersKept DEF TypeOK, LocalTypeOK, PlacesInv, OpsAt
  <1>7. SameRoles(t) /\ RefOf(t)' = RefOf(t)
    BY DEF TypeOK, LocalTypeOK, PlacesInv, OpsAt, RefOf, SameRoles,
           SameRolesOn, HasClaim, HasLock, Loads, Fills, AllocsIn, Allocs,
           Blocked, Trying, Valid, Loading, Filling, Evicting, HandTests,
           Cleaning, EntryPCs, PCs
  <1>8. CountsInv'
    BY <1>1, <1>7, CountsKept
  <1>9. FlagsInv' /\ MapsInv' /\ WritebackInv' /\ DataInv'
    BY <1>1, <1>3, <1>7, QuietStep
    DEF TypeOK, LocalTypeOK, Has, Staged, Flushed, Cleaning, Flag
  <1>10. ValidInv'
    BY <1>1, <1>3, ValidKept DEF TypeOK, LocalTypeOK, Valid, Has
  <1>11. DrainInv'
    BY <1>1, <1>3, <1>7, DrainKept
    DEF LocalTypeOK, RefOf, Drained, Harmless, HasLock, Allocs, PlacesInv,
        Blocked, Trying, Valid, Loading, Filling, Evicting, HandTests,
        Cleaning, EntryPCs, PCs
  <1> QED BY <1>1, <1>2, <1>3, <1>4, <1>5, <1>6, <1>7, <1>8, <1>9, <1>10, <1>11

(* NeighbourLookup: The neighbour of the span may be cached.               *)
LEMMA NeighbourLookupStep ==
    ASSUME TypeOK, CoreInv, NEW t \in Thread, NeighbourLookup(t),
           broken = "no", broken' = "no"
    PROVE  TypeOK' /\ CoreInv'
  <1> USE NoneAssumption
          DEF CoreInv, NeighbourLookup, Goto, WalkEnd, vars, entryVars,
              diskVars, handVars, callVars
  <1>1. Others(t)
    BY DEF Others, TypeOK, LocalTypeOK
  <1>2. LocalTypeOK'
    <2>1. PICK at \in PCs : pc' = [pc EXCEPT ![t] = at]
      BY DEF LocalTypeOK, Blocked, Trying, Valid, Loading, Filling, Evicting,
             HandTests, Cleaning, EntryPCs, PCs
    <2>2. edge' \in [Thread -> Page \cup {None}]
      BY DEF LocalTypeOK, TypeOK, PlacesInv, Cleaning
    <2> QED BY <2>1, <2>2 DEF LocalTypeOK
  <1>3. /\ pc[t] \in {"back", "forward"}
        /\ pc'[t] \in {"back_set", "forward_set", "forward", "submit"}
        /\ op'[t] = op[t] /\ want'[t] = want[t] /\ ent'[t] = ent[t]
    BY DEF TypeOK, LocalTypeOK, PlacesInv
  <1>4. TypeOK'
    <2>1. cand' \in [Thread -> Entry \cup {None}]
      BY NextPageType DEF TypeOK
    <2> HIDE DEF NeighbourLookup
    <2>2. UNCHANGED <<entryVars, diskVars, free_hand, cleaning, callVars>>
      BY DEF NeighbourLookup
    <2> QED BY <2>1, <2>2 DEF TypeOK
  <1>5. PlacesInv'
    BY DEF TypeOK, LocalTypeOK, PlacesInv, OpsAt, NextPage, Blocked, Trying,
           Valid, Loading, Filling, Evicting, HandTests, Cleaning, EntryPCs,
           PCs
  <1>6. HandsInv'
    BY DEF TypeOK, LocalTypeOK, HandsInv, PlacesInv
  <1>7. UsersInv'
    BY <1>1, <1>4, <1>3, UsersKept DEF PlacesInv, OpsAt
  <1>8. SameRoles(t) /\ RefOf(t)' = RefOf(t)
    BY <1>3
    DEF PlacesInv, RefOf, SameRoles, SameRolesOn, HasClaim, HasLock, Loads,
        Fills, AllocsIn, Allocs, Blocked, Trying, Valid, Loading, Filling,
        Evicting, HandTests, Cleaning, EntryPCs, PCs
  <1>9. CountsInv'
    BY <1>1, <1>8, CountsKept
  <1>10. FlagsInv' /\ MapsInv' /\ WritebackInv' /\ DataInv'
    <2>1. /\ pc[t] \notin Staged /\ pc'[t] \notin Staged \cup {"e_unmap"}
          /\ pc[t] \notin {"lock_flush", "e_flush"} /\ pc'[t] \notin Flushed
          /\ pc[t] \in Cleaning \ {"clean"} => pc'[t] \in Cleaning \ {"clean"}
      BY <1>3 DEF Staged, Flushed, Cleaning
    <2>2. \A e \in Entry : \A f \in Flag \ {"ACCESSED"} : Has(e, f)' <=> Has(e, f)
      BY DEF Has, TypeOK
    <2> QED BY <1>1, <1>4, <1>8, <2>1, <2>2, QuietStep
  <1>11. ValidInv'
    <2>1. pc'[t] \in Valid => pc[t] \in Valid /\ ent'[t] = ent[t] /\ want'[t] = want[t]
      BY <1>3 DEF Valid
    <2> QED BY <1>1, <1>4, <2>1, ValidKept DEF Has
  <1>12. DrainInv'
    BY <1>1, <1>4, <1>8, DrainKept
    DEF LocalTypeOK, RefOf, Drained, Harmless, HasLock, Allocs, PlacesInv,
        Blocked, Trying, Valid, Loading, Filling, Evicting, HandTests,
        Cleaning, EntryPCs, PCs
  <1> QED BY <1>1, <1>2, <1>3, <1>4, <1>5, <1>6, <1>7, <1>8, <1>9, <1>10,
             <1>11, <1>12

(* NeighbourSet: A neighbour joins the span like the first entry.          *)
LEMMA NeighbourSetStep ==
    ASSUME TypeOK, CoreInv, NEW t \in Thread, NeighbourSet(t),
           broken = "no", broken' = "no"
    PROVE  TypeOK' /\ CoreInv'
  <1> USE NoneAssumption
          DEF CoreInv, NeighbourSet, Goto, WalkEnd, SetFlags, vars, entryVars,
              diskVars, handVars, callVars
  <1>1. Others(t)
    BY DEF Others, TypeOK, LocalTypeOK
  <1>2. LocalTypeOK'
    <2>1. pc[t] \in {"back_set", "forward_set"}
      OBVIOUS
    <2>2. cleaning[t] \in Entry /\ cand[t] \in Entry /\ NextPage(t) \in Page
      BY <2>1, NextPageType DEF TypeOK, PlacesInv, Cleaning
    <2>3. PICK at \in PCs : pc' = [pc EXCEPT ![t] = at]
      BY DEF LocalTypeOK, PCs, Cleaning
    <2>4. PICK q \in Page \cup {None} : edge' = [edge EXCEPT ![t] = q]
      BY <2>2 DEF TypeOK
    <2>5. PICK x \in SUBSET (Page \X Entry) : span' = [span EXCEPT ![t] = x]
      BY <2>2 DEF LocalTypeOK
    <2> QED BY <2>3, <2>4, <2>5 DEF LocalTypeOK
  <1>3. /\ pc[t] \in {"back_set", "forward_set"} /\ cleaning[t] \in Entry
        /\ cand[t] \in Entry /\ NextPage(t) \in Page
        /\ \/ pc'[t] \in {"back", "forward"}
           \/ pc'[t] \in {"forward", "submit"} /\ status' = status
        /\ op'[t] = op[t] /\ want'[t] = want[t] /\ ent'[t] = ent[t]
    BY NextPageType DEF TypeOK, LocalTypeOK, PlacesInv, Cleaning
  <1>4. TypeOK'
    <2>1. status' \in [Entry -> SUBSET Flag]
      <3>1. PICK s \in SUBSET Flag : status' \in {status, [status EXCEPT ![cand[t]] = s]}
        BY <1>3 DEF TypeOK, Flag
      <3> QED BY <3>1 DEF TypeOK
    <2>3. cand' \in [Thread -> Entry \cup {None}]
      BY DEF TypeOK
    <2> HIDE DEF NeighbourSet
    <2>2. UNCHANGED <<disk_addr, lookup, refcount, current, diskVars,
                      free_hand, cleaning, callVars>>
      BY DEF NeighbourSet
    <2> QED BY <2>1, <2>2, <2>3 DEF TypeOK
  <1>5. PlacesInv'
    BY DEF TypeOK, LocalTypeOK, PlacesInv, OpsAt, NextPage, Blocked, Trying,
           Valid, Loading, Filling, Evicting, HandTests, Cleaning, EntryPCs,
           PCs
  <1>6. HandsInv'
    BY DEF TypeOK, LocalTypeOK, HandsInv, PlacesInv
  <1>7. UsersInv'
    BY <1>1, <1>4, UsersKept DEF TypeOK, LocalTypeOK, PlacesInv, OpsAt
  <1>8. SameRoles(t) /\ RefOf(t)' = RefOf(t)
    BY <1>3
    DEF PlacesInv, RefOf, SameRoles, SameRolesOn, HasClaim, HasLock, Loads,
        Fills, AllocsIn, Allocs, Blocked, Trying, Valid, Loading, Filling,
        Evicting, HandTests, Cleaning, EntryPCs, PCs
  <1>9. CountsInv'
    BY <1>1, <1>8, CountsKept
  <1>10. FlagsInv'
    <2>1. PICK b \in Entry : b = cand[t]
      BY <1>3
    <2>2. /\ \A e \in Entry \ {b} : \A f : Has(e, f)' <=> Has(e, f)
          /\ \A f \in Flag \ {"WRITEBACK"} : Has(b, f)' <=> Has(b, f)
          /\ Has(b, "WRITEBACK")' => Has(b, "WRITEBACK") \/ Cleanable(b)
      BY <2>1 DEF Has, TypeOK
    <2>3. pc[t] \notin Staged /\ pc'[t] \notin Staged \cup Valid \cup {"e_unmap"}
      BY <1>3 DEF Staged, Valid
    <2> HIDE DEF NeighbourSet
    <2>4. UNCHANGED <<lookup, disk_addr, current, saved, live>>
      BY DEF NeighbourSet
    <2> QED BY <1>1, <1>8, <1>4, <2>2, <2>3, <2>4, FlagsKept
            DEF SameFlags, Flag
  <1>11. MapsInv'
    <2>1. PICK b \in Entry : b = cand[t]
      BY <1>3
    <2>2. /\ \A e \in Entry \ {b} : \A f : Has(e, f)' <=> Has(e, f)
          /\ \A f \in Flag \ {"WRITEBACK"} : Has(b, f)' <=> Has(b, f)
          /\ Has(b, "WRITEBACK")' => Has(b, "WRITEBACK") \/ Cleanable(b)
      BY <2>1 DEF Has, TypeOK
    <2>3. pc[t] \notin Staged /\ pc'[t] \notin Staged \cup Valid \cup {"e_unmap"}
      BY <1>3 DEF Staged, Valid
    <2> HIDE DEF NeighbourSet
    <2>4. UNCHANGED <<lookup, disk_addr, current, saved, live>>
      BY DEF NeighbourSet
    <2> QED BY <1>1, <1>8, <1>4, <2>2, <2>3, <2>4, MapsKept DEF Flag
  <1>12. ValidInv'
    <2>1. PICK b \in Entry : b = cand[t]
      BY <1>3
    <2>2. /\ \A e \in Entry \ {b} : \A f : Has(e, f)' <=> Has(e, f)
          /\ \A f \in Flag \ {"WRITEBACK"} : Has(b, f)' <=> Has(b, f)
          /\ Has(b, "WRITEBACK")' => Has(b, "WRITEBACK") \/ Cleanable(b)
      BY <2>1 DEF Has, TypeOK
    <2>3. pc[t] \notin Staged /\ pc'[t] \notin Staged \cup Valid \cup {"e_unmap"}
      BY <1>3 DEF Staged, Valid
    <2> HIDE DEF NeighbourSet
    <2>4. UNCHANGED <<lookup, disk_addr, current, saved, live>>
      BY DEF NeighbourSet
    <2> QED BY <1>1, <1>8, <1>4, <2>2, <2>3, <2>4, ValidKept DEF Flag
  <1>13. DrainInv'
    BY <1>1, <1>4, <1>8, DrainKept
    DEF LocalTypeOK, RefOf, Drained, Harmless, HasLock, Allocs, PlacesInv,
        Blocked, Trying, Valid, Loading, Filling, Evicting, HandTests,
        Cleaning, EntryPCs, PCs
  <1>14. WritebackInv'
    <2>0. PICK b \in Entry : b = cand[t]
      BY <1>3
    <2>1. /\ pc[t] \in Cleaning \ {"clean"} /\ pc'[t] \notin Flushed
          /\ pc'[t] \in Cleaning \ {"clean"}
      BY <1>3 DEF Cleaning, Flushed
    <2>2. PICK p : p = NextPage(t)
      OBVIOUS
    <2>3. inflight' = inflight /\ UNCHANGED <<lookup, disk_addr>>
      OBVIOUS
    <2>4. \/ status' = status /\ span' = span
          \/ /\ status' = [status EXCEPT ![b] = @ \cup {"WRITEBACK"}]
             /\ span'[t] = span[t] \cup {<<p, b>>} /\ Cleanable(b)
      BY <2>0, <2>2 DEF LocalTypeOK
    <2> HIDE DEF NeighbourSet
    <2>5. CASE status' = status /\ span' = span
      BY <1>1, <2>1, <2>3, <2>5, WritebackKept DEF Has
    <2>6. CASE /\ status' = [status EXCEPT ![b] = @ \cup {"WRITEBACK"}]
               /\ span'[t] = span[t] \cup {<<p, b>>} /\ Cleanable(b)
      BY <1>1, <1>8, <2>1, <2>3, <2>6, WritebackSet
    <2> QED BY <2>4, <2>5, <2>6
  <1>15. DataInv'
    <2>1. PICK b \in Entry : b = cand[t]
      BY <1>3
    <2>2. /\ \A e \in Entry \ {b} : \A f : Has(e, f)' <=> Has(e, f)
          /\ \A f \in Flag \ {"WRITEBACK"} : Has(b, f)' <=> Has(b, f)
          /\ Has(b, "WRITEBACK")' => Has(b, "WRITEBACK") \/ Cleanable(b)
      BY <2>1 DEF Has, TypeOK
    <2>3. pc[t] \notin Staged /\ pc'[t] \notin Staged \cup Valid \cup {"e_unmap"}
      BY <1>3 DEF Staged, Valid
    <2> HIDE DEF NeighbourSet
    <2>4. UNCHANGED <<lookup, disk_addr, current, saved, live>>
      BY DEF NeighbourSet
    <2> QED BY <1>1, <1>8, <1>4, <2>2, <2>3, <2>4, DataKept DEF Flag
  <1> QED BY <1>1, <1>2, <1>3, <1>4, <1>5, <1>6, <1>7, <1>8, <1>9, <1>10,
             <1>11, <1>12, <1>13, <1>14, <1>15

(* CleanSubmit: The span becomes a request for the addresses of its        *)
(* entries.                                                                *)
LEMMA CleanSubmitStep ==
    ASSUME TypeOK, CoreInv, NEW t \in Thread, CleanSubmit(t),
           broken = "no", broken' = "no"
    PROVE  TypeOK' /\ CoreInv'
  <1> USE NoneAssumption
          DEF CoreInv, CleanSubmit, Goto, vars, entryVars, diskVars, handVars,
              callVars
  <1>1. Others(t)
    BY DEF Others, TypeOK, LocalTypeOK
  <1>2. LocalTypeOK'
    BY DEF TypeOK, LocalTypeOK, PlacesInv, Blocked, Trying, Valid, Loading,
           Filling, Evicting, HandTests, Cleaning, EntryPCs, PCs
  <1>3. TypeOK'
    BY DEF TypeOK, LocalTypeOK, Flag, PlacesInv, Slot, EntryPCs, Filling,
           Loading, Evicting, HandTests
  <1>4. PlacesInv'
    BY DEF TypeOK, LocalTypeOK, PlacesInv, OpsAt, NextPage, Blocked, Trying,
           Valid, Loading, Filling, Evicting, HandTests, Cleaning, EntryPCs,
           PCs
  <1>5. HandsInv'
    BY DEF TypeOK, LocalTypeOK, HandsInv, PlacesInv
  <1>6. UsersInv'
    BY <1>1, <1>3, UsersKept DEF TypeOK, LocalTypeOK, PlacesInv, OpsAt
  <1>7. SameRoles(t) /\ RefOf(t)' = RefOf(t)
    BY DEF TypeOK, LocalTypeOK, PlacesInv, OpsAt, RefOf, SameRoles,
           SameRolesOn, HasClaim, HasLock, Loads, Fills, AllocsIn, Allocs,
           Blocked, Trying, Valid, Loading, Filling, Evicting, HandTests,
           Cleaning, EntryPCs, PCs
  <1>8. CountsInv'
    BY <1>1, <1>7, CountsKept
  <1>9. FlagsInv'
    BY <1>1, <1>7, FlagsKept
    DEF TypeOK, LocalTypeOK, SameFlags, Has, PlacesInv, EntryPCs, Cleanable,
        FREE, ALLOC, READ_LOADING
  <1>10. MapsInv'
    BY <1>1, MapsKept
    DEF TypeOK, LocalTypeOK, Has, Staged, FREE, ALLOC, READ_LOADING, PlacesInv
  <1>11. ValidInv'
    BY <1>1, <1>3, ValidKept DEF TypeOK, LocalTypeOK, Valid, Has
  <1>12. DrainInv'
    BY <1>1, <1>3, <1>7, DrainKept
    DEF LocalTypeOK, RefOf, Drained, Harmless, HasLock, Allocs, PlacesInv,
        Blocked, Trying, Valid, Loading, Filling, Evicting, HandTests,
        Cleaning, EntryPCs, PCs
  <1>13. WritebackInv'
    <2>1. \A x \in span[t] : lookup[x[1]] = x[2] /\ x \in Page \X Entry
      BY DEF LocalTypeOK
    <2>2. /\ inflight' = [e \in Entry |-> inflight[e] \cup {p \in Page : <<p, e>> \in span[t]}]
          /\ span'[t] = {} /\ pc[t] = "submit" /\ pc'[t] = "hand"
          /\ UNCHANGED <<status, lookup, disk_addr>>
      BY DEF LocalTypeOK
    <2> HIDE DEF CleanSubmit
    <2>3. \A x \in span[t] : disk_addr[x[2]] = x[1]
      <3> SUFFICES ASSUME NEW p \in Page, NEW e \in Entry, <<p, e>> \in span[t]
                   PROVE  disk_addr[e] = p
        BY <2>1
      <3>1. lookup[p] = e
        BY <2>1
      <3>2. ~Has(e, "LOADING")
        BY DEF WritebackInv
      <3>3. \A u \in Thread : ~(pc[u] = "setaddr" /\ ent[u] = e)
        BY <3>2 DEF FlagsInv, FlagsAt, Loads, Loading
      <3> QED BY <3>1, <3>3 DEF MapsInv
    <2>4. \A e \in Entry : (\E p \in Page : <<p, e>> \in span[t]) =>
             /\ inflight[e] = {} /\ Has(e, "WRITEBACK")
             /\ inflight'[e] = {disk_addr[e]}
      <3> SUFFICES ASSUME NEW e \in Entry, NEW p \in Page, <<p, e>> \in span[t]
                   PROVE  /\ inflight[e] = {} /\ Has(e, "WRITEBACK")
                          /\ inflight'[e] = {disk_addr[e]}
        OBVIOUS
      <3>1. inflight[e] = {} /\ Has(e, "WRITEBACK")
        BY DEF WritebackInv
      <3>2. disk_addr[e] = p
        BY <2>3
      <3>3. \A q \in Page : <<q, e>> \in span[t] => q = p
        BY <2>3, <3>2
      <3> QED BY <2>2, <3>1, <3>2, <3>3
    <2>5. \A e \in Entry : ~(\E p \in Page : <<p, e>> \in span[t]) => inflight'[e] = inflight[e]
      BY <2>2
    <2>6. \A u \in Thread : \A e \in Entry : HasLock(u, e)' <=> HasLock(u, e)
      BY <1>1, <1>7, OthersKeepRoles DEF SameRoles, SameRolesOn
    <2>a. (\A e \in Entry : Has(e, "WRITEBACK") =>
             /\ Mapped(e)
             /\ ~Has(e, "LOADING")
             /\ \A u \in Thread : HasLock(u, e) => pc[u] \notin Flushed)'
      <3>1. \A u \in Thread : pc'[u] \in Flushed => pc[u] \in Flushed
        BY <2>2, <1>1 DEF Others, Flushed
      <3>2. \A e \in Entry : Has(e, "WRITEBACK") =>
               /\ Mapped(e) /\ ~Has(e, "LOADING")
               /\ \A u \in Thread : HasLock(u, e) => pc[u] \notin Flushed
        BY DEF WritebackInv
      <3>3. \A e \in Entry : /\ Mapped(e)' <=> Mapped(e)
                             /\ \A f : Has(e, f)' <=> Has(e, f)
        BY <2>2 DEF Mapped, Has
      <3> QED BY <2>6, <3>1, <3>2, <3>3
    <2>b. (\A u \in Thread : span[u] # {} => pc[u] \in Cleaning \ {"clean"})'
      <3>1. \A u \in Thread : span[u] # {} => pc[u] \in Cleaning \ {"clean"}
        BY DEF WritebackInv
      <3> QED BY <2>2, <3>1, <1>1 DEF Others
    <2>c. (\A u \in Thread : \A x \in span[u] :
             Has(x[2], "WRITEBACK") /\ inflight[x[2]] = {} /\ ~Has(x[2], "CLEAN"))'
      <3> SUFFICES ASSUME NEW u \in Thread \ {t}, NEW x \in span[u]
                   PROVE  /\ Has(x[2], "WRITEBACK")' /\ inflight'[x[2]] = {}
                          /\ ~Has(x[2], "CLEAN")'
        BY <2>2, <1>1 DEF Others
      <3>1. Has(x[2], "WRITEBACK") /\ inflight[x[2]] = {} /\ ~Has(x[2], "CLEAN")
        BY DEF WritebackInv
      <3>2. x[2] \in Entry
        BY DEF LocalTypeOK
      <3>3. \A p \in Page : <<p, x[2]>> \notin span[t]
        <4>1. \A y \in span[t] : y[2] # x[2]
          BY DEF WritebackInv
        <4> QED BY <4>1
      <3> QED BY <2>2, <2>5, <3>1, <3>2, <3>3 DEF Has
    <2>d. (\A u, v \in Thread : \A x \in span[u], y \in span[v] : x[2] = y[2] => u = v /\ x = y)'
      <3>1. \A u, v \in Thread : \A x \in span[u], y \in span[v] : x[2] = y[2] => u = v /\ x = y
        BY DEF WritebackInv
      <3>2. \A u \in Thread : span'[u] \subseteq span[u]
        BY <2>2, <1>1 DEF Others
      <3> QED BY <3>1, <3>2
    <2>e. (\A e \in Entry : inflight[e] # {} => Has(e, "WRITEBACK") /\ inflight[e] = {disk_addr[e]})'
      <3>1. \A e \in Entry : inflight[e] # {} => Has(e, "WRITEBACK") /\ inflight[e] = {disk_addr[e]}
        BY DEF WritebackInv
      <3> QED BY <2>2, <2>4, <2>5, <3>1 DEF Has
    <2> QED BY <2>a, <2>b, <2>c, <2>d, <2>e DEF WritebackInv
  <1>14. DataInv'
    BY <1>1, DataKept
    DEF TypeOK, LocalTypeOK, Has, PlacesInv, FREE, ALLOC, READ_LOADING
  <1> QED BY <1>1, <1>2, <1>3, <1>4, <1>5, <1>6, <1>7, <1>8, <1>9, <1>10,
             <1>11, <1>12, <1>13, <1>14

-----------------------------------------------------------------------------
(* The steps of evicting the entry of a hand.                              *)

(* EvictTest: The hand passes an entry, or looks at its readers;           *)
(* CC_ACCESSED is nobody's flag.                                           *)
LEMMA EvictTestStep ==
    ASSUME TypeOK, CoreInv, NEW t \in Thread, EvictTest(t),
           broken = "no", broken' = "no"
    PROVE  TypeOK' /\ CoreInv'
  <1> USE NoneAssumption
          DEF CoreInv, EvictTest, Goto, ClearFlags, vars, entryVars, diskVars,
              handVars, callVars
  <1>1. Others(t)
    BY DEF Others, TypeOK, LocalTypeOK
  <1>2. LocalTypeOK'
    BY DEF TypeOK, LocalTypeOK, PlacesInv, Blocked, Trying, Valid, Loading,
           Filling, Evicting, HandTests, Cleaning, EntryPCs, PCs
  <1>3. TypeOK'
    BY DEF TypeOK, LocalTypeOK, Flag, PlacesInv, Slot, EntryPCs, Filling,
           Loading, Evicting, HandTests
  <1>4. PlacesInv'
    BY DEF TypeOK, LocalTypeOK, PlacesInv, OpsAt, NextPage, Blocked, Trying,
           Valid, Loading, Filling, Evicting, HandTests, Cleaning, EntryPCs,
           PCs
  <1>5. HandsInv'
    BY DEF TypeOK, LocalTypeOK, HandsInv, PlacesInv
  <1>6. UsersInv'
    BY <1>1, <1>3, UsersKept DEF TypeOK, LocalTypeOK, PlacesInv, OpsAt
  <1>7. SameRoles(t) /\ RefOf(t)' = RefOf(t)
    BY DEF TypeOK, LocalTypeOK, PlacesInv, OpsAt, RefOf, SameRoles,
           SameRolesOn, HasClaim, HasLock, Loads, Fills, AllocsIn, Allocs,
           Blocked, Trying, Valid, Loading, Filling, Evicting, HandTests,
           Cleaning, EntryPCs, PCs
  <1>8. CountsInv'
    BY <1>1, <1>7, CountsKept
  <1>9. FlagsInv' /\ MapsInv' /\ WritebackInv' /\ DataInv'
    BY <1>1, <1>3, <1>7, QuietStep
    DEF TypeOK, LocalTypeOK, Has, Staged, Flushed, Cleaning, Flag
  <1>10. ValidInv'
    BY <1>1, <1>3, ValidKept DEF TypeOK, LocalTypeOK, Valid, Has
  <1>11. DrainInv'
    BY <1>1, <1>3, <1>7, DrainKept
    DEF LocalTypeOK, RefOf, Drained, Harmless, HasLock, Allocs, PlacesInv,
        Blocked, Trying, Valid, Loading, Filling, Evicting, HandTests,
        Cleaning, EntryPCs, PCs
  <1> QED BY <1>1, <1>2, <1>3, <1>4, <1>5, <1>6, <1>7, <1>8, <1>9, <1>10, <1>11

(* EvictReads: The flags that eviction only looks at; the drain begins     *)
(* when no write back is under way.                                        *)
LEMMA EvictReadsStep ==
    ASSUME TypeOK, CoreInv, NEW t \in Thread, EvictReads(t),
           broken = "no", broken' = "no"
    PROVE  TypeOK' /\ CoreInv'
  <1> USE NoneAssumption
          DEF CoreInv, EvictReads, Goto, vars, entryVars, diskVars, handVars,
              callVars
  <1>1. Others(t)
    BY DEF Others, TypeOK, LocalTypeOK
  <1>2. LocalTypeOK'
    <2>1. PICK at \in PCs : pc' = [pc EXCEPT ![t] = at]
      BY DEF LocalTypeOK, Blocked, Trying, Valid, Loading, Filling, Evicting,
             HandTests, Cleaning, EntryPCs, PCs
    <2> QED BY <2>1 DEF LocalTypeOK
  <1>3. /\ \/ pc[t] = "e_read" /\ pc'[t] \in {"take", "e_inc"}
           \/ pc[t] = "e_free" /\ pc'[t] \in {"e_dec", "e_locked"}
           \/ pc[t] = "e_locked" /\ pc'[t] = "e_dec"
           \/ /\ pc[t] = "e_locked" /\ pc'[t] = "e_claim"
              /\ ~Has(free_hand[t], "WRITELOCKED")
           \/ pc[t] = "e_loading" /\ pc'[t] \in {"e_unclaim", "e_lock"}
           \/ pc[t] = "e_flush" /\ pc'[t] = "e_unlock"
           \/ /\ pc[t] = "e_flush" /\ pc'[t] = "e_drain"
              /\ ~Has(free_hand[t], "WRITEBACK")
        /\ op'[t] = op[t] /\ want'[t] = want[t] /\ ent'[t] = ent[t]
        /\ scan'[t] = 0
    BY DEF TypeOK, LocalTypeOK, PlacesInv
  <1>4. TypeOK'
    BY DEF TypeOK, LocalTypeOK, Flag, PlacesInv, Slot, EntryPCs, Filling,
           Loading, Evicting, HandTests
  <1>5. PlacesInv'
    BY <1>1, <1>4, <1>3
    DEF TypeOK, LocalTypeOK, PlacesInv, OpsAt, NextPage, Blocked, Trying,
        Valid, Loading, Filling, Evicting, HandTests, Cleaning, EntryPCs, PCs
  <1>6. HandsInv'
    BY DEF TypeOK, LocalTypeOK, HandsInv, PlacesInv
  <1>7. UsersInv'
    BY <1>1, <1>4, <1>3, UsersKept DEF PlacesInv, OpsAt
  <1>8. SameRoles(t) /\ RefOf(t)' = RefOf(t)
    BY <1>3
    DEF PlacesInv, RefOf, SameRoles, SameRolesOn, HasClaim, HasLock, Loads,
        Fills, AllocsIn, Allocs, Blocked, Trying, Valid, Loading, Filling,
        Evicting, HandTests, Cleaning, EntryPCs, PCs
  <1>9. CountsInv'
    BY <1>1, <1>8, CountsKept
  <1>10. FlagsInv' /\ MapsInv' /\ WritebackInv' /\ DataInv'
    <2>1. /\ pc[t] \notin Staged /\ pc'[t] \notin Staged \cup {"e_unmap"}
          /\ pc[t] # "lock_flush"
          /\ pc'[t] \in Flushed => pc[t] = "e_flush" /\ ~Has(free_hand[t], "WRITEBACK")
          /\ pc[t] \notin Cleaning
      BY <1>3 DEF Staged, Flushed, Cleaning
    <2> QED BY <1>1, <1>4, <1>8, <2>1, QuietStep DEF Has
  <1>11. ValidInv'
    <2>1. pc'[t] \in Valid => pc[t] \in Valid /\ ent'[t] = ent[t] /\ want'[t] = want[t]
      BY <1>3 DEF Valid
    <2> QED BY <1>1, <1>4, <2>1, ValidKept DEF Has
  <1>12. DrainInv'
    <2>1. \A e \in Entry : HasLock(t, e)' /\ Drained(t)' > 0 =>
             HasLock(t, e) /\ Drained(t)' <= Drained(t)
      BY <1>8, <1>3 DEF Drained, SameRoles, SameRolesOn
    <2>2. free_hand[t] \in Entry /\ RefOf(t) \in {free_hand[t], None}
      BY <1>3
      DEF RefOf, TypeOK, PlacesInv, Blocked, Trying, Valid, Loading, Filling,
          Evicting, HandTests, Cleaning, EntryPCs, PCs
    <2>3. ~Has(free_hand[t], "WRITELOCKED") => \A v \in Thread : ~HasLock(v, free_hand[t])
      BY <2>2 DEF FlagsInv, FlagsAt
    <2>4. \A e \in Entry : RefOf(t)' = e /\ ~Harmless(t, e)' =>
             \/ RefOf(t) = e /\ ~Harmless(t, e)
             \/ \A v \in Thread \ {t} : ~HasLock(v, e)
      BY <1>8, <2>2, <2>3, <1>3 DEF Harmless, Blocked, Trying
    <2> QED BY <1>1, <1>4, <2>1, <2>4, DrainKept
  <1> QED BY <1>1, <1>2, <1>3, <1>4, <1>5, <1>6, <1>7, <1>8, <1>9, <1>10,
             <1>11, <1>12

(* EvictRef: The evictor's own reference.                                  *)
LEMMA EvictRefStep ==
    ASSUME TypeOK, CoreInv, NEW t \in Thread, EvictRef(t),
           broken = "no", broken' = "no"
    PROVE  TypeOK' /\ CoreInv'
  <1> USE NoneAssumption
          DEF CoreInv, EvictRef, Goto, vars, entryVars, diskVars, handVars,
              callVars
  <1>1. Others(t)
    BY DEF Others, TypeOK, LocalTypeOK
  <1>2. LocalTypeOK'
    <2>1. PICK at \in PCs : pc' = [pc EXCEPT ![t] = at]
      BY DEF LocalTypeOK, Blocked, Trying, Valid, Loading, Filling, Evicting,
             HandTests, Cleaning, EntryPCs, PCs
    <2> QED BY <2>1 DEF LocalTypeOK
  <1>3. /\ \/ pc[t] = "e_inc" /\ pc'[t] = "e_free" /\ IncRef(t, free_hand[t])
           \/ pc[t] = "e_dec" /\ pc'[t] = "take" /\ DecRef(t, free_hand[t])
        /\ op'[t] = op[t] /\ want'[t] = want[t] /\ ent'[t] = ent[t]
    BY DEF TypeOK, LocalTypeOK, PlacesInv
  <1>4. SameRoles(t)
    BY <1>3
    DEF SameRoles, SameRolesOn, HasClaim, HasLock, Loads, Fills, AllocsIn,
        Allocs, Blocked, Trying, Valid, Loading, Filling, Evicting, HandTests,
        Cleaning, EntryPCs, PCs
  <1>5. free_hand[t] \in Entry
    BY <1>3 DEF TypeOK, PlacesInv, Evicting, HandTests
  <1>6. CountsInv' /\ refcount' \in [Entry -> [Slot -> Nat]]
    <2>1. \A u \in Thread \ {t} : RefOf(u)' = RefOf(u)
      BY <1>1, OthersKeepRoles
    <2>2. CASE pc[t] = "e_inc"
      <3>1. IncRef(t, free_hand[t]) /\ RefOf(t) = None /\ RefOf(t)' = free_hand[t]
        BY <1>3, <2>2
        DEF RefOf, Blocked, Trying, Valid, Loading, Filling, Evicting,
            HandTests, Cleaning, EntryPCs, PCs
      <3>2. refcount' \in [Entry -> [Slot -> Nat]]
        BY <1>5, <3>1, SlotAssumption DEF IncRef, TypeOK
      <3>3. CountsInv'
        BY <1>5, <2>1, <3>1, CountsInc
      <3> QED BY <3>2, <3>3
    <2>3. CASE pc[t] = "e_dec"
      <3>1. /\ DecRef(t, free_hand[t])
            /\ RefOf(t) = free_hand[t] /\ RefOf(t)' = None
        BY <1>3, <2>3
        DEF RefOf, Blocked, Trying, Valid, Loading, Filling, Evicting,
            HandTests, Cleaning, EntryPCs, PCs
      <3> QED BY <1>5, <2>1, <3>1, CountsDec
    <2> QED BY <1>3, <2>2, <2>3
  <1>7. TypeOK'
    BY <1>6 DEF TypeOK
  <1>8. PlacesInv'
    BY DEF TypeOK, LocalTypeOK, PlacesInv, OpsAt, NextPage, Blocked, Trying,
           Valid, Loading, Filling, Evicting, HandTests, Cleaning, EntryPCs,
           PCs
  <1>9. HandsInv'
    BY DEF TypeOK, LocalTypeOK, HandsInv, PlacesInv
  <1>10. UsersInv'
    BY <1>1, <1>7, <1>3, UsersKept DEF PlacesInv, OpsAt
  <1>11. FlagsInv' /\ MapsInv' /\ WritebackInv' /\ DataInv'
    <2>1. /\ pc[t] \notin Staged /\ pc'[t] \notin Staged \cup {"e_unmap"}
          /\ pc[t] \notin {"lock_flush", "e_flush"} /\ pc'[t] \notin Flushed
          /\ pc[t] \in Cleaning \ {"clean"} => pc'[t] \in Cleaning \ {"clean"}
      BY <1>3 DEF Staged, Flushed, Cleaning
    <2>2. \A e \in Entry : \A f \in Flag \ {"ACCESSED"} : Has(e, f)' <=> Has(e, f)
      BY DEF Has, TypeOK
    <2> QED BY <1>1, <1>7, <1>4, <2>1, <2>2, QuietStep
  <1>12. ValidInv'
    <2>1. pc'[t] \in Valid => pc[t] \in Valid /\ ent'[t] = ent[t] /\ want'[t] = want[t]
      BY <1>3 DEF Valid
    <2> QED BY <1>1, <1>7, <2>1, ValidKept DEF Has
  <1>13. DrainInv'
    <2>1. \A e \in Entry : HasLock(t, e)' /\ Drained(t)' > 0 =>
             HasLock(t, e) /\ Drained(t)' <= Drained(t)
      BY <1>4, <1>3 DEF Drained, SameRoles, SameRolesOn, PlacesInv
    <2>2. \A e \in Entry : RefOf(t)' = e /\ ~Harmless(t, e)' => FALSE
      BY <1>3
      DEF Harmless, RefOf, Blocked, Trying, Valid, Loading, Filling, Evicting,
          HandTests, Cleaning, EntryPCs, PCs
    <2> QED BY <1>1, <1>7, <2>1, <2>2, DrainKept
  <1> QED BY <1>1, <1>2, <1>3, <1>4, <1>5, <1>6, <1>7, <1>8, <1>9, <1>10,
             <1>11, <1>12, <1>13

(* EvictFlags: The flags that eviction sets and clears: its claim if the   *)
(* flag was clear, its lock, and the reset of an entry without a page.     *)
LEMMA EvictFlagsStep ==
    ASSUME TypeOK, CoreInv, NEW t \in Thread, EvictFlags(t),
           broken = "no", broken' = "no"
    PROVE  TypeOK' /\ CoreInv'
  <1> USE NoneAssumption
          DEF CoreInv, EvictFlags, Goto, SetFlags, ClearFlags, vars, entryVars,
              diskVars, handVars, callVars
  <1>1. Others(t)
    BY DEF Others, TypeOK, LocalTypeOK
  <1>2. \E b \in Entry :
           /\ b = free_hand[t] /\ pc[t] \notin EntryPCs /\ RefOf(t) = b
           /\ op'[t] = op[t] /\ want'[t] = want[t] /\ ent'[t] = ent[t] /\ free_hand'[t] = b
           /\ \/ /\ pc[t] = "e_claim" /\ pc'[t] = "e_dec" /\ Has(b, "CLAIMED")
                 /\ status'[b] = status[b]
              \/ /\ pc[t] = "e_claim" /\ pc'[t] = "e_loading" /\ ~Has(b, "CLAIMED")
                 /\ status'[b] = status[b] \cup {"CLAIMED"}
              \/ /\ pc[t] = "e_lock" /\ pc'[t] = "e_flush"
                 /\ status'[b] = status[b] \cup {"WRITELOCKED"}
              \/ /\ pc[t] = "e_unlock" /\ pc'[t] = "e_unclaim"
                 /\ status'[b] = status[b] \ {"WRITELOCKED"}
              \/ /\ pc[t] = "e_unclaim" /\ pc'[t] = "e_dec"
                 /\ status'[b] = status[b] \ {"CLAIMED"}
              \/ /\ pc[t] = "e_release" /\ pc'[t] = "e_dec" /\ status'[b] = {"FREE"}
           /\ FlagsOnly(b)
    <2>1. pc[t] \in Evicting /\ free_hand[t] \in Entry /\ pc[t] \notin EntryPCs
      BY DEF TypeOK, LocalTypeOK, PlacesInv, Blocked, Trying, Valid, Loading,
             Filling, Evicting, HandTests, Cleaning, EntryPCs, PCs
    <2>2. RefOf(t) = free_hand[t]
      BY <2>1 DEF RefOf
    <2>3. status \in [Entry -> SUBSET Flag] /\ pc \in [Thread -> PCs]
      BY DEF TypeOK, LocalTypeOK
    <2>4. FlagsOnly(free_hand[t])
      BY <2>1, <2>3 DEF FlagsOnly, Has
    <2>5. UNCHANGED <<op, want, ent, free_hand>>
      OBVIOUS
    <2>6. PICK b \in Entry : b = free_hand[t]
      BY <2>1
    <2>7. \/ /\ pc[t] = "e_claim" /\ pc'[t] = "e_dec" /\ Has(b, "CLAIMED")
             /\ status'[b] = status[b]
          \/ /\ pc[t] = "e_claim" /\ pc'[t] = "e_loading" /\ ~Has(b, "CLAIMED")
             /\ status'[b] = status[b] \cup {"CLAIMED"}
          \/ /\ pc[t] = "e_lock" /\ pc'[t] = "e_flush"
             /\ status'[b] = status[b] \cup {"WRITELOCKED"}
          \/ /\ pc[t] = "e_unlock" /\ pc'[t] = "e_unclaim"
             /\ status'[b] = status[b] \ {"WRITELOCKED"}
          \/ /\ pc[t] = "e_unclaim" /\ pc'[t] = "e_dec"
             /\ status'[b] = status[b] \ {"CLAIMED"}
          \/ /\ pc[t] = "e_release" /\ pc'[t] = "e_dec" /\ status'[b] = {"FREE"}
      <3>1. Has(b, "CLAIMED") => status[b] \cup {"CLAIMED"} = status[b]
        BY DEF Has
      <3>2. ASSUME NEW fs
            PROVE  /\ SetFlags(b, fs) => status'[b] = status[b] \cup fs
                   /\ ClearFlags(b, fs) => status'[b] = status[b] \ fs
                   /\ status' = [status EXCEPT ![b] = FREE] => status'[b] = {"FREE"}
        BY <2>3 DEF SetFlags, ClearFlags, FREE
      <3>3. ASSUME NEW from, NEW at
            PROVE  Goto(t, from, at) => pc[t] = from /\ pc'[t] = at
        BY <2>3
      <3>4. \/ /\ Goto(t, "e_claim", IF Has(b, "CLAIMED") THEN "e_dec" ELSE "e_loading")
               /\ SetFlags(b, {"CLAIMED"})
            \/ Goto(t, "e_lock", "e_flush") /\ SetFlags(b, {"WRITELOCKED"})
            \/ Goto(t, "e_unlock", "e_unclaim") /\ ClearFlags(b, {"WRITELOCKED"})
            \/ Goto(t, "e_unclaim", "e_dec") /\ ClearFlags(b, {"CLAIMED"})
            \/ Goto(t, "e_release", "e_dec") /\ status' = [status EXCEPT ![b] = FREE]
        BY <2>6
      <3> HIDE DEF EvictFlags, Goto, SetFlags, ClearFlags
      <3> QED BY <3>1, <3>2, <3>3, <3>4
    <2> HIDE DEF EvictFlags
    <2> QED BY <2>1, <2>2, <2>4, <2>5, <2>6, <2>7
  <1>3. LocalTypeOK'
    <2>1. PICK at \in PCs : pc' = [pc EXCEPT ![t] = at]
      BY DEF PCs, Evicting
    <2> QED BY <2>1 DEF LocalTypeOK
  <1>4. TypeOK'
    <2>1. PICK s \in SUBSET Flag : status' = [status EXCEPT ![free_hand[t]] = s]
      BY <1>2 DEF TypeOK, Flag, FREE
    <2>2. status' \in [Entry -> SUBSET Flag]
      BY <2>1 DEF TypeOK
    <2>3. UNCHANGED <<disk_addr, lookup, refcount, current, diskVars, handVars, callVars>>
      OBVIOUS
    <2> HIDE DEF EvictFlags
    <2> QED BY <2>2, <2>3 DEF TypeOK
  <1>5. PlacesInv'
    BY DEF TypeOK, LocalTypeOK, PlacesInv, OpsAt, NextPage, Blocked, Trying,
           Valid, Loading, Filling, Evicting, HandTests, Cleaning, EntryPCs,
           PCs
  <1>6. HandsInv'
    BY DEF TypeOK, LocalTypeOK, HandsInv, PlacesInv
  <1>7. UsersInv'
    BY <1>1, <1>4, UsersKept DEF TypeOK, LocalTypeOK, PlacesInv, OpsAt
  <1>8. RefOf(t)' = RefOf(t)
    BY <1>2 DEF RefOf, Evicting, EntryPCs, Filling, Loading, Trying, Valid
  <1>9. CountsInv'
    BY <1>1, <1>8, CountsKept
  <1>10. FlagsInv' /\ MapsInv' /\ ValidInv' /\ WritebackInv' /\ DataInv'
    <2>0. PICK b \in Entry :
             /\ b = free_hand[t] /\ pc[t] \notin EntryPCs /\ RefOf(t) = b
             /\ op'[t] = op[t] /\ want'[t] = want[t] /\ ent'[t] = ent[t] /\ free_hand'[t] = b
             /\ \/ /\ pc[t] = "e_claim" /\ pc'[t] = "e_dec" /\ Has(b, "CLAIMED")
                   /\ status'[b] = status[b]
                \/ /\ pc[t] = "e_claim" /\ pc'[t] = "e_loading" /\ ~Has(b, "CLAIMED")
                   /\ status'[b] = status[b] \cup {"CLAIMED"}
                \/ /\ pc[t] = "e_lock" /\ pc'[t] = "e_flush"
                   /\ status'[b] = status[b] \cup {"WRITELOCKED"}
                \/ /\ pc[t] = "e_unlock" /\ pc'[t] = "e_unclaim"
                   /\ status'[b] = status[b] \ {"WRITELOCKED"}
                \/ /\ pc[t] = "e_unclaim" /\ pc'[t] = "e_dec"
                   /\ status'[b] = status[b] \ {"CLAIMED"}
                \/ /\ pc[t] = "e_release" /\ pc'[t] = "e_dec" /\ status'[b] = {"FREE"}
             /\ FlagsOnly(b)
      BY <1>2
    <2>1. UNCHANGED <<lookup, disk_addr, current, saved, live, span, inflight, refcount>>
      OBVIOUS
    <2> HIDE DEF EvictFlags
    <2>2. \A e : ~Fills(t, e) /\ ~Fills(t, e)' /\ ~Loads(t, e) /\ ~Loads(t, e)'
                 /\ ~AllocsIn(t, e) /\ ~AllocsIn(t, e)'
      BY <2>0 DEF Fills, Loads, AllocsIn, Allocs, Filling, Loading
    <2>3. \A u \in Thread : ~Fills(u, b) /\ ~Loads(u, b) /\ ~AllocsIn(u, b)
      <3>1. \A u \in Thread : Fills(u, b) => free_hand[u] = free_hand[t]
        BY <2>0 DEF Fills, PlacesInv
      <3> QED BY <2>0, <2>2, <3>1, RolesRelate DEF HandsInv
    <2>4. \A e : e # b => /\ ~HasClaim(t, e) /\ ~HasClaim(t, e)'
                          /\ ~HasLock(t, e) /\ ~HasLock(t, e)'
      BY <2>0 DEF HasClaim, HasLock, Allocs
    <2>5. \A e \in Entry \ {b} : SameRolesOn(t, e) /\ SameFlags(e)
      BY <2>0, <2>2, <2>4 DEF SameRolesOn, SameFlags, FlagsOnly
    <2>6. \A u \in Thread \ {t} : SameRolesOn(u, b)
      BY <1>1, OthersKeepRoles DEF SameRoles
    <2>7. \A u \in Thread : HasLock(u, b) => HasClaim(u, b)
      BY RolesRelate
    <2>8. FlagsAt(b) /\ ~Has(b, "LOADING")
      BY <2>3 DEF FlagsInv, FlagsAt
    <2>9. CASE pc[t] # "e_release"
      <3>1. /\ HasClaim(t, b) <=> pc[t] # "e_claim"
            /\ HasClaim(t, b)' <=> pc'[t] # "e_dec"
            /\ HasLock(t, b) <=> pc[t] = "e_unlock"
            /\ HasLock(t, b)' <=> pc'[t] = "e_flush"
        BY <2>0, <2>9 DEF HasClaim, HasLock, Allocs
      <3>2. \A f \in Flag \ {"CLAIMED", "WRITELOCKED"} : Has(b, f)' <=> Has(b, f)
        BY <2>0, <2>9 DEF Has
      <3>3. /\ Has(b, "CLAIMED")' <=> \/ pc'[t] = "e_loading"
                                      \/ Has(b, "CLAIMED") /\ pc[t] # "e_unclaim"
            /\ Has(b, "WRITELOCKED")' <=> \/ pc'[t] = "e_flush"
                                          \/ Has(b, "WRITELOCKED") /\ pc[t] # "e_unlock"
        BY <2>0, <2>9 DEF Has
      <3>4. FlagsAt(b)'
        <4>1. Has(b, "CLAIMED")' <=> \E u \in Thread : HasClaim(u, b)'
          BY <2>0, <2>6, <2>8, <2>9, <3>1, <3>3 DEF FlagsAt, SameRolesOn
        <4>2. Has(b, "WRITELOCKED")' <=> \E u \in Thread : HasLock(u, b)'
          BY <2>0, <2>6, <2>7, <2>8, <2>9, <3>1, <3>3 DEF FlagsAt, SameRolesOn
        <4>3. \A u, v \in Thread : HasClaim(u, b)' /\ HasClaim(v, b)' => u = v
          BY <2>0, <2>6, <2>8, <2>9, <3>1 DEF FlagsAt, SameRolesOn
        <4>4. /\ \A u \in Thread : ~Fills(u, b)' /\ ~Loads(u, b)' /\ ~AllocsIn(u, b)'
              /\ ~Has(b, "LOADING")'
          BY <2>2, <2>3, <2>6, <2>8, <3>2 DEF SameRolesOn, Flag
        <4> QED BY <4>1, <4>2, <4>3, <4>4 DEF FlagsAt
      <3>5. FlagsInv'
        BY <1>1, <2>5, <3>4, FlagsStep
      <3>6. \A e \in Entry : \A f \in Flag \ {"CLAIMED", "WRITELOCKED"} : Has(e, f)' <=> Has(e, f)
        BY <2>0, <3>2 DEF FlagsOnly
      <3>7. /\ pc[t] \notin Staged /\ pc'[t] \notin Staged \cup Valid \cup Flushed \cup {"e_unmap"}
            /\ pc[t] \notin Cleaning
        BY <2>0, <2>9 DEF Staged, Valid, Flushed, Cleaning
      <3>8. MapsInv'
        BY <1>1, <2>1, <3>6, <3>7, MapsKept DEF Flag
      <3>9. ValidInv'
        BY <1>1, <2>1, <3>6, <3>7, ValidKept DEF Flag
      <3>a. WritebackInv'
        BY <1>1, <2>1, <3>6, <3>7, WritebackKept DEF Flag
      <3>b. DataInv'
        BY <1>1, <2>1, <3>6, <3>7, DataKept DEF Flag
      <3> QED BY <3>5, <3>8, <3>9, <3>a, <3>b
    <2>a. CASE pc[t] = "e_release"
      <3>1. pc'[t] = "e_dec" /\ status'[b] = {"FREE"}
        BY <2>0, <2>a
      <3>2. HasClaim(t, b) /\ ~HasClaim(t, b)' /\ ~HasLock(t, b)'
        BY <2>0, <2>a, <3>1 DEF HasClaim, HasLock, Allocs
      <3>3. Alone(t, b)
        BY <3>2, OwnerAlone
      <3>4. /\ Has(b, "FREE")' /\ ~Has(b, "WRITEBACK")' /\ ~Has(b, "CLAIMED")'
            /\ ~Has(b, "WRITELOCKED")' /\ ~Has(b, "LOADING")'
        BY <3>1 DEF Has
      <3>5. FlagsAt(b)'
        BY <1>1, <2>2, <3>2, <3>3, <3>4, FlagsAlone
      <3>6. Unmapped(b) /\ disk_addr[b] = None
        BY <2>0, <2>a DEF MapsInv
      <3>7. /\ pc[t] \notin Cleaning /\ pc'[t] \notin Valid \cup {"e_unmap"}
            /\ pc[t] \notin Staged \ {"e_release"} /\ pc'[t] \notin Staged
        BY <2>a, <3>1 DEF Cleaning, Valid, Staged
      <3>8. pc'[t] \notin {"got", "map"} /\ free_hand[t] = b /\ FlagsOnly(b)
        BY <2>0, <3>1
      <3> QED BY <1>1, <1>4, <2>1, <2>4, <2>5, <3>3, <3>4, <3>5, <3>6, <3>7,
                 <3>8,
                 UnmappedStatus
    <2> QED BY <2>9, <2>a
  <1>11. DrainInv'
    <2>1. disk_addr' = disk_addr
      OBVIOUS
    <2> HIDE DEF EvictFlags
    <2>2. Drained(t)' = 0
      BY <1>2 DEF Drained, PlacesInv
    <2>3. \A e : Harmless(t, e) => Harmless(t, e)'
      BY <1>2 DEF Harmless, Blocked, Trying
    <2> QED BY <1>1, <1>4, <1>8, <2>1, <2>2, <2>3, DrainKept
  <1> QED BY <1>1, <1>2, <1>3, <1>4, <1>5, <1>6, <1>7, <1>8, <1>9, <1>10, <1>11

(* EvictDrain: One more counter shows no reader (DrainAdvance).            *)
LEMMA EvictDrainStep ==
    ASSUME TypeOK, CoreInv, NEW t \in Thread, EvictDrain(t),
           broken = "no", broken' = "no"
    PROVE  TypeOK' /\ CoreInv'
  <1> USE NoneAssumption
          DEF CoreInv, EvictDrain, Goto, NoReader, vars, entryVars, diskVars,
              handVars, callVars
  <1>1. Others(t)
    BY DEF Others, TypeOK, LocalTypeOK
  <1>2. LocalTypeOK'
    BY DEF TypeOK, LocalTypeOK, PlacesInv, Blocked, Trying, Valid, Loading,
           Filling, Evicting, HandTests, Cleaning, EntryPCs, PCs
  <1>3. /\ pc[t] = "e_drain"
        /\ \/ pc'[t] = "e_unlock" /\ scan'[t] = 0
           \/ /\ pc'[t] = "e_drain" /\ scan'[t] = scan[t] + 1
              /\ NoReader(t, free_hand[t], scan[t])
           \/ /\ pc'[t] = "e_verify" /\ scan[t] = RcWidth - 1
              /\ NoReader(t, free_hand[t], scan[t])
        /\ op'[t] = op[t] /\ want'[t] = want[t] /\ ent'[t] = ent[t]
    BY DEF TypeOK, LocalTypeOK, PlacesInv
  <1>4. TypeOK'
    <2>1. scan' \in [Thread -> Slot]
      <3>2. PICK s \in Slot : scan' = [scan EXCEPT ![t] = s]
        BY NextCounter
      <3> QED BY <3>2 DEF TypeOK
    <2> QED BY <2>1 DEF TypeOK
  <1>5. PlacesInv'
    BY DEF TypeOK, LocalTypeOK, PlacesInv, OpsAt, NextPage, Blocked, Trying,
           Valid, Loading, Filling, Evicting, HandTests, Cleaning, EntryPCs,
           PCs
  <1>6. HandsInv'
    BY DEF TypeOK, LocalTypeOK, HandsInv, PlacesInv
  <1>7. UsersInv'
    BY <1>1, <1>4, <1>3, UsersKept DEF PlacesInv, OpsAt
  <1>8. SameRoles(t) /\ RefOf(t)' = RefOf(t)
    BY <1>3
    DEF PlacesInv, RefOf, SameRoles, SameRolesOn, HasClaim, HasLock, Loads,
        Fills, AllocsIn, Allocs, Blocked, Trying, Valid, Loading, Filling,
        Evicting, HandTests, Cleaning, EntryPCs, PCs
  <1>9. CountsInv'
    BY <1>1, <1>8, CountsKept
  <1>10. FlagsInv' /\ MapsInv' /\ WritebackInv' /\ DataInv'
    BY <1>1, <1>4, <1>8, QuietStep
    DEF TypeOK, LocalTypeOK, Has, Staged, Flushed, Cleaning, Flag
  <1>11. ValidInv'
    BY <1>1, <1>4, ValidKept DEF TypeOK, LocalTypeOK, Valid, Has
  <1>12. DrainInv'
    <2>1. free_hand[t] \in Entry /\ RefOf(t) = free_hand[t] /\ ~Harmless(t, free_hand[t])
      BY <1>3
      DEF TypeOK, PlacesInv, RefOf, Harmless, Blocked, Trying, Valid, Loading,
          Filling, Evicting, HandTests, Cleaning, EntryPCs, PCs
    <2>2. \A e \in Entry : HasLock(t, e) => e = free_hand[t]
      BY <1>3 DEF HasLock, Allocs, PlacesInv
    <2>3. CASE pc'[t] # "e_unlock"
      <3>1. /\ Drained(t) = scan[t] /\ scan[t] \in Slot
            /\ Drained(t)' <= scan[t] + 1
        BY <1>3, <2>3, RcWidthAssumption DEF TypeOK, Drained, Slot
      <3> QED BY <1>1, <1>4, <1>3, <1>8, <2>1, <2>2, <2>3, <3>1, DrainAdvance
    <2>4. CASE pc'[t] = "e_unlock"
      <3>1. Drained(t)' = 0
        BY <2>4 DEF Drained
      <3> QED BY <1>1, <1>4, <1>8, <2>1, <3>1, DrainKept
    <2> QED BY <2>3, <2>4
  <1> QED BY <1>1, <1>2, <1>3, <1>4, <1>5, <1>6, <1>7, <1>8, <1>9, <1>10,
             <1>11, <1>12

(* EvictVerify: A clean entry without a claim but the evictor's stays      *)
(* clean under its lock.                                                   *)
LEMMA EvictVerifyStep ==
    ASSUME TypeOK, CoreInv, NEW t \in Thread, EvictVerify(t),
           broken = "no", broken' = "no"
    PROVE  TypeOK' /\ CoreInv'
  <1> USE NoneAssumption
          DEF CoreInv, EvictVerify, Goto, vars, entryVars, diskVars, handVars,
              callVars
  <1>1. Others(t)
    BY DEF Others, TypeOK, LocalTypeOK
  <1>2. LocalTypeOK'
    BY DEF TypeOK, LocalTypeOK, PlacesInv, Blocked, Trying, Valid, Loading,
           Filling, Evicting, HandTests, Cleaning, EntryPCs, PCs
  <1>3. /\ pc[t] = "e_verify" /\ scan' = scan
        /\ \/ pc'[t] = "e_unmap" /\ status[free_hand[t]] = LOCKED_EVICTABLE
           \/ pc'[t] = "e_unlock"
        /\ op'[t] = op[t] /\ want'[t] = want[t] /\ ent'[t] = ent[t]
    BY DEF TypeOK, LocalTypeOK, PlacesInv
  <1>4. TypeOK'
    BY DEF TypeOK, LocalTypeOK, Flag, PlacesInv, Slot, EntryPCs, Filling,
           Loading, Evicting, HandTests
  <1>5. PlacesInv'
    BY <1>1, <1>4, <1>3
    DEF TypeOK, LocalTypeOK, PlacesInv, OpsAt, NextPage, Blocked, Trying,
        Valid, Loading, Filling, Evicting, HandTests, Cleaning, EntryPCs, PCs
  <1>6. HandsInv'
    BY DEF TypeOK, LocalTypeOK, HandsInv, PlacesInv
  <1>7. UsersInv'
    BY <1>1, <1>4, <1>3, UsersKept DEF PlacesInv, OpsAt
  <1>8. SameRoles(t) /\ RefOf(t)' = RefOf(t)
    BY <1>3
    DEF PlacesInv, RefOf, SameRoles, SameRolesOn, HasClaim, HasLock, Loads,
        Fills, AllocsIn, Allocs, Blocked, Trying, Valid, Loading, Filling,
        Evicting, HandTests, Cleaning, EntryPCs, PCs
  <1>9. CountsInv'
    BY <1>1, <1>8, CountsKept
  <1>10. FlagsInv' /\ MapsInv' /\ WritebackInv' /\ DataInv'
    <2>1. /\ pc[t] \notin Staged /\ pc'[t] \notin Staged
          /\ pc[t] \in Flushed /\ pc[t] \notin Cleaning
          /\ pc[t] \notin {"lock_flush", "e_flush"}
      BY <1>3 DEF Staged, Flushed, Cleaning
    <2>2. free_hand'[t] = free_hand[t] /\ free_hand[t] \in Entry
      BY <1>3 DEF TypeOK, PlacesInv, Evicting
    <2>3. pc'[t] = "e_unmap" =>
             Has(free_hand[t], "CLEAN") /\ ~Has(free_hand[t], "LOADING")
      BY <1>3 DEF Has, LOCKED_EVICTABLE
    <2> QED BY <1>1, <1>4, <1>8, <2>1, <2>2, <2>3, QuietStep DEF Has
  <1>11. ValidInv'
    BY <1>1, <1>4, ValidKept DEF TypeOK, LocalTypeOK, Valid, Has
  <1>12. DrainInv'
    <2>1. \A e \in Entry : HasLock(t, e)' /\ Drained(t)' > 0 =>
             HasLock(t, e) /\ Drained(t)' <= Drained(t)
      BY RcWidthAssumption, <1>8, <1>3 DEF Drained, SameRoles, SameRolesOn
    <2>2. \A e \in Entry : RefOf(t)' = e /\ ~Harmless(t, e)' =>
             RefOf(t) = e /\ ~Harmless(t, e)
      BY <1>8, <1>3
      DEF Harmless, Blocked, Trying, RefOf, Blocked, Trying, Valid, Loading,
          Filling, Evicting, HandTests, Cleaning, EntryPCs, PCs
    <2> QED BY <1>1, <1>4, <2>1, <2>2, DrainKept
  <1> QED BY <1>1, <1>2, <1>3, <1>4, <1>5, <1>6, <1>7, <1>8, <1>9, <1>10,
             <1>11, <1>12

(* EvictUnmap: The page that leaves the cache is clean, so that it is      *)
(* saved.                                                                  *)
LEMMA EvictUnmapStep ==
    ASSUME TypeOK, CoreInv, NEW t \in Thread, EvictUnmap(t),
           broken = "no", broken' = "no"
    PROVE  TypeOK' /\ CoreInv'
  <1> USE NoneAssumption
          DEF CoreInv, EvictUnmap, Goto, vars, entryVars, diskVars, handVars,
              callVars
  <1>1. Others(t)
    BY DEF Others, TypeOK, LocalTypeOK
  <1>2. LocalTypeOK'
    BY DEF TypeOK, LocalTypeOK, PlacesInv, Blocked, Trying, Valid, Loading,
           Filling, Evicting, HandTests, Cleaning, EntryPCs, PCs
  <1>3. /\ pc[t] = "e_unmap" /\ pc'[t] = "e_release" /\ free_hand[t] \in Entry
        /\ op[t] # "discard"
        /\ op'[t] = op[t] /\ want'[t] = want[t] /\ ent'[t] = ent[t]
    BY DEF TypeOK, LocalTypeOK, PlacesInv, Evicting, OpsAt
  <1>4. TypeOK'
    BY DEF TypeOK, LocalTypeOK, Flag, PlacesInv, Slot, EntryPCs, Filling,
           Loading, Evicting, HandTests
  <1>5. PlacesInv'
    BY DEF TypeOK, LocalTypeOK, PlacesInv, OpsAt, NextPage, Blocked, Trying,
           Valid, Loading, Filling, Evicting, HandTests, Cleaning, EntryPCs,
           PCs
  <1>6. HandsInv'
    BY DEF TypeOK, LocalTypeOK, HandsInv, PlacesInv
  <1>7. SameRoles(t) /\ RefOf(t)' = RefOf(t) /\ Drained(t)' = Drained(t)
    BY <1>3
    DEF PlacesInv, RefOf, Drained, SameRoles, SameRolesOn, HasClaim, HasLock,
        Loads, Fills, AllocsIn, Allocs, Blocked, Trying, Valid, Loading,
        Filling, Evicting, HandTests, Cleaning, EntryPCs, PCs
  <1>8. CountsInv'
    BY <1>1, <1>7, CountsKept
  <1>9. FlagsInv'
    BY <1>1, <1>7, FlagsKept
    DEF TypeOK, LocalTypeOK, SameFlags, Has, PlacesInv, EntryPCs, Cleanable,
        FREE, ALLOC, READ_LOADING
  <1>10. UsersInv' /\ MapsInv' /\ ValidInv' /\ DrainInv' /\ WritebackInv' /\ DataInv'
    <2>0. PICK b \in Entry : b = free_hand[t]
      BY <1>3
    <2>1. ~Has(b, "LOADING") /\ Has(b, "CLEAN") /\ HasLock(t, b) /\ Drained(t) = RcWidth
      BY <2>0, <1>3 DEF DataInv, HasLock, Drained
    <2>2. /\ disk_addr' = [disk_addr EXCEPT ![b] = None]
          /\ \A q \in Page : lookup'[q] = IF q = disk_addr[b] THEN None ELSE lookup[q]
          /\ UNCHANGED <<status, current, saved, live, span, inflight,
                         op, want, ent, free_hand>>
      BY <2>0 DEF TypeOK
    <2>3. pc[t] = "e_unmap" /\ pc'[t] = "e_release" /\ op[t] # "discard"
      BY <1>3
    <2> HIDE DEF EvictUnmap
    <2>4. \A u \in Thread \ {t} : pc[u] \in Valid => ent[u] # b
      <3> SUFFICES ASSUME NEW u \in Thread \ {t}, pc[u] \in Valid, ent[u] = b
                   PROVE  FALSE
        OBVIOUS
      <3>1. RefOf(u) = b
        BY DEF RefOf, EntryPCs, Valid
      <3>2. SlotOf[u] < Drained(t)
        BY <2>1, DrainedNat
      <3>3. Harmless(u, b)
        BY <2>1, <3>1, <3>2 DEF DrainInv
      <3> QED BY <3>3 DEF Harmless, Valid, Blocked, Trying
    <2>5. MapsInv' /\ ValidInv' /\ DrainInv' /\ WritebackInv' /\ DataInv'
      BY <2>1, <2>2, <2>3, <2>4, <1>1, <1>4, <1>7, UnmapEntry
    <2>6. UsersInv'
      <3>1. \A q \in Page \ live : lookup'[q] \in {lookup[q], None}
        BY <2>2
      <3> QED BY <2>2, <2>3, <3>1, <1>1, <1>4, OwnUsers
    <2> QED BY <2>5, <2>6
  <1> QED BY <1>1, <1>2, <1>3, <1>4, <1>5, <1>6, <1>7, <1>8, <1>9, <1>10

-----------------------------------------------------------------------------
(* The calls, and what a thread does with a page it has.                   *)

(* GetCall: A get of a page that is in use.                                *)
LEMMA GetCallStep ==
    ASSUME TypeOK, CoreInv, NEW t \in Thread, NEW p \in Page, GetCall(t, p),
           broken = "no", broken' = "no"
    PROVE  TypeOK' /\ CoreInv'
  <1> USE NoneAssumption
          DEF CoreInv, GetCall, Goto, vars, entryVars, diskVars, handVars,
              callVars
  <1>1. Others(t)
    BY DEF Others, TypeOK, LocalTypeOK
  <1>2. LocalTypeOK'
    BY DEF TypeOK, LocalTypeOK, PlacesInv, Blocked, Trying, Valid, Loading,
           Filling, Evicting, HandTests, Cleaning, EntryPCs, PCs
  <1>3. TypeOK'
    BY DEF TypeOK, LocalTypeOK, Flag, PlacesInv, Slot, EntryPCs, Filling,
           Loading, Evicting, HandTests
  <1>4. PlacesInv'
    BY DEF TypeOK, LocalTypeOK, PlacesInv, OpsAt, NextPage, Blocked, Trying,
           Valid, Loading, Filling, Evicting, HandTests, Cleaning, EntryPCs,
           PCs
  <1>5. HandsInv'
    BY DEF TypeOK, LocalTypeOK, HandsInv, PlacesInv
  <1>6. UsersInv'
    BY <1>1, <1>3, UsersKept DEF TypeOK, LocalTypeOK, PlacesInv, OpsAt
  <1>7. SameRoles(t) /\ RefOf(t)' = RefOf(t)
    BY DEF TypeOK, LocalTypeOK, PlacesInv, OpsAt, RefOf, SameRoles,
           SameRolesOn, HasClaim, HasLock, Loads, Fills, AllocsIn, Allocs,
           Blocked, Trying, Valid, Loading, Filling, Evicting, HandTests,
           Cleaning, EntryPCs, PCs
  <1>8. CountsInv'
    BY <1>1, <1>7, CountsKept
  <1>9. FlagsInv' /\ MapsInv' /\ WritebackInv' /\ DataInv'
    BY <1>1, <1>3, <1>7, QuietStep
    DEF TypeOK, LocalTypeOK, Has, Staged, Flushed, Cleaning, Flag
  <1>10. ValidInv'
    BY <1>1, <1>3, ValidKept DEF TypeOK, LocalTypeOK, Valid, Has
  <1>11. DrainInv'
    BY <1>1, <1>3, <1>7, DrainKept
    DEF LocalTypeOK, RefOf, Drained, Harmless, HasLock, Allocs, PlacesInv,
        Blocked, Trying, Valid, Loading, Filling, Evicting, HandTests,
        Cleaning, EntryPCs, PCs
  <1> QED BY <1>1, <1>2, <1>3, <1>4, <1>5, <1>6, <1>7, <1>8, <1>9, <1>10, <1>11

(* AllocCall: An alloc of a page that nobody uses.                         *)
LEMMA AllocCallStep ==
    ASSUME TypeOK, CoreInv, NEW t \in Thread, NEW p \in Page, AllocCall(t, p),
           broken = "no", broken' = "no"
    PROVE  TypeOK' /\ CoreInv'
  <1> USE NoneAssumption
          DEF CoreInv, AllocCall, Goto, Unused, vars, entryVars, diskVars,
              handVars, callVars
  <1>1. Others(t)
    BY DEF Others, TypeOK, LocalTypeOK
  <1>2. LocalTypeOK'
    BY DEF TypeOK, LocalTypeOK, PlacesInv, Blocked, Trying, Valid, Loading,
           Filling, Evicting, HandTests, Cleaning, EntryPCs, PCs
  <1>3. TypeOK'
    BY DEF TypeOK, LocalTypeOK, Flag, PlacesInv, Slot, EntryPCs, Filling,
           Loading, Evicting, HandTests
  <1>4. PlacesInv'
    BY DEF TypeOK, LocalTypeOK, PlacesInv, OpsAt, NextPage, Blocked, Trying,
           Valid, Loading, Filling, Evicting, HandTests, Cleaning, EntryPCs,
           PCs
  <1>5. HandsInv'
    BY DEF TypeOK, LocalTypeOK, HandsInv, PlacesInv
  <1>6. UsersInv'
    <2>1. /\ op'[t] = "alloc" /\ want'[t] = p /\ p \notin live /\ op[t] # "discard"
          /\ lookup' = lookup /\ live' = live
          /\ \A u \in Thread : want[u] # p
      BY DEF TypeOK, PlacesInv, OpsAt
    <2> QED BY <1>1, <2>1 DEF UsersInv, Others
  <1>7. SameRoles(t) /\ RefOf(t)' = RefOf(t)
    BY DEF TypeOK, LocalTypeOK, PlacesInv, OpsAt, RefOf, SameRoles,
           SameRolesOn, HasClaim, HasLock, Loads, Fills, AllocsIn, Allocs,
           Blocked, Trying, Valid, Loading, Filling, Evicting, HandTests,
           Cleaning, EntryPCs, PCs
  <1>8. CountsInv'
    BY <1>1, <1>7, CountsKept
  <1>9. FlagsInv' /\ MapsInv' /\ WritebackInv' /\ DataInv'
    BY <1>1, <1>3, <1>7, QuietStep
    DEF TypeOK, LocalTypeOK, Has, Staged, Flushed, Cleaning, Flag
  <1>10. ValidInv'
    BY <1>1, <1>3, ValidKept DEF TypeOK, LocalTypeOK, Valid, Has
  <1>11. DrainInv'
    BY <1>1, <1>3, <1>7, DrainKept
    DEF LocalTypeOK, RefOf, Drained, Harmless, HasLock, Allocs, PlacesInv,
        Blocked, Trying, Valid, Loading, Filling, Evicting, HandTests,
        Cleaning, EntryPCs, PCs
  <1> QED BY <1>1, <1>2, <1>3, <1>4, <1>5, <1>6, <1>7, <1>8, <1>9, <1>10, <1>11

(* DiscardCall: A discard of a page that nobody uses any more.             *)
LEMMA DiscardCallStep ==
    ASSUME TypeOK, CoreInv, NEW t \in Thread, NEW p \in Page, DiscardCall(t, p),
           broken = "no", broken' = "no"
    PROVE  TypeOK' /\ CoreInv'
  <1> USE NoneAssumption
          DEF CoreInv, DiscardCall, Goto, Unused, vars, entryVars, diskVars,
              handVars, callVars
  <1>1. Others(t)
    BY DEF Others, TypeOK, LocalTypeOK
  <1>2. LocalTypeOK'
    BY DEF TypeOK, LocalTypeOK, PlacesInv, Blocked, Trying, Valid, Loading,
           Filling, Evicting, HandTests, Cleaning, EntryPCs, PCs
  <1>3. TypeOK'
    BY DEF TypeOK, LocalTypeOK, Flag, PlacesInv, Slot, EntryPCs, Filling,
           Loading, Evicting, HandTests
  <1>4. PlacesInv'
    BY DEF TypeOK, LocalTypeOK, PlacesInv, OpsAt, NextPage, Blocked, Trying,
           Valid, Loading, Filling, Evicting, HandTests, Cleaning, EntryPCs,
           PCs
  <1>5. HandsInv'
    BY DEF TypeOK, LocalTypeOK, HandsInv, PlacesInv
  <1>6. UsersInv'
    <2>1. /\ op'[t] = "discard" /\ want'[t] = p /\ pc'[t] = "lookup" /\ op[t] # "discard"
          /\ lookup' = lookup /\ live' = live \ {p} /\ p \in live
          /\ \A u \in Thread : want[u] # p
      BY DEF TypeOK, LocalTypeOK, PlacesInv, OpsAt
    <2>2. \A u \in Thread \ {t} : /\ pc'[u] = pc[u] /\ op'[u] = op[u]
                                  /\ want'[u] = want[u]
      BY <1>1 DEF Others
    <2>3. \A q \in Page \ live' : lookup'[q] = None \/ \E u \in Thread :
             op'[u] = "discard" /\ want'[u] = q /\ pc'[u] \notin {"d_release", "d_dec"}
      <3> SUFFICES ASSUME NEW q \in Page \ live'
                   PROVE  lookup[q] = None \/ \E u \in Thread :
                             /\ op'[u] = "discard" /\ want'[u] = q
                             /\ pc'[u] \notin {"d_release", "d_dec"}
        BY <2>1
      <3>1. CASE q = p
        BY <2>1, <3>1
      <3>2. CASE q \notin live /\ lookup[q] # None
        <4>1. PICK u \in Thread : /\ op[u] = "discard" /\ want[u] = q
                                  /\ pc[u] \notin {"d_release", "d_dec"}
          BY <3>2 DEF UsersInv
        <4> QED BY <2>1, <2>2, <4>1
      <3> QED BY <2>1, <3>1, <3>2
    <2> HIDE DEF DiscardCall
    <2> QED BY <2>1, <2>2, <2>3 DEF UsersInv
  <1>7. SameRoles(t) /\ RefOf(t)' = RefOf(t)
    BY DEF TypeOK, LocalTypeOK, PlacesInv, OpsAt, RefOf, SameRoles,
           SameRolesOn, HasClaim, HasLock, Loads, Fills, AllocsIn, Allocs,
           Blocked, Trying, Valid, Loading, Filling, Evicting, HandTests,
           Cleaning, EntryPCs, PCs
  <1>8. CountsInv'
    BY <1>1, <1>7, CountsKept
  <1>9. FlagsInv' /\ MapsInv' /\ WritebackInv' /\ DataInv'
    BY <1>1, <1>3, <1>7, QuietStep
    DEF TypeOK, LocalTypeOK, Has, Staged, Flushed, Cleaning, Flag
  <1>10. ValidInv'
    BY <1>1, <1>3, ValidKept DEF TypeOK, LocalTypeOK, Valid, Has
  <1>11. DrainInv'
    BY <1>1, <1>3, <1>7, DrainKept
    DEF LocalTypeOK, RefOf, Drained, Harmless, HasLock, Allocs, PlacesInv,
        Blocked, Trying, Valid, Loading, Filling, Evicting, HandTests,
        Cleaning, EntryPCs, PCs
  <1> QED BY <1>1, <1>2, <1>3, <1>4, <1>5, <1>6, <1>7, <1>8, <1>9, <1>10, <1>11

(* Unget: The reference leaves the count.                                  *)
LEMMA UngetStep ==
    ASSUME TypeOK, CoreInv, NEW t \in Thread, Unget(t),
           broken = "no", broken' = "no"
    PROVE  TypeOK' /\ CoreInv'
  <1> USE NoneAssumption
          DEF CoreInv, Unget, Goto, SetFlags, Return, vars, entryVars,
              diskVars, handVars, callVars
  <1>1. Others(t)
    BY DEF Others, TypeOK, LocalTypeOK
  <1>2. LocalTypeOK'
    BY DEF TypeOK, LocalTypeOK, PlacesInv, Blocked, Trying, Valid, Loading,
           Filling, Evicting, HandTests, Cleaning, EntryPCs, PCs
  <1>3. SameRoles(t)
    BY DEF TypeOK, LocalTypeOK, PlacesInv, OpsAt, SameRoles, SameRolesOn,
           HasClaim, HasLock, Loads, Fills, AllocsIn, Allocs, Blocked, Trying,
           Valid, Loading, Filling, Evicting, HandTests, Cleaning, EntryPCs,
           PCs
  <1>4. ent[t] \in Entry /\ RefOf(t) = ent[t] /\ RefOf(t)' = None
    BY DEF TypeOK, LocalTypeOK, PlacesInv, RefOf, Blocked, Trying, Valid,
           Loading, Filling, Evicting, HandTests, Cleaning, EntryPCs, PCs
  <1>5. CountsInv' /\ refcount' \in [Entry -> [Slot -> Nat]]
    BY <1>1, <1>4, OthersKeepRoles, CountsDec, SlotAssumption
  <1>6. TypeOK'
    BY <1>5
    DEF TypeOK, LocalTypeOK, Flag, PlacesInv, Slot, EntryPCs, Filling, Loading,
        Evicting, HandTests
  <1>7. PlacesInv'
    BY DEF TypeOK, LocalTypeOK, PlacesInv, OpsAt, NextPage, Blocked, Trying,
           Valid, Loading, Filling, Evicting, HandTests, Cleaning, EntryPCs,
           PCs
  <1>8. HandsInv'
    BY DEF TypeOK, LocalTypeOK, HandsInv, PlacesInv
  <1>9. UsersInv'
    <2>1. /\ op[t] # "discard" /\ op'[t] = "none" /\ want'[t] = None
      BY DEF TypeOK, PlacesInv, OpsAt
    <2> QED BY <1>1, <1>6, <2>1, UsersKept
  <1>10. FlagsInv' /\ MapsInv' /\ WritebackInv' /\ DataInv'
    <2>1. /\ pc[t] \notin Staged /\ pc'[t] \notin Staged \cup {"e_unmap"}
          /\ pc[t] \notin {"lock_flush", "e_flush"} /\ pc'[t] \notin Flushed
          /\ pc[t] \in Cleaning \ {"clean"} => pc'[t] \in Cleaning \ {"clean"}
      BY DEF LocalTypeOK, Staged, Flushed, Cleaning
    <2>2. \A e \in Entry : \A f \in Flag \ {"ACCESSED"} : Has(e, f)' <=> Has(e, f)
      BY DEF Has, TypeOK
    <2> QED BY <1>1, <1>6, <1>3, <2>1, <2>2, QuietStep
  <1>11. ValidInv'
    <2>1. pc'[t] \in Valid => pc[t] \in Valid /\ ent'[t] = ent[t] /\ want'[t] = want[t]
      BY DEF TypeOK, LocalTypeOK, Valid
    <2> QED BY <1>1, <2>1, ValidKept DEF Has
  <1>12. DrainInv'
    BY <1>1, <1>6, <1>4, DrainKept
    DEF LocalTypeOK, Drained, Harmless, HasLock, Allocs, PlacesInv, Blocked,
        Trying, Valid, Loading, Filling, Evicting, HandTests, Cleaning,
        EntryPCs, PCs
  <1> QED BY <1>1, <1>2, <1>3, <1>4, <1>5, <1>6, <1>7, <1>8, <1>9, <1>10,
             <1>11, <1>12

(* TryClaim: The claim is the thread's as the flag was clear.              *)
LEMMA TryClaimStep ==
    ASSUME TypeOK, CoreInv, NEW t \in Thread, TryClaim(t),
           broken = "no", broken' = "no"
    PROVE  TypeOK' /\ CoreInv'
  <1> USE NoneAssumption
          DEF CoreInv, TryClaim, Goto, SetFlags, vars, entryVars, diskVars,
              handVars, callVars
  <1>1. Others(t)
    BY DEF Others, TypeOK, LocalTypeOK
  <1>2. LocalTypeOK'
    BY DEF TypeOK, LocalTypeOK, PlacesInv, Blocked, Trying, Valid, Loading,
           Filling, Evicting, HandTests, Cleaning, EntryPCs, PCs
  <1>3. /\ pc[t] = "held" /\ pc'[t] = "claimed" /\ op'[t] = op[t] /\ want'[t] = want[t] /\ ent'[t] = ent[t]
    BY DEF TypeOK, LocalTypeOK, PlacesInv
  <1>4. TypeOK'
    BY DEF TypeOK, LocalTypeOK, Flag, PlacesInv, Slot, EntryPCs, Filling,
           Loading, Evicting, HandTests
  <1>5. PlacesInv'
    BY DEF TypeOK, LocalTypeOK, PlacesInv, OpsAt, NextPage, Blocked, Trying,
           Valid, Loading, Filling, Evicting, HandTests, Cleaning, EntryPCs,
           PCs
  <1>6. HandsInv'
    BY DEF TypeOK, LocalTypeOK, HandsInv, PlacesInv
  <1>7. UsersInv'
    BY <1>1, <1>4, <1>3, UsersKept DEF PlacesInv, OpsAt
  <1>8. /\ ent[t] \in Entry /\ RefOf(t)' = RefOf(t)
        /\ \A e \in Entry \ {ent[t]} : SameRolesOn(t, e)
        /\ \A e \in Entry : e = ent[t] =>
              /\ HasClaim(t, e) = FALSE /\ HasClaim(t, e)' = TRUE
              /\ HasLock(t, e) = FALSE /\ HasLock(t, e)' = FALSE
              /\ ~Fills(t, e) /\ ~Fills(t, e)' /\ ~Loads(t, e) /\ ~Loads(t, e)'
              /\ ~AllocsIn(t, e) /\ ~AllocsIn(t, e)'
    BY <1>3
    DEF TypeOK, PlacesInv, RefOf, SameRoles, SameRolesOn, HasClaim, HasLock,
        Loads, Fills, AllocsIn, Allocs, Blocked, Trying, Valid, Loading,
        Filling, Evicting, HandTests, Cleaning, EntryPCs, PCs
  <1>9. CountsInv'
    BY <1>1, <1>8, CountsKept
  <1>10. FlagsInv'
    <2> DEFINE b == ent[t]
    <2>1. \A e \in Entry \ {b} : SameFlags(e)
      BY DEF SameFlags, Has, TypeOK
    <2>2. \A u \in Thread \ {t} : SameRolesOn(u, b)
      BY <1>1, <1>8, OthersKeepRoles DEF SameRoles
    <2>3. \A f \in Flag \ {"CLAIMED"} : f \in status'[b] <=> f \in status[b]
      BY <1>8 DEF TypeOK
    <2>4. "CLAIMED" \notin status[b] /\ "CLAIMED" \in status'[b]
      BY <1>8 DEF TypeOK, Has
    <2>5. FlagsAt(b)
      BY <1>8 DEF FlagsInv
    <2>a. \A u \in Thread : Fills(u, b) => Loads(u, b) \/ HasClaim(u, b)
      BY RolesRelate
    <2>b. "LOADING" \notin status[b]
      BY <1>3 DEF ValidInv, Valid, Has
    <2>6. FlagsAt(b)'
      BY <1>8, <2>2, <2>3, <2>4, <2>5, <2>a, <2>b
      DEF FlagsAt, SameRolesOn, Has, Flag
    <2> QED BY <1>1, <1>8, <2>1, <2>6, FlagsStep
  <1>11. MapsInv'
    BY <1>1, MapsKept
    DEF TypeOK, LocalTypeOK, Has, Staged, FREE, ALLOC, READ_LOADING, PlacesInv
  <1>12. ValidInv'
    BY <1>1, <1>4, ValidKept DEF TypeOK, LocalTypeOK, Valid, Has
  <1>13. DrainInv'
    BY <1>1, <1>4, <1>8, DrainKept
    DEF LocalTypeOK, RefOf, Drained, Harmless, HasLock, Allocs, PlacesInv,
        Blocked, Trying, Valid, Loading, Filling, Evicting, HandTests,
        Cleaning, EntryPCs, PCs
  <1>14. WritebackInv'
    BY <1>1, WritebackKept
    DEF TypeOK, LocalTypeOK, Has, HasLock, Allocs, Flushed, Cleaning,
        PlacesInv, FREE, ALLOC, READ_LOADING
  <1>15. DataInv'
    BY <1>1, DataKept
    DEF TypeOK, LocalTypeOK, Has, PlacesInv, FREE, ALLOC, READ_LOADING
  <1> QED BY <1>1, <1>2, <1>3, <1>4, <1>5, <1>6, <1>7, <1>8, <1>9, <1>10,
             <1>11, <1>12, <1>13, <1>14, <1>15

(* Unclaim: The thread had the only claim.                                 *)
LEMMA UnclaimStep ==
    ASSUME TypeOK, CoreInv, NEW t \in Thread, Unclaim(t),
           broken = "no", broken' = "no"
    PROVE  TypeOK' /\ CoreInv'
  <1> USE NoneAssumption
          DEF CoreInv, Unclaim, Goto, ClearFlags, vars, entryVars, diskVars,
              handVars, callVars
  <1>1. Others(t)
    BY DEF Others, TypeOK, LocalTypeOK
  <1>2. LocalTypeOK'
    BY DEF TypeOK, LocalTypeOK, PlacesInv, Blocked, Trying, Valid, Loading,
           Filling, Evicting, HandTests, Cleaning, EntryPCs, PCs
  <1>3. /\ pc[t] = "claimed" /\ pc'[t] = "held" /\ op'[t] = op[t] /\ want'[t] = want[t] /\ ent'[t] = ent[t]
    BY DEF TypeOK, LocalTypeOK, PlacesInv
  <1>4. TypeOK'
    BY DEF TypeOK, LocalTypeOK, Flag, PlacesInv, Slot, EntryPCs, Filling,
           Loading, Evicting, HandTests
  <1>5. PlacesInv'
    BY DEF TypeOK, LocalTypeOK, PlacesInv, OpsAt, NextPage, Blocked, Trying,
           Valid, Loading, Filling, Evicting, HandTests, Cleaning, EntryPCs,
           PCs
  <1>6. HandsInv'
    BY DEF TypeOK, LocalTypeOK, HandsInv, PlacesInv
  <1>7. UsersInv'
    BY <1>1, <1>4, <1>3, UsersKept DEF PlacesInv, OpsAt
  <1>8. /\ ent[t] \in Entry /\ RefOf(t)' = RefOf(t)
        /\ \A e \in Entry \ {ent[t]} : SameRolesOn(t, e)
        /\ \A e \in Entry : e = ent[t] =>
              /\ HasClaim(t, e) = TRUE /\ HasClaim(t, e)' = FALSE
              /\ HasLock(t, e) = FALSE /\ HasLock(t, e)' = FALSE
              /\ ~Fills(t, e) /\ ~Fills(t, e)' /\ ~Loads(t, e) /\ ~Loads(t, e)'
              /\ ~AllocsIn(t, e) /\ ~AllocsIn(t, e)'
    BY <1>3
    DEF TypeOK, PlacesInv, RefOf, SameRoles, SameRolesOn, HasClaim, HasLock,
        Loads, Fills, AllocsIn, Allocs, Blocked, Trying, Valid, Loading,
        Filling, Evicting, HandTests, Cleaning, EntryPCs, PCs
  <1>9. CountsInv'
    BY <1>1, <1>8, CountsKept
  <1>10. FlagsInv'
    <2> DEFINE b == ent[t]
    <2>1. \A e \in Entry \ {b} : SameFlags(e)
      BY DEF SameFlags, Has, TypeOK
    <2>2. \A u \in Thread \ {t} : SameRolesOn(u, b)
      BY <1>1, <1>8, OthersKeepRoles DEF SameRoles
    <2>3. \A f \in Flag \ {"CLAIMED"} : f \in status'[b] <=> f \in status[b]
      BY <1>8 DEF TypeOK
    <2>4. "CLAIMED" \notin status'[b]
      BY <1>8 DEF TypeOK
    <2>5. FlagsAt(b)
      BY <1>8 DEF FlagsInv
    <2>6. FlagsAt(b)'
      BY <1>8, <2>2, <2>3, <2>4, <2>5 DEF FlagsAt, SameRolesOn, Has, Flag
    <2> QED BY <1>1, <1>8, <2>1, <2>6, FlagsStep
  <1>11. MapsInv'
    BY <1>1, MapsKept
    DEF TypeOK, LocalTypeOK, Has, Staged, FREE, ALLOC, READ_LOADING, PlacesInv
  <1>12. ValidInv'
    BY <1>1, <1>4, ValidKept DEF TypeOK, LocalTypeOK, Valid, Has
  <1>13. DrainInv'
    BY <1>1, <1>4, <1>8, DrainKept
    DEF LocalTypeOK, RefOf, Drained, Harmless, HasLock, Allocs, PlacesInv,
        Blocked, Trying, Valid, Loading, Filling, Evicting, HandTests,
        Cleaning, EntryPCs, PCs
  <1>14. WritebackInv'
    BY <1>1, WritebackKept
    DEF TypeOK, LocalTypeOK, Has, HasLock, Allocs, Flushed, Cleaning,
        PlacesInv, FREE, ALLOC, READ_LOADING
  <1>15. DataInv'
    BY <1>1, DataKept
    DEF TypeOK, LocalTypeOK, Has, PlacesInv, FREE, ALLOC, READ_LOADING
  <1> QED BY <1>1, <1>2, <1>3, <1>4, <1>5, <1>6, <1>7, <1>8, <1>9, <1>10,
             <1>11, <1>12, <1>13, <1>14, <1>15

(* LockSet: The owner of the claim sets the lock.                          *)
LEMMA LockSetStep ==
    ASSUME TypeOK, CoreInv, NEW t \in Thread, LockSet(t),
           broken = "no", broken' = "no"
    PROVE  TypeOK' /\ CoreInv'
  <1> USE NoneAssumption
          DEF CoreInv, LockSet, Goto, SetFlags, vars, entryVars, diskVars,
              handVars, callVars
  <1>1. Others(t)
    BY DEF Others, TypeOK, LocalTypeOK
  <1>2. LocalTypeOK'
    BY DEF TypeOK, LocalTypeOK, PlacesInv, Blocked, Trying, Valid, Loading,
           Filling, Evicting, HandTests, Cleaning, EntryPCs, PCs
  <1>3. /\ pc[t] \in {"claimed", "d_lock"} /\ pc'[t] = "lock_flush"
        /\ op'[t] = op[t] /\ want'[t] = want[t] /\ ent'[t] = ent[t]
    BY DEF TypeOK, LocalTypeOK, PlacesInv
  <1>4. TypeOK'
    BY DEF TypeOK, LocalTypeOK, Flag, PlacesInv, Slot, EntryPCs, Filling,
           Loading, Evicting, HandTests
  <1>5. PlacesInv'
    BY DEF TypeOK, LocalTypeOK, PlacesInv, OpsAt, NextPage, Blocked, Trying,
           Valid, Loading, Filling, Evicting, HandTests, Cleaning, EntryPCs,
           PCs
  <1>6. HandsInv'
    BY DEF TypeOK, LocalTypeOK, HandsInv, PlacesInv
  <1>7. UsersInv'
    BY <1>1, <1>4, <1>3, UsersKept DEF PlacesInv, OpsAt
  <1>8. /\ ent[t] \in Entry /\ RefOf(t)' = RefOf(t)
        /\ \A e \in Entry \ {ent[t]} : SameRolesOn(t, e)
        /\ \A e \in Entry : e = ent[t] =>
              /\ HasClaim(t, e) = TRUE /\ HasClaim(t, e)' = TRUE
              /\ HasLock(t, e) = FALSE /\ HasLock(t, e)' = TRUE
              /\ ~Fills(t, e) /\ ~Fills(t, e)' /\ ~Loads(t, e) /\ ~Loads(t, e)'
              /\ ~AllocsIn(t, e) /\ ~AllocsIn(t, e)'
    BY <1>3
    DEF TypeOK, PlacesInv, RefOf, SameRoles, SameRolesOn, HasClaim, HasLock,
        Loads, Fills, AllocsIn, Allocs, Blocked, Trying, Valid, Loading,
        Filling, Evicting, HandTests, Cleaning, EntryPCs, PCs
  <1>9. CountsInv'
    BY <1>1, <1>8, CountsKept
  <1>10. FlagsInv'
    <2> DEFINE b == ent[t]
    <2>1. \A e \in Entry \ {b} : SameFlags(e)
      BY DEF SameFlags, Has, TypeOK
    <2>2. \A u \in Thread \ {t} : SameRolesOn(u, b)
      BY <1>1, <1>8, OthersKeepRoles DEF SameRoles
    <2>3. \A f \in Flag \ {"WRITELOCKED"} : f \in status'[b] <=> f \in status[b]
      BY <1>8 DEF TypeOK
    <2>4. "WRITELOCKED" \in status'[b]
      BY <1>8 DEF TypeOK
    <2>5. FlagsAt(b)
      BY <1>8 DEF FlagsInv
    <2>6. FlagsAt(b)'
      BY <1>8, <2>2, <2>3, <2>4, <2>5 DEF FlagsAt, SameRolesOn, Has, Flag
    <2> QED BY <1>1, <1>8, <2>1, <2>6, FlagsStep
  <1>11. MapsInv'
    BY <1>1, MapsKept
    DEF TypeOK, LocalTypeOK, Has, Staged, FREE, ALLOC, READ_LOADING, PlacesInv
  <1>12. ValidInv'
    BY <1>1, <1>4, ValidKept DEF TypeOK, LocalTypeOK, Valid, Has
  <1>13. DrainInv'
    BY <1>1, <1>4, <1>8, DrainKept
    DEF LocalTypeOK, RefOf, Drained, Harmless, HasLock, Allocs, PlacesInv,
        Blocked, Trying, Valid, Loading, Filling, Evicting, HandTests,
        Cleaning, EntryPCs, PCs
  <1>14. WritebackInv'
    BY <1>1, WritebackKept
    DEF TypeOK, LocalTypeOK, Has, HasLock, Allocs, Flushed, Cleaning,
        PlacesInv, FREE, ALLOC, READ_LOADING
  <1>15. DataInv'
    BY <1>1, DataKept
    DEF TypeOK, LocalTypeOK, Has, PlacesInv, FREE, ALLOC, READ_LOADING
  <1> QED BY <1>1, <1>2, <1>3, <1>4, <1>5, <1>6, <1>7, <1>8, <1>9, <1>10,
             <1>11, <1>12, <1>13, <1>14, <1>15

(* MarkDirty: A write back has ended, and none starts of a locked entry.   *)
LEMMA MarkDirtyStep ==
    ASSUME TypeOK, CoreInv, NEW t \in Thread, MarkDirty(t),
           broken = "no", broken' = "no"
    PROVE  TypeOK' /\ CoreInv'
  <1> USE NoneAssumption
          DEF CoreInv, MarkDirty, Goto, ClearFlags, vars, entryVars, diskVars,
              handVars, callVars
  <1>1. Others(t)
    BY DEF Others, TypeOK, LocalTypeOK
  <1>2. LocalTypeOK'
    BY DEF TypeOK, LocalTypeOK, PlacesInv, Blocked, Trying, Valid, Loading,
           Filling, Evicting, HandTests, Cleaning, EntryPCs, PCs
  <1>3. /\ pc[t] = "write" /\ pc'[t] = "write" /\ ent[t] \in Entry
        /\ status' = [status EXCEPT ![ent[t]] = @ \ {"CLEAN"}]
        /\ op'[t] = op[t] /\ want'[t] = want[t] /\ ent'[t] = ent[t]
    BY DEF TypeOK, LocalTypeOK, PlacesInv, EntryPCs, Valid
  <1>4. TypeOK'
    BY DEF TypeOK, LocalTypeOK, Flag, PlacesInv, Slot, EntryPCs, Filling,
           Loading, Evicting, HandTests
  <1>5. PlacesInv'
    BY DEF TypeOK, LocalTypeOK, PlacesInv, OpsAt, NextPage, Blocked, Trying,
           Valid, Loading, Filling, Evicting, HandTests, Cleaning, EntryPCs,
           PCs
  <1>6. HandsInv'
    BY DEF TypeOK, LocalTypeOK, HandsInv, PlacesInv
  <1>7. UsersInv'
    BY <1>1, <1>4, <1>3, UsersKept DEF PlacesInv, OpsAt
  <1>8. SameRoles(t) /\ RefOf(t)' = RefOf(t)
    BY DEF TypeOK, LocalTypeOK, PlacesInv, OpsAt, RefOf, SameRoles,
           SameRolesOn, HasClaim, HasLock, Loads, Fills, AllocsIn, Allocs,
           Blocked, Trying, Valid, Loading, Filling, Evicting, HandTests,
           Cleaning, EntryPCs, PCs
  <1>9. CountsInv'
    BY <1>1, <1>8, CountsKept
  <1>10. FlagsInv'
    <2> DEFINE b == ent[t]
    <2>1. \A e \in Entry \ {b} : SameFlags(e)
      BY DEF SameFlags, Has, TypeOK
    <2>2. \A u \in Thread : SameRolesOn(u, b)
      BY <1>1, <1>3, <1>8, OthersKeepRoles DEF SameRoles
    <2>3. \A f \in Flag \ {"CLEAN"} : f \in status'[b] <=> f \in status[b]
      BY <1>3 DEF TypeOK
    <2>4. "CLEAN" \notin status'[b]
      BY <1>3 DEF TypeOK
    <2>5. \A u \in Thread : ~Loads(u, b)
      BY <1>3 DEF ValidInv, Valid, FlagsInv, FlagsAt
    <2>6. FlagsAt(b)
      BY <1>3 DEF FlagsInv
    <2>7. FlagsAt(b)'
      BY <2>2, <2>3, <2>4, <2>5, <2>6 DEF FlagsAt, SameRolesOn, Has, Flag
    <2> QED BY <1>1, <1>8, <2>1, <2>7, FlagsStep DEF SameRoles
  <1>11. MapsInv'
    BY <1>1, MapsKept
    DEF TypeOK, LocalTypeOK, Has, Staged, FREE, ALLOC, READ_LOADING, PlacesInv
  <1>12. ValidInv'
    BY <1>1, <1>4, ValidKept DEF TypeOK, LocalTypeOK, Valid, Has
  <1>13. DrainInv'
    <2>1. \A e \in Entry : HasLock(t, e)' /\ Drained(t)' > 0 =>
             HasLock(t, e) /\ Drained(t)' <= Drained(t)
      BY RcWidthAssumption, <1>8, <1>3 DEF Drained, SameRoles, SameRolesOn
    <2>2. \A e \in Entry : RefOf(t)' = e /\ ~Harmless(t, e)' =>
             RefOf(t) = e /\ ~Harmless(t, e)
      BY <1>8, <1>3
      DEF Harmless, Blocked, Trying, RefOf, Blocked, Trying, Valid, Loading,
          Filling, Evicting, HandTests, Cleaning, EntryPCs, PCs
    <2> QED BY <1>1, <1>4, <2>1, <2>2, DrainKept
  <1>14. WritebackInv'
    BY <1>1, WritebackKept
    DEF TypeOK, LocalTypeOK, Has, HasLock, Allocs, Flushed, Cleaning,
        PlacesInv, FREE, ALLOC, READ_LOADING
  <1>15. DataInv'
    <2>1. HasClaim(t, ent[t])
      BY <1>3 DEF HasClaim
    <2>2. \A u \in Thread : pc[u] = "e_unmap" => HasClaim(u, free_hand[u]) /\ free_hand[u] \in Entry
      BY DEF HasClaim, TypeOK, PlacesInv, Evicting
    <2>3. \A u \in Thread : pc[u] = "e_unmap" => free_hand[u] # ent[t]
      BY <1>3, <2>1, <2>2 DEF FlagsInv, FlagsAt
    <2>4. \A u \in Thread : pc'[u] = pc[u] /\ free_hand'[u] = free_hand[u]
      BY <1>1, <1>3 DEF Others
    <2>5. \A e \in Entry :
             /\ Has(e, "LOADING")' <=> Has(e, "LOADING")
             /\ Has(e, "CLEAN")' => Has(e, "CLEAN")
             /\ e # ent[t] => (Has(e, "CLEAN")' <=> Has(e, "CLEAN"))
      BY <1>3 DEF Has, TypeOK
    <2> HIDE DEF MarkDirty
    <2>6. UNCHANGED <<disk_addr, lookup, current, saved, live>>
      BY DEF MarkDirty
    <2>7. \A p \in Page : lookup[p] # None => lookup[p] \in Entry
      BY DEF TypeOK
    <2>8. \A p \in live' : saved'[p] \/ (/\ lookup'[p] # None /\ disk_addr'[lookup'[p]] = p
                                         /\ ~Has(lookup[p], "CLEAN")')
      BY <2>5, <2>6, <2>7 DEF DataInv, TypeOK
    <2>9. \A e \in Entry : Mapped(e)' /\ ~Has(e, "LOADING")' => current'[e]
      BY <2>5, <2>6 DEF DataInv, Mapped
    <2> QED BY <2>2, <2>3, <2>4, <2>5, <2>6, <2>8, <2>9 DEF DataInv
  <1> QED BY <1>1, <1>2, <1>3, <1>4, <1>5, <1>6, <1>7, <1>8, <1>9, <1>10,
             <1>11, <1>12, <1>13, <1>14, <1>15

(* Write: Memory is newer than the disk; the entry is dirty.               *)
LEMMA WriteStep ==
    ASSUME TypeOK, CoreInv, NEW t \in Thread, Write(t),
           broken = "no", broken' = "no"
    PROVE  TypeOK' /\ CoreInv'
  <1> USE NoneAssumption
          DEF CoreInv, Write, Goto, vars, entryVars, diskVars, handVars,
              callVars
  <1>1. Others(t)
    BY DEF Others, TypeOK, LocalTypeOK
  <1>2. LocalTypeOK'
    BY DEF TypeOK, LocalTypeOK, PlacesInv, Blocked, Trying, Valid, Loading,
           Filling, Evicting, HandTests, Cleaning, EntryPCs, PCs
  <1>3. /\ pc[t] = "write" /\ pc' = pc /\ ent[t] \in Entry /\ want[t] \in Page
        /\ pc'[t] = "write"
        /\ op'[t] = op[t] /\ want'[t] = want[t] /\ ent'[t] = ent[t]
    BY DEF TypeOK, LocalTypeOK, PlacesInv, EntryPCs, Valid
  <1>4. TypeOK'
    BY DEF TypeOK, LocalTypeOK, Flag, PlacesInv, Slot, EntryPCs, Filling,
           Loading, Evicting, HandTests
  <1>5. PlacesInv'
    BY DEF TypeOK, LocalTypeOK, PlacesInv, OpsAt, NextPage, Blocked, Trying,
           Valid, Loading, Filling, Evicting, HandTests, Cleaning, EntryPCs,
           PCs
  <1>6. HandsInv'
    BY DEF TypeOK, LocalTypeOK, HandsInv, PlacesInv
  <1>7. UsersInv'
    BY <1>1, <1>4, <1>3, UsersKept DEF PlacesInv, OpsAt
  <1>8. SameRoles(t) /\ RefOf(t)' = RefOf(t)
    BY DEF TypeOK, LocalTypeOK, PlacesInv, OpsAt, RefOf, SameRoles,
           SameRolesOn, HasClaim, HasLock, Loads, Fills, AllocsIn, Allocs,
           Blocked, Trying, Valid, Loading, Filling, Evicting, HandTests,
           Cleaning, EntryPCs, PCs
  <1>9. CountsInv'
    BY <1>1, <1>8, CountsKept
  <1>10. FlagsInv'
    BY <1>1, <1>8, FlagsKept
    DEF TypeOK, LocalTypeOK, SameFlags, Has, PlacesInv, EntryPCs, Cleanable,
        FREE, ALLOC, READ_LOADING
  <1>11. MapsInv'
    BY <1>1, MapsKept
    DEF TypeOK, LocalTypeOK, Has, Staged, FREE, ALLOC, READ_LOADING, PlacesInv
  <1>12. ValidInv'
    BY <1>1, <1>4, ValidKept DEF TypeOK, LocalTypeOK, Valid, Has
  <1>13. DrainInv'
    <2>1. \A e \in Entry : HasLock(t, e)' /\ Drained(t)' > 0 =>
             HasLock(t, e) /\ Drained(t)' <= Drained(t)
      BY RcWidthAssumption, <1>8, <1>3 DEF Drained, SameRoles, SameRolesOn
    <2>2. \A e \in Entry : RefOf(t)' = e /\ ~Harmless(t, e)' =>
             RefOf(t) = e /\ ~Harmless(t, e)
      BY <1>8, <1>3
      DEF Harmless, Blocked, Trying, RefOf, Blocked, Trying, Valid, Loading,
          Filling, Evicting, HandTests, Cleaning, EntryPCs, PCs
    <2> QED BY <1>1, <1>4, <2>1, <2>2, DrainKept
  <1>14. WritebackInv'
    BY <1>1, WritebackKept
    DEF TypeOK, LocalTypeOK, Has, HasLock, Allocs, Flushed, Cleaning,
        PlacesInv, FREE, ALLOC, READ_LOADING
  <1>15. DataInv'
    <2>1. /\ disk_addr[ent[t]] = want[t] /\ lookup[want[t]] = ent[t]
          /\ ~Has(ent[t], "CLEAN") /\ ent[t] # None
      BY <1>3 DEF ValidInv, Valid
    <2>2. \A e \in Entry : Mapped(e) /\ ~Has(e, "LOADING") => current'[e]
      <3> SUFFICES ASSUME NEW e \in Entry, Mapped(e), ~Has(e, "LOADING")
                   PROVE  current'[e]
        OBVIOUS
      <3>1. current'[e] = (e = ent[t] \/ (disk_addr[e] # want[t] /\ current[e]))
        BY DEF Write
      <3>2. current[e]
        BY DEF DataInv
      <3>3. e = ent[t] \/ disk_addr[e] # want[t]
        BY <2>1 DEF Mapped
      <3> HIDE DEF Write
      <3> QED BY <3>1, <3>2, <3>3
    <2>3. \A p \in live : saved'[p] \/ (/\ lookup[p] # None /\ disk_addr[lookup[p]] = p
                                        /\ ~Has(lookup[p], "CLEAN"))
      BY <2>1, <1>3 DEF DataInv, TypeOK
    <2>4. UNCHANGED <<status, disk_addr, lookup, live, pc, free_hand>>
      OBVIOUS
    <2> HIDE DEF Write
    <2> QED BY <2>2, <2>3, <2>4 DEF DataInv, Mapped, Has
  <1> QED BY <1>1, <1>2, <1>3, <1>4, <1>5, <1>6, <1>7, <1>8, <1>9, <1>10,
             <1>11, <1>12, <1>13, <1>14, <1>15

(* Unlock: The thread had the only lock.                                   *)
LEMMA UnlockStep ==
    ASSUME TypeOK, CoreInv, NEW t \in Thread, Unlock(t),
           broken = "no", broken' = "no"
    PROVE  TypeOK' /\ CoreInv'
  <1> USE NoneAssumption
          DEF CoreInv, Unlock, Goto, ClearFlags, vars, entryVars, diskVars,
              handVars, callVars
  <1>1. Others(t)
    BY DEF Others, TypeOK, LocalTypeOK
  <1>2. LocalTypeOK'
    BY DEF TypeOK, LocalTypeOK, PlacesInv, Blocked, Trying, Valid, Loading,
           Filling, Evicting, HandTests, Cleaning, EntryPCs, PCs
  <1>3. /\ pc[t] = "write" /\ pc'[t] = "claimed" /\ op'[t] = op[t] /\ want'[t] = want[t] /\ ent'[t] = ent[t]
    BY DEF TypeOK, LocalTypeOK, PlacesInv
  <1>4. TypeOK'
    BY DEF TypeOK, LocalTypeOK, Flag, PlacesInv, Slot, EntryPCs, Filling,
           Loading, Evicting, HandTests
  <1>5. PlacesInv'
    BY DEF TypeOK, LocalTypeOK, PlacesInv, OpsAt, NextPage, Blocked, Trying,
           Valid, Loading, Filling, Evicting, HandTests, Cleaning, EntryPCs,
           PCs
  <1>6. HandsInv'
    BY DEF TypeOK, LocalTypeOK, HandsInv, PlacesInv
  <1>7. UsersInv'
    BY <1>1, <1>4, <1>3, UsersKept DEF PlacesInv, OpsAt
  <1>8. /\ ent[t] \in Entry /\ RefOf(t)' = RefOf(t)
        /\ \A e \in Entry \ {ent[t]} : SameRolesOn(t, e)
        /\ \A e \in Entry : e = ent[t] =>
              /\ HasClaim(t, e) = TRUE /\ HasClaim(t, e)' = TRUE
              /\ HasLock(t, e) = TRUE /\ HasLock(t, e)' = FALSE
              /\ ~Fills(t, e) /\ ~Fills(t, e)' /\ ~Loads(t, e) /\ ~Loads(t, e)'
              /\ ~AllocsIn(t, e) /\ ~AllocsIn(t, e)'
    BY <1>3
    DEF TypeOK, PlacesInv, RefOf, SameRoles, SameRolesOn, HasClaim, HasLock,
        Loads, Fills, AllocsIn, Allocs, Blocked, Trying, Valid, Loading,
        Filling, Evicting, HandTests, Cleaning, EntryPCs, PCs
  <1>9. CountsInv'
    BY <1>1, <1>8, CountsKept
  <1>10. FlagsInv'
    <2> DEFINE b == ent[t]
    <2>1. \A e \in Entry \ {b} : SameFlags(e)
      BY DEF SameFlags, Has, TypeOK
    <2>2. \A u \in Thread \ {t} : SameRolesOn(u, b)
      BY <1>1, <1>8, OthersKeepRoles DEF SameRoles
    <2>3. \A f \in Flag \ {"WRITELOCKED"} : f \in status'[b] <=> f \in status[b]
      BY <1>8 DEF TypeOK
    <2>4. "WRITELOCKED" \notin status'[b]
      BY <1>8 DEF TypeOK
    <2>5. FlagsAt(b)
      BY <1>8 DEF FlagsInv
    <2>a. \A u \in Thread : HasLock(u, b) => HasClaim(u, b)
      BY RolesRelate
    <2>6. FlagsAt(b)'
      BY <1>8, <2>2, <2>3, <2>4, <2>5, <2>a DEF FlagsAt, SameRolesOn, Has, Flag
    <2> QED BY <1>1, <1>8, <2>1, <2>6, FlagsStep
  <1>11. MapsInv'
    BY <1>1, MapsKept
    DEF TypeOK, LocalTypeOK, Has, Staged, FREE, ALLOC, READ_LOADING, PlacesInv
  <1>12. ValidInv'
    BY <1>1, <1>4, ValidKept DEF TypeOK, LocalTypeOK, Valid, Has
  <1>13. DrainInv'
    BY <1>1, <1>4, <1>8, DrainKept
    DEF LocalTypeOK, RefOf, Drained, Harmless, HasLock, Allocs, PlacesInv,
        Blocked, Trying, Valid, Loading, Filling, Evicting, HandTests,
        Cleaning, EntryPCs, PCs
  <1>14. WritebackInv'
    BY <1>1, WritebackKept
    DEF TypeOK, LocalTypeOK, Has, HasLock, Allocs, Flushed, Cleaning,
        PlacesInv, FREE, ALLOC, READ_LOADING
  <1>15. DataInv'
    BY <1>1, DataKept
    DEF TypeOK, LocalTypeOK, Has, PlacesInv, FREE, ALLOC, READ_LOADING
  <1> QED BY <1>1, <1>2, <1>3, <1>4, <1>5, <1>6, <1>7, <1>8, <1>9, <1>10,
             <1>11, <1>12, <1>13, <1>14, <1>15

(* PageSync: The write back of a page whose only user waits for it.        *)
LEMMA PageSyncStep ==
    ASSUME TypeOK, CoreInv, NEW t \in Thread, PageSync(t),
           broken = "no", broken' = "no"
    PROVE  TypeOK' /\ CoreInv'
  <1> USE NoneAssumption
          DEF CoreInv, PageSync, Goto, Cleanable, vars, entryVars, diskVars,
              handVars, callVars
  <1>1. Others(t)
    BY DEF Others, TypeOK, LocalTypeOK
  <1>2. LocalTypeOK'
    BY DEF TypeOK, LocalTypeOK, PlacesInv, Blocked, Trying, Valid, Loading,
           Filling, Evicting, HandTests, Cleaning, EntryPCs, PCs
  <1>3. /\ pc[t] = "held" /\ pc'[t] = "synced" /\ ent[t] \in Entry /\ want[t] \in Page
        /\ op'[t] = op[t] /\ want'[t] = want[t] /\ ent'[t] = ent[t]
    BY DEF TypeOK, LocalTypeOK, PlacesInv, EntryPCs, Valid
  <1>4. TypeOK'
    <2>1. status' \in [Entry -> SUBSET Flag] /\ inflight' \in [Entry -> SUBSET Page]
      BY <1>3 DEF TypeOK, Flag
    <2> QED BY <2>1 DEF TypeOK
  <1>5. PlacesInv'
    BY <1>1, <1>4, <1>3
    DEF TypeOK, LocalTypeOK, PlacesInv, OpsAt, NextPage, Blocked, Trying,
        Valid, Loading, Filling, Evicting, HandTests, Cleaning, EntryPCs, PCs
  <1>6. HandsInv'
    BY DEF TypeOK, LocalTypeOK, HandsInv, PlacesInv
  <1>7. UsersInv'
    BY <1>1, <1>4, <1>3, UsersKept DEF PlacesInv, OpsAt
  <1>8. SameRoles(t) /\ RefOf(t)' = RefOf(t)
    BY <1>3
    DEF PlacesInv, RefOf, SameRoles, SameRolesOn, HasClaim, HasLock, Loads,
        Fills, AllocsIn, Allocs, Blocked, Trying, Valid, Loading, Filling,
        Evicting, HandTests, Cleaning, EntryPCs, PCs
  <1>9. CountsInv'
    BY <1>1, <1>8, CountsKept
  <1>10. FlagsInv'
    BY <1>1, <1>8, FlagsKept
    DEF TypeOK, LocalTypeOK, SameFlags, Has, PlacesInv, EntryPCs, Cleanable,
        FREE, ALLOC, READ_LOADING
  <1>11. MapsInv'
    BY <1>1, MapsKept
    DEF TypeOK, LocalTypeOK, Has, Staged, FREE, ALLOC, READ_LOADING, PlacesInv
  <1>12. ValidInv'
    BY <1>1, <1>4, ValidKept DEF TypeOK, LocalTypeOK, Valid, Has
  <1>13. DrainInv'
    BY <1>1, <1>4, <1>8, DrainKept
    DEF LocalTypeOK, RefOf, Drained, Harmless, HasLock, Allocs, PlacesInv,
        Blocked, Trying, Valid, Loading, Filling, Evicting, HandTests,
        Cleaning, EntryPCs, PCs
  <1>14. WritebackInv'
    <2>0. PICK b \in Entry : b = ent[t]
      BY <1>3
    <2>1. pc[t] \notin Cleaning /\ pc'[t] \notin Flushed
      BY <1>3 DEF Cleaning, Flushed
    <2>2. CASE ~Cleanable(b)
      <3>1. status' = status /\ inflight' = inflight
        BY <2>0, <2>2 DEF TypeOK
      <3> QED BY <1>1, <2>1, <3>1, WritebackKept DEF Has
    <2>3. CASE Cleanable(b)
      <3>1. disk_addr[b] = want[t] /\ inflight[b] = {}
        BY <2>0, <2>3, <1>3, CleanableMapped DEF ValidInv, Valid
      <3>2. /\ status' = [status EXCEPT ![b] = @ \cup {"WRITEBACK"}]
            /\ inflight' = [inflight EXCEPT ![b] = {disk_addr[b]}]
            /\ UNCHANGED <<lookup, disk_addr, span>>
        BY <2>0, <2>3, <3>1 DEF TypeOK
      <3> HIDE DEF PageSync
      <3> QED BY <1>1, <1>8, <2>1, <2>3, <3>2, WritebackSet
    <2> QED BY <2>2, <2>3
  <1>15. DataInv'
    BY <1>1, DataKept
    DEF TypeOK, LocalTypeOK, Has, PlacesInv, FREE, ALLOC, READ_LOADING
  <1> QED BY <1>1, <1>2, <1>3, <1>4, <1>5, <1>6, <1>7, <1>8, <1>9, <1>10,
             <1>11, <1>12, <1>13, <1>14, <1>15

-----------------------------------------------------------------------------
(* A step of the device: the threads keep where they are. *)
LEMMA DeviceFrame ==
    ASSUME TypeOK, CoreInv, NEW e \in Entry,
           status' \in [Entry -> SUBSET Flag],
           UNCHANGED <<disk_addr, lookup, refcount, current, live, handVars, callVars, pc>>,
           \A b \in Entry : \A f \in Flag \ {"CLEAN", "WRITEBACK"} : Has(b, f)' <=> Has(b, f),
           \A b \in Entry \ {e} : \A f : Has(b, f)' <=> Has(b, f)
    PROVE  /\ LocalTypeOK' /\ PlacesInv' /\ HandsInv' /\ CountsInv' /\ UsersInv'
           /\ MapsInv' /\ ValidInv' /\ DrainInv'
           /\ \A u \in Thread : SameRoles(u)
  <1> USE DEF CoreInv, handVars, callVars
  <1>1. LocalTypeOK'
    BY DEF LocalTypeOK
  <1>2. PlacesInv'
    BY DEF PlacesInv, NextPage
  <1>3. HandsInv'
    BY DEF HandsInv
  <1>4. CountsInv'
    BY CountsFrame DEF RefOf
  <1>5. UsersInv'
    BY DEF UsersInv
  <1>6. MapsInv'
    BY MapsFrame DEF Flag
  <1>7. ValidInv'
    BY ValidFrame DEF Flag
  <1>8. DrainInv'
    BY DEF DrainInv, HasLock, Allocs, RefOf, Drained, Harmless
  <1>9. \A u \in Thread : SameRoles(u)
    BY DEF SameRoles, SameRolesOn, HasClaim, HasLock, Loads, Fills, AllocsIn,
           Allocs
  <1> QED BY <1>1, <1>2, <1>3, <1>4, <1>5, <1>6, <1>7, <1>8, <1>9

(* What is being written is the page of a loaded entry. *)
LEMMA WrittenEntry ==
    ASSUME TypeOK, CoreInv, NEW e \in Entry, inflight[e] # {}
    PROVE  /\ Has(e, "WRITEBACK") /\ Mapped(e) /\ ~Has(e, "LOADING") /\ current[e]
           /\ disk_addr[e] \in Page /\ inflight[e] = {disk_addr[e]}
           /\ \A u \in Thread : ~Fills(u, e)
           /\ \A u \in Thread : \A x \in span[u] : x[2] # e
  <1>1. Has(e, "WRITEBACK") /\ inflight[e] = {disk_addr[e]}
    BY DEF CoreInv, WritebackInv
  <1>2. Mapped(e) /\ ~Has(e, "LOADING")
    BY <1>1 DEF CoreInv, WritebackInv
  <1>3. current[e] /\ disk_addr[e] \in Page
    BY <1>2 DEF CoreInv, DataInv, Mapped, TypeOK
  <1>4. \A u \in Thread : ~Fills(u, e)
    BY <1>1 DEF CoreInv, FlagsInv, FlagsAt
  <1>5. \A u \in Thread : \A x \in span[u] : x[2] # e
    BY DEF CoreInv, WritebackInv
  <1> QED BY <1>1, <1>2, <1>3, <1>4, <1>5

LEMMA WriteDoneStep ==
    ASSUME TypeOK, CoreInv, NEW e \in Entry, WriteDone(e)
    PROVE  TypeOK' /\ CoreInv'
  <1> USE DEF WriteDone, SetFlags
  <1>1. TypeOK'
    <2>1. status' \in [Entry -> SUBSET Flag]
      BY DEF TypeOK, Flag
    <2>2. saved' \in [Page -> BOOLEAN]
      BY WrittenEntry DEF TypeOK
    <2> QED BY <2>1, <2>2 DEF TypeOK, handVars, callVars
  <1>2. /\ \A b \in Entry : \A f : Has(b, f)' <=> Has(b, f) \/ (b = e /\ f = "CLEAN")
        /\ inflight[e] # {} /\ ~Has(e, "CLEAN")
    BY DEF Has, TypeOK
  <1>3. /\ UNCHANGED <<disk_addr, lookup, refcount, current, inflight, live, span, free_hand, pc>>
        /\ \A p \in Page : saved[p] => saved'[p]
        /\ saved'[disk_addr[e]]
    BY WrittenEntry DEF handVars, TypeOK
  <1>4. /\ Has(e, "WRITEBACK") /\ Mapped(e) /\ ~Has(e, "LOADING")
        /\ disk_addr[e] \in Page
        /\ \A u \in Thread : ~Fills(u, e)
        /\ \A u \in Thread : \A x \in span[u] : x[2] # e
    BY WrittenEntry
  <1>5. /\ LocalTypeOK' /\ PlacesInv' /\ HandsInv' /\ CountsInv' /\ UsersInv'
        /\ MapsInv' /\ ValidInv' /\ DrainInv'
        /\ \A u \in Thread : SameRoles(u)
    <2>1. UNCHANGED <<disk_addr, lookup, refcount, current, live, handVars, callVars, pc>>
      OBVIOUS
    <2>2. /\ \A b \in Entry : \A f \in Flag \ {"CLEAN", "WRITEBACK"} : Has(b, f)' <=> Has(b, f)
          /\ \A b \in Entry \ {e} : \A f : Has(b, f)' <=> Has(b, f)
      BY <1>2
    <2>3. status' \in [Entry -> SUBSET Flag]
      BY <1>1 DEF TypeOK
    <2> HIDE DEF WriteDone
    <2> QED BY <2>1, <2>2, <2>3, DeviceFrame
  <1> HIDE DEF WriteDone
  <1>6. FlagsInv'
    <2>1. \A b \in Entry \ {e} : FlagsAt(b)'
      BY <1>2, <1>5, FlagsFrame DEF CoreInv, SameRoles, SameFlags
    <2>2. FlagsAt(e)'
      BY <1>2, <1>4, <1>5, RolesRelate
      DEF CoreInv, FlagsInv, FlagsAt, SameRoles, SameRolesOn
    <2> QED BY <2>1, <2>2 DEF FlagsInv
  <1>7. WritebackInv'
    <2>1. \A u \in Thread : \A x \in span[u] : x[2] \in Entry \ {e}
      BY <1>4 DEF CoreInv, LocalTypeOK
    <2>2. \A u \in Thread, b \in Entry : HasLock(u, b)' <=> HasLock(u, b)
      BY <1>5 DEF SameRoles, SameRolesOn
    <2>3. \A b \in Entry : Mapped(b)' <=> Mapped(b)
      BY <1>3 DEF Mapped
    <2> QED BY <1>2, <1>3, <2>1, <2>2, <2>3 DEF CoreInv, WritebackInv
  <1>8. DataInv'
    <2>1. \A b \in Entry : Mapped(b)' <=> Mapped(b)
      BY <1>3 DEF Mapped
    <2>a. (\A b \in Entry : Mapped(b) /\ ~Has(b, "LOADING") => current[b])'
      BY <1>2, <1>3, <2>1 DEF CoreInv, DataInv
    <2>b. (\A p \in live : saved[p] \/ (/\ lookup[p] # None /\ disk_addr[lookup[p]] = p
                                        /\ ~Has(lookup[p], "CLEAN")))'
      <3> SUFFICES ASSUME NEW p \in live, ~saved'[p]
                   PROVE  /\ lookup'[p] # None /\ disk_addr'[lookup'[p]] = p
                          /\ "CLEAN" \notin status'[lookup'[p]]
        BY <1>3 DEF Has
      <3>1. p \in Page /\ ~saved[p] /\ p # disk_addr[e]
        BY <1>3 DEF TypeOK
      <3>2. lookup[p] # None /\ disk_addr[lookup[p]] = p /\ ~Has(lookup[p], "CLEAN")
        BY <3>1 DEF CoreInv, DataInv
      <3>3. lookup[p] \in Entry \ {e}
        BY <3>1, <3>2 DEF TypeOK
      <3> QED BY <1>2, <1>3, <3>2, <3>3 DEF Has
    <2>c. (\A u \in Thread : pc[u] = "e_unmap" =>
              Has(free_hand[u], "CLEAN") /\ ~Has(free_hand[u], "LOADING"))'
      <3>1. \A u \in Thread : pc[u] = "e_unmap" => free_hand[u] \in Entry
        BY DEF TypeOK, CoreInv, PlacesInv, Evicting
      <3> QED BY <1>2, <1>3, <3>1 DEF CoreInv, DataInv, Has
    <2> QED BY <2>a, <2>b, <2>c DEF DataInv
  <1> QED BY <1>1, <1>5, <1>6, <1>7, <1>8 DEF CoreInv

LEMMA WriteClearStep ==
    ASSUME TypeOK, CoreInv, NEW e \in Entry, WriteClear(e)
    PROVE  TypeOK' /\ CoreInv'
  <1> USE DEF WriteClear, ClearFlags
  <1>1. TypeOK'
    <2>1. status' \in [Entry -> SUBSET Flag] /\ inflight' \in [Entry -> SUBSET Page]
      BY DEF TypeOK, Flag
    <2> QED BY <2>1 DEF TypeOK, handVars, callVars
  <1>2. \A b \in Entry : \A f : Has(b, f)' <=> Has(b, f) /\ ~(b = e /\ f = "WRITEBACK")
    BY DEF Has, TypeOK
  <1>3. /\ UNCHANGED <<disk_addr, lookup, refcount, current, saved, live, span, free_hand, pc>>
        /\ inflight'[e] = {} /\ \A b \in Entry \ {e} : inflight'[b] = inflight[b]
    BY DEF handVars, TypeOK
  <1>4. \A u \in Thread : \A x \in span[u] : x[2] # e
    BY WrittenEntry
  <1>5. /\ LocalTypeOK' /\ PlacesInv' /\ HandsInv' /\ CountsInv' /\ UsersInv'
        /\ MapsInv' /\ ValidInv' /\ DrainInv'
        /\ \A u \in Thread : SameRoles(u)
    <2>1. UNCHANGED <<disk_addr, lookup, refcount, current, live, handVars, callVars, pc>>
      OBVIOUS
    <2>2. /\ \A b \in Entry : \A f \in Flag \ {"CLEAN", "WRITEBACK"} : Has(b, f)' <=> Has(b, f)
          /\ \A b \in Entry \ {e} : \A f : Has(b, f)' <=> Has(b, f)
      BY <1>2
    <2>3. status' \in [Entry -> SUBSET Flag]
      BY <1>1 DEF TypeOK
    <2> HIDE DEF WriteClear
    <2> QED BY <2>1, <2>2, <2>3, DeviceFrame
  <1> HIDE DEF WriteClear
  <1>6. FlagsInv'
    BY <1>2, <1>5, FlagsFrame DEF CoreInv, FlagsInv, SameRoles, SameFlags
  <1>7. WritebackInv'
    <2>1. \A u \in Thread : \A x \in span[u] : x[2] \in Entry \ {e}
      BY <1>4 DEF CoreInv, LocalTypeOK
    <2>2. \A u \in Thread, b \in Entry : HasLock(u, b)' <=> HasLock(u, b)
      BY <1>5 DEF SameRoles, SameRolesOn
    <2>3. \A b \in Entry : Mapped(b)' <=> Mapped(b)
      BY <1>3 DEF Mapped
    <2> QED BY <1>2, <1>3, <2>1, <2>2, <2>3 DEF CoreInv, WritebackInv
  <1>8. DataInv'
    BY <1>1, <1>2, <1>3, DataFrame
    DEF TypeOK, CoreInv, DataInv, PlacesInv, Evicting
  <1> QED BY <1>1, <1>5, <1>6, <1>7, <1>8 DEF CoreInv

LEMMA InitStep == Init => IInv
  <1> SUFFICES ASSUME Init
               PROVE  TypeOK /\ CoreInv
    BY DEF IInv
  <1> USE DEF Init
  <1>1. TypeOK
    BY RcWidthAssumption DEF TypeOK, Flag, FREE, Slot
  <1>2. \A t \in Thread : /\ pc[t] = "idle" /\ op[t] = "none" /\ want[t] = None
                          /\ ent[t] = None /\ free_hand[t] = None /\ cleaning[t] = None
                          /\ cand[t] = None /\ span[t] = {} /\ edge[t] = None /\ scan[t] = 0
    OBVIOUS
  <1>3. /\ \A e \in Entry : /\ disk_addr[e] = None /\ inflight[e] = {} /\ current[e]
                            /\ Has(e, "FREE") /\ ~Has(e, "CLAIMED") /\ ~Has(e, "WRITELOCKED")
                            /\ ~Has(e, "LOADING") /\ ~Has(e, "WRITEBACK") /\ ~Has(e, "CLEAN")
                            /\ \A s \in Slot : refcount[e][s] = 0
        /\ \A p \in Page : lookup[p] = None /\ saved[p]
        /\ live = Page
    BY DEF Has, FREE
  <1>s. span \in [Thread -> SUBSET (Page \X Entry)] /\ edge \in [Thread -> Page \cup {None}]
        /\ pc \in [Thread -> {"idle"}]
    OBVIOUS
  <1> HIDE DEF Init
  <1>4. LocalTypeOK
    BY <1>s DEF LocalTypeOK, PCs
  <1>5. PlacesInv
    BY <1>2
    DEF PlacesInv, OpsAt, EntryPCs, Trying, Valid, Filling, Loading, Evicting,
        HandTests, Cleaning
  <1>6. HandsInv
    BY <1>2 DEF HandsInv
  <1>r. \A t \in Thread : RefOf(t) = None
    BY <1>2 DEF RefOf, EntryPCs, Trying, Valid, Filling, Loading, Evicting
  <1>7. CountsInv
    <2>1. \A e \in Entry, s \in Slot : RefsIn(e, s) = {}
      BY <1>r, NoneAssumption DEF RefsIn
    <2> QED BY <1>3, <2>1, FS_EmptySet DEF CountsInv
  <1>8. \A t \in Thread, e \in Entry : /\ ~HasClaim(t, e) /\ ~HasLock(t, e) /\ ~Loads(t, e)
                                       /\ ~AllocsIn(t, e) /\ ~Fills(t, e)
    BY <1>2, NoneAssumption DEF HasClaim, HasLock, Loads, AllocsIn, Fills
  <1>9. FlagsInv
    BY <1>3, <1>8 DEF FlagsInv, FlagsAt
  <1>a. UsersInv
    BY <1>2, <1>3 DEF UsersInv
  <1>b. MapsInv
    BY <1>2, <1>3 DEF MapsInv
  <1>c. ValidInv
    BY <1>2 DEF ValidInv, Valid
  <1>d. DrainInv
    BY <1>8 DEF DrainInv
  <1>e. WritebackInv
    BY <1>2, <1>3 DEF WritebackInv
  <1>f. DataInv
    BY <1>2, <1>3 DEF DataInv
  <1> QED BY <1>1, <1>4, <1>5, <1>6, <1>7, <1>9, <1>a, <1>b, <1>c, <1>d, <1>e,
             <1>f
          DEF CoreInv

(* The steps that find the program broken keep the types. *)
LEMMA BrokenTypes ==
    ASSUME TypeOK, CoreInv, NEW t \in Thread, LoadingTest(t) \/ PageSync(t) \/ CleanSubmit(t)
    PROVE  TypeOK'
  <1>1. CASE LoadingTest(t)
    BY <1>1
    DEF TypeOK, LoadingTest, Goto, entryVars, diskVars, handVars, callVars
  <1>2. CASE PageSync(t)
    <2>1. pc[t] = "held" /\ want[t] \in Page
      BY <1>2 DEF PageSync, Goto, TypeOK, CoreInv, PlacesInv
    <2>2. status' \in [Entry -> SUBSET Flag] /\ inflight' \in [Entry -> SUBSET Page]
      BY <1>2, <2>1 DEF PageSync, TypeOK, Flag
    <2> QED BY <1>2, <2>2 DEF PageSync, TypeOK, handVars, callVars
  <1>3. CASE CleanSubmit(t)
    <2>1. inflight' \in [Entry -> SUBSET Page] /\ cleaning' \in [Thread -> Entry \cup {None}]
          /\ cand' \in [Thread -> Entry \cup {None}]
      BY <1>3 DEF CleanSubmit, TypeOK, CoreInv, LocalTypeOK
    <2> QED BY <1>3, <2>1 DEF CleanSubmit, TypeOK, callVars, entryVars
  <1> QED BY <1>1, <1>2, <1>3

-----------------------------------------------------------------------------
(* The invariant holds in every reachable state.                           *)

LEMMA CallStepKeeps ==
    ASSUME TypeOK, CoreInv, broken = "no", NEW t \in Thread, CallStep(t)
    PROVE  IInv'
  <1>1. CASE LookupEntry(t)
    <2>1. broken' = broken
      BY <1>1 DEF LookupEntry
    <2> QED BY <1>1, <2>1, LookupEntryStep DEF IInv
  <1>2. CASE ReadTest(t)
    <2>1. broken' = broken
      BY <1>2 DEF ReadTest
    <2> QED BY <1>2, <2>1, ReadTestStep DEF IInv
  <1>3. CASE ReadInc(t)
    <2>1. broken' = broken
      BY <1>3 DEF ReadInc
    <2> QED BY <1>3, <2>1, ReadIncStep DEF IInv
  <1>4. CASE ReadTestFree(t)
    <2>1. broken' = broken
      BY <1>4 DEF ReadTestFree
    <2> QED BY <1>4, <2>1, ReadTestFreeStep DEF IInv
  <1>5. CASE ReadTestLocked(t)
    <2>1. broken' = broken
      BY <1>5 DEF ReadTestLocked
    <2> QED BY <1>5, <2>1, ReadTestLockedStep DEF IInv
  <1>6. CASE SetAccessed(t)
    <2>1. broken' = broken
      BY <1>6 DEF SetAccessed
    <2> QED BY <1>6, <2>1, SetAccessedStep DEF IInv
  <1>7. CASE ReadUndo(t)
    <2>1. broken' = broken
      BY <1>7 DEF ReadUndo, Return
    <2> QED BY <1>7, <2>1, ReadUndoStep DEF IInv
  <1>8. CASE AddrTest(t)
    <2>1. broken' = broken
      BY <1>8 DEF AddrTest
    <2> QED BY <1>8, <2>1, AddrTestStep DEF IInv
  <1>9. CASE LoadingTest(t)
    BY <1>9, LoadingTestStep, BrokenTypes DEF IInv
  <1>10. CASE MapPage(t)
    <2>1. broken' = broken
      BY <1>10 DEF MapPage
    <2> QED BY <1>10, <2>1, MapPageStep DEF IInv
  <1>11. CASE MapAbort(t)
    <2>1. broken' = broken
      BY <1>11 DEF MapAbort
    <2> QED BY <1>11, <2>1, MapAbortStep DEF IInv
  <1>12. CASE SetAddr(t)
    <2>1. broken' = broken
      BY <1>12 DEF SetAddr
    <2> QED BY <1>12, <2>1, SetAddrStep DEF IInv
  <1>13. CASE Request(t)
    <2>1. broken' = broken
      BY <1>13 DEF Request
    <2> QED BY <1>13, <2>1, RequestStep DEF IInv
  <1>14. CASE NoReqsUnmap(t)
    <2>1. broken' = broken
      BY <1>14 DEF NoReqsUnmap
    <2> QED BY <1>14, <2>1, NoReqsUnmapStep DEF IInv
  <1>15. CASE NoReqsRelease(t)
    <2>1. broken' = broken
      BY <1>15 DEF NoReqsRelease
    <2> QED BY <1>15, <2>1, NoReqsReleaseStep DEF IInv
  <1>16. CASE Load(t)
    <2>1. broken' = broken
      BY <1>16 DEF Load
    <2> QED BY <1>16, <2>1, LoadStep DEF IInv
  <1>17. CASE LockFlush(t)
    <2>1. broken' = broken
      BY <1>17 DEF LockFlush
    <2> QED BY <1>17, <2>1, LockFlushStep DEF IInv
  <1>18. CASE LockDrain(t)
    <2>1. broken' = broken
      BY <1>18 DEF LockDrain
    <2> QED BY <1>18, <2>1, LockDrainStep DEF IInv
  <1>19. CASE AllocAddr(t)
    <2>1. broken' = broken
      BY <1>19 DEF AllocAddr
    <2> QED BY <1>19, <2>1, AllocAddrStep DEF IInv
  <1>20. CASE AllocMap(t)
    <2>1. broken' = broken
      BY <1>20 DEF AllocMap
    <2> QED BY <1>20, <2>1, AllocMapStep DEF IInv
  <1>21. CASE DiscardClaim(t)
    <2>1. broken' = broken
      BY <1>21 DEF DiscardClaim
    <2> QED BY <1>21, <2>1, DiscardClaimStep DEF IInv
  <1>22. CASE DiscardUnmap(t)
    <2>1. broken' = broken
      BY <1>22 DEF DiscardUnmap
    <2> QED BY <1>22, <2>1, DiscardUnmapStep DEF IInv
  <1>23. CASE DiscardRelease(t)
    <2>1. broken' = broken
      BY <1>23 DEF DiscardRelease
    <2> QED BY <1>23, <2>1, DiscardReleaseStep DEF IInv
  <1>24. CASE DiscardDec(t)
    <2>1. broken' = broken
      BY <1>24 DEF DiscardDec
    <2> QED BY <1>24, <2>1, DiscardDecStep DEF IInv
  <1> QED BY <1>1, <1>2, <1>3, <1>4, <1>5, <1>6, <1>7, <1>8, <1>9, <1>10,
             <1>11, <1>12, <1>13, <1>14, <1>15, <1>16, <1>17, <1>18, <1>19,
             <1>20, <1>21, <1>22, <1>23, <1>24
          DEF CallStep

LEMMA HandStepKeeps ==
    ASSUME TypeOK, CoreInv, broken = "no", NEW t \in Thread, HandStep(t)
    PROVE  IInv'
  <1>1. CASE TakeFree(t)
    <2>1. broken' = broken
      BY <1>1 DEF TakeFree
    <2> QED BY <1>1, <2>1, TakeFreeStep DEF IInv
  <1>2. CASE TakeStatus(t)
    <2>1. broken' = broken
      BY <1>2 DEF TakeStatus
    <2> QED BY <1>2, <2>1, TakeStatusStep DEF IInv
  <1>3. CASE GiveUp(t)
    <2>1. broken' = broken
      BY <1>3 DEF GiveUp
    <2> QED BY <1>3, <2>1, GiveUpStep DEF IInv
  <1>4. CASE MoveHand(t)
    <2>1. broken' = broken
      BY <1>4 DEF MoveHand
    <2> QED BY <1>4, <2>1, MoveHandStep DEF IInv
  <1>5. ASSUME NEW b \in Entry, HandClean(t, b)
        PROVE  IInv'
    <2>1. broken' = broken
      BY <1>5 DEF HandClean
    <2> QED BY <1>5, <2>1, HandCleanStep DEF IInv
  <1>6. ASSUME NEW b \in Entry, HandTake(t, b)
        PROVE  IInv'
    <2>1. broken' = broken
      BY <1>6 DEF HandTake
    <2> QED BY <1>6, <2>1, HandTakeStep DEF IInv
  <1>7. CASE CleanSet(t)
    <2>1. broken' = broken
      BY <1>7 DEF CleanSet
    <2> QED BY <1>7, <2>1, CleanSetStep DEF IInv
  <1>8. CASE CleanSkip(t)
    <2>1. broken' = broken
      BY <1>8 DEF CleanSkip
    <2> QED BY <1>8, <2>1, CleanSkipStep DEF IInv
  <1>9. CASE NeighbourLookup(t)
    <2>1. broken' = broken
      BY <1>9 DEF NeighbourLookup
    <2> QED BY <1>9, <2>1, NeighbourLookupStep DEF IInv
  <1>10. CASE NeighbourSet(t)
    <2>1. broken' = broken
      BY <1>10 DEF NeighbourSet
    <2> QED BY <1>10, <2>1, NeighbourSetStep DEF IInv
  <1>11. CASE CleanSubmit(t)
    BY <1>11, CleanSubmitStep, BrokenTypes DEF IInv
  <1> QED BY <1>1, <1>2, <1>3, <1>4, <1>5, <1>6, <1>7, <1>8, <1>9, <1>10, <1>11
          DEF HandStep

LEMMA EvictStepKeeps ==
    ASSUME TypeOK, CoreInv, broken = "no", NEW t \in Thread, EvictStep(t)
    PROVE  IInv'
  <1>1. CASE EvictTest(t)
    <2>1. broken' = broken
      BY <1>1 DEF EvictTest
    <2> QED BY <1>1, <2>1, EvictTestStep DEF IInv
  <1>2. CASE EvictReads(t)
    <2>1. broken' = broken
      BY <1>2 DEF EvictReads
    <2> QED BY <1>2, <2>1, EvictReadsStep DEF IInv
  <1>3. CASE EvictRef(t)
    <2>1. broken' = broken
      BY <1>3 DEF EvictRef
    <2> QED BY <1>3, <2>1, EvictRefStep DEF IInv
  <1>4. CASE EvictFlags(t)
    <2>1. broken' = broken
      BY <1>4 DEF EvictFlags
    <2> QED BY <1>4, <2>1, EvictFlagsStep DEF IInv
  <1>5. CASE EvictDrain(t)
    <2>1. broken' = broken
      BY <1>5 DEF EvictDrain
    <2> QED BY <1>5, <2>1, EvictDrainStep DEF IInv
  <1>6. CASE EvictVerify(t)
    <2>1. broken' = broken
      BY <1>6 DEF EvictVerify
    <2> QED BY <1>6, <2>1, EvictVerifyStep DEF IInv
  <1>7. CASE EvictUnmap(t)
    <2>1. broken' = broken
      BY <1>7 DEF EvictUnmap
    <2> QED BY <1>7, <2>1, EvictUnmapStep DEF IInv
  <1> QED BY <1>1, <1>2, <1>3, <1>4, <1>5, <1>6, <1>7 DEF EvictStep

LEMMA UserStepKeeps ==
    ASSUME TypeOK, CoreInv, broken = "no", NEW t \in Thread, UserStep(t)
    PROVE  IInv'
  <1>1. ASSUME NEW p \in Page, GetCall(t, p)
        PROVE  IInv'
    <2>1. broken' = broken
      BY <1>1 DEF GetCall
    <2> QED BY <1>1, <2>1, GetCallStep DEF IInv
  <1>2. ASSUME NEW p \in Page, AllocCall(t, p)
        PROVE  IInv'
    <2>1. broken' = broken
      BY <1>2 DEF AllocCall
    <2> QED BY <1>2, <2>1, AllocCallStep DEF IInv
  <1>3. ASSUME NEW p \in Page, DiscardCall(t, p)
        PROVE  IInv'
    <2>1. broken' = broken
      BY <1>3 DEF DiscardCall
    <2> QED BY <1>3, <2>1, DiscardCallStep DEF IInv
  <1>4. CASE Unget(t)
    <2>1. broken' = broken
      BY <1>4 DEF Unget
    <2> QED BY <1>4, <2>1, UngetStep DEF IInv
  <1>5. CASE TryClaim(t)
    <2>1. broken' = broken
      BY <1>5 DEF TryClaim
    <2> QED BY <1>5, <2>1, TryClaimStep DEF IInv
  <1>6. CASE Unclaim(t)
    <2>1. broken' = broken
      BY <1>6 DEF Unclaim
    <2> QED BY <1>6, <2>1, UnclaimStep DEF IInv
  <1>7. CASE LockSet(t)
    <2>1. broken' = broken
      BY <1>7 DEF LockSet
    <2> QED BY <1>7, <2>1, LockSetStep DEF IInv
  <1>8. CASE MarkDirty(t)
    <2>1. broken' = broken
      BY <1>8 DEF MarkDirty
    <2> QED BY <1>8, <2>1, MarkDirtyStep DEF IInv
  <1>9. CASE Write(t)
    <2>1. broken' = broken
      BY <1>9 DEF Write
    <2> QED BY <1>9, <2>1, WriteStep DEF IInv
  <1>10. CASE Unlock(t)
    <2>1. broken' = broken
      BY <1>10 DEF Unlock
    <2> QED BY <1>10, <2>1, UnlockStep DEF IInv
  <1>11. CASE PageSync(t)
    BY <1>11, PageSyncStep, BrokenTypes DEF IInv
  <1> QED BY <1>1, <1>2, <1>3, <1>4, <1>5, <1>6, <1>7, <1>8, <1>9, <1>10, <1>11
          DEF UserStep

LEMMA StutterKeeps ==
    ASSUME IInv, UNCHANGED vars
    PROVE  IInv'
  <1> USE DEF vars, entryVars, diskVars, handVars, callVars
  <1>1. TypeOK'
    BY DEF IInv, TypeOK
  <1>2. ASSUME CoreInv
        PROVE  CoreInv'
    <2> USE <1>2 DEF CoreInv
    <2>1. LocalTypeOK' /\ PlacesInv' /\ HandsInv' /\ UsersInv'
      BY DEF LocalTypeOK, PlacesInv, NextPage, HandsInv, UsersInv
    <2>2. CountsInv'
      BY CountsFrame DEF RefOf
    <2>3. FlagsInv'
      BY DEF FlagsInv, FlagsAt, HasClaim, HasLock, Loads, AllocsIn, Fills,
             Allocs, Has
    <2>4. MapsInv' /\ ValidInv'
      BY DEF MapsInv, ValidInv, Mapped, Unmapped, Fills, Has
    <2>5. DrainInv'
      BY DEF DrainInv, HasLock, Allocs, RefOf, Drained, Harmless
    <2>6. WritebackInv' /\ DataInv'
      BY DEF WritebackInv, DataInv, Mapped, HasLock, Allocs, Has
    <2> QED BY <2>1, <2>2, <2>3, <2>4, <2>5, <2>6
  <1> QED BY <1>1, <1>2 DEF IInv

(* IInv is inductive.                                                      *)
LEMMA NextKeeps == IInv /\ [Next]_vars => IInv'
  <1> SUFFICES ASSUME IInv, [Next]_vars
               PROVE  IInv'
    OBVIOUS
  <1>1. CASE UNCHANGED vars
    BY <1>1, StutterKeeps
  <1>2. CASE broken = "no" /\ Next
    <2> USE <1>2
    <2>0. TypeOK /\ CoreInv
      BY DEF IInv
    <2>1. ASSUME NEW t \in Thread, CallStep(t) \/ HandStep(t) \/ EvictStep(t) \/ UserStep(t)
          PROVE  IInv'
      BY <2>0, <2>1, CallStepKeeps, HandStepKeeps, EvictStepKeeps,
         UserStepKeeps
    <2>2. ASSUME NEW e \in Entry, WriteDone(e) \/ WriteClear(e)
          PROVE  IInv'
      BY <2>0, <2>2, WriteDoneStep, WriteClearStep DEF IInv
    <2> QED BY <2>1, <2>2 DEF Next
  <1>3. CASE broken # "no" /\ Next
    BY <1>3, StutterKeeps DEF Next
  <1> QED BY <1>1, <1>2, <1>3

(* The invariant of the page cache: while nothing has gone wrong for good, *)
(* every flag of a status word has the one owner that set it, every count  *)
(* is the number of references, every mapped entry has its page, and a     *)
(* thread that waits for readers has passed only readers that will notice. *)
THEOREM Invariance == Spec => []IInv
  <1>1. Init => IInv
    BY InitStep
  <1>2. IInv /\ [Next]_vars => IInv'
    BY NextKeeps
  <1> QED BY <1>1, <1>2, PTL DEF Spec

(* No reference count of clockcache goes below zero, and every variable    *)
(* keeps its type, also in the step that finds the program broken.         *)
THEOREM TypeCorrect == Spec => []TypeOK
  <1>1. IInv => TypeOK
    BY DEF IInv
  <1> QED BY <1>1, Invariance, PTL

-----------------------------------------------------------------------------
(* Gets that wait for a load                                               *)

(* A get that waits for CC_LOADING has found its page in the entry, and    *)
(* only an asynchronous get that gives its load up can change that.        *)
WaitInv ==
    \A t \in Thread :
        pc[t] = "loading" /\ op[t] # "discard" /\ t \notin given_up => disk_addr[ent[t]] = want[t]

(* A step that keeps this; the thread that takes it may be given a wrong   *)
(* page only if its load was given up, and only asynchronous gets do so.   *)
WaitStep(t) ==
    /\ WaitInv'
    /\ Others(t)
    /\ \/ broken' = broken
       \/ LoadingTest(t) /\ t \in given_up
       \/ PageSync(t) \/ CleanSubmit(t)
    /\ op'[t] = "async" => op[t] = "async" \/ AsyncThread # {}
    /\ given_up' \subseteq given_up \/ op[t] = "async"

(* A step that has nothing to do with waiting.                             *)
Aside(t) ==
    /\ Others(t)
    /\ broken' = broken
    /\ pc'[t] = "loading" => op'[t] = "discard"
    /\ op'[t] = "async" => op[t] = "async"
    /\ given_up \ {t} \subseteq given_up'
    /\ given_up' \subseteq given_up

LEMMA AsideWaits ==
    ASSUME WaitInv, NEW t \in Thread, Aside(t),
           \/ disk_addr' = disk_addr
           \/ \A u \in Thread \ {t} : pc[u] = "loading" /\ disk_addr[ent[u]] = want[u] =>
                  disk_addr'[ent[u]] = want[u]
    PROVE  WaitStep(t)
  BY DEF WaitInv, WaitStep, Aside, Others

LEMMA CallWaits ==
    ASSUME TypeOK, CoreInv, WaitInv, NEW t \in Thread, CallStep(t)
    PROVE  WaitStep(t)
  <1> USE DEF Aside, Others, TypeOK, LocalTypeOK, Goto, Return, SetFlags, ClearFlags, IncRef, DecRef,
              entryVars, diskVars, handVars, callVars
  <1> USE DEF CoreInv
  <1>1. CASE LookupEntry(t) \/ ReadTest(t)
    <2>1. Aside(t) /\ disk_addr' = disk_addr
      BY <1>1 DEF LookupEntry, ReadTest
    <2> QED BY <2>1, AsideWaits
  <1>2. CASE ReadInc(t) \/ ReadTestFree(t) \/ ReadTestLocked(t)
    <2>1. Aside(t) /\ disk_addr' = disk_addr
      BY <1>2 DEF ReadInc, ReadTestFree, ReadTestLocked
    <2> QED BY <2>1, AsideWaits
  <1>3. CASE ReadUndo(t)
    <2>1. Aside(t) /\ disk_addr' = disk_addr
      BY <1>3 DEF ReadUndo
    <2> QED BY <2>1, AsideWaits
  <1>4. CASE MapPage(t) \/ MapAbort(t)
    <2>1. Aside(t) /\ disk_addr' = disk_addr
      BY <1>4 DEF MapPage, MapAbort
    <2> QED BY <2>1, AsideWaits
  <1>5. CASE Request(t) \/ NoReqsRelease(t)
    <2>1. Aside(t) /\ disk_addr' = disk_addr
      BY <1>5 DEF Request, NoReqsRelease
    <2> QED BY <2>1, AsideWaits
  <1>6. CASE Load(t)
    <2>1. Aside(t) /\ disk_addr' = disk_addr
      BY <1>6 DEF Load
    <2> QED BY <2>1, AsideWaits
  <1>7. CASE LockFlush(t) \/ LockDrain(t)
    <2>1. Aside(t) /\ disk_addr' = disk_addr
      BY <1>7 DEF LockFlush, LockDrain
    <2> QED BY <2>1, AsideWaits
  <1>8. CASE AllocMap(t)
    <2>1. Aside(t) /\ disk_addr' = disk_addr
      BY <1>8 DEF AllocMap
    <2> QED BY <2>1, AsideWaits
  <1>9. CASE DiscardClaim(t) \/ DiscardRelease(t)
    <2>1. Aside(t) /\ disk_addr' = disk_addr
      BY <1>9 DEF DiscardClaim, DiscardRelease
    <2> QED BY <2>1, AsideWaits
  <1>10. CASE DiscardDec(t)
    <2>1. Aside(t) /\ disk_addr' = disk_addr
      BY <1>10 DEF DiscardDec
    <2> QED BY <2>1, AsideWaits
  <1>11. CASE SetAccessed(t)
    <2>1. Aside(t) /\ disk_addr' = disk_addr
      BY <1>11 DEF SetAccessed
    <2> QED BY <2>1, AsideWaits
  <1>12. CASE AddrTest(t)
    <2>1. /\ Others(t) /\ disk_addr' = disk_addr /\ given_up' = given_up /\ broken' = broken
          /\ op'[t] = op[t] /\ ent'[t] = ent[t] /\ want'[t] = want[t]
          /\ pc'[t] = "loading" => disk_addr[ent[t]] = want[t]
      BY <1>12 DEF AddrTest
    <2> QED BY <2>1 DEF WaitInv, WaitStep
  <1>13. CASE LoadingTest(t)
    <2>1. /\ Others(t) /\ disk_addr' = disk_addr /\ given_up' = given_up /\ op' = op
          /\ pc'[t] # "loading" /\ ent'[t] = ent[t] /\ want'[t] = want[t]
          /\ \/ broken' = broken
             \/ op[t] # "discard" /\ pc[t] = "loading" /\ disk_addr[ent[t]] # want[t]
      BY <1>13 DEF LoadingTest
    <2>2. broken' = broken \/ t \in given_up
      BY <2>1 DEF WaitInv
    <2> QED BY <1>13, <2>1, <2>2 DEF WaitInv, WaitStep
  <1>14. CASE SetAddr(t)
    <2>1. /\ Aside(t) /\ pc[t] = "setaddr" /\ ent[t] \in Entry
          /\ disk_addr' = [disk_addr EXCEPT ![ent[t]] = want[t]]
      BY <1>14 DEF SetAddr, PlacesInv, EntryPCs, Filling, Loading
    <2>2. disk_addr[ent[t]] = None
      BY <2>1 DEF MapsInv
    <2>3. ASSUME NEW u \in Thread \ {t}, pc[u] = "loading", disk_addr[ent[u]] = want[u]
          PROVE  disk_addr'[ent[u]] = want[u]
      <3>1. want[u] # None /\ ent[u] \in Entry
        BY <2>3 DEF PlacesInv, EntryPCs, Trying
      <3> QED BY <2>1, <2>2, <2>3, <3>1
    <2> QED BY <2>1, <2>3, AsideWaits
  <1>15. CASE AllocAddr(t)
    <2>1. /\ Aside(t) /\ pc[t] = "map" /\ ent[t] \in Entry
          /\ disk_addr' = [disk_addr EXCEPT ![ent[t]] = want[t]]
      BY <1>15 DEF AllocAddr, PlacesInv, EntryPCs, Filling, Loading
    <2>2. disk_addr[ent[t]] = None
      BY <2>1 DEF MapsInv
    <2>3. ASSUME NEW u \in Thread \ {t}, pc[u] = "loading", disk_addr[ent[u]] = want[u]
          PROVE  disk_addr'[ent[u]] = want[u]
      <3>1. want[u] # None /\ ent[u] \in Entry
        BY <2>3 DEF PlacesInv, EntryPCs, Trying
      <3> QED BY <2>1, <2>2, <2>3, <3>1
    <2> QED BY <2>1, <2>3, AsideWaits
  <1>16. CASE NoReqsUnmap(t)
    <2>1. /\ Others(t) /\ pc[t] = "unmap" /\ pc'[t] = "release" /\ ent[t] \in Entry
          /\ disk_addr' = [disk_addr EXCEPT ![ent[t]] = None] /\ op' = op /\ broken' = broken
          /\ given_up' = given_up \cup WaitingFor(ent[t])
      BY <1>16 DEF NoReqsUnmap, PlacesInv, EntryPCs, Filling, Loading
    <2>2. op[t] = "async"
      BY <2>1 DEF PlacesInv, OpsAt
    <2>3. \A u \in Thread \ WaitingFor(ent[t]) : pc[u] = "loading" /\ op[u] # "discard" =>
              ent[u] \in Entry \ {ent[t]}
      BY DEF WaitingFor, PlacesInv, EntryPCs, Trying
    <2> QED BY <2>1, <2>2, <2>3 DEF WaitInv, WaitStep
  <1>17. CASE DiscardUnmap(t)
    <2> DEFINE b == ent[t]
    <2>1. /\ Aside(t) /\ pc[t] = "d_unmap" /\ b \in Entry
          /\ disk_addr' = [disk_addr EXCEPT ![b] = None]
      BY <1>17 DEF DiscardUnmap, PlacesInv, EntryPCs, Valid, Evicting
    <2>2. HasLock(t, b) /\ Drained(t) = RcWidth
      BY <2>1 DEF HasLock, Drained
    <2>3. ASSUME NEW u \in Thread \ {t}, pc[u] = "loading", disk_addr[ent[u]] = want[u]
          PROVE  disk_addr'[ent[u]] = want[u]
      <3>1. ent[u] \in Entry /\ RefOf(u) = ent[u]
        BY <2>3 DEF PlacesInv, RefOf, EntryPCs, Trying
      <3>2. SlotOf[u] < Drained(t)
        BY <2>2, DrainedNat
      <3>3. ent[u] # b
        <4> SUFFICES ASSUME ent[u] = b
                     PROVE  FALSE
          OBVIOUS
        <4>1. Harmless(u, b)
          BY <2>1, <2>2, <3>1, <3>2 DEF DrainInv
        <4> QED BY <2>3, <4>1 DEF Harmless, Blocked, Trying
      <3> QED BY <2>1, <2>3, <3>1, <3>3
    <2> HIDE DEF b
    <2> QED BY <2>1, <2>3, AsideWaits
  <1> QED BY <1>1, <1>2, <1>3, <1>4, <1>5, <1>6, <1>7, <1>8, <1>9, <1>10, <1>11, <1>12, <1>13, <1>14, <1>15, <1>16, <1>17 DEF CallStep

LEMMA HandWaits ==
    ASSUME TypeOK, CoreInv, WaitInv, NEW t \in Thread, HandStep(t)
    PROVE  WaitStep(t)
  <1> USE DEF Aside, Others, TypeOK, LocalTypeOK, Goto, Return, SetFlags, ClearFlags, IncRef, DecRef,
              entryVars, diskVars, handVars, callVars
  <1> USE DEF CoreInv
  <1>1. CASE TakeFree(t) \/ TakeStatus(t) \/ GiveUp(t) \/ MoveHand(t)
    <2>1. Aside(t) /\ disk_addr' = disk_addr
      BY <1>1 DEF TakeFree, TakeStatus, GiveUp, MoveHand
    <2> QED BY <2>1, AsideWaits
  <1>2. CASE CleanSet(t) \/ CleanSkip(t)
    <2>1. Aside(t) /\ disk_addr' = disk_addr
      BY <1>2 DEF CleanSet, CleanSkip
    <2> QED BY <2>1, AsideWaits
  <1>3. CASE NeighbourLookup(t)
    <2>1. Aside(t) /\ disk_addr' = disk_addr
      BY <1>3 DEF NeighbourLookup, WalkEnd
    <2> QED BY <2>1, AsideWaits
  <1>4. CASE NeighbourSet(t)
    <2>1. Aside(t) /\ disk_addr' = disk_addr
      BY <1>4 DEF NeighbourSet, WalkEnd
    <2> QED BY <2>1, AsideWaits
  <1>5. ASSUME NEW b \in Entry, HandClean(t, b) \/ HandTake(t, b)
        PROVE  WaitStep(t)
    <2>1. Aside(t) /\ disk_addr' = disk_addr
      BY <1>5 DEF HandClean, HandTake
    <2> QED BY <2>1, AsideWaits
  <1>6. CASE CleanSubmit(t)
    <2>1. /\ Others(t) /\ disk_addr' = disk_addr /\ given_up' = given_up /\ op' = op
          /\ pc'[t] # "loading"
      BY <1>6 DEF CleanSubmit
    <2> QED BY <1>6, <2>1 DEF WaitInv, WaitStep
  <1> QED BY <1>1, <1>2, <1>3, <1>4, <1>5, <1>6 DEF HandStep

LEMMA EvictWaits ==
    ASSUME TypeOK, CoreInv, WaitInv, NEW t \in Thread, EvictStep(t)
    PROVE  WaitStep(t)
  <1> USE DEF Aside, Others, TypeOK, LocalTypeOK, Goto, Return, SetFlags, ClearFlags, IncRef, DecRef,
              entryVars, diskVars, handVars, callVars
  <1> USE DEF CoreInv
  <1>1. CASE EvictTest(t) \/ EvictReads(t)
    <2>1. Aside(t) /\ disk_addr' = disk_addr
      BY <1>1 DEF EvictTest, EvictReads
    <2> QED BY <2>1, AsideWaits
  <1>2. CASE EvictRef(t)
    <2>1. Aside(t) /\ disk_addr' = disk_addr
      BY <1>2 DEF EvictRef
    <2> QED BY <2>1, AsideWaits
  <1>3. CASE EvictFlags(t)
    <2>1. Aside(t) /\ disk_addr' = disk_addr
      BY <1>3 DEF EvictFlags
    <2> QED BY <2>1, AsideWaits
  <1>4. CASE EvictDrain(t) \/ EvictVerify(t)
    <2>1. Aside(t) /\ disk_addr' = disk_addr
      BY <1>4 DEF EvictDrain, EvictVerify
    <2> QED BY <2>1, AsideWaits
  <1>5. CASE EvictUnmap(t)
    <2> DEFINE b == free_hand[t]
    <2>1. /\ Aside(t) /\ pc[t] = "e_unmap" /\ b \in Entry
          /\ disk_addr' = [disk_addr EXCEPT ![b] = None]
      BY <1>5 DEF EvictUnmap, PlacesInv, EntryPCs, Valid, Evicting
    <2>2. HasLock(t, b) /\ Drained(t) = RcWidth
      BY <2>1 DEF HasLock, Drained
    <2>3. ASSUME NEW u \in Thread \ {t}, pc[u] = "loading", disk_addr[ent[u]] = want[u]
          PROVE  disk_addr'[ent[u]] = want[u]
      <3>1. ent[u] \in Entry /\ RefOf(u) = ent[u]
        BY <2>3 DEF PlacesInv, RefOf, EntryPCs, Trying
      <3>2. SlotOf[u] < Drained(t)
        BY <2>2, DrainedNat
      <3>3. ent[u] # b
        <4> SUFFICES ASSUME ent[u] = b
                     PROVE  FALSE
          OBVIOUS
        <4>1. Harmless(u, b)
          BY <2>1, <2>2, <3>1, <3>2 DEF DrainInv
        <4> QED BY <2>3, <4>1 DEF Harmless, Blocked, Trying
      <3> QED BY <2>1, <2>3, <3>1, <3>3
    <2> HIDE DEF b
    <2> QED BY <2>1, <2>3, AsideWaits
  <1> QED BY <1>1, <1>2, <1>3, <1>4, <1>5 DEF EvictStep

LEMMA UserWaits ==
    ASSUME TypeOK, CoreInv, WaitInv, NEW t \in Thread, UserStep(t)
    PROVE  WaitStep(t)
  <1> USE DEF Aside, Others, TypeOK, LocalTypeOK, Goto, Return, SetFlags, ClearFlags, IncRef, DecRef,
              entryVars, diskVars, handVars, callVars
  <1> USE DEF CoreInv
  <1>1. CASE Unget(t) \/ TryClaim(t) \/ Unclaim(t)
    <2>1. Aside(t) /\ disk_addr' = disk_addr
      BY <1>1 DEF Unget, TryClaim, Unclaim
    <2> QED BY <2>1, AsideWaits
  <1>2. CASE LockSet(t) \/ MarkDirty(t)
    <2>1. Aside(t) /\ disk_addr' = disk_addr
      BY <1>2 DEF LockSet, MarkDirty
    <2> QED BY <2>1, AsideWaits
  <1>3. CASE Write(t) \/ Unlock(t)
    <2>1. Aside(t) /\ disk_addr' = disk_addr
      BY <1>3 DEF Write, Unlock
    <2> QED BY <2>1, AsideWaits
  <1>4. ASSUME NEW p \in Page, GetCall(t, p)
        PROVE  WaitStep(t)
    <2>1. /\ Others(t) /\ disk_addr' = disk_addr /\ given_up' = given_up /\ broken' = broken
          /\ pc'[t] # "loading"
          /\ op'[t] = "async" => AsyncThread # {}
      BY <1>4 DEF GetCall
    <2> QED BY <2>1 DEF WaitInv, WaitStep
  <1>5. ASSUME NEW p \in Page, AllocCall(t, p)
        PROVE  WaitStep(t)
    <2>1. Aside(t) /\ disk_addr' = disk_addr
      BY <1>5 DEF AllocCall
    <2> QED BY <2>1, AsideWaits
  <1>6. ASSUME NEW p \in Page, DiscardCall(t, p)
        PROVE  WaitStep(t)
    <2>1. Aside(t) /\ disk_addr' = disk_addr
      BY <1>6 DEF DiscardCall
    <2> QED BY <2>1, AsideWaits
  <1>7. CASE PageSync(t)
    <2>1. /\ Others(t) /\ disk_addr' = disk_addr /\ given_up' = given_up /\ op' = op
          /\ pc'[t] # "loading"
      BY <1>7 DEF PageSync
    <2> QED BY <1>7, <2>1 DEF WaitInv, WaitStep
  <1> QED BY <1>1, <1>2, <1>3, <1>4, <1>5, <1>6, <1>7 DEF UserStep

(* The device, and a program that has stopped, change none of this.        *)
LEMMA OthersWait ==
    ASSUME TypeOK, WaitInv,
           \/ \E e \in Entry : WriteDone(e) \/ WriteClear(e)
           \/ UNCHANGED vars
    PROVE  WaitInv' /\ UNCHANGED <<disk_addr, lookup, current, pc, op, want, ent, given_up, broken>>
  BY DEF WriteDone, WriteClear, vars, entryVars, diskVars, handVars, callVars, WaitInv

LEMMA WaitKeeps == IInv /\ WaitInv /\ [Next]_vars => WaitInv'
  <1> SUFFICES ASSUME IInv, WaitInv, [Next]_vars
               PROVE  WaitInv'
    OBVIOUS
  <1>1. CASE UNCHANGED vars
    BY <1>1, OthersWait DEF IInv
  <1>2. CASE broken = "no" /\ Next
    <2>1. TypeOK /\ CoreInv
      BY <1>2 DEF IInv
    <2>2. ASSUME NEW t \in Thread, CallStep(t) \/ HandStep(t) \/ EvictStep(t) \/ UserStep(t)
          PROVE  WaitInv'
      BY <2>1, <2>2, CallWaits, HandWaits, EvictWaits, UserWaits DEF WaitStep
    <2> QED BY <1>2, <2>1, <2>2, OthersWait DEF Next
  <1>3. CASE broken # "no" /\ Next
    BY <1>1, <1>3 DEF Next
  <1> QED BY <1>1, <1>2, <1>3

(* While nothing has gone wrong, every thread that has a page has it       *)
(* right.                                                                  *)
HoldersRight == broken = "no" => HoldersSeeLastWrite

LEMMA HoldersAreRight == IInv => HoldersRight
  <1> SUFFICES ASSUME TypeOK, CoreInv, NEW t \in Thread, Holds(t)
               PROVE  /\ disk_addr[ent[t]] = want[t]
                      /\ lookup[want[t]] = ent[t]
                      /\ status[ent[t]] \cap {"FREE", "LOADING"} = {}
                      /\ current[ent[t]]
    BY DEF IInv, HoldersRight, HoldersSeeLastWrite
  <1>1. pc[t] \in Valid
    BY DEF Holds, Valid
  <1>2. ent[t] \in Entry /\ want[t] \in Page
    BY <1>1 DEF TypeOK, CoreInv, PlacesInv, EntryPCs, Valid
  <1>3. /\ disk_addr[ent[t]] = want[t] /\ lookup[want[t]] = ent[t]
        /\ ~Has(ent[t], "FREE") /\ ~Has(ent[t], "LOADING")
    BY <1>1 DEF CoreInv, ValidInv
  <1>4. Mapped(ent[t])
    BY <1>2, <1>3, NoneAssumption DEF Mapped
  <1>5. current[ent[t]]
    BY <1>2, <1>3, <1>4 DEF CoreInv, DataInv
  <1> QED BY <1>3, <1>5 DEF Has

(* The step in which something goes wrong: only the thread that takes it   *)
(* can be given a wrong page, and only if its load was given up.           *)
LEMMA FailureKeepsHolders ==
    ASSUME IInv, WaitInv, HoldersSeeLastWrite, broken = "no", broken' # "no", [Next]_vars
    PROVE  HoldersSeeLastWrite'
  <1>1. TypeOK /\ CoreInv
    BY DEF IInv
  <1>2. PICK t \in Thread : CallStep(t) \/ HandStep(t) \/ EvictStep(t) \/ UserStep(t)
    BY <1>1, OthersWait DEF Next
  <1>3. WaitStep(t) /\ Others(t)
    BY <1>1, <1>2, CallWaits, HandWaits, EvictWaits, UserWaits DEF WaitStep
  <1>4. /\ UNCHANGED <<disk_addr, lookup, current, given_up>>
        /\ want' = want /\ ent' = ent /\ op' = op
    BY <1>3
    DEF WaitStep, LoadingTest, PageSync, CleanSubmit, entryVars, diskVars, handVars, callVars
  <1>5. status' = status
    <2>1. CASE PageSync(t)
      <3>1. status \in [Entry -> SUBSET Flag] /\ ent[t] \in Entry \cup {None}
        BY <1>1 DEF TypeOK
      <3>2. ~Cleanable(ent[t])
        BY <2>1 DEF PageSync
      <3> QED BY <2>1, <3>1, <3>2 DEF PageSync
    <2>2. CASE ~PageSync(t)
      BY <1>3, <2>2 DEF WaitStep, LoadingTest, CleanSubmit, entryVars
    <2> QED BY <2>1, <2>2
  <1>6. t \in given_up' \/ (Holds(t)' => Holds(t))
    BY <1>1, <1>3, <1>4
    DEF WaitStep, PageSync, CleanSubmit, Goto, Holds, CoreInv, LocalTypeOK
  <1> QED BY <1>3, <1>4, <1>5, <1>6 DEF HoldersSeeLastWrite, Holds, Others

(* What cache_get and cache_get_async give back is the entry that the      *)
(* lookup table names, loaded, with the last write to the page, except     *)
(* what a get returns that was waiting for a load when an asynchronous get *)
(* gave that load up.  This includes the step that sets broken.            *)
THEOREM GetsSeeLastWrite == Spec => []HoldersSeeLastWrite
  <1>1. Init => IInv /\ WaitInv
    BY InitStep DEF Init, WaitInv
  <1>2. IInv => HoldersRight
    BY HoldersAreRight
  <1>3. IInv /\ WaitInv /\ [Next]_vars => WaitInv'
    BY WaitKeeps
  <1>4. Init /\ HoldersRight => HoldersSeeLastWrite
    BY DEF Init, HoldersRight
  <1>5. IInv /\ WaitInv /\ HoldersRight' /\ HoldersSeeLastWrite /\ [Next]_vars => HoldersSeeLastWrite'
    <2> SUFFICES ASSUME IInv, WaitInv, HoldersRight', HoldersSeeLastWrite, [Next]_vars
                 PROVE  HoldersSeeLastWrite'
      OBVIOUS
    <2>1. CASE broken' = "no"
      BY <2>1 DEF HoldersRight
    <2>2. CASE broken = "no" /\ broken' # "no"
      BY <2>2, FailureKeepsHolders
    <2>3. CASE broken # "no"
      <3>1. UNCHANGED vars
        BY <2>3 DEF Next
      <3> QED BY <3>1
              DEF HoldersSeeLastWrite, Holds, vars, entryVars, diskVars, handVars, callVars
    <2> QED BY <2>1, <2>2, <2>3
  <1> QED BY <1>1, <1>2, <1>3, <1>4, <1>5, Invariance, PTL DEF Spec

(* No get is asynchronous, so no load is given up, and no get has returned *)
(* a page that it was not asked for.                                       *)
SynchronousInv ==
    /\ \A t \in Thread : op[t] # "async"
    /\ given_up = {}
    /\ GetReturnsItsPage

(* In a store whose threads use no asynchronous get, cache_get always      *)
(* returns the page it was asked for: asynchronous gets that give up their *)
(* load are the only reason why it may not.                                *)
THEOREM SynchronousGetsReturnTheirPage ==
    ASSUME AsyncThread = {}
    PROVE  Spec => []GetReturnsItsPage
  <1>1. Init => IInv /\ WaitInv /\ SynchronousInv
    BY InitStep DEF Init, WaitInv, SynchronousInv, GetReturnsItsPage
  <1>2. IInv /\ WaitInv /\ [Next]_vars => WaitInv'
    BY WaitKeeps
  <1>3. IInv /\ WaitInv /\ SynchronousInv /\ [Next]_vars => SynchronousInv'
    <2> SUFFICES ASSUME IInv, WaitInv, SynchronousInv, [Next]_vars
                 PROVE  SynchronousInv'
      OBVIOUS
    <2>1. CASE UNCHANGED vars \/ broken # "no" \/ \E e \in Entry : WriteDone(e) \/ WriteClear(e)
      <3>1. UNCHANGED <<op, given_up, broken>>
        BY <2>1, OthersWait DEF Next, IInv
      <3> QED BY <3>1 DEF SynchronousInv, GetReturnsItsPage
    <2>2. ASSUME broken = "no", NEW t \in Thread, CallStep(t) \/ HandStep(t) \/ EvictStep(t) \/ UserStep(t)
          PROVE  SynchronousInv'
      <3>1. WaitStep(t)
        BY <2>2, CallWaits, HandWaits, EvictWaits, UserWaits DEF IInv
      <3>2. given_up' = {} /\ \A u \in Thread : op'[u] # "async"
        BY <3>1 DEF WaitStep, SynchronousInv, Others
      <3>3. broken' # "wrong page returned"
        BY <2>2, <3>1 DEF WaitStep, SynchronousInv, PageSync, CleanSubmit
      <3> QED BY <3>2, <3>3 DEF SynchronousInv, GetReturnsItsPage
    <2> QED BY <2>1, <2>2 DEF Next
  <1>4. SynchronousInv => GetReturnsItsPage
    BY DEF SynchronousInv
  <1> QED BY <1>1, <1>2, <1>3, <1>4, Invariance, PTL DEF Spec

(* A thread that clockcache_lock or clockcache_alloc has given the write   *)
(* lock of a page is alone with it, and an entry's claim has one owner.    *)
THEOREM WritersAreAlone == Spec => []PageWriterAlone
  <1>1. IInv => PageWriterAlone
    <2> SUFFICES ASSUME TypeOK, CoreInv
                 PROVE  /\ \A t \in Thread : pc[t] = "write" =>
                              /\ inflight[ent[t]] = {}
                              /\ \A u \in Thread \ {t} : Holds(u) => ent[u] # ent[t]
                        /\ \A e \in Entry : \A t, u \in Thread :
                              Claims(t, e) /\ Claims(u, e) => t = u
      BY DEF IInv, PageWriterAlone
    <2>1. ASSUME NEW t \in Thread, pc[t] = "write"
          PROVE  /\ inflight[ent[t]] = {}
                 /\ \A u \in Thread \ {t} : Holds(u) => ent[u] # ent[t]
      <3>1. ent[t] \in Entry /\ HasLock(t, ent[t]) /\ Drained(t) = RcWidth
        BY <2>1
        DEF TypeOK, CoreInv, PlacesInv, EntryPCs, Valid, HasLock, Drained
      <3>2. inflight[ent[t]] = {}
        BY <2>1, <3>1 DEF CoreInv, WritebackInv, Flushed
      <3>3. ASSUME NEW u \in Thread \ {t}, Holds(u), ent[u] = ent[t]
            PROVE  FALSE
        <4>1. RefOf(u) = ent[t]
          BY <3>3 DEF Holds, RefOf, EntryPCs, Valid
        <4>2. SlotOf[u] < Drained(t)
          BY <3>1, DrainedNat
        <4>3. Harmless(u, ent[t])
          BY <3>1, <4>1, <4>2 DEF CoreInv, DrainInv
        <4> QED BY <3>3, <4>3 DEF Harmless, Blocked, Trying, Holds
      <3> QED BY <3>2, <3>3
    <2>2. ASSUME NEW e \in Entry, NEW t \in Thread, NEW u \in Thread, Claims(t, e), Claims(u, e)
          PROVE  t = u
      <3>1. HasClaim(t, e) /\ HasClaim(u, e)
        BY <2>2 DEF Claims, HasClaim
      <3> QED BY <3>1 DEF CoreInv, FlagsInv, FlagsAt
    <2> QED BY <2>1, <2>2
  <1> QED BY <1>1, Invariance, PTL

(* clockcache_try_evict and write back never lose the only copy of a page. *)
THEOREM EvictionLosesNothing == Spec => []NothingLost
  <1>1. IInv => NothingLost
    <2> SUFFICES ASSUME TypeOK, CoreInv, NEW p \in live, ~saved[p]
                 PROVE  \E e \in Entry : /\ lookup[p] = e /\ disk_addr[e] = p
                                         /\ current[e] /\ status[e] \cap {"CLEAN", "FREE"} = {}
      BY DEF IInv, NothingLost
    <2>1. p \in Page
      BY DEF TypeOK
    <2>2. lookup[p] # None /\ disk_addr[lookup[p]] = p /\ ~Has(lookup[p], "CLEAN")
      BY DEF CoreInv, DataInv
    <2>3. PICK e \in Entry : lookup[p] = e
      BY <2>1, <2>2 DEF TypeOK
    <2>4. ~Has(e, "LOADING")
      BY <2>2, <2>3 DEF CoreInv, FlagsInv, FlagsAt
    <2>5. Mapped(e)
      BY <2>1, <2>2, <2>3, NoneAssumption DEF Mapped
    <2>6. current[e]
      BY <2>4, <2>5 DEF CoreInv, DataInv
    <2>7. ~Has(e, "FREE")
      BY <2>1, <2>2, <2>3 DEF CoreInv, MapsInv
    <2> QED BY <2>2, <2>3, <2>6, <2>7 DEF Has
  <1> QED BY <1>1, Invariance, PTL
=============================================================================
