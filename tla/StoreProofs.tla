---------------------------- MODULE StoreProofs ----------------------------
(***************************************************************************)
(* Proofs about the life of a store, for any number of extents, items,     *)
(* starts and crashes: a store that create or open has returned holds what *)
(* was inserted, and its extents are not handed out again; and while it is *)
(* closed all of it is on disk.                                            *)
(*                                                                         *)
(* rc_allocator_unmount writes the counts after the super block that says  *)
(* "unmounted", and a crash between these two leaves counts that are older *)
(* than the root.  The next open takes them (lost_counts is "reused"), and *)
(* from there on only the types are invariant.                             *)
(***************************************************************************)
EXTENDS Store, SequenceTheorems, TLAPS

ExtentType == [roots : Seq(SUBSET Extents), items : SUBSET Nat]

StoreTypeInv ==
    /\ stage \in {"down", "creating", "created", "mounting", "mounted", "up",
                  "closing", "flushed", "unmounted"}
    /\ root_addr \in (0 .. NumExtents) \X Nat
    /\ memtable \subseteq Nat /\ inserted \subseteq Nat /\ items \in Nat
    /\ pages \in [Extents -> ExtentType]
    /\ on_disk \in [Extents -> ExtentType]
    /\ dirty \subseteq Extents
    /\ store_refs \subseteq Extents /\ disk_counts \subseteq Extents
    /\ disk_super \in [root_addr : (0 .. NumExtents) \X Nat,
                       unmounted : BOOLEAN, valid : BOOLEAN]
    /\ promised \in BOOLEAN
    /\ lost_counts \in {"no", "crash", "reused"}

(* What a root refers to in some contents of the extents, and the items    *)
(* that this makes.  A root that can be read has counts for its trunk and  *)
(* its branches.                                                           *)
Branches(contents, addr) == contents[addr[1]].roots[addr[2]]
ItemsAt(contents, addr) == UNION {contents[e].items : e \in Branches(contents, addr)}
Rooted(contents, addr, counts) ==
    /\ addr[1] \in counts
    /\ addr[2] \in 1 .. Len(contents[addr[1]].roots)
    /\ Branches(contents, addr) \subseteq counts \ {addr[1]}

(* The steps of an open and a close, also of a store that was misread.     *)
HasRoot == {"created", "mounted", "up", "closing", "flushed", "unmounted"}
StagesInv ==
    /\ stage \in {"down", "creating", "mounting", "flushed", "unmounted"} => dirty = {}
    /\ stage # "up" => memtable = {}
    /\ stage = "mounting" => pages = on_disk /\ store_refs = disk_counts
    /\ stage = "mounted" => root_addr = disk_super.root_addr
    /\ stage = "unmounted" => disk_super.root_addr = root_addr
    /\ stage \in {"creating", "created"} => ~promised
    /\ stage \notin {"down", "creating", "created"} => promised
    /\ promised /\ disk_super.unmounted =>
           stage \in {"down", "mounting", "mounted", "unmounted"}
    /\ lost_counts = "crash" => stage \in {"down", "mounting"}
    /\ stage \in HasRoot => root_addr[1] \in Extents
    /\ disk_super.valid => disk_super.root_addr[1] \in Extents

(* While the process has a root, in memory. *)
RootInv ==
    stage \in HasRoot => Rooted(pages, root_addr, store_refs)
ItemsInv ==
    /\ stage \in HasRoot \ {"created"} =>
           memtable \cup ItemsAt(pages, root_addr) = inserted
    /\ stage = "created" => Branches(pages, root_addr) = {}
(* The cache and the disk differ in dirty pages only, or in pages that     *)
(* were discarded; while a store is opened, only in the page of the log.   *)
CacheInv ==
    /\ stage \in HasRoot =>
           \A e \in {root_addr[1]} \cup Branches(pages, root_addr) :
               e \notin dirty => on_disk[e] = pages[e]
    /\ stage = "mounted" => dirty \cap disk_counts = {}
(* What an open would find: the root of a super block that says            *)
(* "unmounted" is on disk, and so are its counts unless the process died   *)
(* before they were written.                                               *)
DiskInv ==
    promised /\ disk_super.unmounted /\ stage # "unmounted" =>
        /\ Rooted(on_disk, disk_super.root_addr, Extents)
        /\ lost_counts = "no" => Rooted(on_disk, disk_super.root_addr, disk_counts)
        /\ ItemsAt(on_disk, disk_super.root_addr) = inserted

WholeInv == RootInv /\ ItemsInv /\ CacheInv /\ DiskInv
StoreInv ==
    /\ StoreTypeInv /\ StagesInv
    /\ lost_counts # "reused" => WholeInv

-----------------------------------------------------------------------------
LEMMA ExtentIsNat == Extents \subseteq 1 .. NumExtents /\ NoExtent \notin Extents
  BY StoreAssumption DEF Extents, NoExtent

(* The branches of whatever root there is are extents. *)
LEMMA RefsType == ASSUME StoreTypeInv PROVE Refs \subseteq Extents
  <1>1. RootsIn(root_addr[1]) \in Seq(SUBSET Extents)
    <2>1. <<>> \in Seq(SUBSET Extents)
      OBVIOUS
    <2>2. QED
      BY <2>1 DEF RootsIn, StoreTypeInv, ExtentType
  <1>2. QED
    BY <1>1 DEF Refs

(* Addresses are pairs of an extent and a page. *)
LEMMA RootType ==
  ASSUME StoreTypeInv, RootInv, stage \in HasRoot
  PROVE  /\ root_addr[1] \in Extents /\ root_addr[2] \in Nat
         /\ root_addr = <<root_addr[1], root_addr[2]>>
         /\ Branches(pages, root_addr) \subseteq Extents
         /\ Refs = Branches(pages, root_addr)
  <1>1. root_addr[1] \in Extents /\ root_addr[2] \in Nat /\ root_addr = <<root_addr[1], root_addr[2]>>
    BY DEF StoreTypeInv, RootInv, Rooted
  <1>2. DOMAIN pages[root_addr[1]].roots = 1 .. Len(pages[root_addr[1]].roots)
    BY <1>1 DEF StoreTypeInv, ExtentType
  <1>3. QED
    BY <1>1, <1>2 DEF StoreTypeInv, RootInv, Rooted, Branches, Refs, RootsIn

(* The page of a log, and one of an empty trunk. *)
LEMMA FreshExtents ==
  /\ EmptyExtent \in ExtentType
  /\ [roots |-> <<{}>>, items |-> {}] \in ExtentType
  <1>1. <<>> \in Seq(SUBSET Extents) /\ <<{}>> \in Seq(SUBSET Extents)
    OBVIOUS
  <1>2. QED
    BY <1>1 DEF EmptyExtent, ExtentType

LEMMA InitInv == StoreInit => StoreInv
  <1> SUFFICES ASSUME StoreInit PROVE StoreInv
    OBVIOUS
  <1>1. StoreTypeInv
    <2>1. Zero \in [Extents -> ExtentType]
      BY FreshExtents DEF Zero
    <2>2. NoAddr \in (0 .. NumExtents) \X Nat
      BY StoreAssumption DEF NoAddr, NoExtent
    <2>3. NoSuper \in [root_addr : (0 .. NumExtents) \X Nat,
                       unmounted : BOOLEAN, valid : BOOLEAN]
      BY <2>2 DEF NoSuper
    <2>4. QED
      BY <2>1, <2>2, <2>3 DEF StoreInit, StoreTypeInv
  <1>2. StagesInv /\ WholeInv
    BY DEF StoreInit, WholeInv, RootInv, ItemsInv, CacheInv, StagesInv, DiskInv,
           HasRoot, NoSuper
  <1>3. QED
    BY <1>1, <1>2 DEF StoreInv

(* The steps that leave the device and a root alone, or have none yet.     *)
LEMMA CreateAllocatorStep == StoreInv /\ CreateAllocator => StoreInv'
  BY DEF StoreInv, StoreTypeInv, WholeInv, RootInv, ItemsInv, CacheInv,
         StagesInv, DiskInv, HasRoot, CreateAllocator, device

LEMMA TrunkCreateStep ==
  ASSUME StoreInv, NEW trunk \in Extents, NEW log \in Extents, trunk # log,
         TrunkCreate(trunk, log)
  PROVE  StoreInv'
  <1>1. /\ stage = "creating" /\ stage' = "created" /\ root_addr' = <<trunk, 1>>
        /\ store_refs' = store_refs \cup {trunk, log}
        /\ pages' = [pages EXCEPT ![log] = EmptyExtent, ![trunk] = [roots |-> <<{}>>, items |-> {}]]
        /\ dirty' = dirty \cup {trunk, log}
        /\ UNCHANGED <<memtable, on_disk, disk_super, disk_counts, inserted, promised, lost_counts, items>>
    BY DEF TrunkCreate, device, ghosts
  <1>2. pages'[trunk].roots = <<{}>> /\ Branches(pages, root_addr)' = {}
    BY <1>1 DEF StoreInv, StoreTypeInv, Branches
  <1>3. StoreTypeInv'
    <2>1. pages' \in [Extents -> ExtentType]
      BY <1>1, FreshExtents DEF StoreInv, StoreTypeInv
    <2>2. root_addr' \in (0 .. NumExtents) \X Nat
      BY <1>1, StoreAssumption DEF Extents
    <2>3. QED
      BY <1>1, <2>1, <2>2 DEF StoreInv, StoreTypeInv
  <1>4. RootInv'
    <2>1. root_addr'[1] = trunk /\ root_addr'[2] = 1 /\ trunk \in store_refs'
      BY <1>1
    <2>2. 1 \in 1 .. Len(pages'[trunk].roots)
      BY <1>2
    <2>3. Rooted(pages, root_addr, store_refs)'
      BY <1>2, <2>1, <2>2 DEF Rooted
    <2>4. QED
      BY <2>3 DEF RootInv
  <1>5. ItemsInv' /\ CacheInv'
    BY <1>1, <1>2 DEF ItemsInv, CacheInv, HasRoot
  <1>6. StagesInv' /\ DiskInv'
    BY <1>1 DEF StoreInv, StagesInv, DiskInv, HasRoot
  <1>7. QED
    BY <1>3, <1>4, <1>5, <1>6 DEF StoreInv, WholeInv

LEMMA TrunkCreateSuperStep == StoreInv /\ TrunkCreateSuper => StoreInv'
  <1> SUFFICES ASSUME StoreInv, TrunkCreateSuper PROVE StoreInv'
    OBVIOUS
  <1>1. /\ stage = "created" /\ stage' = "up" /\ inserted' = {} /\ promised' = TRUE
        /\ disk_super' = [root_addr |-> root_addr, unmounted |-> FALSE, valid |-> TRUE]
        /\ UNCHANGED <<root_addr, memtable, pages, dirty, store_refs, on_disk, disk_counts,
                       lost_counts, items>>
    BY DEF TrunkCreateSuper, SuperBlock, memory
  <1>2. StoreTypeInv' /\ StagesInv'
    BY <1>1 DEF StoreInv, StoreTypeInv, StagesInv, HasRoot
  <1>3. ASSUME WholeInv PROVE WholeInv'
    <2>1. ItemsInv'
      BY <1>1, <1>3 DEF StoreInv, StagesInv, WholeInv, ItemsInv, ItemsAt, Branches, HasRoot
    <2>2. RootInv' /\ CacheInv' /\ DiskInv'
      BY <1>1, <1>3 DEF WholeInv, RootInv, Rooted, Branches, CacheInv, DiskInv, HasRoot
    <2>3. QED
      BY <2>1, <2>2 DEF WholeInv
  <1>4. QED
    BY <1>1, <1>2, <1>3 DEF StoreInv

LEMMA MountAllocatorStep == StoreInv /\ MountAllocator => StoreInv'
  <1> SUFFICES ASSUME StoreInv, MountAllocator PROVE StoreInv'
    OBVIOUS
  <1>1. StoreTypeInv' /\ StagesInv'
    BY DEF StoreInv, StoreTypeInv, StagesInv, HasRoot, MountAllocator, device
  <1>2. WholeInv => WholeInv'
    BY DEF WholeInv, RootInv, ItemsInv, CacheInv, DiskInv, Rooted, Branches, ItemsAt,
           HasRoot, MountAllocator, device
  <1>3. QED
    BY <1>1, <1>2 DEF StoreInv, MountAllocator

(* The log takes an extent without a count: none of the root, if the       *)
(* counts are those of the root.                                           *)
LEMMA TrunkMountStep ==
  ASSUME StoreInv, NEW log \in Extents, log \notin store_refs, TrunkMount(log)
  PROVE  StoreInv'
  <1>1. /\ stage = "mounting" /\ stage' = "mounted" /\ disk_super.unmounted /\ disk_super.valid
        /\ root_addr' = disk_super.root_addr /\ store_refs' = store_refs \cup {log}
        /\ pages' = [pages EXCEPT ![log] = EmptyExtent] /\ dirty' = dirty \cup {log}
        /\ lost_counts' = IF lost_counts = "no" THEN "no" ELSE "reused"
        /\ UNCHANGED <<memtable, on_disk, disk_super, disk_counts, inserted, promised, items>>
    BY DEF TrunkMount, MayMount, device
  <1>2. StoreTypeInv'
    <2>1. pages' \in [Extents -> ExtentType]
      BY <1>1, FreshExtents DEF StoreInv, StoreTypeInv
    <2>2. QED
      BY <1>1, <2>1 DEF StoreInv, StoreTypeInv
  <1>3. StagesInv'
    BY <1>1 DEF StoreInv, StagesInv, HasRoot
  <1>4. ASSUME lost_counts' # "reused" PROVE WholeInv'
    <2> DEFINE addr == disk_super.root_addr
               old == Branches(on_disk, addr)
    <2>1. /\ lost_counts = "no" /\ WholeInv
          /\ pages = on_disk /\ store_refs = disk_counts /\ dirty = {} /\ memtable = {}
          /\ Rooted(on_disk, addr, disk_counts) /\ ItemsAt(on_disk, addr) = inserted
      BY <1>1, <1>4 DEF StoreInv, StoreTypeInv, StagesInv, WholeInv, DiskInv
    <2>2. /\ addr[1] \in disk_counts /\ old \subseteq disk_counts \ {addr[1]}
          /\ log \notin disk_counts /\ disk_counts \subseteq Extents
      BY <2>1 DEF Rooted, StoreInv, StoreTypeInv
    <2>3. \A e \in disk_counts : pages'[e] = on_disk[e]
      BY <1>1, <2>1, <2>2 DEF StoreInv, StoreTypeInv
    <2>4. pages'[addr[1]] = on_disk[addr[1]] /\ Branches(pages, root_addr)' = old
      BY <1>1, <2>2, <2>3 DEF Branches
    <2>5. RootInv'
      BY <1>1, <2>1, <2>2, <2>4 DEF RootInv, Rooted
    <2>6. ItemsInv'
      <3>1. ItemsAt(pages, root_addr)' = ItemsAt(on_disk, addr)
        BY <2>2, <2>3, <2>4 DEF ItemsAt
      <3>2. QED
        BY <1>1, <2>1, <3>1 DEF ItemsInv
    <2>7. CacheInv'
      BY <1>1, <2>1, <2>2, <2>3, <2>4 DEF CacheInv
    <2>8. DiskInv'
      BY <1>1, <2>1 DEF WholeInv, DiskInv, Rooted, ItemsAt, Branches
    <2>9. QED
      BY <2>5, <2>6, <2>7, <2>8 DEF WholeInv
  <1>5. QED
    BY <1>2, <1>3, <1>4 DEF StoreInv

LEMMA TrunkMountSuperStep == StoreInv /\ TrunkMountSuper => StoreInv'
  <1> SUFFICES ASSUME StoreInv, TrunkMountSuper PROVE StoreInv'
    OBVIOUS
  <1>1. /\ stage = "mounted" /\ stage' = "up"
        /\ disk_super' = [root_addr |-> root_addr, unmounted |-> FALSE, valid |-> TRUE]
        /\ UNCHANGED <<root_addr, memtable, pages, dirty, store_refs, on_disk, disk_counts,
                       inserted, promised, lost_counts, items>>
    BY DEF TrunkMountSuper, SuperBlock, memory, ghosts
  <1>2. StoreTypeInv' /\ StagesInv'
    BY <1>1 DEF StoreInv, StoreTypeInv, StagesInv, HasRoot
  <1>3. ASSUME WholeInv PROVE WholeInv'
    BY <1>1, <1>3
    DEF WholeInv, RootInv, ItemsInv, Rooted, Branches, ItemsAt, CacheInv, DiskInv, HasRoot
  <1>4. QED
    BY <1>1, <1>2, <1>3 DEF StoreInv

(* The process is gone, in a close or a crash. *)
LEMMA LostStep ==
  ASSUME StoreInv, Lost, UNCHANGED <<on_disk, disk_super, inserted, promised, items>>,
         disk_counts' \subseteq Extents, lost_counts' \in {"no", "crash", "reused"},
         lost_counts' # "reused" /\ promised /\ disk_super.unmounted =>
               /\ Rooted(on_disk, disk_super.root_addr, Extents)
               /\ lost_counts' = "no" => Rooted(on_disk, disk_super.root_addr, disk_counts')
               /\ ItemsAt(on_disk, disk_super.root_addr) = inserted
  PROVE  StoreInv'
  <1>1. StoreTypeInv'
    <2>1. Zero \in [Extents -> ExtentType]
      BY FreshExtents DEF Zero
    <2>2. NoAddr \in (0 .. NumExtents) \X Nat
      BY StoreAssumption DEF NoAddr, NoExtent
    <2>3. QED
      BY <2>1, <2>2 DEF StoreInv, StoreTypeInv, Lost
  <1>2. lost_counts' # "reused" => DiskInv'
    BY DEF DiskInv, Rooted, ItemsAt, Branches, Lost
  <1>3. StagesInv'
    BY DEF StoreInv, StagesInv, HasRoot, Lost
  <1>4. RootInv' /\ ItemsInv' /\ CacheInv'
    BY DEF RootInv, ItemsInv, CacheInv, HasRoot, Lost
  <1>5. QED
    BY <1>1, <1>2, <1>3, <1>4 DEF StoreInv, WholeInv

LEMMA OpenFailsStep == StoreInv /\ OpenFails => StoreInv'
  <1> SUFFICES ASSUME StoreInv, OpenFails PROVE StoreInv'
    OBVIOUS
  <1>1. /\ stage = "mounting" /\ disk_counts' = store_refs /\ Lost
        /\ UNCHANGED <<on_disk, disk_super, inserted, promised, lost_counts, items>>
    BY DEF OpenFails, ghosts
  <1>2. disk_counts' = disk_counts
    BY <1>1 DEF StoreInv, StagesInv
  <1>3. QED
    BY <1>1, <1>2, LostStep DEF StoreInv, StoreTypeInv, WholeInv, DiskInv

LEMMA InsertStep == StoreInv /\ Insert => StoreInv'
  <1> SUFFICES ASSUME StoreInv, Insert PROVE StoreInv'
    OBVIOUS
  <1>1. /\ stage = "up" /\ stage' = "up" /\ items' = items + 1
        /\ memtable' = memtable \cup {items + 1} /\ inserted' = inserted \cup {items + 1}
        /\ UNCHANGED <<root_addr, pages, dirty, store_refs, on_disk, disk_super, disk_counts,
                       promised, lost_counts>>
    BY DEF Insert, device
  <1>2. StoreTypeInv' /\ StagesInv'
    BY <1>1 DEF StoreInv, StoreTypeInv, StagesInv, HasRoot
  <1>3. ASSUME WholeInv PROVE WholeInv'
    <2>1. ItemsInv'
      BY <1>1, <1>3 DEF WholeInv, ItemsInv, ItemsAt, Branches, HasRoot
    <2>2. ~(promised /\ disk_super.unmounted)
      BY <1>1 DEF StoreInv, StagesInv
    <2>3. RootInv' /\ CacheInv' /\ DiskInv'
      BY <1>1, <1>3, <2>2 DEF WholeInv, RootInv, Rooted, Branches, CacheInv, DiskInv, HasRoot
    <2>4. QED
      BY <2>1, <2>3 DEF WholeInv
  <1>4. QED
    BY <1>1, <1>2, <1>3 DEF StoreInv

LEMMA CloseFlushStep == StoreInv /\ CloseFlush => StoreInv'
  <1> SUFFICES ASSUME StoreInv, CloseFlush PROVE StoreInv'
    OBVIOUS
  <1>1. /\ stage = "closing" /\ stage' = "flushed" /\ dirty' = {}
        /\ on_disk' = [e \in Extents |-> IF e \in dirty THEN pages[e] ELSE on_disk[e]]
        /\ UNCHANGED <<root_addr, memtable, pages, store_refs, disk_super, disk_counts,
                       inserted, promised, lost_counts, items>>
    BY DEF CloseFlush, FlushCache, ghosts
  <1>2. StoreTypeInv' /\ StagesInv'
    BY <1>1 DEF StoreInv, StoreTypeInv, StagesInv, HasRoot
  <1>3. ASSUME WholeInv PROVE WholeInv'
    <2>1. RootInv' /\ ItemsInv'
      BY <1>1, <1>3 DEF WholeInv, RootInv, ItemsInv, Rooted, Branches, ItemsAt, HasRoot
    <2>2. CacheInv'
      <3>1. root_addr[1] \in Extents /\ Branches(pages, root_addr) \subseteq Extents
        BY <1>1, <1>3, RootType DEF StoreInv, WholeInv, HasRoot
      <3>2. \A e \in {root_addr[1]} \cup Branches(pages, root_addr) : on_disk'[e] = pages[e]
        BY <1>1, <1>3, <3>1 DEF WholeInv, CacheInv, HasRoot
      <3>3. QED
        BY <1>1, <3>2 DEF CacheInv, Branches
    <2>3. DiskInv'
      BY <1>1 DEF StoreInv, StagesInv, DiskInv
    <2>4. QED
      BY <2>1, <2>2, <2>3 DEF WholeInv
  <1>4. QED
    BY <1>1, <1>2, <1>3 DEF StoreInv

(* While a store is opened the only dirty page is of the log, where        *)
(* nothing is that the counts on disk have.                                *)
LEMMA WritebackStep ==
  ASSUME StoreInv, NEW d \in Extents, Writeback(d)
  PROVE  StoreInv'
  <1>1. /\ stage \notin {"down", "unmounted"} /\ d \in dirty
        /\ on_disk' = [on_disk EXCEPT ![d] = pages[d]] /\ dirty' = dirty \ {d}
        /\ UNCHANGED <<stage, root_addr, memtable, pages, store_refs, disk_super, disk_counts,
                       inserted, promised, lost_counts, items>>
    BY DEF Writeback, ghosts
  <1>2. stage \in {"created", "mounted", "up", "closing"}
    BY <1>1 DEF StoreInv, StoreTypeInv, StagesInv
  <1>3. StoreTypeInv' /\ StagesInv'
    BY <1>1, <1>2 DEF StoreInv, StoreTypeInv, StagesInv, HasRoot
  <1>4. ASSUME WholeInv, lost_counts # "reused" PROVE WholeInv'
    <2>1. RootInv' /\ ItemsInv'
      BY <1>1, <1>4 DEF WholeInv, RootInv, ItemsInv, Rooted, Branches, ItemsAt, HasRoot
    <2>2. CacheInv'
      <3>1. root_addr[1] \in Extents /\ Branches(pages, root_addr) \subseteq Extents
        BY <1>2, <1>4, RootType DEF StoreInv, WholeInv, HasRoot
      <3>2. \A e \in {root_addr[1]} \cup Branches(pages, root_addr) :
               e \notin dirty' => on_disk'[e] = pages[e]
        BY <1>1, <1>2, <1>4, <3>1 DEF StoreInv, StoreTypeInv, WholeInv, CacheInv, HasRoot
      <3>3. QED
        BY <1>1, <1>4, <3>2 DEF WholeInv, CacheInv, Branches
    <2>3. CASE stage = "mounted"
      <3> DEFINE addr == disk_super.root_addr
      <3>1. lost_counts = "no" \/ lost_counts = "reused"
        BY <2>3 DEF StoreInv, StoreTypeInv, StagesInv
      <3>2. d \notin disk_counts /\ disk_counts \subseteq Extents
        BY <1>1, <1>4, <2>3 DEF StoreInv, StoreTypeInv, WholeInv, CacheInv
      <3>3. \A e \in disk_counts : on_disk'[e] = on_disk[e]
        BY <1>1, <3>2 DEF StoreInv, StoreTypeInv
      <3>4. ASSUME lost_counts = "no", promised, disk_super.unmounted
            PROVE  /\ Rooted(on_disk', addr, disk_counts) /\ Rooted(on_disk', addr, Extents)
                   /\ ItemsAt(on_disk', addr) = inserted
        <4>1. Rooted(on_disk, addr, disk_counts) /\ ItemsAt(on_disk, addr) = inserted
          BY <1>4, <2>3, <3>4 DEF WholeInv, DiskInv
        <4>2. on_disk'[addr[1]] = on_disk[addr[1]] /\ Branches(on_disk', addr) = Branches(on_disk, addr)
          BY <3>3, <4>1 DEF Rooted, Branches
        <4>3. Rooted(on_disk', addr, disk_counts) /\ Rooted(on_disk', addr, Extents)
          BY <3>2, <4>1, <4>2 DEF Rooted
        <4>4. ItemsAt(on_disk', addr) = ItemsAt(on_disk, addr)
          BY <3>3, <4>1, <4>2 DEF Rooted, ItemsAt
        <4>5. QED
          BY <4>1, <4>3, <4>4
      <3>5. lost_counts # "reused" => DiskInv'
        BY <1>1, <3>1, <3>4 DEF DiskInv, Rooted, ItemsAt, Branches
      <3>6. QED
        BY <1>4, <2>1, <2>2, <3>5 DEF WholeInv
    <2>4. CASE stage # "mounted"
      BY <1>1, <1>2, <2>1, <2>2, <2>4 DEF StoreInv, StagesInv, WholeInv, DiskInv
    <2>5. QED
      BY <2>3, <2>4
  <1>5. QED
    BY <1>1, <1>3, <1>4 DEF StoreInv

LEMMA CloseSuperStep == StoreInv /\ CloseSuper => StoreInv'
  <1> SUFFICES ASSUME StoreInv, CloseSuper PROVE StoreInv'
    OBVIOUS
  <1>1. /\ stage = "flushed" /\ stage' = "unmounted"
        /\ disk_super' = [root_addr |-> root_addr, unmounted |-> TRUE, valid |-> TRUE]
        /\ UNCHANGED <<root_addr, memtable, pages, dirty, store_refs, on_disk, disk_counts,
                       inserted, promised, lost_counts, items>>
    BY DEF CloseSuper, SuperBlock, memory, ghosts
  <1>2. StoreTypeInv' /\ StagesInv'
    BY <1>1 DEF StoreInv, StoreTypeInv, StagesInv, HasRoot
  <1>3. WholeInv => WholeInv'
    BY <1>1 DEF WholeInv, RootInv, ItemsInv, CacheInv, DiskInv, Rooted, Branches, ItemsAt, HasRoot
  <1>4. QED
    BY <1>1, <1>2, <1>3 DEF StoreInv

(* Before the counts are written, all that the root had in memory is on    *)
(* disk.                                                                   *)
LEMMA UnmountedOnDisk ==
  ASSUME StoreInv, WholeInv, stage = "unmounted"
  PROVE  /\ disk_super.root_addr = root_addr
         /\ Rooted(on_disk, root_addr, store_refs) /\ Rooted(on_disk, root_addr, Extents)
         /\ ItemsAt(on_disk, root_addr) = inserted
  <1>1. stage \in HasRoot /\ stage # "created" /\ stage # "up"
    BY DEF HasRoot
  <1>2. \A e \in {root_addr[1]} \cup Branches(pages, root_addr) : on_disk[e] = pages[e]
    BY <1>1 DEF StoreInv, WholeInv, CacheInv, StagesInv
  <1>3. Branches(on_disk, root_addr) = Branches(pages, root_addr)
    BY <1>2 DEF Branches
  <1>4. Rooted(on_disk, root_addr, store_refs)
    BY <1>1, <1>2, <1>3 DEF WholeInv, RootInv, Rooted
  <1>5. ItemsAt(on_disk, root_addr) = ItemsAt(pages, root_addr)
    BY <1>2, <1>3 DEF ItemsAt
  <1>6. ItemsAt(on_disk, root_addr) = inserted
    BY <1>1, <1>5 DEF StoreInv, StagesInv, WholeInv, ItemsInv
  <1>7. disk_super.root_addr = root_addr
    BY DEF StoreInv, StagesInv
  <1>8. Rooted(on_disk, root_addr, Extents)
    BY <1>4 DEF Rooted, StoreInv, StoreTypeInv
  <1>9. QED
    BY <1>4, <1>6, <1>7, <1>8

LEMMA CloseAllocatorStep == StoreInv /\ CloseAllocator => StoreInv'
  <1> SUFFICES ASSUME StoreInv, CloseAllocator PROVE StoreInv'
    OBVIOUS
  <1>1. /\ stage = "unmounted" /\ disk_counts' = store_refs /\ Lost
        /\ UNCHANGED <<on_disk, disk_super, inserted, promised, lost_counts, items>>
    BY DEF CloseAllocator, ghosts
  <1>2. lost_counts # "reused" => /\ disk_super.root_addr = root_addr
                                  /\ Rooted(on_disk, root_addr, store_refs)
                                  /\ Rooted(on_disk, root_addr, Extents)
                                  /\ ItemsAt(on_disk, root_addr) = inserted
    BY <1>1, UnmountedOnDisk DEF StoreInv
  <1>3. QED
    BY <1>1, <1>2, LostStep DEF StoreInv, StoreTypeInv

LEMMA CrashStep == StoreInv /\ Crash => StoreInv'
  <1> SUFFICES ASSUME StoreInv, Crash PROVE StoreInv'
    OBVIOUS
  <1>1. /\ stage # "down" /\ Lost
        /\ lost_counts' = IF stage = "unmounted" /\ lost_counts = "no" THEN "crash" ELSE lost_counts
        /\ UNCHANGED <<on_disk, disk_super, disk_counts, inserted, promised, items>>
    BY DEF Crash, device
  <1>2. lost_counts' \in {"no", "crash", "reused"} /\ disk_counts' \subseteq Extents
    BY <1>1 DEF StoreInv, StoreTypeInv
  <1>3. CASE stage = "unmounted"
    <2>1. lost_counts # "crash"
      BY <1>3 DEF StoreInv, StagesInv
    <2>2. lost_counts' # "reused" => lost_counts' = "crash" /\ lost_counts = "no"
      BY <1>1, <1>3, <2>1 DEF StoreInv, StoreTypeInv
    <2>3. lost_counts = "no" => /\ disk_super.root_addr = root_addr
                                /\ Rooted(on_disk, root_addr, Extents)
                                /\ ItemsAt(on_disk, root_addr) = inserted
      BY <1>3, UnmountedOnDisk DEF StoreInv
    <2>4. QED
      BY <1>1, <1>2, <2>2, <2>3, LostStep
  <1>4. CASE stage # "unmounted"
    <2>1. lost_counts' = lost_counts
      BY <1>1, <1>4
    <2>2. lost_counts # "reused" /\ promised /\ disk_super.unmounted =>
              /\ Rooted(on_disk, disk_super.root_addr, Extents)
              /\ lost_counts = "no" => Rooted(on_disk, disk_super.root_addr, disk_counts)
              /\ ItemsAt(on_disk, disk_super.root_addr) = inserted
      BY <1>4 DEF StoreInv, WholeInv, DiskInv
    <2>3. QED
      BY <1>1, <1>2, <2>1, <2>2, LostStep
  <1>5. QED
    BY <1>3, <1>4

-----------------------------------------------------------------------------
(* A branch is written to an extent that has no count, and the root to its *)
(* own: whatever these are, the contents keep their type.                  *)
LEMMA IncorporatedTypes ==
  ASSUME StoreTypeInv, root_addr[1] \in Extents, NEW branch \in Extents,
         Incorporated(branch), UNCHANGED <<device, ghosts>>,
         stage' \in {"up", "closing"}
  PROVE  StoreTypeInv' /\ root_addr'[1] = root_addr[1]
  <1> DEFINE t == root_addr[1]
             log == Append(pages[t].roots, Refs \cup {branch})
  <1>1. /\ root_addr' = <<t, Len(pages[t].roots) + 1>> /\ memtable' = {}
        /\ store_refs' = store_refs \cup {branch}
        /\ pages' = [pages EXCEPT ![t].roots = log, ![branch] = [roots |-> <<>>, items |-> memtable]]
        /\ dirty' = dirty \cup {branch, t}
        /\ UNCHANGED <<on_disk, disk_super, disk_counts, inserted, promised, lost_counts, items>>
    BY DEF Incorporated, device, ghosts
  <1>2. pages[t].roots \in Seq(SUBSET Extents) /\ pages[t] \in ExtentType
    BY DEF StoreTypeInv, ExtentType
  <1>3. log \in Seq(SUBSET Extents) /\ Len(pages[t].roots) + 1 \in Nat
    BY <1>2, RefsType
  <1>4. [roots |-> <<>>, items |-> memtable] \in ExtentType
    <2>1. <<>> \in Seq(SUBSET Extents)
      OBVIOUS
    <2>2. QED
      BY <2>1 DEF StoreTypeInv, ExtentType
  <1>5. [pages[t] EXCEPT !.roots = log] \in ExtentType
    BY <1>2, <1>3 DEF ExtentType
  <1> HIDE DEF log, t
  <1>6. pages' \in [Extents -> ExtentType]
    BY <1>1, <1>4, <1>5 DEF StoreTypeInv
  <1>7. root_addr' \in (0 .. NumExtents) \X Nat /\ root_addr'[1] = t
    BY <1>1, <1>3, StoreAssumption DEF Extents, t
  <1>8. QED
    BY <1>1, <1>6, <1>7 DEF StoreTypeInv, t

LEMMA CompactTypes ==
  ASSUME StoreTypeInv, root_addr[1] \in Extents, NEW branch \in Extents, Compact(branch)
  PROVE  StoreTypeInv'
  <1> DEFINE t == root_addr[1]
             k == root_addr[2]
             merged == [roots |-> <<>>, items |-> UNION {pages[e].items : e \in Refs}]
             new == [pages[t].roots EXCEPT ![k] = {branch}]
  <1>1. /\ store_refs' = (store_refs \ Refs) \cup {branch}
        /\ pages' = [pages EXCEPT ![t].roots[k] = {branch}, ![branch] = merged]
        /\ dirty' = (dirty \ Refs) \cup {branch, t}
        /\ UNCHANGED <<stage, root_addr, memtable, on_disk, disk_super, disk_counts, inserted,
                       promised, lost_counts, items>>
    BY DEF Compact, device, ghosts
  <1>2. pages[t].roots \in Seq(SUBSET Extents) /\ pages[t] \in ExtentType
    BY DEF StoreTypeInv, ExtentType
  <1>3. new \in Seq(SUBSET Extents)
    <2> DEFINE r == pages[t].roots
               n == Len(r)
    <2>1. n \in Nat /\ DOMAIN r = 1 .. n /\ \A i \in 1 .. n : r[i] \in SUBSET Extents
      BY <1>2
    <2>2. new = [i \in 1 .. n |-> IF i = k THEN {branch} ELSE r[i]]
      BY <2>1
    <2>3. new \in [1 .. n -> SUBSET Extents]
      BY <2>1, <2>2
    <2> HIDE DEF new, n
    <2>4. new \in UNION {[1 .. m -> SUBSET Extents] : m \in Nat}
      BY <2>1, <2>3
    <2>5. QED
      BY <2>4, SeqDef
  <1>4. merged \in ExtentType
    <2>1. <<>> \in Seq(SUBSET Extents)
      OBVIOUS
    <2>2. UNION {pages[e].items : e \in Refs} \in SUBSET Nat
      BY RefsType DEF StoreTypeInv, ExtentType
    <2>3. QED
      BY <2>1, <2>2 DEF ExtentType
  <1>5. [pages[t] EXCEPT !.roots = new] \in ExtentType
    BY <1>2, <1>3 DEF ExtentType
  <1>6. pages' = [pages EXCEPT ![t] = [pages[t] EXCEPT !.roots = new], ![branch] = merged]
    BY <1>1
  <1> HIDE DEF new, t, merged
  <1>7. pages' \in [Extents -> ExtentType]
    BY <1>4, <1>5, <1>6 DEF StoreTypeInv
  <1>8. QED
    BY <1>1, <1>7 DEF StoreTypeInv, t

(* A memtable becomes a branch in an extent that nothing refers to.        *)
LEMMA IncorporatedKeeps ==
  ASSUME StoreInv, WholeInv, NEW branch \in Extents, branch \notin store_refs, stage = "up",
         Incorporated(branch), UNCHANGED <<device, ghosts>>,
         stage' \in {"up", "closing"}
  PROVE  WholeInv'
  <1> DEFINE t == root_addr[1]
             n == Len(pages[t].roots) + 1
             old == Branches(pages, root_addr)
  <1>1. /\ t \in Extents /\ old \subseteq store_refs \ {t} /\ t \in store_refs /\ Refs = old
        /\ root_addr[2] \in 1 .. Len(pages[t].roots)
    BY RootType DEF StoreInv, WholeInv, RootInv, Rooted, HasRoot
  <1>2. /\ root_addr' = <<t, n>> /\ memtable' = {} /\ store_refs' = store_refs \cup {branch}
        /\ pages' = [pages EXCEPT ![t].roots = Append(pages[t].roots, old \cup {branch}),
                                  ![branch] = [roots |-> <<>>, items |-> memtable]]
        /\ dirty' = dirty \cup {branch, t}
        /\ UNCHANGED <<on_disk, disk_super, disk_counts, inserted, promised, lost_counts, items>>
    BY <1>1 DEF Incorporated, device, ghosts
  <1>3. branch # t /\ branch \notin old
    BY <1>1
  <1> HIDE DEF old, t, n
  <1>4. /\ pages'[branch] = [roots |-> <<>>, items |-> memtable]
        /\ pages'[t].roots = Append(pages[t].roots, old \cup {branch})
        /\ pages'[t].items = pages[t].items
        /\ \A e \in Extents \ {branch, t} : pages'[e] = pages[e]
        /\ pages' \in [Extents -> ExtentType]
    <2>1. pages[t].roots \in Seq(SUBSET Extents) /\ old \cup {branch} \in SUBSET Extents
      BY <1>1 DEF StoreInv, StoreTypeInv, ExtentType
    <2>2. Append(pages[t].roots, old \cup {branch}) \in Seq(SUBSET Extents)
      BY <2>1
    <2>3. [roots |-> <<>>, items |-> memtable] \in ExtentType
      BY DEF StoreInv, StoreTypeInv, ExtentType
    <2>4. pages'[branch] = [roots |-> <<>>, items |-> memtable]
      BY <1>1, <1>2, <1>3 DEF StoreInv, StoreTypeInv, ExtentType
    <2>5. pages'[t] = [pages[t] EXCEPT !.roots = Append(pages[t].roots, old \cup {branch})]
      BY <1>1, <1>2, <1>3 DEF StoreInv, StoreTypeInv, ExtentType
    <2>6. \A e \in Extents \ {branch, t} : pages'[e] = pages[e]
      BY <1>1, <1>2, <1>3 DEF StoreInv, StoreTypeInv, ExtentType
    <2>7. pages[t] \in ExtentType
      BY <1>1 DEF StoreInv, StoreTypeInv, ExtentType
    <2>8. /\ pages'[t].roots = Append(pages[t].roots, old \cup {branch})
          /\ pages'[t].items = pages[t].items
          /\ pages'[t] \in ExtentType
      BY <2>2, <2>5, <2>7 DEF ExtentType
    <2>9. pages' = [e \in Extents |-> pages'[e]]
      BY <1>2 DEF StoreInv, StoreTypeInv, ExtentType
    <2>10. \A e \in Extents : pages'[e] \in ExtentType
      BY <2>3, <2>4, <2>6, <2>8 DEF StoreInv, StoreTypeInv, ExtentType
    <2>11. QED
      BY <2>4, <2>6, <2>8, <2>9, <2>10
  <1>5. /\ Branches(pages, root_addr)' = old \cup {branch} /\ n \in Nat /\ Len(pages'[t].roots) = n
        /\ root_addr'[1] = t /\ root_addr'[2] = n /\ n >= 1
    <2>1. pages[t].roots \in Seq(SUBSET Extents)
      BY <1>1 DEF StoreInv, StoreTypeInv, ExtentType
    <2>2. /\ n \in Nat \ {0} /\ Len(pages'[t].roots) = n
          /\ pages'[t].roots[n] = old \cup {branch}
      BY <1>4, <2>1 DEF n
    <2>3. root_addr'[1] = t /\ root_addr'[2] = n
      BY <1>2
    <2>4. n \in Nat /\ n >= 1
      BY <2>2
    <2>5. QED
      BY <2>2, <2>3, <2>4 DEF Branches
  <1>6. RootInv'
    <2>1. Branches(pages, root_addr)' \subseteq store_refs' \ {t} /\ t \in store_refs'
      BY <1>1, <1>2, <1>3, <1>5
    <2>2. Rooted(pages, root_addr, store_refs)'
      BY <1>5, <2>1 DEF Rooted
    <2>3. QED
      BY <2>2 DEF RootInv
  <1>7. ItemsInv'
    <2>1. \A e \in old : pages'[e] = pages[e]
      BY <1>1, <1>3, <1>4 DEF StoreInv, StoreTypeInv, ExtentType
    <2>2. {pages'[e].items : e \in old \cup {branch}} = {pages[e].items : e \in old} \cup {memtable}
      <3>1. pages'[branch].items = memtable
        BY <1>4
      <3>2. QED
        BY <2>1, <3>1
    <2>3. ItemsAt(pages, root_addr)' = memtable \cup ItemsAt(pages, root_addr)
      BY <1>5, <2>2 DEF ItemsAt, old
    <2>4. QED
      BY <1>2, <2>3 DEF StoreInv, WholeInv, ItemsInv, HasRoot
  <1>8. CacheInv'
    <2>1. \A e \in old : pages'[e] = pages[e]
      BY <1>1, <1>3, <1>4 DEF StoreInv, StoreTypeInv, ExtentType
    <2>2. \A e \in old : e \notin dirty' => on_disk'[e] = pages'[e]
      BY <1>2, <2>1 DEF StoreInv, WholeInv, CacheInv, HasRoot, old
    <2>3. QED
      BY <1>2, <1>5, <2>2 DEF CacheInv
  <1>9. DiskInv'
    BY <1>2 DEF StoreInv, StagesInv, DiskInv
  <1>10. QED
    BY <1>6, <1>7, <1>8, <1>9 DEF WholeInv

(* A compaction replaces the branches by one with the items of them all.   *)
LEMMA CompactKeeps ==
  ASSUME StoreInv, WholeInv, NEW branch \in Extents, branch \notin store_refs, Compact(branch)
  PROVE  WholeInv'
  <1> DEFINE t == root_addr[1]
             k == root_addr[2]
             old == Branches(pages, root_addr)
  <1>1. /\ t \in Extents /\ old \subseteq store_refs \ {t} /\ t \in store_refs /\ Refs = old
        /\ k \in 1 .. Len(pages[t].roots) /\ stage = "up"
    BY RootType DEF StoreInv, WholeInv, RootInv, Rooted, HasRoot, Compact
  <1>2. /\ store_refs' = (store_refs \ old) \cup {branch}
        /\ pages' = [pages EXCEPT ![t].roots[k] = {branch},
                                  ![branch] = [roots |-> <<>>, items |-> ItemsAt(pages, root_addr)]]
        /\ dirty' = (dirty \ old) \cup {branch, t}
        /\ UNCHANGED <<stage, root_addr, memtable, on_disk, disk_super, disk_counts, inserted,
                       promised, lost_counts, items>>
    BY <1>1 DEF Compact, ItemsAt, device, ghosts
  <1>3. branch # t /\ branch \notin old
    BY <1>1
  <1> HIDE DEF old
  <1>4. /\ pages'[branch] = [roots |-> <<>>, items |-> ItemsAt(pages, root_addr)]
        /\ pages'[t].roots = [pages[t].roots EXCEPT ![k] = {branch}]
        /\ pages' \in [Extents -> ExtentType]
    <2>1. pages[t] \in ExtentType
      BY <1>1 DEF StoreInv, StoreTypeInv, ExtentType
    <2>2. [pages[t].roots EXCEPT ![k] = {branch}] \in Seq(SUBSET Extents)
      BY <1>1, <2>1 DEF ExtentType
    <2>3. ItemsAt(pages, root_addr) \subseteq Nat
      BY <1>1 DEF StoreInv, StoreTypeInv, ExtentType, ItemsAt, old
    <2>4. [roots |-> <<>>, items |-> ItemsAt(pages, root_addr)]
             \in ExtentType
      <3>1. <<>> \in Seq(SUBSET Extents)
        OBVIOUS
      <3>2. QED
        BY <2>3, <3>1 DEF ExtentType
    <2>5. pages'[branch] = [roots |-> <<>>, items |-> ItemsAt(pages, root_addr)]
      BY <1>1, <1>2, <1>3 DEF StoreInv, StoreTypeInv, ExtentType
    <2>6. pages'[t] = [pages[t] EXCEPT !.roots = [pages[t].roots EXCEPT ![k] = {branch}]]
      BY <1>1, <1>2, <1>3 DEF StoreInv, StoreTypeInv, ExtentType
    <2>7. \A e \in Extents \ {branch, t} : pages'[e] = pages[e]
      BY <1>1, <1>2, <1>3 DEF StoreInv, StoreTypeInv, ExtentType
    <2>8. /\ pages'[t].roots = [pages[t].roots EXCEPT ![k] = {branch}]
          /\ pages'[t] \in ExtentType
      BY <2>1, <2>2, <2>6 DEF ExtentType
    <2>9. pages' = [e \in Extents |-> pages'[e]]
      BY <1>2 DEF StoreInv, StoreTypeInv, ExtentType
    <2>10. \A e \in Extents : pages'[e] \in ExtentType
      BY <2>4, <2>5, <2>7, <2>8 DEF StoreInv, StoreTypeInv, ExtentType
    <2>11. QED
      BY <2>5, <2>8, <2>9, <2>10
  <1>5. Branches(pages, root_addr)' = {branch} /\ Len(pages'[t].roots) = Len(pages[t].roots)
    <2>1. pages[t].roots \in Seq(SUBSET Extents)
      BY <1>1 DEF StoreInv, StoreTypeInv, ExtentType
    <2>2. Len(pages'[t].roots) = Len(pages[t].roots) /\ pages'[t].roots[k] = {branch}
      BY <1>1, <1>4, <2>1
    <2>3. QED
      BY <1>2, <2>2 DEF Branches
  <1>6. RootInv'
    BY <1>1, <1>2, <1>3, <1>5 DEF RootInv, Rooted
  <1>7. ItemsInv'
    <2>1. ItemsAt(pages, root_addr)' = ItemsAt(pages, root_addr)
      BY <1>4, <1>5 DEF ItemsAt
    <2>2. QED
      BY <1>1, <1>2, <2>1 DEF StoreInv, WholeInv, ItemsInv, HasRoot
  <1>8. CacheInv'
    BY <1>1, <1>2, <1>5 DEF CacheInv
  <1>9. DiskInv'
    BY <1>1, <1>2 DEF StoreInv, StagesInv, DiskInv
  <1>10. QED
    BY <1>6, <1>7, <1>8, <1>9 DEF WholeInv

LEMMA IncorporatedStep ==
  ASSUME StoreInv, NEW branch \in Extents, branch \notin store_refs, stage = "up",
         Incorporated(branch), UNCHANGED <<device, ghosts>>,
         stage' \in {"up", "closing"}
  PROVE  StoreInv'
  <1>1. root_addr[1] \in Extents
    BY DEF StoreInv, StagesInv, HasRoot
  <1>2. StoreTypeInv' /\ root_addr'[1] = root_addr[1]
    BY <1>1, IncorporatedTypes DEF StoreInv
  <1>3. memtable' = {} /\ UNCHANGED <<disk_super, promised, lost_counts>>
    BY DEF Incorporated, device, ghosts
  <1>4. StagesInv'
    BY <1>1, <1>2, <1>3 DEF StoreInv, StagesInv
  <1>5. WholeInv => WholeInv'
    BY IncorporatedKeeps
  <1>6. QED
    BY <1>2, <1>3, <1>4, <1>5 DEF StoreInv

LEMMA CompactStep ==
  ASSUME StoreInv, NEW branch \in Extents, branch \notin store_refs, Compact(branch)
  PROVE  StoreInv'
  <1>1. root_addr[1] \in Extents
    BY DEF StoreInv, StagesInv, HasRoot, Compact
  <1>2. StoreTypeInv'
    BY <1>1, CompactTypes DEF StoreInv
  <1>3. stage = "up" /\ UNCHANGED <<stage, root_addr, memtable, disk_super, promised, lost_counts>>
    BY DEF Compact, device, ghosts
  <1>4. StagesInv'
    BY <1>1, <1>3 DEF StoreInv, StagesInv
  <1>5. WholeInv => WholeInv'
    BY CompactKeeps
  <1>6. QED
    BY <1>2, <1>3, <1>4, <1>5 DEF StoreInv

-----------------------------------------------------------------------------
LEMMA NextPreserves ==
  ASSUME StoreInv, [StoreNext]_storeVars
  PROVE  StoreInv'
  <1>1. CASE UNCHANGED storeVars
    BY <1>1
    DEF StoreInv, StoreTypeInv, StagesInv, WholeInv, RootInv, ItemsInv, CacheInv,
        DiskInv, Rooted, Branches, ItemsAt, storeVars
  <1>2. CASE \/ CreateAllocator \/ TrunkCreateSuper \/ MountAllocator \/ TrunkMountSuper
             \/ OpenFails \/ Insert \/ CloseFlush \/ CloseSuper \/ CloseAllocator \/ Crash
    BY <1>2, CreateAllocatorStep, TrunkCreateSuperStep, MountAllocatorStep,
       TrunkMountSuperStep, OpenFailsStep, InsertStep, CloseFlushStep, CloseSuperStep,
       CloseAllocatorStep, CrashStep
  <1>3. ASSUME NEW e \in FreeExtents, NEW l \in Extents \ {e}, TrunkCreate(e, l)
        PROVE  StoreInv'
    BY <1>3, TrunkCreateStep DEF FreeExtents
  <1>4. ASSUME NEW l \in FreeExtents, TrunkMount(l)
        PROVE  StoreInv'
    BY <1>4, TrunkMountStep DEF FreeExtents
  <1>5. ASSUME NEW b \in FreeExtents, Incorporate(b)
        PROVE  StoreInv'
    BY <1>5, IncorporatedStep DEF Incorporate, FreeExtents
  <1>6. ASSUME NEW b \in FreeExtents, Compact(b)
        PROVE  StoreInv'
    BY <1>6, CompactStep DEF FreeExtents
  <1>7. ASSUME NEW e \in Extents, Writeback(e)
        PROVE  StoreInv'
    BY <1>7, WritebackStep
  <1>8. ASSUME NEW b \in FreeExtents \cup {NoExtent}, CloseMemtable(b)
        PROVE  StoreInv'
    <2>1. CASE memtable = {}
      <3>1. stage = "up" /\ stage' = "closing" /\ UNCHANGED <<memory, device, ghosts>>
        BY <1>8, <2>1 DEF CloseMemtable
      <3>2. StoreTypeInv' /\ StagesInv'
        BY <2>1, <3>1 DEF StoreInv, StoreTypeInv, StagesInv, HasRoot, memory, device, ghosts
      <3>3. WholeInv => WholeInv'
        BY <2>1, <3>1
        DEF WholeInv, RootInv, ItemsInv, CacheInv, DiskInv, Rooted, Branches, ItemsAt,
            HasRoot, memory, device, ghosts
      <3>4. QED
        BY <3>1, <3>2, <3>3 DEF StoreInv, ghosts
    <2>2. CASE memtable # {}
      BY <1>8, <2>2, IncorporatedStep DEF CloseMemtable, FreeExtents
    <2>3. QED
      BY <2>1, <2>2
  <1>9. QED
    BY <1>1, <1>2, <1>3, <1>4, <1>5, <1>6, <1>7, <1>8 DEF StoreNext

(* The invariant holds through any number of creates, opens, closes and    *)
(* crashes, at whatever step these hit.                                    *)
THEOREM StoreInvariance == StoreSpec => []StoreInv
  <1>1. StoreInit => StoreInv
    BY InitInv
  <1>2. StoreInv /\ [StoreNext]_storeVars => StoreInv'
    BY NextPreserves
  <1>3. QED
    BY <1>1, <1>2, PTL DEF StoreSpec

(* A store that splinterdb_create or splinterdb_open has returned holds    *)
(* what was inserted since it was created, and the allocator has counts    *)
(* for its trunk and its branches; a store that an open would accept has   *)
(* it all on disk, even if its counts were not written.  What is excepted  *)
(* is a store that was opened after such a close (see StoreIsWhole).       *)
THEOREM StoreStaysWhole == StoreSpec => []StoreIsWhole
  <1>1. StoreInv => StoreIsWhole
    <2>1. SUFFICES ASSUME StoreInv, WholeInv
                   PROVE  /\ stage = "up" => Found = inserted /\ {root_addr[1]} \cup Refs \subseteq store_refs
                          /\ stage = "down" /\ promised /\ MayMount(disk_super) => FoundOnDisk = inserted
      BY DEF StoreIsWhole, StoreInv
    <2>2. CASE stage = "up"
      <3>1. Refs = Branches(pages, root_addr)
        BY <2>1, <2>2, RootType DEF StoreInv, WholeInv, HasRoot
      <3>2. QED
        BY <2>1, <2>2, <3>1 DEF WholeInv, RootInv, Rooted, ItemsInv, ItemsAt, Found, HasRoot
    <2>3. CASE stage = "down" /\ promised /\ MayMount(disk_super)
      <3> DEFINE addr == disk_super.root_addr
                 roots == on_disk[addr[1]].roots
      <3>1. Rooted(on_disk, addr, Extents) /\ ItemsAt(on_disk, addr) = inserted
        BY <2>1, <2>3 DEF WholeInv, DiskInv, MayMount
      <3>2. roots \in Seq(SUBSET Extents) /\ addr[2] \in 1 .. Len(roots)
        BY <2>1, <3>1 DEF Rooted, StoreInv, StoreTypeInv, ExtentType
      <3>3. {addr[2]} \cap DOMAIN roots = {addr[2]}
        BY <3>2
      <3>4. UNION {roots[i] : i \in {addr[2]} \cap DOMAIN roots} = Branches(on_disk, addr)
        BY <3>3 DEF Branches
      <3>5. QED
        BY <2>3, <3>1, <3>4 DEF FoundOnDisk, ItemsAt
    <2>4. QED
      BY <2>1, <2>2, <2>3
  <1>2. QED
    BY <1>1, StoreInvariance, PTL
=============================================================================
