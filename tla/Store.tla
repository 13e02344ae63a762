------------------------------- MODULE Store -------------------------------
(***************************************************************************)
(* The life of a store: splinterdb_create, splinterdb_open and             *)
(* splinterdb_close (splinterdb.c), over trunk_create, trunk_mount and     *)
(* trunk_unmount (trunk.c), the mount and unmount of the extent allocator  *)
(* (rc_allocator.c) and the super block.  The process may crash between    *)
(* the steps.  There is no recovery: a store is opened again only when its *)
(* super block says that it was unmounted.                                 *)
(*                                                                         *)
(* The extent of a branch holds items.  The extent of the trunk holds the  *)
(* pages of the roots, each of which refers to branches: an address is an  *)
(* extent and a page in it.  Allocation is a set here: whether an extent's *)
(* count is zero (RcAllocator.tla has the counts).                         *)
(***************************************************************************)
EXTENDS Integers, Sequences, FiniteSets

CONSTANTS
    NumExtents,   \* extents behind the super block and the reference counts
    MaxItems,     \* items inserted in all
    MaxStarts     \* creates and opens in all

ASSUME StoreAssumption ==
    NumExtents \in Nat /\ MaxItems \in Nat /\ MaxStarts \in Nat

VARIABLES
    stage,        \* step of create, open or close the process is at
    root_addr, memtable,
    pages,        \* contents of the extents as the cache shows them
    dirty,        \* extents not written since they changed
    store_refs,   \* extents the allocator has counts for
    on_disk,      \* contents of extents on disk
    disk_super,   \* the super block on disk
    disk_counts,  \* the counts on disk
    inserted,     \* items whose insertion returned
    promised,     \* FALSE while a create overwrites what was there
    lost_counts,  \* "crash" after the process died in a close between the
                  \* super block and the counts, "reused" once that store is
                  \* opened with the counts of an earlier session
    items, starts, \* counters for the bounds
    high          \* extents above it were never in use

storeVars == <<stage, root_addr, memtable, pages, dirty, store_refs, on_disk,
               disk_super, disk_counts, inserted, promised, lost_counts,
               items, starts, high>>
memory == <<root_addr, memtable, pages, dirty, store_refs>>
device == <<on_disk, disk_super, disk_counts>>
ghosts == <<inserted, promised, lost_counts, items, starts>>

Extents == 1 .. NumExtents
NoExtent == 0

NoAddr == <<NoExtent, 0>>
EmptyExtent == [roots |-> <<>>, items |-> {}]
NoSuper == [root_addr |-> NoAddr, unmounted |-> FALSE, valid |-> FALSE]
Zero == [e \in Extents |-> EmptyExtent]

StoreInit ==
    /\ stage = "down" /\ root_addr = NoAddr /\ memtable = {} /\ pages = Zero /\ dirty = {} /\ store_refs = {}
    /\ on_disk = Zero /\ disk_super = NoSuper /\ disk_counts = {}
    /\ inserted = {} /\ promised = FALSE /\ lost_counts = "no" /\ items = 0 /\ starts = 0 /\ high = 0

Lost ==
    /\ stage' = "down"
    /\ root_addr' = NoAddr /\ memtable' = {} /\ pages' = Zero /\ dirty' = {} /\ store_refs' = {}

-----------------------------------------------------------------------------
(* allocator_alloc: the hand stops at any free extent.  Those never in use *)
(* are alike, the first of them stands for all.                            *)
FreeExtents == {e \in Extents \ store_refs : e <= high + 1}
Taken(e) == high' = IF e > high THEN e ELSE high
\* The branches of the root; a page that was never written refers to none.
RootsIn(extent) == IF extent \in Extents THEN pages[extent].roots ELSE <<>>
Refs == IF root_addr[2] \in DOMAIN RootsIn(root_addr[1]) THEN RootsIn(root_addr[1])[root_addr[2]] ELSE {}
SuperBlock(unmounted) == [root_addr |-> root_addr, unmounted |-> unmounted, valid |-> TRUE]

(* splinterdb_create: rc_allocator_init starts with no counts, whatever    *)
(* the device has.                                                         *)
CreateAllocator ==
    /\ stage = "down" /\ starts < MaxStarts
    /\ stage' = "creating"
    /\ pages' = on_disk
    /\ starts' = starts + 1
    /\ promised' = FALSE /\ lost_counts' = "no"
    /\ UNCHANGED <<root_addr, memtable, dirty, store_refs, device, inserted, items, high>>

(* trunk_create up to the super block: root, memtables and log.  The log   *)
(* takes an extent, and writes to it, that nothing gives back and nobody   *)
(* reads.                                                                  *)
TrunkCreate(trunk, log) ==
    /\ stage = "creating"
    /\ root_addr' = <<trunk, 1>>
    /\ store_refs' = store_refs \cup {trunk, log}
    /\ pages' = [pages EXCEPT ![log] = EmptyExtent, ![trunk] = [roots |-> <<{}>>, items |-> {}]]
    /\ dirty' = dirty \cup {trunk, log}
    /\ stage' = "created"
    /\ Taken(IF log > trunk THEN log ELSE trunk)
    /\ UNCHANGED <<memtable, device, ghosts>>

(* trunk_set_super_block writes the page before it returns. *)
TrunkCreateSuper ==
    /\ stage = "created"
    /\ disk_super' = SuperBlock(FALSE)
    /\ stage' = "up"
    /\ inserted' = {} /\ promised' = TRUE
    /\ UNCHANGED <<memory, on_disk, disk_counts, lost_counts, items, starts, high>>

(* splinterdb_open: rc_allocator_mount loads the counts.  The device is    *)
(* one that a create has finished with.                                    *)
MountAllocator ==
    /\ stage = "down" /\ starts < MaxStarts /\ promised
    /\ stage' = "mounting"
    /\ store_refs' = disk_counts /\ pages' = on_disk
    /\ starts' = starts + 1
    /\ UNCHANGED <<root_addr, memtable, dirty, device, inserted, promised, lost_counts, items, high>>

\* mutant: any valid super block will do
MayMountAny(super) == super.valid

(* trunk_mount accepts the super block of a store that was unmounted, and  *)
(* takes a new log.                                                        *)
MayMount(super) == super.valid /\ super.unmounted
TrunkMount(log) ==
    /\ stage = "mounting" /\ MayMount(disk_super)
    /\ root_addr' = disk_super.root_addr
    /\ store_refs' = store_refs \cup {log}
    /\ pages' = [pages EXCEPT ![log] = EmptyExtent]
    /\ dirty' = dirty \cup {log}
    /\ stage' = "mounted"
    /\ Taken(log)
    /\ lost_counts' = IF lost_counts = "no" THEN "no" ELSE "reused"
    /\ UNCHANGED <<memtable, device, inserted, promised, items, starts>>
TrunkMountSuper ==
    /\ stage = "mounted"
    /\ disk_super' = SuperBlock(FALSE)
    /\ stage' = "up"
    /\ UNCHANGED <<memory, on_disk, disk_counts, ghosts, high>>

(* Otherwise the open fails: rc_allocator_unmount writes the counts that   *)
(* the mount read.                                                         *)
OpenFails ==
    /\ stage = "mounting" /\ ~MayMount(disk_super)
    /\ disk_counts' = store_refs
    /\ Lost
    /\ UNCHANGED <<on_disk, disk_super, ghosts, high>>

-----------------------------------------------------------------------------
(* splinterdb_insert: the message is in the memtable when it returns. *)
Insert ==
    /\ stage = "up" /\ items < MaxItems
    /\ items' = items + 1
    /\ memtable' = memtable \cup {items + 1}
    /\ inserted' = inserted \cup {items + 1}
    /\ UNCHANGED <<stage, root_addr, pages, dirty, store_refs, device, promised, lost_counts, starts, high>>

(* A memtable becomes a branch, which a copy of the root refers to.  The   *)
(* page of the old root stays with the mini allocator of the trunk.        *)
Incorporated(branch) ==
    LET trunk == root_addr[1]
    IN  /\ root_addr' = <<trunk, Len(pages[trunk].roots) + 1>>
        /\ memtable' = {}
        /\ store_refs' = store_refs \cup {branch}
        /\ pages' = [pages EXCEPT ![trunk].roots = Append(pages[trunk].roots, Refs \cup {branch}),
                                  ![branch] = [roots |-> <<>>, items |-> memtable]]
        /\ dirty' = dirty \cup {branch, trunk}
        /\ Taken(branch)
Incorporate(branch) ==
    /\ stage = "up" /\ memtable # {}
    /\ Incorporated(branch)
    /\ UNCHANGED <<stage, device, ghosts>>

(* Compaction: one new branch replaces the others, whose extents are       *)
(* discarded from the cache and freed.                                     *)
Compact(branch) ==
    /\ stage = "up" /\ Cardinality(Refs) > 1
    /\ pages' = [pages EXCEPT ![root_addr[1]].roots[root_addr[2]] = {branch},
                              ![branch] = [roots |-> <<>>, items |-> UNION {pages[e].items : e \in Refs}]]
    /\ dirty' = (dirty \ Refs) \cup {branch, root_addr[1]}
    /\ store_refs' = (store_refs \ Refs) \cup {branch}
    /\ Taken(branch)
    /\ UNCHANGED <<stage, root_addr, memtable, device, ghosts>>

(* The cache writes a dirty page back. *)
Writeback(e) ==
    /\ stage \notin {"down", "unmounted"} /\ e \in dirty
    /\ on_disk' = [on_disk EXCEPT ![e] = pages[e]]
    /\ dirty' = dirty \ {e}
    /\ UNCHANGED <<stage, root_addr, memtable, pages, store_refs, disk_super, disk_counts, ghosts, high>>

-----------------------------------------------------------------------------
(* splinterdb_close: trunk_prepare_for_shutdown makes a branch of the last *)
(* memtable, performs the tasks and flushes the cache.                     *)
CloseMemtable(branch) ==
    /\ stage = "up"
    /\ stage' = "closing"
    /\ memtable = {} <=> branch = NoExtent
    /\ IF memtable = {} THEN UNCHANGED <<memory, high>> ELSE Incorporated(branch)
    /\ UNCHANGED <<device, ghosts>>
FlushCache ==
    /\ on_disk' = [e \in Extents |-> IF e \in dirty THEN pages[e] ELSE on_disk[e]]
    /\ dirty' = {}
CloseFlush ==
    /\ stage = "closing"
    /\ FlushCache
    /\ stage' = "flushed"
    /\ UNCHANGED <<root_addr, memtable, pages, store_refs, disk_super, disk_counts, ghosts, high>>

(* trunk_unmount: the super block says so. *)
CloseSuper ==
    /\ stage = "flushed"
    /\ disk_super' = SuperBlock(TRUE)
    /\ stage' = "unmounted"
    /\ UNCHANGED <<memory, on_disk, disk_counts, ghosts, high>>

(* rc_allocator_unmount *)
CloseAllocator ==
    /\ stage = "unmounted"
    /\ disk_counts' = store_refs
    /\ Lost
    /\ UNCHANGED <<on_disk, disk_super, ghosts, high>>

(* The process dies, and its memory with it. *)
Crash ==
    /\ stage # "down"
    /\ Lost
    /\ lost_counts' = IF stage = "unmounted" /\ lost_counts = "no" THEN "crash" ELSE lost_counts
    /\ UNCHANGED <<device, inserted, promised, items, starts, high>>

StoreNext ==
    \/ CreateAllocator \/ TrunkCreateSuper \/ MountAllocator \/ TrunkMountSuper \/ OpenFails
    \/ \E e \in FreeExtents : \E l \in {x \in Extents \ {e} : x \in FreeExtents \/ x = e + 1} : TrunkCreate(e, l)
    \/ \E l \in FreeExtents : TrunkMount(l)
    \/ Insert
    \/ \E b \in FreeExtents : Incorporate(b)
    \/ \E b \in FreeExtents : Compact(b)
    \/ \E e \in Extents : Writeback(e)
    \/ \E b \in FreeExtents \cup {NoExtent} : CloseMemtable(b)
    \/ CloseFlush \/ CloseSuper \/ CloseAllocator \/ Crash
StoreSpec == StoreInit /\ [][StoreNext]_storeVars

-----------------------------------------------------------------------------
(* A store that splinterdb_create or splinterdb_open returned holds what   *)
(* was inserted since it was created, through closes, opens and crashes,   *)
(* and the allocator has counts for all that the trunk refers to, so that  *)
(* nothing of it is handed out again.  And while no process has it, a      *)
(* store that an open would accept has all of it on disk.                  *)
(* One course of events is excepted, for which the code does not provide:  *)
(* a process that dies in splinterdb_close between trunk_unmount, which    *)
(* marks the super block, and allocator_unmount, which writes the counts.  *)
(* The store is still whole on disk then (lost_counts is "crash"), but the *)
(* next open accepts it with the counts of an earlier session and hands    *)
(* out extents in use: from then on ("reused"), until it is created anew,  *)
(* nothing is claimed.  Any other crashed store is refused, not misread.   *)
Found == memtable \cup UNION {pages[e].items : e \in Refs}
FoundOnDisk ==
    LET addr == disk_super.root_addr
        roots == on_disk[addr[1]].roots
    IN  UNION {on_disk[e].items : e \in UNION {roots[i] : i \in {addr[2]} \cap DOMAIN roots}}
StoreIsWhole ==
    lost_counts # "reused" =>
        /\ stage = "up" => Found = inserted /\ {root_addr[1]} \cup Refs \subseteq store_refs
        /\ stage = "down" /\ promised /\ MayMount(disk_super) => FoundOnDisk = inserted
=============================================================================
