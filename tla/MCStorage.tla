----------------------------- MODULE MCStorage ------------------------------
(***************************************************************************)
(* The parts below and beside the trees, side by side: the extent          *)
(* allocator, the mini allocator, the log, the packing of branches, the    *)
(* range iterator, and create, open and close.  They have no state in      *)
(* common; the initial state says which of them moves, and the variables   *)
(* of the others are Off.                                                  *)
(***************************************************************************)
EXTENDS RcAllocator, MiniAllocator, Store, TLC

CONSTANTS
    Components,
    PageSlots, Entries, MaxEntries, MaxPages,
    NumKeys, Classes, FreeTurns,
    MaxKey, KeySize, PageSize, TableEntry, IndexEntry, MaxKeySize, MaxHeight, Inputs

VARIABLES
    component,
    log_pages, disk, clean, writing, thread_data, wpc, wrote, pending, entries, up, replayed,
    db, mode, leaf_min, turns, open, leaf, merge_itor, ri_can_prev, ri_can_next, at,
    in, req, status, locked

L == INSTANCE ShardLog WITH Writer <- Thread, pages <- log_pages
R == INSTANCE RangeIterator
P == INSTANCE BTreePack

extentVars == <<hand, ref_count, curr_allocated, splinters, disk_refs, disk_meta, mounted, pc, first_hand, mine, holds,
    super_idx>>
logVars == <<log_pages, disk, clean, writing, thread_data, wpc, wrote, pending, entries, up, replayed>>
rangeVars == <<db, mode, leaf_min, turns, open, leaf, merge_itor, ri_can_prev, ri_can_next, at>>
packVars == <<in, req, status, locked>>
allVars == <<component, extentVars, miniVars, logVars, storeVars, rangeVars, packVars>>

-----------------------------------------------------------------------------
Off == "off"
ExtentsOff ==
    /\ hand = Off /\ ref_count = Off /\ curr_allocated = Off /\ splinters = Off /\ disk_refs = Off /\ disk_meta = Off
    /\ mounted = FALSE /\ pc = Off /\ first_hand = Off /\ mine = Off /\ holds = Off /\ super_idx = Off
\* An allocator that is gone, without a page.
MiniOff ==
    /\ keyed = FALSE /\ refc = [e \in Ext |-> AL_FREE] /\ meta = [a \in {} |-> NewPage] /\ meta_tail = NoPage
    /\ next_addr = [b \in Batch |-> 0] /\ next_extent = next_addr /\ num_extents = 0 /\ claim = [a \in {} |-> 0]
    /\ mpc = [t \in MiniThread |-> "idle"] /\ lv = [t \in MiniThread |-> NoLocals]
    /\ held = [r \in Ranges \cup {Whole} |-> 0] /\ blocked = [t \in MiniThread |-> {}] /\ given = {}
    /\ life = "gone" /\ allocs = [t \in MiniThread |-> 0] /\ reloads = 0 /\ failed = {}
LogOff ==
    /\ log_pages = Off /\ disk = Off /\ clean = Off /\ writing = Off /\ thread_data = Off /\ wpc = Off /\ wrote = Off
    /\ pending = Off /\ entries = Off /\ up = Off /\ replayed = Off
StoreOff ==
    /\ stage = Off /\ root_addr = Off /\ memtable = Off /\ pages = Off /\ dirty = Off /\ store_refs = Off
    /\ on_disk = Off /\ disk_super = Off /\ disk_counts = Off /\ inserted = Off /\ promised = Off /\ lost_counts = Off /\ items = Off
    /\ starts = Off /\ high = Off
RangeOff ==
    /\ db = Off /\ mode = Off /\ leaf_min = Off /\ turns = Off /\ open = Off /\ leaf = Off /\ merge_itor = Off
    /\ ri_can_prev = Off /\ ri_can_next = Off /\ at = Off
PackOff == in = Off /\ req = Off /\ status = Off /\ locked = Off

MCInit ==
    /\ component \in Components
    /\ IF component \in {"extents", "supers"} THEN Init ELSE ExtentsOff
    /\ IF component = "mini" THEN MiniInit ELSE MiniOff
    /\ IF component = "log" THEN L!Init ELSE LogOff
    /\ IF component = "store" THEN StoreInit ELSE StoreOff
    /\ IF component = "range" THEN R!Init ELSE RangeOff
    /\ IF component = "pack" THEN P!Init ELSE PackOff

\* While extents are handed out there is one table; two compete for the slot of
\* the super block while nothing else goes on.
FirstTable == LET r == CHOOSE x \in RootId : TRUE IN super_idx[r] = -1 /\ super_idx'[r] # -1

MCNext ==
    \/ component = "extents" /\ Next /\ (UNCHANGED super_idx \/ FirstTable)
       /\ UNCHANGED <<component, miniVars, logVars, storeVars, rangeVars, packVars>>
    \/ component = "supers" /\ Next /\ UNCHANGED pc
       /\ UNCHANGED <<component, miniVars, logVars, storeVars, rangeVars, packVars>>
    \/ component = "mini" /\ MiniNext
       /\ UNCHANGED <<component, extentVars, logVars, storeVars, rangeVars, packVars>>
    \/ component = "log" /\ L!Next
       /\ UNCHANGED <<component, extentVars, miniVars, storeVars, rangeVars, packVars>>
    \/ component = "store" /\ StoreNext
       /\ UNCHANGED <<component, extentVars, miniVars, logVars, rangeVars, packVars>>
    \/ component = "range" /\ R!Next
       /\ UNCHANGED <<component, extentVars, miniVars, logVars, storeVars, packVars>>
    \/ component = "pack" /\ P!Next
       /\ UNCHANGED <<component, extentVars, miniVars, logVars, storeVars, rangeVars>>

MCSpec == MCInit /\ [][MCNext]_allVars

-----------------------------------------------------------------------------
MCSymmetry == Permutations(Thread)

\* While the allocator is mounted nothing reads the counts on disk, and unmount
\* writes all of them: states that differ in them alone are one.
MCView == <<IF mounted THEN Off ELSE disk_refs, component, hand, ref_count, curr_allocated, holds, mounted, allocVars,
            superVars, miniVars, logVars, storeVars, rangeVars, packVars>>
\* A later entry may be of an earlier generation.
MCEntries == {[gen |-> 2, size |-> 1], [gen |-> 1, size |-> 2]}
MCRanges == {<<1, 1>>, <<2, 9>>}
MCClasses == << {"NONE", "INSERT"}, {"NONE", "UPDATE", "DELETE"}, {"NONE", "UPDATE"} >>

\* Every set of keys is packed, with the messages of some keys longer.
MCKeySize == [k \in 1 .. MaxKey |-> 1 + (k % 2)]
Tuple(k, d) == [k |-> k, m |-> [def |-> d, ids |-> {k}, sz |-> 1 + (k % 3)]]
Tuples(K, bad) ==
    LET ks == SelectSeq([k \in 1 .. MaxKey |-> k], LAMBDA k : k \in K)
    IN  [i \in DOMAIN ks |-> Tuple(ks[i], IF i = bad THEN "invalid" ELSE "user")]
MCInputs ==
    { [tuples |-> Tuples(K, 0), max_tuples |-> MaxKey] : K \in SUBSET (1 .. MaxKey) }
    \cup { [tuples |-> Tuples(1 .. MaxKey, bad), max_tuples |-> max] : bad \in {0, 4}, max \in {2, 5} }

-----------------------------------------------------------------------------
(* shard_log_iterator_init: the replay has of each thread the first n      *)
(* entries it wrote, unless it took pages of an earlier log.               *)
ReplayIsPrefix == component = "log" => L!ReplayIsPrefix

(* A page that shard_log_write filled and synced reaches the disk.         *)
SyncedPagesReachDisk == component = "log" => L!SyncedPagesReachDisk

(* trunk_range_iterator_next, prev and the merge iterator return the       *)
(* merged stream of the sources.                                           *)
IteratorFollowsStream == component = "range" => R!IteratorFollowsStream

(* splinterdb_iterator_prev moves to the previous item.                    *)
PrevMovesToPreviousItem == component = "range" => R!PrevMovesToPreviousItem

(* btree_pack: a finished branch holds the stream, its nodes are linked to *)
(* their neighbours and next extents, and no page stays locked.            *)
PackedTreeHoldsStream ==
    component = "pack" => P!PackedTreeHoldsStream /\ P!ExtentsAreLinked /\ P!EdgesAreOneExtent

(* btree_count_in_range of a packed branch is exact, in tuples and bytes.  *)
CountsAreExact == component = "pack" => P!CountsAreExact
=============================================================================
