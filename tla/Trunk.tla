------------------------------- MODULE Trunk -------------------------------
(***************************************************************************)
(* The trunk tree of src/trunk.c: memtables are incorporated into a copy of*)
(* the root, which is flushed towards the leaves and switched in; background*)
(* tasks compact the bundles that flushes create and build the filters that*)
(* turn a compacted bundle into whole branches, each on a fresh copy of the*)
(* path to its node; lookups walk whatever root they found, hand over hand.*)
(* Branches and filters are shared between nodes and are reference counted;*)
(* a branch is one extent here, so a range operation on it changes one     *)
(* count (MiniAllocator has the extents).                                  *)
(*                                                                         *)
(* The state of the tree is a record T, and the code's functions are       *)
(* operators from T to T:                                                  *)
(*   root   address of the current root (spl->root_addr)                   *)
(*   nd     the nodes, by address: the current ones and the old ones that  *)
(*          some task or lookup can still reach                            *)
(*   br, rc the branches' contents and reference counts                    *)
(*   fc, fr the filters' contents and reference counts                     *)
(*   q      the queue of compact_bundle and build_filters tasks            *)
(*   run    the task each thread is at work on                             *)
(*   srq    the space reclamation queue                                    *)
(*   held   nodes whose read reference was taken and never released        *)
(*   wrong  a filter was made of the fingerprints of another pivot's keys  *)
(*   stray  the root's claim was released by a thread that does not have it*)
(*   err    the platform_asserts that failed                               *)
(***************************************************************************)
EXTENDS TrunkNode

CONSTANTS
    Batches,        \* the memtables, in order: [Key -> message]
    Starts,         \* the initial states: pivot keys of the tree and the value of cfg
    Threads,        \* the threads that run tasks: 1 .. n
    TargetLeafKv,   \* cfg.target_leaf_kv_bytes
    SingleLeafMax,  \* trunk_single_leaf_threshold
    ReclaimMin      \* TRUNK_MIN_SPACE_RECL

VARIABLES
    tree,      \* the record T
    cfg,       \* threads: the background threads (0: tasks run in the user's thread);
               \* reclaim: cfg.reclaim_threshold is 0, not UINT64_MAX;
               \* bounds: memtables, how many come; batches, where they begin in
               \* Batches; reads, the keys that lookups ask for; fails, how many
               \* compactions find no space; late, the memtables before the first
               \* task; queue, the tasks that wait when a memtable comes
    mt,        \* memtables incorporated
    rd,        \* a lookup: its key, node, message so far, the mt it started at, and
               \* late: the tree it walks was replaced by a step that does not drain it
    fails      \* compactions that failed

vars == <<tree, cfg, mt, rd, fails>>

-----------------------------------------------------------------------------
(* Addresses, identifiers and reference counts.                            *)

Fresh(S) == CHOOSE i \in 1 .. Cardinality(S) + 1 : i \notin S
Put(f, i, v) == (i :> v) @@ f

IncB(T, ids, n) == [T EXCEPT !.rc = FoldLeft(LAMBDA a, b : [a EXCEPT ![b] = @ + n], T.rc, ids)]
DecB(T, ids) == [T EXCEPT !.rc = FoldLeft(LAMBDA a, b : [a EXCEPT ![b] = @ - 1], T.rc, ids)]
RealFilters(fs) == SelectSeq(fs, LAMBDA f : f # None)
IncF(T, fs) == [T EXCEPT !.fr = FoldLeft(LAMBDA a, f : [a EXCEPT ![f] = @ + 1], T.fr, RealFilters(fs))]
DecF(T, fs) == [T EXCEPT !.fr = FoldLeft(LAMBDA a, f : [a EXCEPT ![f] = @ - 1], T.fr, RealFilters(fs))]
NewFilter(T, content) ==
    LET f == Fresh(DOMAIN T.fc) IN [T EXCEPT !.fc = Put(T.fc, f, content), !.fr = Put(T.fr, f, 1)]
\* task_enqueue, at the tail and at the head of the queue.
Enqueue(T, req) == [T EXCEPT !.q = Append(T.q, req)]
EnqueueFirst(T, req) == [T EXCEPT !.q = <<req>> \o T.q]
NoTask == [pc |-> "idle", addr |-> None, b |-> None, holds |-> <<>>, fs |-> <<>>, old |-> <<>>, gone |-> <<>>,
           path |-> <<>>]
Done(T, t) == [T EXCEPT !.run[t] = NoTask]
Fail(T, what) == [T EXCEPT !.err = @ \cup {what}]
\* What still has a reference (the empty filter needs none).
BranchExists(T, b) == T.rc[b] > 0
FilterExists(T, f) == f = None \/ T.fr[f] > 0

\* trunk_copy_node_and_add_to_parent; the copy's address is ChildOf afterwards.
ChildOf(T, a, p) == T.nd[a].piv[p].addr
CopyChild(T, a, p) ==
    LET c == Fresh(DOMAIN T.nd)
    IN [T EXCEPT !.nd = [Put(T.nd, c, T.nd[ChildOf(T, a, p)]) EXCEPT ![a].piv[p].addr = c]]

\* The nodes from a root to the node at a height that holds a key, top down.
RECURSIVE PathTo(_, _, _, _)
PathTo(T, a, k, h) ==
    IF T.nd[a].height = h THEN <<a>>
    ELSE <<a>> \o PathTo(T, ChildOf(T, a, FindPivot(T.nd[a], k)), k, h)
NodeAt(T, k, h) == LET path == PathTo(T, T.root, k, h) IN path[Len(path)]

\* trunk_copy_path_by_key_and_height: the copied root is the root at once.
RECURSIVE CopyBelow(_, _, _, _)
CopyBelow(T, a, k, h) ==
    IF T.nd[a].height = h THEN T
    ELSE LET p == FindPivot(T.nd[a], k)
             C == CopyChild(T, a, p)
         IN CopyBelow(C, ChildOf(C, a, p), k, h)
CopyRoot(T) == LET a == Fresh(DOMAIN T.nd) IN [T EXCEPT !.nd = Put(T.nd, a, T.nd[T.root]), !.root = a]
CopyPath(T, k, h) == LET C == CopyRoot(T) IN CopyBelow(C, C.root, k, h)

-----------------------------------------------------------------------------
(* Space reclamation queue entries name a node by address and a pivot by   *)
(* generation.                                                             *)

SrqDelete(T, a, p) ==
    IF cfg.reclaim /\ T.nd[a].piv[p].srq
    THEN [T EXCEPT !.srq = {e \in @ : e.gen # T.nd[a].piv[p].gen}, !.nd[a].piv[p].srq = FALSE]
    ELSE T

-----------------------------------------------------------------------------
(* Flushes and splits.                                                     *)

Request(nd, addr, u) ==
    [pc |-> "compact", addr |-> addr, height |-> nd.height, u |-> u, lo |-> MinKeyOf(nd), hi |-> MaxKeyOf(nd),
     gens |-> [p \in Pivots(nd) |-> nd.piv[p].gen], inp |-> [p \in Pivots(nd) |-> 0],
     out |-> [p \in Pivots(nd) |-> 0], b |-> None, fps |-> <<>>, holds |-> <<>>, repl |-> 0, more |-> FALSE,
     flo |-> 0, fhi |-> 0, fs |-> <<>>, old |-> <<>>, gone |-> <<>>, path |-> <<>>]
Pos(req, gen) == {i \in DOMAIN req.gens : req.gens[i] = gen}

\* trunk_flush_into_bundle: the child after pivot p of the parent went into its
\* bundle child.ebu.
SubbundleIds(nd, s) == [i \in 1 .. Sub(nd.sb[s].b1, nd.sb[s].b0, MaxBranches) |->
                           nd.br[Add(nd.sb[s].b0, i - 1, MaxBranches)]]
WholeIds(nd, p) == [i \in 1 .. PivotWholeCount(nd, p) |-> nd.br[Add(nd.piv[p].br, i - 1, MaxBranches)]]
FlushedSubbundles(nd, p) ==
    IF PivotBundleCount(nd, p) = 0 THEN <<>> ELSE Slots(PivotStartSubbundle(nd, p), nd.esb, MaxSubbundles)
FlushIntoBundle(parent, child, p) ==
    LET whole == BranchIsWhole(parent, parent.piv[p].br)
        c1 == IF whole THEN NewSubbundle(NewBundle(child), "index", WholeIds(parent, p), <<parent.piv[p].fl>>)
              ELSE NewBundle(child)
        c2 == FoldLeft(LAMBDA c, s : NewSubbundle(c, parent.sb[s].st, SubbundleIds(parent, s),
                                                  FiltersIn(parent, parent.sb[s].f0, parent.sb[s].f1)),
                       c1, FlushedSubbundles(parent, p))
    IN [c2 EXCEPT !.bu[child.ebu] = [s0 |-> child.esb, s1 |-> c2.esb]]
FlushedFilters(nd, p) ==
    FoldLeft(LAMBDA fs, s : fs \o FiltersIn(nd, nd.sb[s].f0, nd.sb[s].f1), <<>>, FlushedSubbundles(nd, p))
\* trunk_bundle_inc_pivot_rc: one more reference per branch and pivot but the first.
BundleIds(nd, u) == [i \in DOMAIN BundleSlots(nd, u) |-> nd.br[BundleSlots(nd, u)[i]]]
\* mutant: the first pivot is counted again
IncPivotRcAll(T, nd, u) == IncB(T, BundleIds(nd, u), NumChildren(nd))
IncPivotRc(T, nd, u) == IncB(T, BundleIds(nd, u), NumChildren(nd) - 1)
FlushTo(T, a, p) ==
    LET c == ChildOf(T, a, p)
        parent == T.nd[a]
        u == T.nd[c].ebu
        counted(nd) == AddBundleTuples(nd, TuplesInBundle(nd, u, T.br))
        moved(cleared, child) ==
            LET T1 == IncF([T EXCEPT !.nd = [T.nd EXCEPT ![a] = cleared, ![c] = child]], FlushedFilters(parent, p))
            IN IncPivotRc(DecF(T1, FiltersIn(parent, parent.sfl, cleared.sfl)), child, u)
    IN moved(PivotClear(parent, p), counted(FlushIntoBundle(parent, T.nd[c], p)))

\* trunk_split_index: node c, child p of a, keeps the first half of its pivots.
Part(nd, from, to) == ResetStartBranch([nd EXCEPT !.keys = SubSeq(nd.keys, from, to + 1), !.piv = SubSeq(nd.piv, from, to)])
SplitIndex(T, a, p) ==
    LET c == ChildOf(T, a, p)
        whole == T.nd[c]
        half == NumChildren(whole) \div 2
        r == Fresh(DOMAIN T.nd)
        divided(left, right) ==
            LET parent == Recount(Recount(AddPivot(T.nd[a], p, r, MinKeyOf(right)), p, T.br), p + 1, T.br)
                moved == {right.piv[i].gen : i \in {j \in Pivots(right) : right.piv[j].srq}}
                T1 == IncF(T, FiltersIn(whole, whole.sfl, whole.efl))
                T2 == DecF(DecF(T1, FiltersIn(whole, whole.sfl, left.sfl)), FiltersIn(whole, whole.sfl, right.sfl))
            IN [T2 EXCEPT !.nd = Put([T.nd EXCEPT ![a] = parent, ![c] = left], r, right),
                          !.srq = {IF e.gen \in moved THEN [e EXCEPT !.addr = r] ELSE e : e \in @}]
    IN divided(Part(whole, 1, half), Part(whole, half + 1, NumChildren(whole)))

\* trunk_split_root: the root becomes the only child of a new, empty root.
SplitRoot(T, a) ==
    LET c == Fresh(DOMAIN T.nd)
        nd == T.nd[a]
        pd == [nd.piv[1] EXCEPT !.addr = c, !.nw = 0, !.nb = 0, !.br = 0, !.bu = 0, !.fl = None]
        root == [nd EXCEPT !.height = @ + 1, !.keys = <<1, MaxKey + 1>>, !.piv = <<pd>>,
                           !.sbr = 0, !.sfb = 0, !.ebr = 0, !.sbu = 0, !.ebu = 0, !.ssb = 0, !.esb = 0,
                           !.sfl = 0, !.efl = 0]
    IN SplitIndex([T EXCEPT !.nd = Put([T.nd EXCEPT ![a] = root], c, nd)], a, 1)

\* trunk_split_leaf: where the new leaves begin. The rough iterator sees every
\* tuple of every branch in key order, one at a time; a leaf ends when it has
\* its share of the tuples, but the last one takes the rest. (A share is far
\* more than the tuples of one key, so that no leaf ends between those.)
LeafTuples(nd, br) ==
    LET has(k) == SelectSeq(Slots(nd.sbr, nd.ebr, MaxBranches), LAMBDA i : br[nd.br[i]][k] # <<>>)
    IN FoldLeft(LAMBDA ts, k : ts \o [i \in DOMAIN has(k) |-> k], <<>>,
                [k \in 1 .. MaxKeyOf(nd) - MinKeyOf(nd) |-> MinKeyOf(nd) + k - 1])
RECURSIVE LeafStarts(_, _, _)
LeafStarts(tuples, share, leaves) ==
    LET rest == SelectSeq(tuples, LAMBDA k : k > tuples[share])
    IN IF leaves <= 1 \/ Len(tuples) <= share \/ rest = <<>> THEN <<>>
       ELSE <<rest[1]>> \o LeafStarts(rest, share, leaves - 1)
TargetLeaves(nd, br) ==
    LET unique == Cardinality(Range(LeafTuples(nd, br)))
        target == unique \div TargetLeafKv
    IN IF target > 1 THEN target ELSE IF unique > SingleLeafMax THEN 2 ELSE 1
SplitKeys(nd, br) ==
    LET n == TargetLeaves(nd, br)
        starts == LeafStarts(LeafTuples(nd, br), PivotTuples(nd, 1) \div n, n)
    IN <<MinKeyOf(nd)>> \o starts \o <<MaxKeyOf(nd)>>
\* The leaves that replace it: all have its branches in one bundle.
NewLeaf(leaf, lo, hi, br) ==
    LET n == [leaf EXCEPT !.keys = <<lo, hi>>]
    IN [n EXCEPT !.piv[1].nw = 0, !.piv[1].nb = TuplesInBundle(n, leaf.sbu, br)[1]]
LeafRequest(leaf, addr) == [Request(leaf, addr, leaf.sbu) EXCEPT !.inp = <<PivotTuples(leaf, 1)>>]
RECURSIVE AddLeaves(_, _, _, _, _)
AddLeaves(T, a, p, leaf, keys) ==
    IF Len(keys) = 1 THEN T
    ELSE LET n == Fresh(DOMAIN T.nd)
             new == NewLeaf(leaf, keys[1], keys[2], T.br)
             T1 == [T EXCEPT !.nd = Put([T.nd EXCEPT ![a] = AddPivot(T.nd[a], p, n, keys[1])], n, new)]
             T2 == IncF(IncB(T1, BundleIds(leaf, leaf.sbu), 1), BundleFilters(leaf, leaf.sbu))
         IN AddLeaves(Enqueue(T2, LeafRequest(new, n)), a, p + 1, leaf, Tail(keys))
SplitLeaf(T, a, p) ==
    LET c == ChildOf(T, a, p)
        first(S, leaf, new, keys) ==
            AddLeaves(Enqueue([S EXCEPT !.nd[c] = new], LeafRequest(new, c)), a, p, leaf, Tail(keys))
        split(S, leaf, keys) == first(S, leaf, NewLeaf(leaf, keys[1], keys[2], T.br), keys)
        fits(S, keys) == IF Len(keys) + Len(T.nd[a].keys) - 1 > MaxPivotKeys THEN Fail(T, "max_pivot_keys")
                         ELSE split(S, RebundleAll(S.nd[c], PivotTuples(T.nd[c], 1)), keys)
    IN fits(SrqDelete(T, c, 1), SplitKeys(T.nd[c], T.br))

\* trunk_flush and trunk_flush_fullest. A request that outlives a split of its
\* new child is divided with it.
RECURSIVE Flush(_, _, _, _)
RECURSIVE FlushFullest(_, _, _, _)
RECURSIVE FlushWhileFull(_, _)
Divide(T, r, req) == Enqueue(T, [req EXCEPT !.addr = r, !.lo = MinKeyOf(T.nd[r]), !.hi = MaxKeyOf(T.nd[r])])
FlushOn(T, c, req) == Enqueue(FlushWhileFull(T, c), [req EXCEPT !.hi = MaxKeyOf(T.nd[c])])
Flushed(T, a, p, c, u) ==
    LET req == [Request(T.nd[c], c, u) EXCEPT !.inp = TuplesInBundle(T.nd[c], u, T.br)]
        divide(S) == Divide(S, ChildOf(S, a, p + 1), req)
    IN IF NeedsSplit(T.nd[c]) /\ IsLeaf(T.nd[c]) THEN SplitLeaf(T, a, p)
       ELSE FlushOn(IF NeedsSplit(T.nd[c]) THEN divide(SplitIndex(T, a, p)) ELSE T, c, req)
Flush(T, a, p, isRec) ==
    LET into(S, c) == Flushed(FlushTo(S, a, p), a, p, c, S.nd[c].ebu)
        copied(C) == into(IF isRec THEN C ELSE SrqDelete(C, a, p), ChildOf(C, a, p))
    IN IF ~RoomToFlush(T.nd[a], T.nd[ChildOf(T, a, p)], p) \/ T.err # {} THEN Fail(T, "room_to_flush")
       ELSE copied(CopyChild(T, a, p))
FlushFullest(T, a, p, best) ==
    IF p > NumChildren(T.nd[a])
    THEN IF ~NodeIsFull(T.nd[a]) THEN T ELSE IF best = None THEN Fail(T, "fullest") ELSE Flush(T, a, best, FALSE)
    ELSE IF PivotNeedsFlush(T.nd[a], p) THEN FlushFullest(Flush(T, a, p, FALSE), a, p + 1, best)
    ELSE FlushFullest(T, a, p + 1,
                      IF best = None \/ PivotTuples(T.nd[a], p) > PivotTuples(T.nd[a], best) THEN p ELSE best)
FlushWhileFull(T, a) ==
    IF T.err # {} \/ ~NodeIsFull(T.nd[a]) THEN T
    ELSE IF IsLeaf(T.nd[a]) THEN Fail(T, "full leaf")
    ELSE FlushWhileFull(FlushFullest(T, a, 1, None), a)

-----------------------------------------------------------------------------
(* What remains of T after a step: dead array slots hold nothing, nodes    *)
(* that nobody can reach are gone, and so is what branches and filters     *)
(* without references held. The identifier of a freed branch or filter is  *)
(* not given out again while an old node names it, so that it can be told  *)
(* from a new one.                                                         *)

Norm(nd) ==
    LET branches == Range(Slots(nd.sbr, nd.ebr, MaxBranches))
        bundles == Range(Slots(nd.sbu, nd.ebu, MaxBundles))
        subbundles == Range(Slots(nd.ssb, nd.esb, MaxSubbundles))
        filters == UNION {Range(Slots(nd.sb[s].f0, nd.sb[s].f1, MaxFilters)) : s \in subbundles}
        dead == [st |-> "none", b0 |-> 0, b1 |-> 0, f0 |-> 0, f1 |-> 0]
    IN [nd EXCEPT !.br = [i \in DOMAIN @ |-> IF i \in branches THEN nd.br[i] ELSE None],
                  !.bu = [u \in DOMAIN @ |-> IF u \in bundles THEN nd.bu[u] ELSE [s0 |-> 0, s1 |-> 0]],
                  !.sb = [s \in DOMAIN @ |-> IF s \in subbundles THEN nd.sb[s] ELSE dead],
                  !.fl = [f \in DOMAIN @ |-> IF f \in filters THEN nd.fl[f] ELSE None]]
RECURSIVE Below(_, _)
Below(T, a) ==
    {a} \cup (IF IsLeaf(T.nd[a]) THEN {} ELSE UNION {Below(T, ChildOf(T, a, p)) : p \in Pivots(T.nd[a])})
FreedBranch == [k \in Key |-> <<>>]
FreedFilter == [k \in Key |-> {}]
Prune(T, reader) ==
    LET named == ({req.addr : req \in Range(T.q) \cup Range(T.run)} \cup {e.addr : e \in T.srq})
        paths == UNION {Range(T.run[t].path) : t \in Threads}
        kept(nds) ==
            LET ids == {b \in DOMAIN T.br : T.rc[b] > 0 \/ \E a \in DOMAIN nds : b \in Range(nds[a].br)}
                olds == UNION {{o.f : o \in Range(T.run[t].old)} : t \in Threads}
                fs == {f \in DOMAIN T.fc : T.fr[f] > 0 \/ f \in olds \/ \E a \in DOMAIN nds :
                           f \in Range(nds[a].fl) \cup {nds[a].piv[p].fl : p \in Pivots(nds[a])}}
            IN [T EXCEPT !.nd = nds,
                         !.br = [b \in ids |-> IF T.rc[b] > 0 THEN T.br[b] ELSE FreedBranch],
                         !.rc = [b \in ids |-> T.rc[b]],
                         !.fc = [f \in fs |-> IF T.fr[f] > 0 THEN T.fc[f] ELSE FreedFilter],
                         !.fr = [f \in fs |-> T.fr[f]]]
    IN kept([a \in paths \cup UNION {Below(T, x) : x \in ({T.root, reader} \cup named) \ {None}} |-> Norm(T.nd[a])])

\* With no background threads a user thread runs a task from its start to its
\* end before it does anything else; otherwise cfg.threads threads take tasks.
Idle(t) == tree.run[t].pc = "idle"
Calm == cfg.threads > 0 \/ \A t \in Threads : Idle(t)
Step(T, reader) == tree' = Prune(T, reader)
\* trunk_garbage_collect_node_get: every node of an old path is write-locked, from
\* its root down, while the lock of the one above is held.
\* mutant: only the node itself is locked, readers above come to it later
NoReaderAt(path) == path = <<>> \/ (path[Len(path)] # rd.a /\ path[Len(path)] \notin tree.held)
NoReaderOn(path) == \A j \in DOMAIN path : path[j] # rd.a /\ path[j] \notin tree.held
\* The lookup's tree is replaced: by a step that drains the old path, before it
\* gives up what that path names, if the lookup is in the tree that it replaces.
Current == Below(tree, tree.root)
Replaced(drains) == rd' = [rd EXCEPT !.late = @ \/ (rd.a # None /\ ~(drains /\ rd.a \in Current))]

-----------------------------------------------------------------------------
(* Incorporation: trunk_memtable_incorporate_and_flush.                    *)

\* The n-th memtable that comes.
Batch(n) == Batches[cfg.batches + n]
KeysOf(content) == SelectSeq([k \in Key |-> k], LAMBDA k : content[k] # <<>>)
InstallMemtable(T, content) ==
    LET b == Fresh(DOMAIN T.br)
        f == Fresh(DOMAIN T.fc)
        T1 == NewFilter([T EXCEPT !.br = Put(T.br, b, content), !.rc = Put(T.rc, b, 1)],
                        [k \in Key |-> IF content[k] # <<>> THEN {0} ELSE {}])
        nd == T.nd[T.root]
        added == [NewSubbundle(NewBundle(nd), "compacted", <<b>>, <<f>>)
                     EXCEPT !.bu[nd.ebu] = [s0 |-> nd.esb, s1 |-> Add(nd.esb, 1, MaxSubbundles)]]
        counts == TuplesInBundle(added, nd.ebu, T1.br)
    IN IncPivotRc([T1 EXCEPT !.nd[T.root] = AddBundleTuples(added, counts)], added, nd.ebu)
MemtableRequest(T, nd, content) ==
    LET counts == TuplesInBundle(nd, Sub(nd.ebu, 1, MaxBundles), T.br)
    IN [Request(nd, None, Sub(nd.ebu, 1, MaxBundles)) EXCEPT
           !.pc = "filter", !.inp = counts, !.out = counts, !.fps = KeysOf(content)]
\* The flushes, the split of the root and the request for the memtable's filters.
GrowRoot(T) == IF NeedsSplit(T.nd[T.root]) THEN SplitRoot(T, T.root) ELSE T
FlushRoot(T, content) ==
    EnqueueFirst(GrowRoot(FlushWhileFull(T, T.root)), MemtableRequest(T, T.nd[T.root], content))
Incorporate ==
    /\ mt < cfg.memtables /\ Len(tree.q) <= cfg.queue /\ tree.err = {} /\ Calm
    /\ Step(IF HasVacancy(tree.nd[tree.root], 1)
            THEN FlushRoot(InstallMemtable(CopyRoot(tree), Batch(mt + 1)), Batch(mt + 1))
            ELSE Fail(tree, "vacancy"), rd.a)
    /\ Replaced(FALSE)
    /\ mt' = mt + 1
    /\ UNCHANGED <<cfg, fails>>

-----------------------------------------------------------------------------
(* Background tasks, taken from the head of the queue.                     *)

MayTake(t) == tree.q # <<>> /\ (t = 1 \/ t <= cfg.threads) /\ mt >= cfg.late
TakeTask(t) ==
    /\ Idle(t) /\ MayTake(t)
    /\ tree' = [tree EXCEPT !.run[t] = Head(tree.q), !.q = Tail(tree.q)]
    /\ UNCHANGED <<cfg, mt, rd, fails>>

-----------------------------------------------------------------------------
(* trunk_compact_bundle.                                                   *)

\* trunk_btree_skiperator_init takes a reference for every run of pivots for
\* which the branch is live.
Runs(nd, i) ==
    Cardinality({p \in Pivots(nd) : BranchLiveForPivot(nd, i, p) /\ (p = 1 \/ ~BranchLiveForPivot(nd, i, p - 1))})
Holds(nd, u) ==
    FoldLeft(LAMBDA ids, i : ids \o [r \in 1 .. Runs(nd, i) |-> nd.br[i]], <<>>, BundleSlots(nd, u))
\* The merge of the bundle's branches, newest first, over the live pivots; a
\* full merge makes updates final and drops deletes.
Merged(nd, u, k, br) ==
    LET p == FindPivot(nd, k)
        slots == SelectSeq(BundleSlots(nd, u), LAMBDA i : BranchLiveForPivot(nd, i, p))
    IN FoldRight(LAMBDA i, a : MergeMsg(a, br[nd.br[i]][k]), slots, <<>>)
FullMerge(m) == IF FinalMsg(m) = <<0>> THEN <<>> ELSE FinalMsg(m)
Compaction(nd, u, full, br) ==
    [k \in Key |-> IF k < MinKeyOf(nd) \/ k >= MaxKeyOf(nd) THEN <<>>
                   ELSE IF full THEN FullMerge(Merged(nd, u, k, br)) ELSE Merged(nd, u, k, br)]

CompactRead(t) ==
    /\ tree.run[t].pc = "compact" /\ tree.err = {}
    /\ LET req == tree.run[t]
           nd == tree.nd[req.addr]
           full == IsLeaf(nd) /\ BundleStartBranch(nd, req.u) = nd.sbr
           read == [req EXCEPT !.pc = "pack", !.addr = None, !.holds = Holds(nd, req.u),
                               !.fps = Compaction(nd, req.u, full, tree.br)]
       IN Step(IF req.hi # MaxKeyOf(nd) THEN Fail(tree, "unexpected node split")
               ELSE IF ~BundleLive(nd, req.u) THEN Done(tree, t)
               ELSE IF \E b \in Range(Holds(nd, req.u)) : ~BranchExists(tree, b) THEN Fail(tree, "freed branch")
               ELSE [IncB(tree, Holds(nd, req.u), 1) EXCEPT !.run[t] = read], rd.a)
    /\ UNCHANGED <<cfg, mt, rd, fails>>

\* btree_pack writes the branch (none if there is no tuple), the iterators go.
CompactPack(t) ==
    /\ tree.run[t].pc = "pack"
    /\ LET req == tree.run[t]
           b == IF KeysOf(req.fps) = <<>> THEN None ELSE Fresh(DOMAIN tree.br)
           T == DecB(tree, req.holds)
           packed == [req EXCEPT !.pc = "replace", !.holds = <<>>, !.b = b, !.fps = KeysOf(req.fps)]
           P == [T EXCEPT !.run[t] = packed]
       IN Step(IF b = None THEN P ELSE [P EXCEPT !.br = Put(P.br, b, req.fps), !.rc = Put(P.rc, b, 1)], rd.a)
    /\ UNCHANGED <<cfg, mt, rd, fails>>

\* btree_pack fails: the request is dropped, the bundle stays as it is.
CompactFail(t) ==
    /\ tree.run[t].pc = "pack" /\ fails < cfg.fails
    /\ Step(Done(DecB(tree, tree.run[t].holds), t), rd.a)
    /\ fails' = fails + 1
    /\ UNCHANGED <<cfg, mt, rd>>

\* trunk_garbage_collect_bundle: the references that the old snapshot's node lets go.
Live(nd, u) == SelectSeq([p \in Pivots(nd) |-> p], LAMBDA p : BundleLiveForPivot(nd, u, p))
GcBundle(nd, u) ==
    IF ~BundleLive(nd, u) THEN <<>> ELSE FlattenSeq([j \in DOMAIN Live(nd, u) |-> BundleIds(nd, u)])

\* The bundle's replacement in node n, with the request's tuple counts.
Counted(nd, req, br) ==
    [req EXCEPT !.out = [j \in DOMAIN req.out |->
        LET ps == {p \in Pivots(nd) : BundleLiveForPivot(nd, req.u, p) /\ nd.piv[p].gen = req.gens[j]}
        IN IF ps = {} \/ req.b = None THEN req.out[j]
           ELSE LET p == CHOOSE q \in ps : TRUE IN RangeTuples(br[req.b], nd.keys[p], nd.keys[p + 1])]]
Reclaimed(nd, req) ==
    [p \in Pivots(nd) |-> IF Pos(req, nd.piv[p].gen) = {} THEN 0
                          ELSE LET j == CHOOSE x \in Pos(req, nd.piv[p].gen) : TRUE IN req.inp[j] - req.out[j]]
ReplaceIn(T, n, req) ==
    LET nd == T.nd[n]
        lost == \E p \in Pivots(nd) : BundleLiveForPivot(nd, req.u, p) /\ Pos(req, nd.piv[p].gen) = {}
        with(S) == IF req.b = None THEN DecF(S, BundleFilters(nd, req.u)) ELSE IncB(S, <<req.b>>, Len(Live(nd, req.u)))
    IN IF lost THEN Fail(T, "pivot not in request")
       ELSE with([T EXCEPT !.nd[n] = ReplaceBundleBranches(nd, req.u, req.b, Reclaimed(nd, req))])

\* trunk_compact_bundle, 11: one node n of the request's range, on the path C
\* copied. The old path is drained, and its node's references go, afterwards.
Discard(T, b) == IF b = None THEN T ELSE DecB(T, <<b>>)
ReplaceInNode(t, C, n, req, live) ==
    LET nd == C.nd[n]
        split == req.hi # MaxKeyOf(nd)
        repl == req.repl + (IF live /\ req.b # None THEN 1 ELSE 0)
        R == IF live THEN ReplaceIn(C, n, req) ELSE IF req.height = 0 THEN Fail(C, "bundle not live") ELSE C
        lo == IF split THEN MaxKeyOf(nd) ELSE req.lo
        next(old) == [req EXCEPT !.pc = "collect", !.repl = repl, !.lo = lo, !.more = split, !.path = old,
                                 !.holds = GcBundle(tree.nd[old[Len(old)]], req.u)]
        replaced(G) == [G EXCEPT !.run[t] = next(PathTo(tree, tree.root, lo, req.height))]
    IN IF IsLeaf(nd) /\ split THEN Step(Done(Discard(C, req.b), t), rd.a) /\ Replaced(FALSE)
       ELSE Step(replaced(IF ~split /\ repl # 0 THEN Discard(R, req.b) ELSE R), rd.a) /\ Replaced(TRUE)
CompactReplace(t) ==
    /\ tree.run[t].pc = "replace" /\ tree.err = {}
    /\ LET req == tree.run[t]
           at(C, n) == LET live == BundleLive(C.nd[n], req.u)
                       IN ReplaceInNode(t, C, n, IF live THEN Counted(C.nd[n], req, C.br) ELSE req, live)
           on(C) == at(C, NodeAt(C, req.lo, req.height))
       IN on(CopyPath(tree, req.lo, req.height))
    /\ UNCHANGED <<cfg, mt, fails>>
\* When the old path has no reader: its references, and the next node or the end.
\* (Until then the code keeps the new node locked; here others may come to it.)
CompactCollect(t) ==
    /\ tree.run[t].pc = "collect" /\ tree.err = {} /\ NoReaderOn(tree.run[t].path)
    /\ LET req == [tree.run[t] EXCEPT !.holds = <<>>, !.path = <<>>]
           G == DecB(tree, tree.run[t].holds)
       IN Step(IF req.more THEN [G EXCEPT !.run[t] = [req EXCEPT !.pc = "replace"],
                                          !.held = @ \cup {NodeAt(G, req.lo, req.height)}]
               ELSE IF req.repl # 0 THEN EnqueueFirst(Done(G, t), [req EXCEPT !.pc = "filter"])
               ELSE Done(Discard(G, req.b), t), rd.a)
    /\ UNCHANGED <<cfg, mt, rd, fails>>

-----------------------------------------------------------------------------
(* trunk_bundle_build_filters.                                             *)

Finish(T, t) == IF cfg.reclaim THEN [T EXCEPT !.run[t].pc = "reclaim"] ELSE Done(T, t)
NextNode(T, t, lo) ==
    IF lo = T.run[t].hi THEN Finish(T, t) ELSE [T EXCEPT !.run[t].lo = lo, !.run[t].pc = "filter"]

\* The fingerprints of the request's j-th pivot (trunk_process_generation_to_fp_bounds).
FpsOf(req, j) ==
    LET from == FoldLeft(LAMBDA sum, x : sum + x, 0, SubSeq(req.out, 1, j - 1))
    IN SubSeq(req.fps, from + 1, from + req.out[j])
\* routing_filter_add: the old filter's values and the new one for these keys.
Extended(T, old, keys, val) ==
    [k \in Key |-> (IF old = None THEN {} ELSE T.fc[old][k]) \cup (IF k \in Range(keys) THEN {val} ELSE {})]
\* trunk_build_filters, for the request's j-th pivot: an old filter that gets no
\* fingerprint is used again.
BuildFilter(T, t, j) ==
    LET req == T.run[t]
        old == req.old[j].f
        f == Fresh(DOMAIN T.fc)
    IN IF ~req.old[j].build THEN T
       ELSE IF ~FilterExists(T, old) THEN Fail(T, "freed filter")
       ELSE IF FpsOf(req, j) = <<>> THEN [IncF(T, <<old>>) EXCEPT !.run[t].fs[j] = old]
       ELSE [NewFilter(T, Extended(T, old, FpsOf(req, j), req.old[j].val)) EXCEPT !.run[t].fs[j] = f]
\* trunk_prepare_build_filter: the filters and positions of the pivots that still
\* have the bundle. The node is released before anything is done with them.
OldFilter(nd, req, j) ==
    LET ps == {p \in Range(Live(nd, req.u)) : nd.piv[p].gen = req.gens[j]}
    IN IF ps = {} THEN [build |-> FALSE, f |-> None, val |-> 0]
       ELSE LET p == CHOOSE q \in ps : TRUE IN [build |-> TRUE, f |-> nd.piv[p].fl, val |-> PivotWholeCount(nd, p)]
Prepared(nd, req) ==
    [req EXCEPT !.pc = "prepared", !.old = [j \in DOMAIN req.gens |-> OldFilter(nd, req, j)] \o <<>>,
                !.flo = MinKeyOf(nd), !.fhi = MaxKeyOf(nd)]
\* The fingerprints are not those of the pivot's keys in the compacted branch.
WrongFps(nd, req) == \E p \in Range(Live(nd, req.u)) : \E j \in Pos(req, nd.piv[p].gen) :
    Range(FpsOf(req, j)) # {k \in Range(req.fps) : nd.keys[p] <= k /\ k < nd.keys[p + 1]}
\* mutant: a request for a bundle that has been flushed is not skipped
SkipNever(nd, req) == FALSE
\* trunk_build_filter_should_abort, _should_skip and _should_reenqueue: a leaf
\* was split, the bundle is gone, bundles before it have no filter yet.
ShouldAbort(nd, req) == IsLeaf(nd) /\ req.hi # MaxKeyOf(nd)
ShouldSkip(nd, req) == ~BundleLive(nd, req.u)
ShouldReenqueue(nd, req) == req.u # nd.sbu
FilterPrepare(t) ==
    /\ tree.run[t].pc = "filter" /\ tree.err = {}
    /\ LET req == tree.run[t]
           nd == tree.nd[NodeAt(tree, req.lo, req.height)]
       IN IF ShouldAbort(nd, req) THEN Step(Finish(tree, t), rd.a)
          ELSE IF ShouldSkip(nd, req) THEN Step(NextNode(tree, t, MaxKeyOf(nd)), rd.a)
          ELSE IF ShouldReenqueue(nd, req) THEN Step(Enqueue(Done(tree, t), req), rd.a)
          ELSE Step(IF \E p \in Range(Live(nd, req.u)) : Pos(req, nd.piv[p].gen) = {}
                    THEN Fail(tree, "pivot not in request")
                    ELSE [tree EXCEPT !.run[t] = Prepared(nd, req), !.wrong = @ \/ WrongFps(nd, req)], rd.a)
    /\ UNCHANGED <<cfg, mt, rd, fails>>
FilterBuild(t) ==
    /\ tree.run[t].pc = "prepared" /\ tree.err = {}
    /\ LET js == DOMAIN tree.run[t].gens
           begun == [tree EXCEPT !.run[t].fs = [j \in js |-> None] \o <<>>]
           built(B) == [B EXCEPT !.run[t].pc = "built", !.run[t].old = <<>>]
       IN Step(built(FoldLeft(LAMBDA T, j : BuildFilter(T, t, j), begun, [j \in js |-> j])), rd.a)
    /\ UNCHANGED <<cfg, mt, rd, fails>>

\* trunk_replace_routing_filter for pivot p of node n, and the reclamation queue.
UniqueIn(T, f) == IF f = None THEN 0 ELSE Cardinality({k \in Key : T.fc[f][k] # {}})
TotalIn(T, f) == IF f = None THEN 0 ELSE FoldLeft(LAMBDA sum, k : sum + Cardinality(T.fc[f][k]), 0, [k \in Key |-> k])
ToReclaim(T, f) == TotalIn(T, f) - UniqueIn(T, f)
Requeue(T, n, p) ==
    LET pd == T.nd[n].piv[p]
        prio == ToReclaim(T, pd.fl)
    IN IF ~cfg.reclaim THEN T
       ELSE IF pd.srq THEN [T EXCEPT !.srq = {IF e.gen = pd.gen THEN [e EXCEPT !.prio = prio] ELSE e : e \in @}]
       ELSE IF prio > ReclaimMin
       THEN [T EXCEPT !.srq = @ \cup {[addr |-> n, gen |-> pd.gen, prio |-> prio]}, !.nd[n].piv[p].srq = TRUE]
       ELSE T
ReplaceFilter(T, n, t, p) ==
    LET req == T.run[t]
        pd == T.nd[n].piv[p]
        js == Pos(req, pd.gen)
        j == CHOOSE x \in js : TRUE
        new == [pd EXCEPT !.fl = req.fs[j], !.nb = @ - req.out[j], !.nw = @ + req.out[j]]
    IN IF BundleLiveForPivot(T.nd[n], req.u, p)
       THEN IF js = {} THEN Fail(T, "pivot not in request")
            ELSE Requeue([T EXCEPT !.nd[n].piv[p] = new, !.run[t].fs[j] = None], n, p)
       ELSE IF js = {} THEN T
       ELSE [DecF(T, <<req.fs[j]>>) EXCEPT !.run[t].fs[j] = None]
ClearIn(T, n, u) ==
    LET nd == T.nd[n]
    IN IF ~BundleLive(nd, u) THEN T
       ELSE IF u # nd.sbu THEN Fail(T, "clear_bundle")
       ELSE DecF([T EXCEPT !.nd[n] = ClearBundle(nd)], FiltersIn(nd, nd.sfl, ClearBundle(nd).sfl))
\* trunk_garbage_collect_filters: the filters that the old snapshot's node lets go.
GcFilters(nd, u) == [j \in DOMAIN Live(nd, u) |-> nd.piv[Live(nd, u)[j]].fl]

FilterReplace(t) ==
    /\ tree.run[t].pc = "built" /\ tree.err = {}
    /\ LET req == tree.run[t]
           old == PathTo(tree, tree.root, req.lo, req.height)
           replaced(C, n) ==
               ClearIn(FoldLeft(LAMBDA T, p : ReplaceFilter(T, n, t, p), C, [p \in Pivots(C.nd[n]) |-> p]), n, req.u)
           next(X, hi) == [X EXCEPT !.run[t].pc = "drain", !.run[t].path = old, !.run[t].flo = hi,
                                    !.run[t].gone = GcFilters(tree.nd[old[Len(old)]], req.u)]
           at(C, n) == IF ShouldAbort(C.nd[n], req)
                       THEN Step(Finish([DecF(C, req.fs) EXCEPT !.stray = TRUE, !.run[t].fs = <<>>], t), rd.a) /\ Replaced(FALSE)
                       ELSE Step(next(replaced(C, n), MaxKeyOf(C.nd[n])), rd.a) /\ Replaced(TRUE)
           on(C) == at(C, NodeAt(C, req.flo, req.height))
       IN on(CopyPath(tree, req.flo, req.height))
    /\ UNCHANGED <<cfg, mt, fails>>
FilterCollect(t) ==
    /\ tree.run[t].pc = "drain" /\ tree.err = {} /\ NoReaderOn(tree.run[t].path)
    /\ LET req == tree.run[t]
           G == [DecF(tree, req.gone) EXCEPT !.run[t].gone = <<>>, !.run[t].path = <<>>]
       IN Step(IF req.flo = req.fhi THEN NextNode([DecF(G, req.fs) EXCEPT !.run[t].fs = <<>>], t, req.fhi)
               ELSE [G EXCEPT !.run[t].pc = "built"], rd.a)
    /\ UNCHANGED <<cfg, mt, rd, fails>>

-----------------------------------------------------------------------------
(* Space reclamation: trunk_maybe_reclaim_space, at the end of a filter    *)
(* task. The queue's entry names the node the pivot was in when the entry  *)
(* was made; that node is changed in place.                                *)

\* trunk_compact_leaf.
CompactLeaf(T, a) ==
    LET leaf == RebundleAll(T.nd[a], PivotTuples(T.nd[a], 1))
    IN Enqueue([T EXCEPT !.nd[a] = leaf], LeafRequest(leaf, a))
ReclaimSpace(t) ==
    /\ tree.run[t].pc = "reclaim" /\ tree.err = {}
    /\ LET e == CHOOSE x \in tree.srq : \A y \in tree.srq : y.prio <= x.prio
           T == [tree EXCEPT !.srq = @ \ {e}]
           ps == {p \in Pivots(T.nd[e.addr]) : T.nd[e.addr].piv[p].gen = e.gen}
           p == CHOOSE x \in ps : TRUE
           U == [T EXCEPT !.nd[e.addr].piv[p].srq = FALSE]
       IN IF tree.srq = {} THEN Step(Done(tree, t), rd.a)
          ELSE IF ps = {} THEN Step(T, rd.a)
          ELSE /\ rd.a # e.addr
               /\ Step(IF IsLeaf(T.nd[e.addr]) THEN CompactLeaf(U, e.addr) ELSE Flush(U, e.addr, p, TRUE), rd.a)
    /\ UNCHANGED <<cfg, mt, rd, fails>>

-----------------------------------------------------------------------------
(* Lookups: trunk_lookup, after the memtables.                             *)

NoLookup == [a |-> None, k |-> 1, acc |-> <<>>, mt |-> 0, late |-> FALSE]
LookupStart(k) ==
    /\ rd.a = None
    /\ rd' = [NoLookup EXCEPT !.a = tree.root, !.k = k, !.mt = mt]
    /\ UNCHANGED <<tree, cfg, mt, fails>>
\* What a lookup reads behind pivot p of a node exists.
PivotBranches(nd, p) == {nd.br[i] : i \in Range(Slots(nd.piv[p].br, nd.ebr, MaxBranches))}
PivotFilters(nd, p) ==
    {nd.piv[p].fl} \cup UNION {Range(FiltersIn(nd, nd.sb[s].f0, nd.sb[s].f1)) : s \in Range(FlushedSubbundles(nd, p))}
BranchesExist(nd, p) == \A b \in PivotBranches(nd, p) : BranchExists(tree, b)
FiltersExist(nd, p) == \A f \in PivotFilters(nd, p) : FilterExists(tree, f)
\* One that meets a freed branch or filter finds nobody knows what, and ends here.
LookupNode ==
    /\ rd.a # None
    /\ LET nd == tree.nd[rd.a]
           p == FindPivot(nd, rd.k)
           acc == PivotLookup(nd, p, rd.k, rd.acc, tree.br, tree.fc)
           exists == BranchesExist(nd, p) /\ FiltersExist(nd, p)
       IN /\ rd' = IF ~exists \/ IsLeaf(nd) \/ Definitive(acc) THEN NoLookup
                   ELSE [rd EXCEPT !.a = nd.piv[p].addr, !.acc = acc]
          /\ Step(tree, rd'.a)
    /\ UNCHANGED <<cfg, mt, fails>>

-----------------------------------------------------------------------------
(* A tree without data of height 1 or 2: shape gives the first keys of the *)
(* leaves of each index node (trunk_create makes the shape <<<<1>>>>, the  *)
(* others are what deleting everything leaves behind).                     *)

EmptyTree(shape) ==
    LET keys == FlattenSeq(shape) \o <<MaxKey + 1>>
        before(i) == Len(FlattenSeq(SubSeq(shape, 1, i - 1)))
        leaves == Len(keys) - 1
        leaf(j) == EmptyNode(0, <<keys[j], keys[j + 1]>>, <<None>>)
        index(i) == EmptyNode(1, SubSeq(keys, before(i) + 1, before(i + 1) + 1),
                              [j \in DOMAIN shape[i] |-> before(i) + j])
        n == Len(shape)
        root == EmptyNode(2, [i \in 1 .. n + 1 |-> keys[before(i) + 1]], [i \in 1 .. n |-> leaves + i])
    IN [j \in 1 .. leaves + n + (IF n = 1 THEN 0 ELSE 1) |->
           IF j <= leaves THEN leaf(j) ELSE IF j <= leaves + n THEN index(j - leaves) ELSE root]
Nothing == [i \in {} |-> 0]
Init ==
    /\ \E s \in Starts :
          /\ cfg = [threads |-> s.threads, reclaim |-> s.reclaim, memtables |-> s.memtables,
                    reads |-> s.reads, fails |-> s.fails, batches |-> s.batches, late |-> s.late, queue |-> s.queue]
          /\ LET nd == EmptyTree(s.shape)
             IN tree = [root |-> Len(nd), nd |-> nd, br |-> Nothing, rc |-> Nothing, fc |-> Nothing, fr |-> Nothing,
                        q |-> <<>>, run |-> [t \in Threads |-> NoTask], srq |-> {}, held |-> {}, stray |-> FALSE,
                        wrong |-> FALSE, err |-> {}]
    /\ mt = 0 /\ rd = NoLookup /\ fails = 0

Task(t) == \/ TakeTask(t) \/ CompactRead(t) \/ CompactPack(t) \/ CompactFail(t) \/ CompactReplace(t)
           \/ CompactCollect(t) \/ FilterPrepare(t) \/ FilterBuild(t) \/ FilterReplace(t) \/ FilterCollect(t)
           \/ ReclaimSpace(t)
Next == Incorporate \/ (\E t \in Threads : Task(t)) \/ (\E k \in cfg.reads : LookupStart(k)) \/ LookupNode
\* Fairness: a lookup under way goes on, and so does a thread that can take a
\* step again and again (while it waits for readers its lock bit keeps new ones
\* out). That is WF_vars(LookupNode) and SF_vars(Task(t)); MayStep(t) stands for
\* ENABLED Task(t), which TLC cannot evaluate here in reasonable time.
MayStep(t) ==
    LET req == tree.run[t]
    IN CASE req.pc = "idle" -> MayTake(t)
         [] req.pc \in {"collect", "drain"} -> NoReaderOn(req.path)
         [] OTHER -> TRUE
Steps(t) == tree.run[t]' # tree.run[t] \/ tree.srq' # tree.srq
Fairness ==
    /\ []<>(rd.a = None) \/ []<><<rd'.a # rd.a>>_vars
    /\ \A t \in Threads : <>[](~MayStep(t)) \/ []<><<Steps(t)>>_vars
Spec == Init /\ [][Next]_vars
FairSpec == Spec /\ Fairness

-----------------------------------------------------------------------------
(* What the tree promises: a map from keys to messages.                    *)

RECURSIVE Expected(_, _)
Expected(k, n) == IF n = 0 THEN <<>> ELSE MergeMsg(Batch(n)[k], Expected(k, n - 1))
\* trunk_lookup returns no message for a deleted key.
Result(m) == IF FinalMsg(m) = <<0>> THEN <<>> ELSE FinalMsg(m)
RECURSIVE LookupFrom(_, _, _)
LookupFrom(a, k, acc) ==
    LET nd == tree.nd[a]
        p == FindPivot(nd, k)
        found == PivotLookup(nd, p, k, acc, tree.br, tree.fc)
    IN IF IsLeaf(nd) THEN found ELSE LookupFrom(nd.piv[p].addr, k, found)

\* trunk.c:306: a flush may occur while a compaction is scheduled or in process,
\* which will continue as usual. So a lookup in the current tree finds, for every
\* key, what the incorporated memtables say of it (trunk_lookup). That is not so:
\* see the README.
LookupsFindEveryKey == tree.err = {} => \A k \in Key : Result(LookupFrom(tree.root, k, <<>>)) = Result(Expected(k, mt))


\* A lookup that nobody has overtaken (its root was replaced only by tasks that
\* drain the old path before they let go of its branches) finds every branch
\* down to its leaf, and if the filters on its way exist too it ends with what
\* its root promised when it took it (trunk_root_get, hand over hand;
\* trunk_garbage_collect_node_get). An incorporation drains nobody, and filters
\* of a bundle are let go before the draining: see the README.
ToTheLeaf(Exist(_, _)) ==
    \A a \in Range(PathTo(tree, rd.a, rd.k, 0)) : Exist(tree.nd[a], FindPivot(tree.nd[a], rd.k))
LookupsKeepTheirBranches == rd.a # None /\ ~rd.late =>
    /\ ToTheLeaf(BranchesExist)
    /\ ~tree.wrong /\ ToTheLeaf(FiltersExist) =>
           Result(LookupFrom(rd.a, rd.k, rd.acc)) = Result(Expected(rd.k, rd.mt))

\* When no more memtables come the tasks come to an end: no filter task that
\* waits for the bundles before its own waits for ever, and no thread waits
\* for readers that wait for it (unless an assertion or a compaction failed:
\* then the bundle stays, and the filter tasks behind it go round for ever).
Quiet == tree.q = <<>> /\ \A t \in Threads : Idle(t)
TasksDrain == <>[](Quiet \/ mt < cfg.late \/ fails > 0 \/ tree.err # {})

\* trunk_verify_node_with_neighbors: the nodes of a level follow each other
\* without gap, and a child has the range that its pivot says.
VerifyNeighbours(a) ==
    LET nd == tree.nd[a]
    IN IsLeaf(nd) \/ \A p \in Pivots(nd) : /\ MinKeyOf(tree.nd[nd.piv[p].addr]) = nd.keys[p]
                                          /\ MaxKeyOf(tree.nd[nd.piv[p].addr]) = nd.keys[p + 1]
\* The tree passes trunk_verify_tree after every step, not only in tests at
\* rest: counts of tuples, circular positions, filters and key ranges agree.
\* No platform_assert of the flush, split, compaction and filter code fails but
\* for the one on the height in trunk_compact_bundle, which a leaf that is split
\* into one leaf while its bundle is compacted does reach; and nothing is read
\* after it was freed but for the old filter of a build, which another thread's
\* build can free once the node is released (trunk.c:4286, see the README).
TreeVerifies ==
    /\ tree.err \subseteq {"bundle not live", "freed filter"}
    /\ tree.err = {} => \A a \in Current : VerifyNode(tree.nd[a], tree.br) /\ VerifyNeighbours(a)

\* The references of the current tree's nodes and of the tasks: what an old node
\* of a path that is being drained lets go is still counted.
InHand(req) == req.pc = "replace" \/ (req.pc = "collect" /\ (req.more \/ req.repl = 0))
BranchHolders(b, nodes) ==
    LET inPivot(a, p) == Cardinality({i \in Range(Slots(tree.nd[a].piv[p].br, tree.nd[a].ebr, MaxBranches)) :
                                          tree.nd[a].br[i] = b})
        inNode(a) == FoldLeft(LAMBDA s, p : s + inPivot(a, p), 0, [p \in Pivots(tree.nd[a]) |-> p])
        inTask(t) == Cardinality({j \in DOMAIN tree.run[t].holds : tree.run[t].holds[j] = b})
                     + (IF tree.run[t].b = b /\ InHand(tree.run[t]) THEN 1 ELSE 0)
    IN FoldFunctionOnSet(LAMBDA x, y : x + y, 0, [a \in nodes |-> inNode(a)], nodes)
       + FoldFunctionOnSet(LAMBDA x, y : x + y, 0, [t \in Threads |-> inTask(t)], Threads)
FilterHolders(f, nodes) ==
    LET inNode(a) == Cardinality({j \in Range(Slots(tree.nd[a].sfl, tree.nd[a].efl, MaxFilters)) :
                                      tree.nd[a].fl[j] = f})
                     + Cardinality({p \in Pivots(tree.nd[a]) : tree.nd[a].piv[p].fl = f})
        inTask(t) == Cardinality({j \in DOMAIN tree.run[t].fs : tree.run[t].fs[j] = f})
                     + Cardinality({j \in DOMAIN tree.run[t].gone : tree.run[t].gone[j] = f})
    IN FoldFunctionOnSet(LAMBDA x, y : x + y, 0, [a \in nodes |-> inNode(a)], nodes)
       + FoldFunctionOnSet(LAMBDA x, y : x + y, 0, [t \in Threads |-> inTask(t)], Threads)
\* A branch has one reference for every pivot of the current tree that can
\* reach it and for every compaction that reads or installs it, and a filter one
\* for every place in a node and every build that made it or uses it again: none
\* is freed while one of these needs it and none is kept for ever
\* (trunk_inc_intersection, trunk_zap_branch_range, trunk_inc_filter,
\* trunk_dec_filter). Who only reads has no reference: lookups in an old tree
\* (LookupsKeepTheirBranches), and a build its old filter (TreeVerifies).
RefsAreExact ==
    tree.err = {} =>
        LET nodes == Current
        IN /\ \A b \in DOMAIN tree.rc : tree.rc[b] = BranchHolders(b, nodes)
           /\ \A f \in DOMAIN tree.fr : tree.fr[f] = FilterHolders(f, nodes)
=============================================================================
