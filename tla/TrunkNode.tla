----------------------------- MODULE TrunkNode -----------------------------
(***************************************************************************)
(* The trunk node of src/trunk.c and the functions that change one node.   *)
(* A node holds pivots (one per child, a leaf has one) and four circular   *)
(* arrays: branches (B-trees), bundles (groups of branches that were       *)
(* flushed together), the subbundles of the bundles, and the filters of    *)
(* the subbundles. Branches sbr .. sfb - 1 are whole: every pivot that has *)
(* not flushed them finds them with its own filter. Branches sfb .. ebr - 1*)
(* are fractional: they belong to a bundle. Positions in the arrays are    *)
(* kept modulo the array's length, as in the code.                         *)
(*                                                                         *)
(* A branch is an identifier; what it holds is br \in [id -> Content], a   *)
(* Content gives each key a message (<<>> when absent). A filter is an     *)
(* identifier too (0 is the empty filter); its value gives each key the    *)
(* set of branch offsets that may hold it. A tuple counts as one kv byte.  *)
(***************************************************************************)
EXTENDS Integers, Sequences, FiniteSets, SequencesExt

CONSTANTS
    MaxKey,         \* keys are 1 .. MaxKey; MaxKey + 1 is the positive infinity key
    MaxBranches,    \* cfg.hard_max_branches_per_node: length of the branch array
    MaxBundles,     \* TRUNK_MAX_BUNDLES
    MaxSubbundles,  \* TRUNK_MAX_SUBBUNDLES
    MaxFilters,     \* TRUNK_MAX_SUBBUNDLE_FILTERS
    BranchLimit,    \* cfg.max_branches_per_node, the soft limit
    KvLimit,        \* cfg.max_kv_bytes_per_node
    Fanout,         \* cfg.fanout
    MaxPivotKeys    \* cfg.max_pivot_keys

Key == 1 .. MaxKey
None == 0           \* address or filter identifier 0

-----------------------------------------------------------------------------
(* Circular positions: trunk_add_branch_number and its companions.         *)

Add(i, k, n) == (i + k) % n
Sub(i, k, n) == (i + n - k) % n
InRange(i, start, end, n) == Sub(i, start, n) < Sub(end, start, n)
Slots(start, end, n) == [k \in 1 .. Sub(end, start, n) |-> Add(start, k - 1, n)]

-----------------------------------------------------------------------------
(* Reading a node.                                                         *)

NumChildren(nd) == Len(nd.piv)
Pivots(nd) == 1 .. NumChildren(nd)
MinKeyOf(nd) == nd.keys[1]
MaxKeyOf(nd) == nd.keys[Len(nd.keys)]
IsLeaf(nd) == nd.height = 0

\* The pivot whose range holds k (trunk_find_pivot, less_than_or_equal).
FindPivot(nd, k) == CHOOSE p \in Pivots(nd) : nd.keys[p] <= k /\ k < nd.keys[p + 1]

BranchLive(nd, i) == InRange(i, nd.sbr, nd.ebr, MaxBranches)
BranchValid(nd, i) == BranchLive(nd, i) \/ i = nd.ebr
BranchIsWhole(nd, i) == InRange(i, nd.sbr, nd.sfb, MaxBranches)
BranchLiveForPivot(nd, i, p) == InRange(i, nd.piv[p].br, nd.ebr, MaxBranches)
BundleLive(nd, u) == InRange(u, nd.sbu, nd.ebu, MaxBundles)
BundleValid(nd, u) == BundleLive(nd, u) \/ u = nd.ebu
BundleLiveForPivot(nd, u, p) == InRange(u, nd.piv[p].bu, nd.ebu, MaxBundles)
SbFilterValid(nd, f) == InRange(f, nd.sfl, nd.efl, MaxFilters)

BranchCount(nd) == Sub(nd.ebr, nd.sbr, MaxBranches)
BundleCount(nd) == Sub(nd.ebu, nd.sbu, MaxBundles)
SubbundleCount(nd) == Sub(nd.esb, nd.ssb, MaxSubbundles)
PivotBundleCount(nd, p) == Sub(nd.ebu, nd.piv[p].bu, MaxBundles)
PivotBranchCount(nd, p) == Sub(nd.ebr, nd.piv[p].br, MaxBranches)
PivotWholeCount(nd, p) ==
    IF BranchIsWhole(nd, nd.piv[p].br) THEN Sub(nd.sfb, nd.piv[p].br, MaxBranches) ELSE 0
PivotStartSubbundle(nd, p) ==
    IF nd.piv[p].bu = nd.ebu THEN nd.esb ELSE nd.bu[nd.piv[p].bu].s0
PivotSubbundleCount(nd, p) ==
    IF PivotBundleCount(nd, p) = 0 THEN 0
    ELSE Sub(nd.esb, nd.bu[nd.piv[p].bu].s0, MaxSubbundles)
LogicalBranchCount(nd) == Sub(nd.sfb, nd.sbr, MaxBranches) + BundleCount(nd)
PivotNeedsFlush(nd, p) == PivotWholeCount(nd, p) + PivotBundleCount(nd, p) > BranchLimit

\* The branches, filters and subbundles of bundle u.
BundleStartBranch(nd, u) == nd.sb[nd.bu[u].s0].b0
BundleEndBranch(nd, u) == nd.sb[Sub(nd.bu[u].s1, 1, MaxSubbundles)].b1
BundleSlots(nd, u) == Slots(BundleStartBranch(nd, u), BundleEndBranch(nd, u), MaxBranches)
BundleStartFilter(nd, u) == nd.sb[nd.bu[u].s0].f0
BundleEndFilter(nd, u) == nd.sb[Sub(nd.bu[u].s1, 1, MaxSubbundles)].f1
FiltersIn(nd, f0, f1) == [k \in 1 .. Sub(f1, f0, MaxFilters) |-> nd.fl[Add(f0, k - 1, MaxFilters)]]
BundleFilters(nd, u) == FiltersIn(nd, BundleStartFilter(nd, u), BundleEndFilter(nd, u))

\* Tuples of a branch in the range of pivot p (trunk_pivot_branch_tuple_counts).
RangeTuples(content, lo, hi) == Cardinality({k \in Key : lo <= k /\ k < hi /\ content[k] # <<>>})
TuplesIn(nd, p, slots, br) ==
    FoldLeft(LAMBDA sum, i : sum + RangeTuples(br[nd.br[i]], nd.keys[p], nd.keys[p + 1]), 0, slots)
TuplesInBundle(nd, u, br) == [p \in Pivots(nd) |-> TuplesIn(nd, p, BundleSlots(nd, u), br)]
PivotTuples(nd, p) == nd.piv[p].nw + nd.piv[p].nb
NodeTuples(nd) == FoldLeft(LAMBDA sum, pd : sum + pd.nw + pd.nb, 0, nd.piv)

NodeIsFull(nd) == LogicalBranchCount(nd) > BranchLimit \/ NodeTuples(nd) > KvLimit
NeedsSplit(nd) ==
    IF IsLeaf(nd) THEN PivotTuples(nd, 1) > KvLimit \/ LogicalBranchCount(nd) > BranchLimit
    ELSE NumChildren(nd) > Fanout
HasVacancy(nd, more) == BranchCount(nd) + more + 1 < MaxBranches
RoomToFlush(parent, child, p) ==
    /\ BranchCount(child) + PivotBranchCount(parent, p) < MaxBranches
    /\ BundleCount(child) + 2 <= MaxBundles
    /\ SubbundleCount(child) + PivotSubbundleCount(parent, p) + 2 < MaxSubbundles

-----------------------------------------------------------------------------
(* Messages are sequences of update identifiers, newest first; 0 at the end*)
(* marks a definitive message: <<0>> deletes, <<i, 0>> inserts, <<i>> is an*)
(* update of whatever is older.                                            *)

Definitive(m) == m # <<>> /\ m[Len(m)] = 0
MergeMsg(new, old) == IF Definitive(new) THEN new ELSE new \o old
FinalMsg(m) == IF m = <<>> \/ Definitive(m) THEN m ELSE Append(m, 0)

\* trunk_filter_lookup: the offsets a filter names are tried from the largest,
\* until the message is definitive (MergeMsg ignores what comes after that).
FilterLookup(nd, f, start, k, acc, br, fc) ==
    LET vals == IF f = None THEN {} ELSE fc[f][k]
    IN FoldRight(LAMBDA v, a : IF v \in vals THEN MergeMsg(a, br[nd.br[Add(start, v, MaxBranches)]][k]) ELSE a,
                 [i \in 1 .. MaxBranches |-> i - 1], acc)

\* trunk_compacted_subbundle_lookup: one branch behind several filters.
CompactedSubbundleLookup(nd, sb, k, acc, br, fc) ==
    LET hit == \E i \in 1 .. Sub(sb.f1, sb.f0, MaxFilters) :
                   LET f == FiltersIn(nd, sb.f0, sb.f1)[i] IN f # None /\ fc[f][k] # {}
    IN IF Definitive(acc) \/ ~hit THEN acc ELSE MergeMsg(acc, br[nd.br[sb.b0]][k])

\* trunk_bundle_lookup: the subbundles of a bundle from the newest.
SubbundleLookup(nd, s, k, acc, br, fc) ==
    IF nd.sb[s].st = "compacted" THEN CompactedSubbundleLookup(nd, nd.sb[s], k, acc, br, fc)
    ELSE FilterLookup(nd, nd.fl[nd.sb[s].f0], nd.sb[s].b0, k, acc, br, fc)
BundleLookup(nd, u, k, acc, br, fc) ==
    FoldRight(LAMBDA s, a : SubbundleLookup(nd, s, k, a, br, fc),
              Slots(nd.bu[u].s0, nd.bu[u].s1, MaxSubbundles), acc)

\* trunk_pivot_lookup: the pivot's bundles from the newest, then its whole branches.
PivotLookup(nd, p, k, acc, br, fc) ==
    LET frac == FoldRight(LAMBDA u, a : BundleLookup(nd, u, k, a, br, fc),
                          Slots(nd.piv[p].bu, nd.ebu, MaxBundles), acc)
    IN FilterLookup(nd, nd.piv[p].fl, nd.piv[p].br, k, frac, br, fc)

-----------------------------------------------------------------------------
(* Changing a node. (s \o <<>> is s; it makes TLC compute s at once.)      *)

\* trunk_create and trunk_alloc: a node with keys and children, and without data.
EmptyNode(height, keys, addrs) ==
    [height |-> height, keys |-> keys, pgen |-> Len(addrs),
     piv |-> [p \in DOMAIN addrs |-> [addr |-> addrs[p], gen |-> p - 1, br |-> 0, bu |-> 0, fl |-> None,
                                      nw |-> 0, nb |-> 0, srq |-> FALSE]],
     sbr |-> 0, sfb |-> 0, ebr |-> 0, sbu |-> 0, ebu |-> 0, ssb |-> 0, esb |-> 0, sfl |-> 0, efl |-> 0,
     br |-> [i \in 0 .. MaxBranches - 1 |-> None], bu |-> [u \in 0 .. MaxBundles - 1 |-> [s0 |-> 0, s1 |-> 0]],
     sb |-> [s \in 0 .. MaxSubbundles - 1 |-> [st |-> "none", b0 |-> 0, b1 |-> 0, f0 |-> 0, f1 |-> 0]],
     fl |-> [f \in 0 .. MaxFilters - 1 |-> None]]

\* trunk_get_new_bundle, trunk_get_new_subbundle, trunk_get_new_branch.
NewBundle(nd) == [nd EXCEPT !.ebu = Add(@, 1, MaxBundles)]
BundlesLeft(nd) == Add(nd.ebu, 1, MaxBundles) # nd.sbu
AppendBranches(nd, ids) ==
    [nd EXCEPT !.ebr = Add(@, Len(ids), MaxBranches),
               !.br = [i \in DOMAIN nd.br |-> IF InRange(i, nd.ebr, Add(nd.ebr, Len(ids), MaxBranches), MaxBranches)
                                          THEN ids[Sub(i, nd.ebr, MaxBranches) + 1] ELSE nd.br[i]]]
NewSubbundle(nd, state, ids, filters) ==
    LET b1 == Add(nd.ebr, Len(ids), MaxBranches)
        f1 == Add(nd.efl, Len(filters), MaxFilters)
    IN [AppendBranches(nd, ids) EXCEPT
           !.esb = Add(@, 1, MaxSubbundles), !.efl = f1,
           !.sb[nd.esb] = [st |-> state, b0 |-> nd.ebr, b1 |-> b1, f0 |-> nd.efl, f1 |-> f1],
           !.fl = [f \in DOMAIN nd.fl |-> IF InRange(f, nd.efl, f1, MaxFilters)
                                      THEN filters[Sub(f, nd.efl, MaxFilters) + 1] ELSE nd.fl[f]]]
\* trunk_pivot_add_bundle_tuple_counts.
AddBundleTuples(nd, counts) ==
    [nd EXCEPT !.piv = [p \in DOMAIN nd.piv |-> [nd.piv[p] EXCEPT !.nb = @ + counts[p]]] \o <<>>]

\* trunk_bundle_clear_subbundles and trunk_inc_start_bundle.
DropStartBundle(nd) ==
    [nd EXCEPT !.sfl = BundleEndFilter(nd, nd.sbu), !.ssb = nd.bu[nd.sbu].s1, !.sbu = Add(@, 1, MaxBundles)]

\* trunk_reset_start_branch: the start branch becomes the oldest one live for
\* some pivot, bundles without live branches go.
ResetStartBranch(nd) ==
    LET oldest == CHOOSE p \in Pivots(nd) : \A q \in Pivots(nd) :
                      PivotBranchCount(nd, q) <= PivotBranchCount(nd, p)
        moved == [nd EXCEPT !.sbr = nd.piv[oldest].br]
        frac == IF BranchValid(moved, moved.sfb) THEN moved ELSE [moved EXCEPT !.sfb = moved.sbr]
    IN FoldLeft(LAMBDA n, u : IF BranchLive(n, BundleStartBranch(nd, u)) THEN n ELSE DropStartBundle(n),
                frac, Slots(nd.sbu, nd.ebu, MaxBundles))

\* trunk_pivot_clear, after a flush of pivot p.
PivotClear(nd, p) ==
    LET cleared == [nd EXCEPT !.piv[p].br = nd.ebr, !.piv[p].bu = nd.ebu, !.piv[p].fl = None,
                              !.piv[p].nw = 0, !.piv[p].nb = 0, !.piv[p].srq = FALSE]
    IN IF nd.piv[p].br = nd.sbr THEN ResetStartBranch(cleared) ELSE cleared

ClearBundle(nd) ==
    LET n == DropStartBundle(nd)
    IN [n EXCEPT !.piv = [p \in DOMAIN n.piv |-> IF BundleValid(n, n.piv[p].bu) THEN n.piv[p] ELSE [n.piv[p] EXCEPT !.bu = n.sbu]] \o <<>>,
                 !.sfb = IF BundleCount(n) = 0 THEN n.ebr ELSE BundleStartBranch(n, n.sbu)]

\* trunk_add_pivot and trunk_init_pivot_data_from_pred: a new child after pivot
\* p takes over p's branches and bundles, p gets a new generation.
AddPivot(nd, p, addr, k) ==
    LET pd == [nd.piv[p] EXCEPT !.addr = addr, !.nw = 0, !.nb = 0]
    IN [nd EXCEPT !.keys = InsertAt(nd.keys, p + 1, k),
                  !.piv = InsertAt([nd.piv EXCEPT ![p].gen = nd.pgen], p + 1, pd), !.pgen = @ + 1]

\* trunk_pivot_recount_num_tuples_and_kv_bytes.
Recount(nd, p, br) ==
    LET slots == Slots(nd.piv[p].br, nd.ebr, MaxBranches)
    IN [nd EXCEPT !.piv[p].nw = TuplesIn(nd, p, SelectSeq(slots, LAMBDA i : BranchIsWhole(nd, i)), br),
                  !.piv[p].nb = TuplesIn(nd, p, SelectSeq(slots, LAMBDA i : ~BranchIsWhole(nd, i)), br)]

\* trunk_leaf_rebundle_all_branches: every branch of a leaf in one new bundle,
\* the whole branches as a subbundle at the head, behind the pivot's filter.
RebundleAll(leaf, tuples) ==
    LET whole == BranchIsWhole(leaf, leaf.sbr)
        s == Sub(leaf.ssb, 1, MaxSubbundles)
        f == Sub(leaf.sfl, 1, MaxSubbundles)
        headed == [leaf EXCEPT !.ssb = s, !.sfl = f, !.fl[f] = leaf.piv[1].fl, !.piv[1].fl = None,
                               !.sb[s] = [st |-> "leaf", b0 |-> leaf.sbr, b1 |-> leaf.sfb, f0 |-> f, f1 |-> leaf.sfl]]
        n == IF whole THEN headed ELSE leaf
    IN [n EXCEPT !.ebu = Add(@, 1, MaxBundles), !.sbu = leaf.ebu, !.sfb = n.sbr,
                 !.bu[leaf.ebu] = [s0 |-> n.ssb, s1 |-> n.esb], !.pgen = @ + 1,
                 !.piv[1].bu = leaf.ebu, !.piv[1].gen = leaf.pgen, !.piv[1].nw = 0, !.piv[1].nb = tuples]

\* trunk_replace_bundle_branches: the branches of bundle u give way to branch
\* b, or to nothing (b = None) when the compaction found no tuple; counts are
\* the tuples that the compaction removed for each live pivot.
SlideBranches(nd, u, b) ==
    LET start == BundleStartBranch(nd, u)
        diff == Sub(BundleEndBranch(nd, u), start, MaxBranches) - (IF b = None THEN 0 ELSE 1)
        first == [nd.br EXCEPT ![start] = IF b = None THEN @ ELSE b]
    IN FoldLeft(LAMBDA a, i : [a EXCEPT ![Sub(i, diff, MaxBranches)] = a[i]],
                first, Slots(BundleEndBranch(nd, u), nd.ebr, MaxBranches))
SlideFilters(nd, u) ==
    LET diff == Sub(BundleEndFilter(nd, u), BundleStartFilter(nd, u), MaxFilters)
    IN FoldLeft(LAMBDA a, f : [a EXCEPT ![Sub(f, diff, MaxSubbundles)] = a[f]],
                nd.fl, Slots(BundleEndFilter(nd, u), nd.efl, MaxFilters))
SlideSubbundles(nd, u, b, diff, sdiff) ==
    LET first == IF b = None THEN nd.sb
                 ELSE [nd.sb EXCEPT ![nd.bu[u].s0] =
                          [nd.sb[nd.bu[u].s0] EXCEPT !.b1 = Add(BundleStartBranch(nd, u), 1, MaxBranches),
                                    !.f1 = BundleEndFilter(nd, u), !.st = "compacted"]]
    IN FoldLeft(LAMBDA a, s :
                   [a EXCEPT ![Sub(s, sdiff, MaxSubbundles)] =
                       [a[s] EXCEPT !.b0 = Sub(@, diff, MaxBranches), !.b1 = Sub(@, diff, MaxBranches)]],
                first, Slots(nd.bu[u].s1, nd.esb, MaxSubbundles))
SlideBundles(nd, u, b, sdiff) ==
    LET later == Slots(Add(u, 1, MaxBundles), nd.ebu, MaxBundles)
        first == [nd.bu EXCEPT ![u].s1 = IF b = None THEN @ ELSE Add(nd.bu[u].s0, 1, MaxSubbundles)]
        renumbered == FoldLeft(LAMBDA a, v : [a EXCEPT ![v] = [s0 |-> Sub(@.s0, sdiff, MaxSubbundles),
                                                               s1 |-> Sub(@.s1, sdiff, MaxSubbundles)]],
                               first, later)
    IN IF b # None THEN renumbered
       ELSE FoldLeft(LAMBDA a, v : [a EXCEPT ![Sub(v, 1, MaxBundles)] = a[v]], renumbered, later)
\* The pivots after a replacement: fewer tuples, and positions behind the
\* bundle move with what they point at.
SlidePivots(nd, u, b, diff, reclaimed) ==
    LET start == BundleStartBranch(nd, u)
        behind(v) == InRange(v, Add(u, 1, MaxBundles), Add(nd.ebu, 1, MaxBundles), MaxBundles)
        counted(p) == [nd.piv[p] EXCEPT !.nb = IF BundleLiveForPivot(nd, u, p) THEN @ - reclaimed[p] ELSE @,
                                        !.bu = IF b = None /\ behind(@) THEN Sub(@, 1, MaxBundles) ELSE @]
    IN [p \in DOMAIN nd.piv |->
           IF BranchLiveForPivot(nd, start, p) THEN counted(p)
           ELSE [counted(p) EXCEPT !.br = Sub(@, diff, MaxBranches)]] \o <<>>
ReplaceBundleBranches(nd, u, b, reclaimed) ==
    LET one == IF b = None THEN 0 ELSE 1
        diff == Sub(BundleEndBranch(nd, u), BundleStartBranch(nd, u), MaxBranches) - one
        sdiff == Sub(nd.bu[u].s1, nd.bu[u].s0, MaxSubbundles) - one
        fdiff == Sub(BundleEndFilter(nd, u), BundleStartFilter(nd, u), MaxFilters)
    IN [nd EXCEPT !.br = SlideBranches(nd, u, b),
                  !.fl = IF b = None THEN SlideFilters(nd, u) ELSE @,
                  !.efl = IF b = None THEN Sub(@, fdiff, MaxFilters) ELSE @,
                  !.sb = SlideSubbundles(nd, u, b, diff, sdiff),
                  !.esb = Sub(@, sdiff, MaxSubbundles),
                  !.bu = SlideBundles(nd, u, b, sdiff),
                  !.ebu = IF b = None THEN Sub(@, 1, MaxBundles) ELSE @,
                  !.piv = SlidePivots(nd, u, b, diff, reclaimed),
                  !.ebr = Sub(@, diff, MaxBranches)]
-----------------------------------------------------------------------------
(* trunk_verify_node, in three parts.                                      *)

VerifyPivots(nd, br) ==
    /\ Len(nd.keys) <= MaxPivotKeys
    /\ \A p \in Pivots(nd) :
          /\ nd.keys[p] < nd.keys[p + 1] /\ nd.piv[p].gen < nd.pgen
          /\ PivotTuples(nd, p) = TuplesIn(nd, p, Slots(nd.piv[p].br, nd.ebr, MaxBranches), br)
          /\ BranchValid(nd, nd.piv[p].br) /\ BundleValid(nd, nd.piv[p].bu)
VerifyBundles(nd) ==
    LET bus == Slots(nd.sbu, nd.ebu, MaxBundles)
        sbs == Slots(nd.ssb, nd.esb, MaxSubbundles)
    IN /\ \A i \in DOMAIN bus :
             /\ nd.bu[bus[i]].s0 = IF i = 1 THEN nd.ssb ELSE nd.bu[bus[i - 1]].s1
             /\ bus[i] + 1 = nd.ebu => nd.bu[bus[i]].s1 = nd.esb
             /\ nd.bu[bus[i]].s0 # nd.bu[bus[i]].s1
       /\ \A i \in DOMAIN sbs :
             /\ nd.sb[sbs[i]].b0 = IF i = 1 THEN nd.sfb ELSE nd.sb[sbs[i - 1]].b1
             /\ sbs[i] + 1 = nd.esb => nd.sb[sbs[i]].b1 = nd.ebr
             /\ \A f \in Range(Slots(nd.sb[sbs[i]].f0, nd.sb[sbs[i]].f1, MaxFilters)) : SbFilterValid(nd, f)
VerifyStarts(nd) ==
    /\ IF SubbundleCount(nd) = 0 THEN nd.sfl = nd.efl
       ELSE nd.sfl = nd.sb[nd.ssb].f0 /\ nd.efl = nd.sb[Sub(nd.esb, 1, MaxSubbundles)].f1
    /\ \A p \in Pivots(nd) :
          /\ IF BundleLive(nd, nd.piv[p].bu)
             THEN LET start == BundleStartBranch(nd, nd.piv[p].bu)
                  IN nd.piv[p].br # start => /\ InRange(nd.piv[p].br, nd.sbr, start, MaxBranches)
                                             /\ nd.piv[p].bu = nd.sbu
             ELSE nd.piv[p].br = nd.ebr \/ BundleCount(nd) = 0
          /\ nd.piv[p].nw # 0 => nd.piv[p].fl # None
    /\ IsLeaf(nd) => NumChildren(nd) = 1
VerifyNode(nd, br) == VerifyPivots(nd, br) /\ VerifyBundles(nd) /\ VerifyStarts(nd)
=============================================================================
