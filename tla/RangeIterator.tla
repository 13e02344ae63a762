--------------------------- MODULE RangeIterator ---------------------------
(***************************************************************************)
(* The range iterator of trunk.c, over the merge iterator, and the use     *)
(* that splinterdb.c makes of it.  It stands in one leaf of the trunk: it  *)
(* merges the memtables and the branches on the path to that leaf, bounded *)
(* by the leaf's range, and is built again for the next or previous leaf   *)
(* when the merge iterator is exhausted.  In the modes RAW and             *)
(* INTERMEDIATE the module stands for the merge iterators of compactions   *)
(* and leaf splits, which read one leaf forwards.                          *)
(*                                                                         *)
(* The tree does not change under the iterator here (Trunk.tla has the     *)
(* lookups under changes).  Contents are chosen in the initial state:      *)
(* db[s] gives each key the class of the message that source s has for     *)
(* it.  at is the place in the expected stream where the caller is.  What  *)
(* keeps the branches from being freed meanwhile is in MiniAllocator.tla.  *)
(***************************************************************************)
EXTENDS Merge, FiniteSets

CONSTANTS
    NumKeys,      \* keys are 1 .. NumKeys
    Classes,      \* for each source the classes of its messages, "NONE" included
    FreeTurns     \* whether the caller may turn in any tree, or only in one
                  \* with a single leaf where no two sources share a key

VARIABLES
    db,           \* what the sources hold
    mode,         \* merge_behavior
    leaf_min,     \* least keys of the leaves
    turns,        \* the caller may step back
    open,         \* between init and deinit
    leaf,         \* leaf whose bounds are the local bounds
    merge_itor,   \* the merge iterator
    ri_can_prev,  \* can_prev and can_next of the range iterator
    ri_can_next,
    at

riVars == <<db, mode, leaf_min, turns, open, leaf, merge_itor, ri_can_prev, ri_can_next, at>>

KeyRange == 1 .. NumKeys
Sources == DOMAIN Classes
MinUserKey == 1
MaxUserKey == NumKeys + 1     \* positive infinity

-----------------------------------------------------------------------------
(* What the iterator is to return: the reference.                          *)

Holders(k) == {s \in Sources : db[s][k] # "NONE"}
MessageOf(s, k) == [class |-> db[s][k], by |-> <<s>>]
Newest(S) == SetToSortSeq(S, >)
MergedMessage(k) ==
    LET msgs == [i \in 1 .. Cardinality(Holders(k)) |-> MessageOf(Newest(Holders(k))[i], k)] \o <<>>
    IN  FoldLeft(LAMBDA newer, older : data_merge_tuples(older, newer), Head(msgs), Tail(msgs))
Emitted(k) ==
    IF Holders(k) = {} THEN <<>>
    ELSE IF mode = "RAW" THEN [i \in 1 .. Cardinality(Holders(k)) |->
                                  [key |-> k, msg |-> MessageOf(Newest(Holders(k))[i], k)]] \o <<>>
    ELSE IF mode = "INTERMEDIATE" THEN << [key |-> k, msg |-> MergedMessage(k)] >>
    ELSE LET msg == data_merge_tuples_final(MergedMessage(k))
         IN  IF msg.class = "DELETE" THEN <<>> ELSE << [key |-> k, msg |-> msg] >>
Stream == FoldLeft(LAMBDA acc, k : acc \o Emitted(k), <<>>, [k \in KeyRange |-> k] \o <<>>)
PlaceOf(start) == Cardinality({i \in DOMAIN Stream : Stream[i].key < start}) + 1

-----------------------------------------------------------------------------
(* trunk_range_iterator_init *)

LeafMax(n) == IF n = Len(leaf_min) THEN MaxUserKey ELSE leaf_min[n + 1]
\* trunk_find_pivot on the way down; start_type less_than wants the leaf before.
FindLeaf(start, type) ==
    Cardinality({n \in DOMAIN leaf_min : IF type = "less_than" THEN leaf_min[n] < start ELSE leaf_min[n] <= start})

\* The B-tree iterators over the sources, bounded by leaf n.
LeafInputs(n) ==
    [s \in Sources |->
        LET keys == {k \in KeyRange : leaf_min[n] <= k /\ k < LeafMax(n) /\ db[s][k] # "NONE"}
            sorted == SetToSortSeq(keys, <)
        IN  [i \in 1 .. Cardinality(keys) |-> [key |-> sorted[i], msg |-> MessageOf(s, sorted[i])]] \o <<>>]
StartPos(in, start, type) ==
    [s \in Sources |->
        LET below == Cardinality({i \in DOMAIN in[s] : in[s][i].key < start})
        IN  IF type = "less_than" THEN below ELSE below + 1]

\* The iterator for one leaf, then the next leaf while that one is exhausted.
RECURSIVE range_init(_, _)
range_init(start, type) ==
    LET n == FindLeaf(start, type)
        forwards == type = "greater_than_or_equal"
        on(m) ==
            LET last == IF forwards THEN LeafMax(n) = MaxUserKey ELSE leaf_min[n] = MinUserKey
                valid == m.can_next /\ m.can_prev
            IN  IF valid \/ last
                THEN [leaf |-> n, m |-> m, can_prev |-> valid \/ (forwards /\ m.can_prev),
                      can_next |-> valid \/ (~forwards /\ m.can_next)]
                ELSE range_init(IF forwards THEN LeafMax(n) ELSE leaf_min[n], type)
        over(in) == on(merge_iterator_create(in, StartPos(in, start, type), mode))
    IN  over(LeafInputs(n))
Becomes(it) ==
    /\ leaf' = it.leaf
    /\ merge_itor' = it.m
    /\ ri_can_prev' = it.can_prev
    /\ ri_can_next' = it.can_next

-----------------------------------------------------------------------------

Contents(s) == [KeyRange -> Classes[s]]
Disjoint(d) == \A k \in KeyRange : Cardinality({s \in Sources : d[s][k] # "NONE"}) <= 1

Init ==
    /\ db \in {d \in [Sources -> UNION {Contents(s) : s \in Sources}] : \A s \in Sources : d[s] \in Contents(s)}
    /\ mode \in Modes
    /\ leaf_min \in {<<MinUserKey>>} \cup {<<MinUserKey, k>> : k \in 2 .. NumKeys}
    /\ mode # "FULL" => leaf_min = <<MinUserKey>>
    /\ turns \in BOOLEAN
    /\ turns => mode = "FULL" /\ (FreeTurns \/ (Disjoint(db) /\ Len(leaf_min) = 1))
    /\ open = FALSE
    /\ leaf = 0 /\ merge_itor = <<>> /\ ri_can_prev = FALSE /\ ri_can_next = FALSE
    /\ at = 0

(* splinterdb_iterator_init, trunk_range: start at a key, or at the least. *)
RangeInit(start) ==
    /\ ~open /\ at = 0
    /\ Becomes(range_init(start, "greater_than_or_equal"))
    /\ open' = TRUE
    /\ at' = PlaceOf(start)
    /\ UNCHANGED <<db, mode, leaf_min, turns>>

(* trunk_range_iterator_next *)
RangeNext ==
    LET after(m) == IF ~m.can_next /\ LeafMax(leaf) < MaxUserKey
                    THEN range_init(LeafMax(leaf), "greater_than_or_equal")
                    ELSE [leaf |-> leaf, m |-> m, can_prev |-> TRUE, can_next |-> m.can_next]
    IN  /\ open /\ ri_can_next
        /\ Becomes(after(merge_next(LeafInputs(leaf), merge_itor)))
        /\ at' = at + 1
        /\ UNCHANGED <<db, mode, leaf_min, turns, open>>

(* trunk_range_iterator_prev *)
RangePrev ==
    LET after(m) == IF ~m.can_prev /\ leaf_min[leaf] > MinUserKey
                    THEN range_init(leaf_min[leaf], "less_than")
                    ELSE [leaf |-> leaf, m |-> m, can_prev |-> m.can_prev, can_next |-> TRUE]
    IN  /\ open /\ turns /\ ri_can_prev
        /\ Becomes(after(merge_prev(LeafInputs(leaf), merge_itor)))
        /\ at' = at - 1
        /\ UNCHANGED <<db, mode, leaf_min, turns, open>>

(* trunk_range_iterator_deinit *)
RangeDeinit ==
    /\ open
    /\ open' = FALSE
    /\ UNCHANGED <<db, mode, leaf_min, turns, leaf, merge_itor, ri_can_prev, ri_can_next, at>>

Next == (\E k \in KeyRange : RangeInit(k)) \/ RangeNext \/ RangePrev \/ RangeDeinit
Spec == Init /\ [][Next]_riVars

-----------------------------------------------------------------------------
(* A caller of the range iterator (trunk_range_iterator_curr, can_next,    *)
(* can_prev) finds the stream of the reference from its start key, tuple   *)
(* by tuple, with every message merged from all sources and no deleted     *)
(* key, and is told correctly whether there is more; when it may turn, the *)
(* same holds after any steps forwards and backwards.  resolve_equal_keys  *)
(* never reads past the live iterators.                                    *)
IteratorFollowsStream ==
    open =>
        /\ ~merge_itor.fell
        /\ ri_can_next <=> at <= Len(Stream)
        /\ turns /\ Stream # <<>> => (ri_can_prev <=> at >= 1)
        /\ at \in DOMAIN Stream => /\ merge_itor.key = Stream[at].key
                                   /\ merge_itor.data = Stream[at].msg

(* include/splinterdb/splinterdb.h says that splinterdb_iterator_prev      *)
(* moves the iterator to the previous item: after any steps in both        *)
(* directions a valid iterator shows the tuple that its steps lead to.     *)
PrevMovesToPreviousItem ==
    (open /\ turns /\ ri_can_prev /\ ri_can_next /\ at \in DOMAIN Stream) =>
        /\ merge_itor.key = Stream[at].key
        /\ merge_itor.data = Stream[at].msg
=============================================================================
