----------------------------- MODULE BTreeNode -----------------------------
(***************************************************************************)
(* One node of the B-tree of src/btree.c and the functions that change it. *)
(* A node has a height (0 for a leaf), a table of entries in key order, a  *)
(* generation, and the addresses of its neighbours (0 for none). An entry  *)
(* is [k, v, sz, off]: its key, its message (in a leaf) or child (in an    *)
(* index), the bytes it takes and its distance from the end of the page.   *)
(* Entries are placed from the end of the page downwards; used is the      *)
(* space from the end of the page to hdr->next_entry, so an entry replaced *)
(* by a larger one leaves garbage until the node is defragmented. Indexes  *)
(* into the table are the code's: they start at 0, and -1 stands before    *)
(* the first entry.                                                        *)
(*                                                                         *)
(* A message is [def, ids, sz]: whether it is an insert or a delete, the   *)
(* calls that made it, and its length.                                     *)
(***************************************************************************)
EXTENDS Integers, Sequences, FiniteSets, SequencesExt

CONSTANTS
    MaxKey,         \* keys are 1 .. MaxKey; MaxKey + 1 is the positive infinity key
    KeySize,        \* the length of each key
    PageSize,       \* btree_page_size; the header is left out
    TableEntry,     \* sizeof(table_entry)
    IndexEntry,     \* sizeof(index_entry)
    MaxKeySize      \* MAX_INLINE_KEY_SIZE

Key == 1 .. MaxKey
ASSUME SizesAssumption ==
    /\ KeySize \in [Key -> 1 .. MaxKeySize]
    /\ {PageSize, TableEntry, IndexEntry, MaxKeySize} \subseteq Nat \ {0}

SplitThreshold == PageSize \div 2
DefragmentThreshold == PageSize \div 4

LeafSize(k, m) == KeySize[k] + m.sz
IndexSize(k) == IndexEntry + KeySize[k]
NewNode(h) == [h |-> h, ents |-> <<>>, used |-> 0, next |-> 0, prev |-> 0, gen |-> 0]

-----------------------------------------------------------------------------
(* Reading a node.                                                         *)

Num(nd) == Len(nd.ents)
Ent(nd, i) == nd.ents[i + 1]
KeyAt(nd, i) == Ent(nd, i).k
KeysOf(nd) == { nd.ents[i].k : i \in DOMAIN nd.ents }

\* The last index whose key is at most k, or -1 (the specification that the
\* comment above both binary searches states).
FindIdx(nd, k) == Cardinality({ i \in DOMAIN nd.ents : nd.ents[i].k <= k }) - 1
Found(nd, k) == FindIdx(nd, k) >= 0 /\ KeyAt(nd, FindIdx(nd, k)) = k
\* find_key_in_node with greater_than_or_equal and with less_than.
FindGE(nd, k) == FindIdx(nd, k) + (IF Found(nd, k) THEN 0 ELSE 1)
FindLT(nd, k) == FindIdx(nd, k) - (IF Found(nd, k) THEN 1 ELSE 0)
\* The child to follow; a key below every pivot follows the first.
ChildIdx(nd, k) == IF FindIdx(nd, k) < 0 THEN 0 ELSE FindIdx(nd, k)

Bytes(nd, from, to) == FoldLeft(LAMBDA b, e : b + e.sz, 0, SubSeq(nd.ents, from + 1, to))
\* The free space is between the table and the entries.
HasRoom(used, n, sz) == used + n * TableEntry + sz <= PageSize

-----------------------------------------------------------------------------
(* Setting and inserting an entry.                                         *)

\* The entry in free space, at index i.
Place(nd, i, k, v, sz) ==
    LET e == [k |-> k, v |-> v, sz |-> sz, off |-> nd.used + sz]
    IN  [nd EXCEPT !.used = nd.used + sz,
                   !.ents = IF i < Num(nd) THEN [nd.ents EXCEPT ![i + 1] = e] ELSE Append(nd.ents, e)]
Fill(nd, i, k, v, sz) ==
    [nd EXCEPT !.ents = [nd.ents EXCEPT ![i + 1] = [k |-> k, v |-> v, sz |-> sz, off |-> nd.ents[i + 1].off]]]
Slots(nd, i) == IF i < Num(nd) THEN Num(nd) ELSE i + 1

CanSetLeaf(nd, i, k, m) ==
    \/ i < Num(nd) /\ LeafSize(k, m) <= Ent(nd, i).sz
    \/ HasRoom(nd.used, Slots(nd, i), LeafSize(k, m))
SetLeaf(nd, i, k, m) ==
    IF i < Num(nd) /\ LeafSize(k, m) <= Ent(nd, i).sz
    THEN Fill(nd, i, k, m, LeafSize(k, m))
    ELSE Place(nd, i, k, m, LeafSize(k, m))

\* The old entry is the last one placed: its space is used again.
ReusesLast(nd, i, k) ==
    /\ i < Num(nd)
    /\ Ent(nd, i).off = nd.used
    /\ HasRoom(nd.used - Ent(nd, i).sz, Num(nd), IndexSize(k))
CanSetIndex(nd, i, k) ==
    \/ ReusesLast(nd, i, k)
    \/ i < Num(nd) /\ IndexSize(k) <= Ent(nd, i).sz
    \/ HasRoom(nd.used, Slots(nd, i), IndexSize(k))
SetIndex(nd, i, k, child) ==
    IF ReusesLast(nd, i, k)
    THEN Place([nd EXCEPT !.used = nd.used - Ent(nd, i).sz], i, k, child, IndexSize(k))
    ELSE IF i < Num(nd) /\ IndexSize(k) <= Ent(nd, i).sz
    THEN Fill(nd, i, k, child, IndexSize(k))
    ELSE Place(nd, i, k, child, IndexSize(k))

\* An entry added at the end of the table and moved to index i.
MoveLast(nd, i) ==
    [nd EXCEPT !.ents = SubSeq(nd.ents, 1, i) \o <<Last(nd.ents)>> \o SubSeq(nd.ents, i + 1, Num(nd) - 1)]
InsertLeaf(nd, i, k, m) == MoveLast(SetLeaf(nd, Num(nd), k, m), i)
InsertIndex(nd, i, k, child) == MoveLast(SetIndex(nd, Num(nd), k, child), i)

-----------------------------------------------------------------------------
(* An insertion into a leaf: the specification of the change, whether the  *)
(* leaf has room for it, and the change.                                   *)

\* The new message on top of the old one (data_merge_tuples).
MergeMessages(old, new) ==
    IF new.def THEN new ELSE [def |-> old.def, ids |-> old.ids \cup new.ids, sz |-> IF old.sz > new.sz THEN old.sz ELSE new.sz]

NewSpec(nd, k, m) ==
    IF Found(nd, k)
    THEN [k |-> k, idx |-> FindIdx(nd, k), old |-> "exists", m |-> MergeMessages(Ent(nd, FindIdx(nd, k)).v, m)]
    ELSE [k |-> k, idx |-> FindIdx(nd, k) + 1, old |-> "none", m |-> m]

SpecSize(s) == LeafSize(s.k, s.m)
CanPerform(nd, s) == CanSetLeaf(nd, IF s.old = "exists" THEN s.idx ELSE Num(nd), s.k, s.m)
\* hdr->generation++ is part of a successful change.
Perform(nd, s) ==
    LET done == IF s.old = "exists" THEN SetLeaf(nd, s.idx, s.k, s.m) ELSE InsertLeaf(nd, s.idx, s.k, s.m)
    IN  [done EXCEPT !.gen = done.gen + 1]

\* The node with the given entries placed anew.
Reset(nd) == [nd EXCEPT !.ents = <<>>, !.used = 0]
CopyLeafEntries(nd, es) == FoldLeft(LAMBDA d, e : SetLeaf(d, Num(d), e.k, e.v), Reset(nd), es)
CopyIndexEntries(nd, es) == FoldLeft(LAMBDA d, e : SetIndex(d, Num(d), e.k, e.v), Reset(nd), es)
\* Entries from .. to - 1, without the one the insertion replaces.
Live(nd, s, from, to) ==
    LET keep(i) == ~(s.old = "exists" /\ s.idx = i - 1)
    IN  SelectSeq([j \in 1 .. (to - from) |-> IF keep(from + j) THEN nd.ents[from + j] ELSE [k |-> 0]], LAMBDA e : e.k # 0)
Removed(s, from, to) == IF s.old = "exists" /\ s.idx \in from .. to - 1 THEN [s EXCEPT !.old = "removed"] ELSE s

DefragmentLeaf(nd, s) == CopyLeafEntries(nd, Live(nd, s, 0, Num(nd)))
DefragmentIndex(nd) == CopyIndexEntries(nd, nd.ents)

\* Dropping the entries from n on; the space they took is free again only
\* down to the lowest entry that stays.
Truncate(nd, n) ==
    LET kept == SubSeq(nd.ents, 1, n)
    IN  [nd EXCEPT !.ents = kept, !.used = FoldLeft(LAMBDA u, e : IF e.off > u THEN e.off ELSE u, 0, kept)]
TruncateIndex(nd, n) ==
    LET cut == [Truncate(nd, n) EXCEPT !.gen = nd.gen + 1]
    IN  IF PageSize - cut.used < DefragmentThreshold THEN DefragmentIndex(cut) ELSE cut

-----------------------------------------------------------------------------
(* Splitting a leaf: what goes left, and the two halves.                   *)

MostIsOnLeft(total, left, sz) == left + TableEntry + sz < (total + TableEntry + sz) \div 2

TableBytes(nd, from, to) == Bytes(nd, from, to) + (to - from) * TableEntry
\* The index after the last entry, of those from i on, that still fits on the
\* left: the loop stops at the first one that does not.
MoveToLeft(nd, i, max, total, left) ==
    IF i >= max THEN i
    ELSE CHOOSE j \in i .. max :
            /\ j = max \/ ~MostIsOnLeft(total, left + TableBytes(nd, i, j), Ent(nd, j).sz)
            /\ \A n \in i .. j - 1 : MostIsOnLeft(total, left + TableBytes(nd, i, n), Ent(nd, n).sz)

SplittingPlan(nd, s) ==
    LET live == Live(nd, s, 0, Num(nd))
        total == SpecSize(s) + FoldLeft(LAMBDA b, e : b + e.sz, 0, live) + (Len(live) + 1) * TableEntry
        below == MoveToLeft(nd, 0, s.idx, total, 0)
        bytes == TableBytes(nd, 0, below)
        left == below = s.idx /\ MostIsOnLeft(total, bytes, SpecSize(s))
        above == MoveToLeft(nd, s.idx + (IF s.old = "exists" THEN 1 ELSE 0), Num(nd), total, bytes + TableEntry + SpecSize(s))
    IN  [idx |-> IF left THEN above ELSE below, left |-> left]

\* mutant: the pivot is always a key that was in the leaf
OldPivot(nd, s, plan) == KeyAt(nd, IF plan.idx < Num(nd) THEN plan.idx ELSE Num(nd) - 1)
\* The new key is the pivot if it comes first on the right.
SplittingPivot(nd, s, plan) ==
    IF plan.idx = s.idx /\ s.old # "exists" /\ ~plan.left THEN s.k ELSE KeyAt(nd, plan.idx)

\* mutant: the right node starts with the generation of a new node
RightLeafNewGeneration(nd, addr, s, plan) ==
    LET copy == [CopyLeafEntries(nd, Live(nd, s, plan.idx, Num(nd))) EXCEPT !.gen = 0, !.prev = addr]
    IN  IF plan.left THEN copy ELSE Perform(copy, [Removed(s, plan.idx, Num(nd)) EXCEPT !.idx = s.idx - plan.idx])

\* The right node takes the header of the left one.
RightLeaf(nd, addr, s, plan) ==
    LET copy == [CopyLeafEntries(nd, Live(nd, s, plan.idx, Num(nd))) EXCEPT !.gen = nd.gen + 1, !.prev = addr]
    IN  IF plan.left THEN copy ELSE Perform(copy, [Removed(s, plan.idx, Num(nd)) EXCEPT !.idx = s.idx - plan.idx])

\* The left node, and the insertion when it goes there.
LeftLeaf(nd, s, plan, right) ==
    LET cut == [Truncate(nd, plan.idx) EXCEPT !.next = right, !.gen = nd.gen + 1]
    IN  IF ~plan.left THEN cut
        ELSE IF CanPerform(cut, s) THEN Perform(cut, s)
        ELSE Perform(DefragmentLeaf(cut, s), Removed(s, 0, plan.idx))

\* The space that decides between defragmenting and splitting. The last term
\* is the code's: + binds tighter than ==, so it is 1 unless nentries plus the
\* entry state (0 none, 1 exists) is 1.
LeafSpace(nd, s) ==
    LET live == FoldLeft(LAMBDA b, e : b + e.sz, 0, Live(nd, s, 0, Num(nd)))
        state == IF s.old = "exists" THEN 1 ELSE 0
    IN  live + SpecSize(s) + (IF Num(nd) + state = 1 THEN 0 ELSE 1) * IndexEntry
IndexSpace(nd) == Bytes(nd, 0, Num(nd)) + Num(nd) * IndexEntry

-----------------------------------------------------------------------------
(* Splitting an index.                                                     *)

\* Room is kept for a pivot of the largest size.
IndexIsFull(nd) == ~HasRoom(nd.used, Num(nd) + 2, IndexEntry + MaxKeySize)

\* The fewest entries that hold half of the bytes.
IndexSplit(nd) ==
    CHOOSE n \in 0 .. Num(nd) :
        /\ Bytes(nd, 0, n) >= Bytes(nd, 0, Num(nd)) \div 2
        /\ \A j \in 0 .. n - 1 : Bytes(nd, 0, j) < Bytes(nd, 0, Num(nd)) \div 2
RightIndex(nd, n) == [CopyIndexEntries(nd, SubSeq(nd.ents, n + 1, Num(nd))) EXCEPT !.gen = nd.gen + 1]

\* The root above a copy of itself: one entry, with the copy's first key.
GrownRoot(nd, child) == SetIndex([Reset(nd) EXCEPT !.h = nd.h + 1], 0, KeyAt(nd, 0), child)
=============================================================================
