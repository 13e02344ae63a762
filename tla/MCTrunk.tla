------------------------------ MODULE MCTrunk ------------------------------
(***************************************************************************)
(* Small instances of Trunk.                                               *)
(***************************************************************************)
EXTENDS Trunk

\* Three kinds of memtables, twelve of each. Mixed: memtable n updates most keys;
\* it deletes one and leaves one out. OneKey: key 1 only. Sparse: key 2 always,
\* key 1 often, key 3 now and then, so that a pivot is flushed before its node
\* is full without having a tuple in some of the branches.
Mixed(n, k) == IF k = n + 1 THEN <<>> ELSE IF k = n - 1 THEN <<0>> ELSE <<n>>
OneKey(n, k) == IF k = 1 THEN <<n>> ELSE <<>>
Sparse(n, k) == IF k = 2 \/ (k = 1 /\ n \notin {2, 5}) \/ (k = 3 /\ n \in {1, 4}) THEN <<n>> ELSE <<>>
Twelve(Content(_, _)) == [n \in 1 .. 12 |-> [k \in Key |-> Content(n, k)]]
MCBatches == Twelve(Mixed) \o Twelve(OneKey) \o Twelve(Sparse)

TheMixed == 0
TheOneKeys == 12
TheSparse == 24

\* late: no thread takes a task before that many memtables have come; queue: no
\* memtable comes while more tasks wait.
Start(shape, threads, reclaim, memtables, reads) ==
    [shape |-> shape, threads |-> threads, reclaim |-> reclaim, memtables |-> memtables, reads |-> reads, fails |-> 0,
     batches |-> TheMixed, late |-> 0, queue |-> 99]
NewTree == <<<<1>>>>
HeightTwo == <<<<1, 2>>, <<3>>>>

\* One background thread and a lookup; two, whose tasks hit the same node; a
\* compaction that fails; space reclamation; a tree of height 2, where a node
\* is flushed while its bundle is compacted; tasks in the user's thread, twelve
\* memtables one after the other, so that the arrays of a node wrap.
LookupStarts ==
    { [Start(NewTree, 1, FALSE, 3, {1}) EXCEPT !.late = 2], [Start(NewTree, 1, FALSE, 4, {1}) EXCEPT !.late = 4],
      [Start(NewTree, 2, FALSE, 3, {1}) EXCEPT !.batches = TheOneKeys, !.late = 3],
      [Start(HeightTwo, 1, FALSE, 4, {2}) EXCEPT !.batches = TheSparse, !.late = 4] }
TaskStarts ==
    { Start(NewTree, 1, FALSE, 4, {}), Start(NewTree, 1, TRUE, 4, {}), Start(HeightTwo, 0, FALSE, 6, {}),
      [Start(NewTree, 2, FALSE, 3, {}) EXCEPT !.batches = TheOneKeys],
      [Start(NewTree, 2, FALSE, 4, {}) EXCEPT !.late = 4, !.fails = 1],
      [Start(NewTree, 2, TRUE, 4, {}) EXCEPT !.late = 4],
      [Start(HeightTwo, 1, FALSE, 6, {}) EXCEPT !.batches = TheSparse, !.late = 4] }
WrapStarts ==
    { [Start(NewTree, 0, FALSE, 12, {}) EXCEPT !.queue = 0], [Start(NewTree, 0, TRUE, 12, {}) EXCEPT !.queue = 0],
      [Start(HeightTwo, 0, FALSE, 12, {}) EXCEPT !.batches = TheSparse, !.queue = 0] }
MCStarts == LookupStarts \cup TaskStarts \cup WrapStarts

\* For the disagreement: a pivot of an index node with most of the tuples is
\* flushed while the node's first bundle is compacted.
LostBatches == [n \in 1 .. 6 |-> [k \in Key |-> IF k = 4 THEN <<>> ELSE <<n>>]]
LostStarts == { Start(<<<<1, 3>>, <<4>>>>, 1, FALSE, 6, {}) }
=============================================================================
