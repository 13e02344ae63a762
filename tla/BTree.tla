------------------------------- MODULE BTree -------------------------------
(***************************************************************************)
(* The concurrent B-tree of src/btree.c that holds a memtable: inserts,    *)
(* lookups and range iterators of several threads, with the page locks of  *)
(* the cache (read, claim, write).                                         *)
(*                                                                         *)
(* A step of a thread is what it does from one lock request to the next:   *)
(* it reads and writes only pages it has locked. Asking for a write lock   *)
(* (which keeps new readers out) and having it (once the other readers are *)
(* gone) are separate steps, and a split releases its pages one by one.    *)
(*                                                                         *)
(* Left out: pages' pinning, prefetching, the pivot statistics (unknown in *)
(* a memtable) and failures to allocate memory.                            *)
(***************************************************************************)
EXTENDS BTreeNode, TLC

CONSTANTS
    Threads,
    First,      \* the thread whose calls come before everyone else's
    Scripts     \* the calls of each thread, one function per initial state

VARIABLES
    nodes,      \* the pages; an address is an index, 1 is the root
    lk,         \* their locks: readers, who claims, who writes
    th,         \* each thread: its remaining calls, its place and its locals
    map,        \* the merged message of each key inserted so far
    gens,       \* the last generation returned for each key
    errs        \* assertions that failed

vars == <<nodes, lk, th, map, gens, errs>>

Root == 1
Inf == MaxKey + 1
None == 0
NoMessage == [def |-> FALSE, ids |-> {}, sz |-> 0]

-----------------------------------------------------------------------------
(* Page locks. A thread reads a page as <<t, "n">>; an iterator holds its  *)
(* current leaf as <<t, "i">> while it walks the tree for the end leaf.    *)

NodeRef(t) == <<t, "n">>
Itor(t) == <<t, "i">>
NoLocks == [r |-> {}, c |-> None, w |-> None]

CanGet(a) == lk[a].w = None
CanClaim(a) == lk[a].c = None
Drained(a, t) == lk[a].r = {NodeRef(t)}

Get(l, x, a) == [l EXCEPT ![a].r = l[a].r \cup {x}]
Unget(l, x, a) == [l EXCEPT ![a].r = l[a].r \ {x}]
Claim(l, t, a) == [l EXCEPT ![a].c = t]
Unclaim(l, a) == [l EXCEPT ![a].c = None]
AskLock(l, t, a) == [l EXCEPT ![a].w = t]
Downgrade(l, a) == [l EXCEPT ![a].c = None, ![a].w = None]
FullUnlock(l, t, a) == Unget(Downgrade(l, a), NodeRef(t), a)
Alloc(l, t) == Append(l, [r |-> {NodeRef(t)}, c |-> t, w |-> t])

-----------------------------------------------------------------------------
(* Threads.                                                                *)

Locals == [ pc |-> "idle", par |-> 0, chi |-> 0, cidx |-> 0, right |-> 0, stale |-> FALSE, uniq |-> FALSE,
            spec |-> [old |-> "none"], plan |-> [idx |-> 0, left |-> FALSE],
            held |-> 0, want |-> 0, tgt |-> 0, ret |-> "idle",
            curr |-> 0, idx |-> 0, min |-> 0, ea |-> 0, eg |-> 0, ei |-> 0, old |-> 0, skip |-> FALSE,
            seen |-> <<>>, back |-> <<>>, turn |-> FALSE, snap |-> {} ]
At(t, pc) == th[t].pc = pc
Op(t) == Head(th[t].ops)
Set(t, r) == th' = [th EXCEPT ![t] = r @@ th[t]]
Return(t) == th' = [th EXCEPT ![t] = [ops |-> Tail(th[t].ops)] @@ Locals]
StartOver(t) == Set(t, [pc |-> "root", spec |-> Locals.spec, par |-> 0, chi |-> 0, cidx |-> 0])
Check(cond, name) == errs' = IF cond THEN errs ELSE errs \cup {name}

\* The message is in the tree: a page that gave generation g holds it.
Commit(t, g) ==
    /\ map' = [map EXCEPT ![Op(t).k] = IF map[Op(t).k] = NoMessage THEN Op(t).m ELSE MergeMessages(map[Op(t).k], Op(t).m)]
    /\ gens' = [gens EXCEPT ![Op(t).k] = g]
NoCommit == UNCHANGED <<map, gens>>

\* The node the address names in the tree's pages.
Child(nd, i) == Ent(nd, i).v

Begin(t) ==
    /\ At(t, "idle")
    /\ th[t].ops # <<>>
    /\ t = First \/ (At(First, "idle") /\ th[First].ops = <<>>)
    /\ Set(t, CASE Op(t).op = "insert" -> [pc |-> "root"]
                [] Op(t).op = "lookup" -> [pc |-> "walk", want |-> Root, tgt |-> Op(t).k, ret |-> "found"]
                [] Op(t).op = "range" -> [pc |-> "walk", want |-> Root, tgt |-> Op(t).start, ret |-> "claim_curr"])
    /\ UNCHANGED <<nodes, lk, map, gens, errs>>

-----------------------------------------------------------------------------
(* btree_insert: the root.                                                 *)

\* With a read lock on the root, an index: go down, or fix it first.
BelowRoot(nd, k) ==
    IF FindIdx(nd, k) < 0 \/ IndexIsFull(nd)
    THEN [pc |-> "claim_root"]
    ELSE [pc |-> "child", par |-> Root, cidx |-> FindIdx(nd, k), chi |-> Child(nd, FindIdx(nd, k))]

GetRoot(t) ==
    /\ At(t, "root")
    /\ CanGet(Root)
    /\ lk' = Get(lk, NodeRef(t), Root)
    /\ Set(t, IF nodes[Root].h = 0
              THEN [pc |-> "claim_root", spec |-> NewSpec(nodes[Root], Op(t).k, Op(t).m)]
              ELSE BelowRoot(nodes[Root], Op(t).k))
    /\ UNCHANGED <<nodes, map, gens, errs>>

ClaimRoot(t) ==
    /\ At(t, "claim_root")
    /\ IF CanClaim(Root)
       THEN lk' = AskLock(Claim(lk, t, Root), t, Root) /\ Set(t, [pc |-> "lock_root"])
       ELSE lk' = Unget(lk, NodeRef(t), Root) /\ StartOver(t)
    /\ UNCHANGED <<nodes, map, gens, errs>>

\* btree_grow_root: the root's content moves to a new page.
GrowRoot(ns, nd) == Append([ns EXCEPT ![Root] = GrownRoot(nd, Len(ns) + 1)], nd)

InsertIntoRoot(t) ==
    /\ At(t, "lock_root")
    /\ Drained(Root, t)
    /\ nodes[Root].h = 0
    /\ CanPerform(nodes[Root], th[t].spec)
    /\ nodes' = [nodes EXCEPT ![Root] = Perform(nodes[Root], th[t].spec)]
    /\ Commit(t, nodes[Root].gen)
    /\ lk' = FullUnlock(lk, t, Root)
    /\ Return(t)
    /\ Check((th[t].spec.old = "none") = (map[Op(t).k] = NoMessage), "was_unique")

GrowLeafRoot(t) ==
    /\ At(t, "lock_root")
    /\ Drained(Root, t)
    /\ nodes[Root].h = 0
    /\ ~CanPerform(nodes[Root], th[t].spec)
    /\ nodes' = GrowRoot(nodes, nodes[Root])
    /\ lk' = Append(Downgrade(lk, Root), NoLocks)
    /\ Set(t, BelowRoot(nodes'[Root], Op(t).k))
    /\ UNCHANGED <<map, gens, errs>>

\* The first pivot becomes k if k is below it. Where the pivot does not fit it
\* is set after the node has been grown or split.
SetMinKey(nd, k) == IF FindIdx(nd, k) < 0 /\ CanSetIndex(nd, 0, k) THEN SetIndex(nd, 0, k, Child(nd, 0)) ELSE nd
NeedMinKey(nd, k) == FindIdx(nd, k) < 0 /\ ~CanSetIndex(nd, 0, k)

FixRoot(t) ==
    /\ At(t, "lock_root")
    /\ Drained(Root, t)
    /\ nodes[Root].h > 0
    /\ LET k == Op(t).k
           set == SetMinKey(nodes[Root], k)
           ns == IF IndexIsFull(set) THEN GrowRoot(nodes, set) ELSE [nodes EXCEPT ![Root] = set]
           need == NeedMinKey(nodes[Root], k)
           cidx == IF IndexIsFull(set) THEN 0 ELSE ChildIdx(nodes[Root], k)
       IN  /\ Check(need => CanSetIndex(ns[Root], 0, k), "root min key")
           /\ nodes' = IF need THEN [ns EXCEPT ![Root] = SetIndex(ns[Root], 0, k, Child(ns[Root], 0))] ELSE ns
           /\ lk' = Downgrade(lk, Root) \o (IF IndexIsFull(set) THEN <<NoLocks>> ELSE <<>>)
           /\ Set(t, [pc |-> "child", par |-> Root, cidx |-> cidx, chi |-> Child(nodes'[Root], cidx)])
    /\ NoCommit

-----------------------------------------------------------------------------
(* btree_insert: going down, with a read lock on parent and child.         *)

GetIndexChild(t) ==
    /\ At(t, "child")
    /\ CanGet(th[t].chi)
    /\ nodes[th[t].par].h > 1
    /\ LET nd == nodes[th[t].chi]
           i == FindIdx(nd, Op(t).k)
           got == Get(lk, NodeRef(t), th[t].chi)
       IN  IF i < 0 \/ IndexIsFull(nd)
           THEN lk' = got /\ Set(t, [pc |-> "claim_parent"])
           ELSE lk' = Unget(got, NodeRef(t), th[t].par) /\ Set(t, [par |-> th[t].chi, cidx |-> i, chi |-> Child(nd, i)])
    /\ UNCHANGED <<nodes, map, gens, errs>>

ReleaseBoth(t) == Unget(Unget(lk, NodeRef(t), th[t].par), NodeRef(t), th[t].chi)

ClaimParent(t) ==
    /\ At(t, "claim_parent")
    /\ IF CanClaim(th[t].par)
       THEN lk' = Claim(lk, t, th[t].par) /\ Set(t, [pc |-> "claim_child"])
       ELSE lk' = ReleaseBoth(t) /\ StartOver(t)
    /\ UNCHANGED <<nodes, map, gens, errs>>

\* mutant: the parent stays claimed when the child cannot be
ClaimIndexChildKeepsParent(t) ==
    /\ At(t, "claim_child")
    /\ IF CanClaim(th[t].chi)
       THEN lk' = AskLock(Claim(lk, t, th[t].chi), t, th[t].par) /\ Set(t, [pc |-> "lock_parent"])
       ELSE lk' = ReleaseBoth(t) /\ StartOver(t)
    /\ UNCHANGED <<nodes, map, gens, errs>>

ClaimIndexChild(t) ==
    /\ At(t, "claim_child")
    /\ IF CanClaim(th[t].chi)
       THEN lk' = AskLock(Claim(lk, t, th[t].chi), t, th[t].par) /\ Set(t, [pc |-> "lock_parent"])
       ELSE lk' = Unclaim(ReleaseBoth(t), th[t].par) /\ StartOver(t)
    /\ UNCHANGED <<nodes, map, gens, errs>>

LockParent(t) ==
    /\ At(t, "lock_parent")
    /\ Drained(th[t].par, t)
    /\ lk' = AskLock(lk, t, th[t].chi)
    /\ Set(t, [pc |-> "lock_child"])
    /\ UNCHANGED <<nodes, map, gens, errs>>

\* The next step of the loop: nd (at address a) is the parent, read locked.
Down(a, nd, i) == [pc |-> "child", par |-> a, cidx |-> i, chi |-> Child(nd, i)]

\* The child has room for a pivot, or has once it is defragmented.
FixIndexChild(t) ==
    /\ At(t, "lock_child")
    /\ Drained(th[t].chi, t)
    /\ LET k == Op(t).k
           c == th[t].chi
           set == SetMinKey(nodes[c], k)
           nd == IF IndexIsFull(set) THEN DefragmentIndex(set) ELSE set
           need == NeedMinKey(nodes[c], k)
           i == ChildIdx(nodes[c], k)
       IN  /\ IndexIsFull(set) => IndexSpace(set) < SplitThreshold
           /\ Check(need => CanSetIndex(nd, 0, k), "child min key")
           /\ nodes' = [nodes EXCEPT ![c] = IF need THEN SetIndex(nd, 0, k, Child(nd, 0)) ELSE nd]
           /\ lk' = Downgrade(FullUnlock(lk, t, th[t].par), c)
           /\ Set(t, Down(c, nodes'[c], i))
    /\ NoCommit

\* btree_split_child_index up to the release of the parent: the new page is
\* write locked.
SplitIndexPivot(t) ==
    /\ At(t, "lock_child")
    /\ Drained(th[t].chi, t)
    /\ LET k == Op(t).k
           c == th[t].chi
           p == th[t].par
           set == SetMinKey(nodes[c], k)
           n == IndexSplit(set)
           i == ChildIdx(nodes[c], k)
       IN  /\ IndexIsFull(set)
           /\ IndexSpace(set) >= SplitThreshold
           /\ Check(CanSetIndex(nodes[p], Num(nodes[p]), KeyAt(set, n)), "parent pivot")
           /\ nodes' = Append([nodes EXCEPT ![c] = set, ![p] = InsertIndex(nodes[p], th[t].cidx + 1, KeyAt(set, n), Len(nodes) + 1)],
                              NewNode(set.h))
           /\ lk' = Alloc(FullUnlock(lk, t, p), t)
           /\ Set(t, [pc |-> "split_index", right |-> Len(nodes) + 1, cidx |-> i,
                      plan |-> [idx |-> n, left |-> i < n], stale |-> NeedMinKey(nodes[c], k)])
    /\ NoCommit

\* The rest of it: the two halves, and a read lock on the one to go on with.
SplitIndex(t) ==
    /\ At(t, "split_index")
    /\ LET k == Op(t).k
           c == th[t].chi
           r == th[t].right
           n == th[t].plan.idx
           new == IF th[t].plan.left THEN c ELSE r
           i == IF th[t].plan.left THEN th[t].cidx ELSE th[t].cidx - n
           ns == [nodes EXCEPT ![c] = TruncateIndex(nodes[c], n), ![r] = RightIndex(nodes[c], n)]
       IN  /\ Check(th[t].stale => CanSetIndex(ns[new], 0, k), "child min key")
           /\ nodes' = IF th[t].stale THEN [ns EXCEPT ![new] = SetIndex(ns[new], 0, k, Child(ns[new], 0))] ELSE ns
           /\ lk' = Downgrade(FullUnlock(lk, t, IF new = c THEN r ELSE c), new)
           /\ Set(t, [right |-> 0, stale |-> FALSE, plan |-> Locals.plan] @@ Down(new, nodes'[new], i))
    /\ NoCommit

-----------------------------------------------------------------------------
(* btree_insert: the leaf.                                                 *)

GetLeafChild(t) ==
    /\ At(t, "child")
    /\ CanGet(th[t].chi)
    /\ nodes[th[t].par].h = 1
    /\ LET s == NewSpec(nodes[th[t].chi], Op(t).k, Op(t).m)
           got == Get(lk, NodeRef(t), th[t].chi)
       IN  IF CanPerform(nodes[th[t].chi], s)
           THEN lk' = Unget(got, NodeRef(t), th[t].par) /\ Set(t, [pc |-> "claim_leaf", spec |-> s, par |-> 0])
           ELSE lk' = got /\ Set(t, [pc |-> "claim_parent_of_leaf", spec |-> s])
    /\ UNCHANGED <<nodes, map, gens, errs>>

ClaimLeaf(t) ==
    /\ At(t, "claim_leaf")
    /\ IF CanClaim(th[t].chi)
       THEN lk' = AskLock(Claim(lk, t, th[t].chi), t, th[t].chi) /\ Set(t, [pc |-> "lock_leaf"])
       ELSE lk' = Unget(lk, NodeRef(t), th[t].chi) /\ StartOver(t)
    /\ UNCHANGED <<nodes, map, gens, errs>>

InsertIntoLeaf(t) ==
    /\ At(t, "lock_leaf")
    /\ Drained(th[t].chi, t)
    /\ Check(CanPerform(nodes[th[t].chi], th[t].spec) /\ ((th[t].spec.old = "none") = (map[Op(t).k] = NoMessage)), "incorporated")
    /\ nodes' = [nodes EXCEPT ![th[t].chi] = Perform(nodes[th[t].chi], th[t].spec)]
    /\ Commit(t, nodes[th[t].chi].gen)
    /\ lk' = FullUnlock(lk, t, th[t].chi)
    /\ Return(t)

ClaimParentOfLeaf(t) ==
    /\ At(t, "claim_parent_of_leaf")
    /\ IF CanClaim(th[t].par)
       THEN lk' = Claim(lk, t, th[t].par) /\ Set(t, [pc |-> "claim_full_leaf"])
       ELSE lk' = ReleaseBoth(t) /\ StartOver(t)
    /\ UNCHANGED <<nodes, map, gens, errs>>

\* A leaf that was released may have changed: the specification is built again.
FreshSpec(t) == IF th[t].stale THEN NewSpec(nodes[th[t].chi], Op(t).k, Op(t).m) ELSE th[t].spec

\* The claim on the full leaf is retried without its read lock.
RetryFullLeaf(t) ==
    /\ At(t, "claim_full_leaf")
    /\ ~CanClaim(th[t].chi)
    /\ lk' = Unget(lk, NodeRef(t), th[t].chi)
    /\ Set(t, [pc |-> "get_full_leaf"])
    /\ UNCHANGED <<nodes, map, gens, errs>>
GetFullLeaf(t) ==
    /\ At(t, "get_full_leaf")
    /\ CanGet(th[t].chi)
    /\ lk' = Get(lk, NodeRef(t), th[t].chi)
    /\ Set(t, [pc |-> "claim_full_leaf", stale |-> TRUE])
    /\ UNCHANGED <<nodes, map, gens, errs>>

\* btree_defragment_or_split_child_leaf: garbage is enough to make room.
ClaimToDefragment(t) ==
    /\ At(t, "claim_full_leaf")
    /\ CanClaim(th[t].chi)
    /\ LeafSpace(nodes[th[t].chi], FreshSpec(t)) < SplitThreshold
    /\ lk' = AskLock(Claim(Unget(Unclaim(lk, th[t].par), NodeRef(t), th[t].par), t, th[t].chi), t, th[t].chi)
    /\ Set(t, [pc |-> "defragment", spec |-> FreshSpec(t), stale |-> FALSE])
    /\ UNCHANGED <<nodes, map, gens, errs>>

Defragment(t) ==
    /\ At(t, "defragment")
    /\ Drained(th[t].chi, t)
    /\ LET nd == DefragmentLeaf(nodes[th[t].chi], th[t].spec)
           s == Removed(th[t].spec, 0, Num(nodes[th[t].chi]))
       IN  /\ Check(CanPerform(nd, s) /\ ((s.old = "none") = (map[Op(t).k] = NoMessage)), "incorporated")
           /\ nodes' = [nodes EXCEPT ![th[t].chi] = Perform(nd, s)]
           /\ Commit(t, nd.gen)
    /\ lk' = FullUnlock(lk, t, th[t].chi)
    /\ Return(t)

\* btree_split_child_leaf: the plan, the new page, and the locks in order.
ClaimToSplit(t) ==
    /\ At(t, "claim_full_leaf")
    /\ CanClaim(th[t].chi)
    /\ LeafSpace(nodes[th[t].chi], FreshSpec(t)) >= SplitThreshold
    /\ nodes' = Append(nodes, NewNode(0))
    /\ lk' = AskLock(Alloc(Claim(lk, t, th[t].chi), t), t, th[t].par)
    /\ Set(t, [pc |-> "lock_parent_to_split", spec |-> FreshSpec(t), stale |-> FALSE, right |-> Len(nodes) + 1,
               plan |-> SplittingPlan(nodes[th[t].chi], FreshSpec(t))])
    /\ UNCHANGED <<map, gens, errs>>

NextLeaf(t) == nodes[th[t].chi].next

LockParentToSplit(t) ==
    /\ At(t, "lock_parent_to_split")
    /\ Drained(th[t].par, t)
    /\ IF NextLeaf(t) = None
       THEN lk' = AskLock(lk, t, th[t].chi) /\ Set(t, [pc |-> "lock_leaf_to_split"])
       ELSE lk' = lk /\ Set(t, [pc |-> "get_next"])
    /\ UNCHANGED <<nodes, map, gens, errs>>

GetNext(t) ==
    /\ At(t, "get_next")
    /\ CanGet(NextLeaf(t))
    /\ lk' = Get(lk, NodeRef(t), NextLeaf(t))
    /\ Set(t, [pc |-> "claim_next"])
    /\ UNCHANGED <<nodes, map, gens, errs>>
ClaimNext(t) ==
    /\ At(t, "claim_next")
    /\ IF CanClaim(NextLeaf(t))
       THEN lk' = AskLock(Claim(lk, t, NextLeaf(t)), t, NextLeaf(t)) /\ Set(t, [pc |-> "lock_next"])
       ELSE lk' = Unget(lk, NodeRef(t), NextLeaf(t)) /\ Set(t, [pc |-> "get_next"])
    /\ UNCHANGED <<nodes, map, gens, errs>>
LockNext(t) ==
    /\ At(t, "lock_next")
    /\ Drained(NextLeaf(t), t)
    /\ lk' = AskLock(lk, t, th[t].chi)
    /\ Set(t, [pc |-> "lock_leaf_to_split"])
    /\ UNCHANGED <<nodes, map, gens, errs>>

\* Everything is locked: the pivot goes into the parent, which is released.
SplitPivot(t) ==
    /\ At(t, "lock_leaf_to_split")
    /\ Drained(th[t].chi, t)
    /\ LET p == th[t].par
           pivot == SplittingPivot(nodes[th[t].chi], th[t].spec, th[t].plan)
       IN  /\ Check(CanSetIndex(nodes[p], Num(nodes[p]), pivot), "parent pivot")
           /\ nodes' = [nodes EXCEPT ![p] = InsertIndex(nodes[p], th[t].cidx + 1, pivot, th[t].right)]
           /\ lk' = FullUnlock(lk, t, p)
    /\ Set(t, [pc |-> "split_next", par |-> 0, cidx |-> 0])
    /\ NoCommit

\* mutant: the old right neighbour keeps its link to the leaf that was split
SplitNextKept(t) ==
    /\ At(t, "split_next")
    /\ lk' = IF NextLeaf(t) = None THEN lk ELSE FullUnlock(lk, t, NextLeaf(t))
    /\ Set(t, [pc |-> "split_right"])
    /\ UNCHANGED <<nodes, map, gens, errs>>

SplitNext(t) ==
    /\ At(t, "split_next")
    /\ IF NextLeaf(t) = None
       THEN UNCHANGED <<nodes, lk>>
       ELSE nodes' = [nodes EXCEPT ![NextLeaf(t)].prev = th[t].right] /\ lk' = FullUnlock(lk, t, NextLeaf(t))
    /\ Set(t, [pc |-> "split_right"])
    /\ UNCHANGED <<map, gens, errs>>

SplitRight(t) ==
    /\ At(t, "split_right")
    /\ LET nd == nodes[th[t].chi]
           copy == RightLeaf(nd, th[t].chi, th[t].spec, [th[t].plan EXCEPT !.left = TRUE])
           s == [Removed(th[t].spec, th[t].plan.idx, Num(nd)) EXCEPT !.idx = th[t].spec.idx - th[t].plan.idx]
       IN  /\ Check(~th[t].plan.left => CanPerform(copy, s) /\ ((s.old = "none") = (map[Op(t).k] = NoMessage)), "incorporated")
           /\ nodes' = [nodes EXCEPT ![th[t].right] = RightLeaf(nd, th[t].chi, th[t].spec, th[t].plan)]
           /\ IF th[t].plan.left THEN NoCommit ELSE Commit(t, copy.gen)
    /\ lk' = FullUnlock(lk, t, th[t].right)
    /\ Set(t, [pc |-> "split_left"])

SplitLeft(t) ==
    /\ At(t, "split_left")
    /\ LET nd == nodes[th[t].chi]
           s == th[t].spec
           cut == LeftLeaf(nd, s, [th[t].plan EXCEPT !.left = FALSE], th[t].right)
           tidy == DefragmentLeaf(cut, s)
           fits == CanPerform(cut, s) \/ CanPerform(tidy, Removed(s, 0, Num(cut)))
       IN  /\ Check(th[t].plan.left => fits /\ ((s.old = "none") = (map[Op(t).k] = NoMessage)), "incorporated")
           /\ nodes' = [nodes EXCEPT ![th[t].chi] = LeftLeaf(nd, s, th[t].plan, th[t].right)]
           /\ IF th[t].plan.left THEN Commit(t, cut.gen) ELSE NoCommit
    /\ lk' = FullUnlock(lk, t, th[t].chi)
    /\ Return(t)

-----------------------------------------------------------------------------
(* btree_lookup_node: down to a leaf, hand over hand.                      *)

Walk(t) ==
    /\ At(t, "walk")
    /\ CanGet(th[t].want)
    /\ LET a == th[t].want
           nd == nodes[a]
           got == Get(lk, NodeRef(t), a)
       IN  /\ lk' = IF th[t].held = None THEN got ELSE Unget(got, NodeRef(t), th[t].held)
           /\ Set(t, IF nd.h > 0
                     THEN [held |-> a, want |-> Child(nd, IF th[t].tgt = Inf THEN Num(nd) - 1 ELSE ChildIdx(nd, th[t].tgt))]
                     ELSE [pc |-> th[t].ret, held |-> a, want |-> 0])
    /\ UNCHANGED <<nodes, map, gens, errs>>

WalkTo(key, ret) == [pc |-> "walk", held |-> 0, want |-> Root, tgt |-> key, ret |-> ret]

\* btree_lookup: the message of the leaf that was reached.
LookupReturns(t) ==
    /\ At(t, "found")
    /\ lk' = Unget(lk, NodeRef(t), th[t].held)
    /\ Return(t)
    /\ UNCHANGED <<nodes, map, gens, errs>>

-----------------------------------------------------------------------------
(* Iterators. A range call starts at its lower bound with                  *)
(* greater_than_or_equal, or at its upper bound with less_than; it goes    *)
(* forward to the end and then back to the beginning.                      *)

CanNextAt(i, curr) == i.ea # curr \/ (i.idx < i.ei /\ i.min # i.ei)
CanNext(t) == CanNextAt(th[t], th[t].curr)
CanPrev(t) == th[t].idx >= th[t].min /\ (th[t].min # th[t].ei \/ th[t].curr # th[t].ea)

\* The claim on the first leaf keeps inserters away while the end is found.
ClaimCurr(t) ==
    /\ At(t, "claim_curr")
    /\ LET a == th[t].held
       IN  IF CanClaim(a)
           THEN /\ lk' = Claim(Get(Unget(lk, NodeRef(t), a), Itor(t), a), t, a)
                /\ Set(t, [curr |-> a] @@ WalkTo(Op(t).hi, "find_end"))
           ELSE /\ lk' = Unget(lk, NodeRef(t), a)
                /\ Set(t, WalkTo(Op(t).start, "claim_curr"))
    /\ UNCHANGED <<nodes, map, gens, errs>>

\* btree_iterator_find_end, at the leaf of the upper bound.
EndAt(t) ==
    LET nd == nodes[th[t].held]
    IN  [ ea |-> th[t].held, eg |-> nd.gen, held |-> 0,
          ei |-> IF Op(t).hi = Inf THEN Num(nd) ELSE FindGE(nd, Op(t).hi) ]

\* The rest of find_btree_node_and_get_idx_bounds.
ToNextLeaf(curr) == [pc |-> "get_leaf", curr |-> nodes[curr].next, idx |-> 0, min |-> -1]
ToPrevLeaf(curr) == [pc |-> "get_prev", curr |-> nodes[curr].prev, old |-> curr]

FindEnd(t) ==
    /\ At(t, "find_end")
    /\ LET nd == nodes[th[t].curr]
           ge == FindGE(nd, Op(t).lo)
           low == IF ~Found(nd, Op(t).lo) /\ ge = 0 THEN -1 ELSE ge
           min == IF low = -1 /\ nd.prev = None THEN 0 ELSE low
           idx == IF Op(t).start = Op(t).lo THEN FindGE(nd, Op(t).start) ELSE FindLT(nd, Op(t).start)
           over == th[t].curr # th[t].held /\ idx = Num(nd)
           back == min = -1 /\ idx = -1
           here == Unclaim(Unget(lk, NodeRef(t), th[t].held), th[t].curr)
       IN  /\ lk' = IF over \/ back THEN Unget(here, Itor(t), th[t].curr) ELSE here
           /\ Set(t, [snap |-> { k \in Key : map[k] # NoMessage /\ Op(t).lo <= k /\ k < Op(t).hi }, turn |-> Op(t).start # Op(t).lo]
                     @@ (IF over THEN [skip |-> TRUE] @@ ToNextLeaf(th[t].curr)
                         ELSE IF back THEN [min |-> min] @@ ToPrevLeaf(th[t].curr)
                         ELSE [pc |-> "range", idx |-> idx, min |-> min])
                     @@ EndAt(t))
    /\ UNCHANGED <<nodes, map, gens, errs>>

\* mutant: the end computed at the beginning is kept
EndNeverStale(t) == FALSE
\* btree_iterator_next_leaf: at the end leaf, if it has changed since the end
\* was computed, the leaf is released and the end computed again.
EndIsStale(t) == th[t].curr = th[t].ea /\ nodes[th[t].curr].gen # th[t].eg

GetLeaf(t) ==
    /\ At(t, "get_leaf")
    /\ CanGet(th[t].curr)
    /\ IF EndIsStale(t)
       THEN lk' = lk /\ Set(t, WalkTo(Op(t).hi, "find_end_again"))
       ELSE /\ lk' = Get(lk, Itor(t), th[t].curr)
            /\ Set(t, [pc |-> "range", skip |-> FALSE, min |-> IF th[t].skip THEN 0 ELSE -1])
    /\ UNCHANGED <<nodes, map, gens, errs>>

FindEndAgain(t) ==
    /\ At(t, "find_end_again")
    /\ lk' = Unget(lk, NodeRef(t), th[t].held)
    /\ Set(t, [pc |-> "get_leaf"] @@ EndAt(t))
    /\ UNCHANGED <<nodes, map, gens, errs>>

\* btree_iterator_prev_leaf: forward again until the next leaf is the old one.
GetPrevLeaf(t) ==
    /\ At(t, "get_prev")
    /\ CanGet(th[t].curr)
    /\ LET nd == nodes[th[t].curr]
           in == FindGE(nd, Op(t).lo)
           min == IF Op(t).lo < KeyAt(nd, 0) THEN -1 ELSE in
       IN  IF nd.next # th[t].old
           THEN lk' = lk /\ Set(t, [curr |-> nd.next])
           ELSE /\ lk' = Get(lk, Itor(t), th[t].curr)
                /\ Set(t, [pc |-> "range", idx |-> Num(nd) - 1, old |-> 0, min |-> IF nd.prev = None /\ min = -1 THEN 0 ELSE min])
    /\ UNCHANGED <<nodes, map, gens, errs>>

\* The key at the iterator's place; outside the table it is arbitrary.
CurrKey(t) == LET nd == nodes[th[t].curr] IN IF th[t].idx \in 0 .. Num(nd) - 1 THEN KeyAt(nd, th[t].idx) ELSE 0

\* curr, then btree_iterator_next.
Forward(t) ==
    /\ At(t, "range")
    /\ ~th[t].turn
    /\ CanNext(t)
    /\ LET nd == nodes[th[t].curr]
           i == [th[t] EXCEPT !.idx = th[t].idx + 1]
           move == i.idx = Num(nd) /\ CanNextAt(i, th[t].curr)
       IN  /\ lk' = IF move THEN Unget(lk, Itor(t), th[t].curr) ELSE lk
           /\ Set(t, [seen |-> Append(th[t].seen, CurrKey(t))]
                     @@ (IF move THEN ToNextLeaf(th[t].curr) ELSE [idx |-> i.idx]))
    /\ UNCHANGED <<nodes, map, gens, errs>>

\* The end: one btree_iterator_prev comes before the next curr.
Prev(t, seen) ==
    LET move == th[t].min = -1 /\ th[t].idx = 0
    IN  /\ lk' = IF move THEN Unget(lk, Itor(t), th[t].curr) ELSE lk
        /\ Set(t, [back |-> seen, turn |-> TRUE] @@ (IF move THEN ToPrevLeaf(th[t].curr) ELSE [idx |-> th[t].idx - 1]))

TurnBack(t) ==
    /\ At(t, "range")
    /\ ~th[t].turn
    /\ ~CanNext(t)
    /\ CanPrev(t)
    /\ Prev(t, <<>>)
    /\ UNCHANGED <<nodes, map, gens, errs>>
Backward(t) ==
    /\ At(t, "range")
    /\ th[t].turn
    /\ CanPrev(t)
    /\ Prev(t, Append(th[t].back, CurrKey(t)))
    /\ UNCHANGED <<nodes, map, gens, errs>>

\* btree_iterator_deinit.
RangeReturns(t) ==
    /\ At(t, "range")
    /\ th[t].turn \/ ~CanNext(t)
    /\ ~CanPrev(t)
    /\ lk' = Unget(lk, Itor(t), th[t].curr)
    /\ Return(t)
    /\ UNCHANGED <<nodes, map, gens, errs>>

-----------------------------------------------------------------------------
Init ==
    /\ nodes = <<NewNode(0)>>
    /\ lk = <<NoLocks>>
    /\ map = [k \in Key |-> NoMessage]
    /\ gens = [k \in Key |-> -1]
    /\ errs = {}
    /\ \E s \in Scripts : th = [t \in Threads |-> [ops |-> s[t]] @@ Locals]

InsertStep(t) ==
    \/ GetRoot(t) \/ ClaimRoot(t) \/ InsertIntoRoot(t) \/ GrowLeafRoot(t) \/ FixRoot(t)
    \/ GetIndexChild(t) \/ ClaimParent(t) \/ ClaimIndexChild(t) \/ LockParent(t)
    \/ FixIndexChild(t) \/ SplitIndexPivot(t) \/ SplitIndex(t)
    \/ GetLeafChild(t) \/ ClaimLeaf(t) \/ InsertIntoLeaf(t)
    \/ ClaimParentOfLeaf(t) \/ RetryFullLeaf(t) \/ GetFullLeaf(t) \/ ClaimToDefragment(t) \/ Defragment(t)
    \/ ClaimToSplit(t) \/ LockParentToSplit(t) \/ GetNext(t) \/ ClaimNext(t) \/ LockNext(t)
    \/ SplitPivot(t) \/ SplitNext(t) \/ SplitRight(t) \/ SplitLeft(t)
RangeStep(t) ==
    \/ ClaimCurr(t) \/ FindEnd(t) \/ GetLeaf(t) \/ FindEndAgain(t) \/ GetPrevLeaf(t)
    \/ Forward(t) \/ TurnBack(t) \/ Backward(t) \/ RangeReturns(t)
Step(t) ==
    /\ th[t].ops # <<>>
    /\ Begin(t) \/ InsertStep(t) \/ Walk(t) \/ LookupReturns(t) \/ RangeStep(t)

AllDone == \A t \in Threads : th[t].ops = <<>>
Finished == AllDone /\ UNCHANGED vars
Next == (\E t \in Threads : Step(t)) \/ Finished
Spec == Init /\ [][Next]_vars

-----------------------------------------------------------------------------
(* Properties.                                                             *)

\* No assertion of the insert path fails, whatever the other threads do
\* between a thread's look at a page and its write: a change the leaf was seen
\* to have room for, or was split or defragmented to make room for, fits; a
\* pivot fits in a parent that was not full on the way down; and was_unique
\* says whether the key was absent.
AssertsHold == errs = {}

MessageIn(nd, k) == IF Found(nd, k) THEN Ent(nd, FindIdx(nd, k)).v ELSE NoMessage
\* A lookup that has reached a leaf finds there everything inserted so far for
\* its key, also while pages are being split and the root is growing.
LookupsSeeInserts == \A t \in Threads : At(t, "found") => MessageIn(nodes[th[t].held], Op(t).k) = map[Op(t).k]

InRange(t) == th[t].ops # <<>> /\ Op(t).op = "range"
Increasing(s) == \A i, j \in DOMAIN s : i < j => s[i] < s[j]
\* btree.c:2462: an iterator sees, in order, all the keys between its bounds
\* that were in the tree when it was initialised, forward and then backward,
\* and no key outside its bounds.
IteratorsSeeAll ==
    \A t \in Threads :
        /\ Increasing(th[t].seen) /\ Increasing(Reverse(th[t].back))
        /\ InRange(t) => \A k \in ToSet(th[t].seen) \cup ToSet(th[t].back) : Op(t).lo <= k /\ k < Op(t).hi
        /\ At(t, "range") /\ ~th[t].turn /\ ~CanNext(t) => th[t].snap \subseteq ToSet(th[t].seen)
        /\ At(t, "range") /\ th[t].turn /\ ~CanPrev(t) => th[t].snap \subseteq ToSet(th[t].back)

\* btree_verify_node.
VerifyNode(nd) ==
    /\ Increasing([i \in DOMAIN nd.ents |-> nd.ents[i].k])
    /\ nd.h > 0 => \A i \in 0 .. Num(nd) - 1 :
        LET c == nodes[Child(nd, i)]
        IN  /\ c.h = nd.h - 1
            /\ c.h = 0 /\ i > 0 => KeyAt(nd, i) = KeyAt(c, 0)
            /\ i < Num(nd) - 1 => KeyAt(nd, i + 1) >= KeyAt(c, Num(c) - 1)

Leaves == { a \in DOMAIN nodes : nodes[a].h = 0 }
\* While no page is being written, the tree passes btree_verify_tree, holds
\* each inserted key in exactly one leaf with everything merged into it, and
\* its leaves are linked in key order in both directions.  No page is ever
\* overfull, and no assertion fails.
TreeVerifies ==
    /\ AssertsHold
    /\ \A a \in DOMAIN nodes : nodes[a].used + Num(nodes[a]) * TableEntry \in 0 .. PageSize
    /\ (\A a \in DOMAIN lk : lk[a].w = None) =>
        /\ \A a \in DOMAIN nodes : VerifyNode(nodes[a])
        /\ \A k \in Key : \A a \in Leaves : k \in KeysOf(nodes[a]) => MessageIn(nodes[a], k) = map[k]
        /\ \A k \in Key : map[k] # NoMessage => Cardinality({ a \in Leaves : k \in KeysOf(nodes[a]) }) = 1
        /\ \A a \in Leaves : nodes[a].next # None => nodes[nodes[a].next].prev = a /\ KeyAt(nodes[a], Num(nodes[a]) - 1) < KeyAt(nodes[nodes[a].next], 0)
        /\ Cardinality({ a \in Leaves : nodes[a].next = None }) = 1

\* The generations returned for the changes of one key increase, across splits
\* of its leaf too: the log orders the messages of a key by them.
GenerationsIncrease == [][\A k \in Key : map'[k] # map[k] => gens'[k] > gens[k]]_vars

\* Each thread is scheduled again and again.
Fairness == \A t \in Threads : WF_vars(Step(t))
FairSpec == Spec /\ Fairness
\* btree.c:77: threads "can always safely wait for other threads to complete
\* their work": every call returns.
CallsReturn == <>AllDone
=============================================================================
