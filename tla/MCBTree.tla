------------------------------ MODULE MCBTree ------------------------------
(***************************************************************************)
(* What a lookup meets on its way: the memtables, their B-trees, and the   *)
(* trunk as an asynchronous lookup walks it.  Small instances of BTree,    *)
(* Memtable and AsyncLookup side by side: part says which of them moves.   *)
(* The B-tree has nothing to do when another one does.                     *)
(***************************************************************************)
EXTENDS BTree, Memtable, BagsExt

CONSTANTS Parts, Stores, RootAtHand

VARIABLES
    part,
    spl, async_lock, ctxt, page_refs

N == INSTANCE TrunkNode WITH
        MaxKey <- 2, MaxBranches <- 8, MaxBundles <- 4, MaxSubbundles <- 6, MaxFilters <- 8, BranchLimit <- 2,
        KvLimit <- 6, Fanout <- 2, MaxPivotKeys <- 4
A == INSTANCE AsyncLookup WITH
        MaxKey <- 2, MaxBranches <- 8, MaxBundles <- 4, MaxSubbundles <- 6, MaxFilters <- 8, BranchLimit <- 2,
        KvLimit <- 6, Fanout <- 2, MaxPivotKeys <- 4, LookupKeys <- {1}, lookup_lock <- async_lock, refs <- page_refs

asyncVars == <<spl, async_lock, ctxt, page_refs>>
allVars == <<part, vars, memtableVars, asyncVars>>

MCInit ==
    /\ part \in Parts
    /\ Init /\ (part = "tree" <=> ~AllDone)
    /\ MemtableInit
    /\ IF part = "async" THEN A!Init ELSE spl = <<>> /\ async_lock = 0 /\ ctxt = A!NewCtxt(1) /\ page_refs = EmptyBag
MCNext ==
    \/ part = "tree" /\ Next /\ UNCHANGED <<part, memtableVars, asyncVars>>
    \/ part = "memtables" /\ MemtableNext /\ UNCHANGED <<part, vars, asyncVars>>
    \/ part = "async" /\ A!Next /\ UNCHANGED <<part, vars, memtableVars>>
MCSpec == MCInit /\ [][MCNext]_allVars
MCFairSpec == MCSpec /\ Fairness

(* The same fairness in a form that TLC evaluates fast: MayStep(t) is      *)
(* ENABLED Step(t), written out by the page the thread waits for, to read  *)
(* it or to be its only reader.                                            *)
ToRead(t) ==
    CASE At(t, "root") -> {Root}
      [] At(t, "walk") -> {th[t].want}
      [] At(t, "child") \/ At(t, "get_full_leaf") -> {th[t].chi}
      [] At(t, "get_next") -> {NextLeaf(t)}
      [] At(t, "get_leaf") \/ At(t, "get_prev") -> {th[t].curr}
      [] OTHER -> {}
ToWrite(t) ==
    CASE At(t, "lock_root") -> {Root}
      [] At(t, "lock_parent") \/ At(t, "lock_parent_to_split") -> {th[t].par}
      [] At(t, "lock_child") \/ At(t, "lock_leaf") \/ At(t, "defragment") \/ At(t, "lock_leaf_to_split") -> {th[t].chi}
      [] At(t, "lock_next") -> {NextLeaf(t)}
      [] OTHER -> {}
MayStep(t) ==
    /\ th[t].ops # <<>>
    /\ At(t, "idle") => t = First \/ (At(First, "idle") /\ th[First].ops = <<>>)
    /\ \A a \in ToRead(t) : CanGet(a)
    /\ \A a \in ToWrite(t) : Drained(a, t)
MCScheduledSpec == MCSpec /\ \A t \in Threads : []<>~MayStep(t) \/ []<><<th'[t] # th[t]>>_vars

(* trunk_lookup_async returns what trunk_lookup returns and leaves nothing *)
(* locked behind, wherever it is interrupted.                              *)
AsyncLookupsAgree == part = "async" => A!AsyncLookupsAgree

-----------------------------------------------------------------------------
\* Key 1 is longer than the others.
MCKeySize == [k \in Key |-> IF k = 1 THEN 2 ELSE 1]

Ins(k, id, sz) == [op |-> "insert", k |-> k, m |-> [def |-> FALSE, ids |-> {id}, sz |-> sz]]
Put(k, id, sz) == [op |-> "insert", k |-> k, m |-> [def |-> TRUE, ids |-> {id}, sz |-> sz]]
Find(k) == [op |-> "lookup", k |-> k]
Scan(lo, hi) == [op |-> "range", lo |-> lo, hi |-> hi, start |-> lo]
ScanBack(lo, hi) == [op |-> "range", lo |-> lo, hi |-> hi, start |-> hi]
FillKeys(ks) == [i \in DOMAIN ks |-> Ins(ks[i], i, 1)]

Script(p, a, b, c) == [t \in Threads |-> CASE t = 1 -> p [] t = 2 -> a [] t = 3 -> b [] t = 4 -> c]

Idle == Script(<<>>, <<>>, <<>>, <<>>)
Two == FillKeys(<<2, 3, 4, 5, 6, 7>>)       \* two leaves: (2, 3) and (4, 5, 6, 7)
Three == FillKeys(<<3, 4, 5, 6, 7, 8, 9>>)  \* a full index root
Garbage == FillKeys(<<3, 4, 5, 6, 7>>) \o <<Put(3, 8, 0), Put(4, 8, 2), Put(4, 9, 1), Put(4, 10, 2), Put(4, 10, 1)>>
\* An empty tree; two leaves, of which both are split; a full root, which grows
\* and whose child is split; updates that leave garbage behind.
MCScripts ==
    { Idle,
      Script(<<>>, FillKeys(<<3, 4, 5>>), <<Ins(6, 11, 1), Ins(2, 12, 1)>>, <<Find(4)>>),
      Script(Two, <<Ins(8, 11, 1), Ins(1, 12, 1)>>, <<Ins(4, 13, 2)>>, <<Find(5)>>),
      Script(Two, <<Ins(8, 11, 1)>>, <<Ins(4, 12, 2)>>, <<Scan(1, 7)>>),
      Script(Two, <<Ins(8, 11, 2)>>, <<Ins(2, 12, 2), Ins(3, 13, 2)>>, <<ScanBack(1, Inf)>>),
      Script(FillKeys(<<2, 4, 6, 8>>), <<Ins(5, 11, 1)>>, <<Find(5)>>, <<Scan(4, 7)>>),
      Script(Two, <<Ins(5, 11, 1)>>, <<Ins(5, 12, 2)>>, <<>>),
      Script(Three, <<Ins(1, 11, 1)>>, <<Ins(8, 12, 2)>>, <<Find(7)>>),
      Script(Three \o <<Ins(9, 8, 1), Ins(3, 9, 2), Ins(4, 10, 2)>>, <<Ins(2, 11, 1)>>, <<Ins(3, 12, 3)>>, <<Find(3)>>),
      Script(FillKeys(<<2, 4, 6, 7, 8, 3, 5>>), <<Ins(4, 11, 2)>>, <<>>, <<Scan(1, 9)>>),
      Script(Three, <<Ins(2, 11, 1), Ins(1, 14, 1)>>, <<Ins(9, 12, 2)>>, <<Scan(1, 7)>>),
      Script(Garbage, <<Put(4, 11, 2)>>, <<Ins(4, 13, 2)>>, <<Find(4), Scan(1, 5)>>) }

\* For the disagreement: an iterator starts in the second leaf while the first
\* one is split.
RangeScripts == { Script(FillKeys(<<2, 4, 6, 7, 8, 3, 5>>), <<Ins(4, 11, 2)>>, <<Scan(6, Inf)>>, <<>>) }

-----------------------------------------------------------------------------
(* For AsyncLookup: a root above a leaf.  The root has two whole branches, *)
(* a bundle of an uncompacted subbundle of two branches and a compacted    *)
(* one behind two filters; the leaf has a whole branch and a compacted     *)
(* subbundle.  Branch n updates key 1, except that one branch inserts or   *)
(* deletes it and one does not have it, although its filter may say so.    *)
(* Branches 8 and 9 are memtables.                                         *)

Filled(nd, whole, fl, subs) ==
    LET w == [N!AppendBranches(nd, whole) EXCEPT !.sfb = Len(whole), !.piv[1].fl = fl]
        s == FoldLeft(LAMBDA n, x : N!NewSubbundle(n, x.st, x.ids, x.fs), w, subs)
    IN [N!NewBundle(s) EXCEPT !.bu[s.ebu] = [s0 |-> s.ssb, s1 |-> s.esb]]
CompactedBranch(id, fs) == [st |-> "compacted", ids |-> <<id>>, fs |-> fs]
Uncompacted(ids, f) == [st |-> "uncompacted_index", ids |-> ids, fs |-> <<f>>]
AsyncNodes ==
    << Filled(N!EmptyNode(0, <<1, 3>>, <<0>>), <<1>>, 1, <<CompactedBranch(2, <<2>>)>>),
       Filled(N!EmptyNode(1, <<1, 3>>, <<1>>), <<3, 4>>, 3, <<Uncompacted(<<5, 6>>, 4), CompactedBranch(7, <<5, 6>>)>>) >>
AsyncStore(last, msg, absent, lying) ==
    LET msgs(b) == [k \in 1 .. 2 |-> IF b = absent \/ k > 1 THEN <<>> ELSE IF b = last THEN msg ELSE <<b>>]
        filter(ids) == [k \in 1 .. 2 |-> {i - 1 : i \in {j \in DOMAIN ids : lying \/ msgs(ids[j])[k] # <<>>}}]
    IN [root |-> 2, nd |-> AsyncNodes, br |-> [b \in 1 .. 7 |-> msgs(b)], mts |-> <<msgs(8), msgs(9)>>,
        fc |-> <<filter(<<1>>), filter(<<2>>), filter(<<3, 4>>), filter(<<5, 6>>), filter(<<>>), filter(<<7>>)>>]
MCStores == {AsyncStore(last, msg, absent, lying) :
                last \in {1, 2, 4, 5, 6, 7, 9, 10}, msg \in {<<0>>, <<99, 0>>},
                absent \in {1, 2, 4, 5, 6, 7, 9}, lying \in BOOLEAN}

\* For the disagreement: the root is not at hand.
IdleScripts == {Idle}
UpdatedStores == {AsyncStore(10, <<>>, 10, FALSE)}
=============================================================================
