---------------------------- MODULE AsyncLookup ----------------------------
(***************************************************************************)
(* trunk_lookup_async of src/trunk.c: a lookup as a state machine that     *)
(* returns whenever a page is not at hand and is invoked again later with  *)
(* the same context, with the state machines of the filter lookup          *)
(* (routing_filter_lookup_async) and of the B-tree lookup                  *)
(* (btree_lookup_async_with_ref) below it.  One step is one turn of the    *)
(* loop around a switch.  Between any two steps the oldest memtable may be *)
(* incorporated.                                                           *)
(*                                                                         *)
(* cache_get_async has three outcomes: the page is there; it is locked or  *)
(* there is no request left, and the caller invokes the lookup again (a    *)
(* step that changes nothing, but for the root); or a read is started, and *)
(* Callback runs when it is done.                                          *)
(***************************************************************************)
EXTENDS TrunkNode, BagsExt

CONSTANTS
    Stores,         \* initial stores: root, nodes, branches, filters, memtables
    LookupKeys,     \* keys that are looked up
    RootAtHand      \* whether the root is always in the cache and not locked

VARIABLES
    spl,            \* the store; nodes are copied on write, mts is oldest first
    lookup_lock,    \* read locks on the memtables that the lookup has
    ctxt,           \* the context with its result
    refs            \* bag of pages the lookup has references to

asyncVars == <<spl, lookup_lock, ctxt, refs>>

NOT_FOUND == -1     \* ROUTING_NOT_FOUND
NoPage == <<>>
NodePage(a) == <<"node", a>>
\* A filter is an index page and a page of remainders, a branch a root and a leaf.
FilterPage(f, st) == <<"filter", f, st>>
BranchPage(b, height) == <<"branch", b, height>>

-----------------------------------------------------------------------------
(* trunk_async_ctxt_init.  sub is the context of the filter or B-tree      *)
(* lookup, which share their memory; io is the page that is being read.    *)

NoSub == [state |-> "start", height |-> 1, page |-> NoPage]
NewCtxt(k) ==
    [state |-> "start", key |-> k, node |-> None, pdata |-> 1, sb_no |-> 0, end_sb_no |-> 0, filter_no |-> 0,
     lookup_state |-> "invalid", filter |-> None, found |-> {}, value |-> NOT_FOUND, branch |-> None, sub |-> NoSub,
     page |-> NoPage, io |-> NoPage, in_root |-> FALSE, result |-> <<>>, failed |-> FALSE]

Node == spl.nd[ctxt.node]
Subbundle == Node.sb[ctxt.sb_no]
In(state) == ctxt.state = state /\ ctxt.io = NoPage /\ ~ctxt.in_root /\ ~ctxt.failed
Goto(state) == ctxt' = [ctxt EXCEPT !.state = state] /\ UNCHANGED <<spl, lookup_lock, refs>>
InFilter(state) == In("filter_lookup_reentrant") /\ ctxt.sub.state = state
InBtree(state) == In("btree_lookup_reentrant") /\ ctxt.sub.state = state

\* cache_get_async: the page is there, or it is read.
Got(page, c) == ctxt' = [c EXCEPT !.page = page] /\ refs' = BagAdd(refs, page)
Started(page, c) == ctxt' = [c EXCEPT !.page = NoPage, !.io = page] /\ UNCHANGED refs

CtxtInit(k) ==
    /\ ctxt.state = "returned"
    /\ ctxt' = NewCtxt(k)
    /\ UNCHANGED <<spl, lookup_lock, refs>>

-----------------------------------------------------------------------------
(* Memtables and root.                                                     *)

MemtableResult(mts, k, acc) == FoldRight(LAMBDA mt, a : MergeMsg(a, mt[k]), mts, acc)

\* The case falls through to the next one and leaves the state as it was.
LookupMemtable ==
    /\ In("start") \/ In("lookup_memtable")
    /\ LET r == MemtableResult(spl.mts, ctxt.key, IF ctxt.state = "start" THEN <<>> ELSE ctxt.result)
       IN /\ ctxt' = [ctxt EXCEPT !.result = r, !.in_root = ~Definitive(r),
                                  !.state = IF Definitive(r) THEN "found_final_answer_early" ELSE "lookup_memtable"]
          /\ lookup_lock' = IF Definitive(r) THEN lookup_lock ELSE lookup_lock + 1
    /\ UNCHANGED <<spl, refs>>

\* mutant: the memtables are released before the root is there
GetRootUnlocked ==
    /\ ctxt.in_root /\ ~ctxt.failed
    /\ IF lookup_lock > 0 THEN lookup_lock' = lookup_lock - 1 /\ UNCHANGED <<ctxt, refs>>
       ELSE /\ Got(NodePage(spl.root), [ctxt EXCEPT !.state = "trunk_node_lookup", !.node = spl.root, !.in_root = FALSE])
            /\ UNCHANGED lookup_lock
    /\ UNCHANGED spl
GetRoot ==
    /\ ctxt.in_root /\ ~ctxt.failed
    /\ \/ /\ Got(NodePage(spl.root), [ctxt EXCEPT !.state = "trunk_node_lookup", !.node = spl.root, !.in_root = FALSE])
          /\ lookup_lock' = lookup_lock - 1
       \/ /\ ~RootAtHand
          /\ \/ Started(NodePage(spl.root), [ctxt EXCEPT !.in_root = FALSE])
             \/ ctxt' = [ctxt EXCEPT !.in_root = FALSE] /\ UNCHANGED refs
          /\ UNCHANGED lookup_lock
    /\ UNCHANGED spl

-----------------------------------------------------------------------------
(* One trunk node: its subbundles from the newest, then the pivot's filter.*)

NodeLookup ==
    /\ In("trunk_node_lookup")
    /\ LET p == FindPivot(Node, ctxt.key)
       IN ctxt' = [ctxt EXCEPT !.state = "subbundle_lookup", !.pdata = p, !.filter_no = 0,
                               !.sb_no = Sub(Node.esb, 1, MaxSubbundles),
                               !.end_sb_no = Sub(PivotStartSubbundle(Node, p), 1, MaxSubbundles)]
    /\ UNCHANGED <<spl, lookup_lock, refs>>

LookupSubbundle ==
    /\ In("subbundle_lookup")
    /\ ctxt' = IF ctxt.sb_no = ctxt.end_sb_no
               THEN [ctxt EXCEPT !.lookup_state = "pivot", !.filter = Node.piv[ctxt.pdata].fl, !.state = "filter_lookup_start"]
               ELSE [ctxt EXCEPT !.lookup_state = IF Subbundle.st = "compacted" THEN "compacted_subbundle" ELSE "subbundle",
                                 !.filter = Node.fl[Add(Subbundle.f0, ctxt.filter_no, MaxFilters)],
                                 !.state = "filter_lookup_start"]
    /\ UNCHANGED <<spl, lookup_lock, refs>>

FilterStart ==
    /\ In("filter_lookup_start")
    /\ ctxt' = [ctxt EXCEPT !.value = NOT_FOUND, !.sub = NoSub,
                            !.state = IF ctxt.filter = None THEN "next_in_node" ELSE "filter_lookup_reentrant"]
    /\ UNCHANGED <<spl, lookup_lock, refs>>

\* routing_filter_lookup_async: the index page, then the page of remainders.
FilterGet ==
    /\ \E st \in {"index", "filter"} :
          LET page == FilterPage(ctxt.filter, st)
          IN /\ InFilter("get_" \o st) \/ (st = "index" /\ InFilter("start"))
             /\ \/ Got(page, [ctxt EXCEPT !.sub.state = "got_" \o st])
                \/ Started(page, [ctxt EXCEPT !.sub.state = "get_" \o st])
    /\ UNCHANGED <<spl, lookup_lock>>
GotIndex ==
    /\ InFilter("got_index")
    /\ ctxt' = [ctxt EXCEPT !.sub.state = "get_filter"]
    /\ refs' = BagRemove(refs, ctxt.page)
    /\ UNCHANGED <<spl, lookup_lock>>
GotFilter ==
    /\ InFilter("got_filter")
    /\ ctxt' = [ctxt EXCEPT !.found = spl.fc[ctxt.filter][ctxt.key], !.state = "btree_lookup_start"]
    /\ refs' = BagRemove(refs, ctxt.page)
    /\ UNCHANGED <<spl, lookup_lock>>

\* routing_filter_get_next_value.
NextValue(found, last) ==
    LET rest == IF last = NOT_FOUND THEN found ELSE {v \in found : v < last}
    IN IF rest = {} THEN NOT_FOUND ELSE CHOOSE v \in rest : \A w \in rest : w <= v

\* The position in a subbundle is not taken modulo the array's length.
BranchNo(value) ==
    CASE ctxt.lookup_state = "pivot" -> Add(Node.piv[ctxt.pdata].br, value, MaxBranches)
      [] ctxt.lookup_state = "subbundle" -> Subbundle.b0 + value
      [] ctxt.lookup_state = "compacted_subbundle" -> Subbundle.b0
BtreeStart ==
    /\ In("btree_lookup_start")
    /\ LET compacted == ctxt.lookup_state = "compacted_subbundle"
           v == IF compacted THEN NOT_FOUND ELSE NextValue(ctxt.found, ctxt.value)
           none == IF compacted THEN ctxt.found = {} ELSE v = NOT_FOUND
       IN ctxt' = IF none THEN [ctxt EXCEPT !.value = v, !.state = "next_in_node"]
                  ELSE IF BranchNo(v) \notin DOMAIN Node.br THEN [ctxt EXCEPT !.failed = TRUE]
                  ELSE [ctxt EXCEPT !.value = v, !.branch = Node.br[BranchNo(v)], !.sub = NoSub,
                                    !.state = "btree_lookup_reentrant"]
    /\ UNCHANGED <<spl, lookup_lock, refs>>

\* btree_lookup_async_with_ref: hand over hand from the root to the leaf.
BtreeGet ==
    /\ InBtree("start") \/ InBtree("get_node")
    /\ LET page == BranchPage(ctxt.branch, ctxt.sub.height)
       IN Got(page, [ctxt EXCEPT !.sub.state = "get_index_complete"]) \/ Started(page, [ctxt EXCEPT !.sub.state = "get_node"])
    /\ UNCHANGED <<spl, lookup_lock>>
BtreeGotNode ==
    /\ InBtree("get_index_complete")
    /\ refs' = IF ctxt.sub.page = NoPage THEN refs ELSE BagRemove(refs, ctxt.sub.page)
    /\ ctxt' = [ctxt EXCEPT !.sub = IF ctxt.sub.height = 0 THEN [ctxt.sub EXCEPT !.page = ctxt.page, !.state = "get_leaf_complete"]
                                    ELSE [state |-> "get_node", height |-> ctxt.sub.height - 1, page |-> ctxt.page]]
    /\ UNCHANGED <<spl, lookup_lock>>
\* btree_lookup_and_merge_async, and what trunk_lookup_async does with its answer.
BtreeGotLeaf ==
    /\ InBtree("get_leaf_complete")
    /\ LET r == MergeMsg(ctxt.result, spl.br[ctxt.branch][ctxt.key])
           rest == BagRemove(refs, ctxt.sub.page)
       IN IF Definitive(r)
          THEN /\ ctxt' = [ctxt EXCEPT !.result = r, !.node = None, !.state = "found_final_answer_early"]
               /\ refs' = BagRemove(rest, NodePage(ctxt.node))
          ELSE ctxt' = [ctxt EXCEPT !.result = r, !.state = "next_in_node"] /\ refs' = rest
    /\ UNCHANGED <<spl, lookup_lock>>

NextInNode ==
    /\ In("next_in_node")
    /\ ctxt' =
        IF ctxt.lookup_state # "compacted_subbundle" /\ ctxt.value # NOT_FOUND
        THEN [ctxt EXCEPT !.state = "btree_lookup_start"]
        ELSE IF ctxt.lookup_state = "pivot" THEN [ctxt EXCEPT !.state = "trunk_node_done"]
        ELSE IF /\ ctxt.lookup_state = "compacted_subbundle" /\ ctxt.found = {}
                /\ ctxt.filter_no + 1 < Sub(Subbundle.f1, Subbundle.f0, MaxFilters)
        THEN [ctxt EXCEPT !.filter_no = @ + 1, !.state = "subbundle_lookup"]
        ELSE [ctxt EXCEPT !.sb_no = Sub(@, 1, MaxSubbundles), !.filter_no = 0, !.state = "subbundle_lookup"]
    /\ UNCHANGED <<spl, lookup_lock, refs>>

-----------------------------------------------------------------------------
(* Down to the child, and the end.                                         *)

NodeDone ==
    /\ In("trunk_node_done")
    /\ IF IsLeaf(Node)
       THEN /\ ctxt' = [ctxt EXCEPT !.result = FinalMsg(@), !.node = None, !.state = "end"]
            /\ refs' = BagRemove(refs, NodePage(ctxt.node))
       ELSE ctxt' = [ctxt EXCEPT !.state = "get_child_trunk_node_reentrant"] /\ UNCHANGED refs
    /\ UNCHANGED <<spl, lookup_lock>>

GetChild ==
    /\ In("get_child_trunk_node_reentrant")
    /\ LET page == NodePage(Node.piv[ctxt.pdata].addr)
       IN Got(page, [ctxt EXCEPT !.state = "unget_parent_trunk_node"]) \/ Started(page, ctxt)
    /\ UNCHANGED <<spl, lookup_lock>>
\* Without a parent trunk_node_unget follows a null pointer.
UngetParent ==
    /\ In("unget_parent_trunk_node")
    /\ ctxt' = IF ctxt.node = None THEN [ctxt EXCEPT !.failed = TRUE]
               ELSE [ctxt EXCEPT !.node = ctxt.page[2], !.state = "trunk_node_lookup"]
    /\ refs' = BagRemove(refs, NodePage(ctxt.node))
    /\ UNCHANGED <<spl, lookup_lock>>

FoundEarly == In("found_final_answer_early") /\ Goto("end")
End ==
    /\ In("end")
    /\ ctxt' = [ctxt EXCEPT !.state = "returned", !.result = IF @ = <<0>> THEN <<>> ELSE @]
    /\ UNCHANGED <<spl, lookup_lock, refs>>

-----------------------------------------------------------------------------
(* trunk_async_callback, routing_filter_async_callback and                 *)
(* btree_async_callback: the page is there, the state moves on, and the    *)
(* context is put on the caller's queue.                                   *)

Advanced ==
    CASE ctxt.state = "filter_lookup_reentrant" ->
            [ctxt EXCEPT !.sub.state = IF @ = "get_index" THEN "got_index" ELSE "got_filter"]
      [] ctxt.state = "btree_lookup_reentrant" -> [ctxt EXCEPT !.sub.state = "get_index_complete"]
      [] ctxt.state = "get_root_reentrant" -> [ctxt EXCEPT !.state = "trunk_node_lookup"]
      [] OTHER -> [ctxt EXCEPT !.state = "unget_parent_trunk_node"]
Callback ==
    /\ ctxt.io # NoPage
    /\ Got(ctxt.io, [Advanced EXCEPT !.io = NoPage])
    /\ UNCHANGED <<spl, lookup_lock>>

\* trunk_memtable_incorporate_and_flush: the oldest memtable becomes a bundle of
\* a copy of the root, while nobody looks at the memtables.
Incorporated(content) ==
    LET nd == spl.nd[spl.root]
        b == Cardinality(DOMAIN spl.br) + 1
        f == Cardinality(DOMAIN spl.fc) + 1
        added == [NewSubbundle(NewBundle(nd), "compacted", <<b>>, <<f>>)
                     EXCEPT !.bu[nd.ebu] = [s0 |-> nd.esb, s1 |-> Add(nd.esb, 1, MaxSubbundles)]]
    IN [root |-> Len(spl.nd) + 1, nd |-> Append(spl.nd, added), br |-> Append(spl.br, content),
        fc |-> Append(spl.fc, [k \in Key |-> IF content[k] # <<>> THEN {0} ELSE {}]), mts |-> Tail(spl.mts)]
Incorporate ==
    /\ lookup_lock = 0 /\ spl.mts # <<>>
    /\ spl' = Incorporated(Head(spl.mts))
    /\ UNCHANGED <<lookup_lock, ctxt, refs>>

Init ==
    /\ spl \in Stores
    /\ lookup_lock = 0 /\ refs = EmptyBag
    /\ \E k \in LookupKeys : ctxt = NewCtxt(k)

LookupStep ==
    \/ LookupMemtable \/ GetRoot \/ NodeLookup \/ LookupSubbundle
    \/ FilterStart \/ FilterGet \/ GotIndex \/ GotFilter
    \/ BtreeStart \/ BtreeGet \/ BtreeGotNode \/ BtreeGotLeaf \/ NextInNode
    \/ NodeDone \/ GetChild \/ UngetParent \/ FoundEarly \/ End
Next == LookupStep \/ Callback \/ Incorporate \/ \E k \in LookupKeys : CtxtInit(k)
Spec == Init /\ [][Next]_asyncVars

-----------------------------------------------------------------------------
\* trunk_lookup of the same key, in one step.
RECURSIVE LookupNodes(_, _, _)
LookupNodes(a, k, acc) ==
    LET nd == spl.nd[a]
        p == FindPivot(nd, k)
        found == PivotLookup(nd, p, k, acc, spl.br, spl.fc)
    IN IF IsLeaf(nd) THEN found ELSE LookupNodes(nd.piv[p].addr, k, found)
Lookup(k) ==
    LET m == FinalMsg(LookupNodes(spl.root, k, MemtableResult(spl.mts, k, <<>>)))
    IN IF m = <<0>> THEN <<>> ELSE m

\* "If any change is made in here, please make similar change in
\* trunk_lookup_async" (trunk_lookup): however often the lookup is interrupted,
\* it returns what trunk_lookup returns, every page and lock it took is released
\* once, and it follows no pointer into nowhere.
AsyncLookupsAgree ==
    /\ ~ctxt.failed
    /\ ctxt.state = "returned" => ctxt.result = Lookup(ctxt.key) /\ refs = EmptyBag /\ lookup_lock = 0
=============================================================================
