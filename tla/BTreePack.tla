----------------------------- MODULE BTreePack -----------------------------
(***************************************************************************)
(* Packing a B-tree from a sorted stream of tuples (btree_pack) and what   *)
(* is read from a packed tree: ranks and counts of ranges. A packed tree   *)
(* is a branch; nobody else sees it until it is finished, so a step is one *)
(* tuple.                                                                  *)
(*                                                                         *)
(* req->edge[h] holds the nodes of height h of the current extent, locked  *)
(* and not yet in a parent: they are linked to their parents when the next *)
(* extent of that height begins, because only then their next extent is    *)
(* known. A node here has also nx, hdr->next_extent_addr; the value of an  *)
(* index entry is [child, st], st the counts of the child's subtree.       *)
(***************************************************************************)
EXTENDS BTreeNode, TLC

CONSTANTS
    PagesPerExtent,     \* pages of one height that share an extent
    MaxHeight,          \* BTREE_MAX_HEIGHT - 1
    Inputs              \* the streams and limits: [tuples, max_tuples]

VARIABLES
    in,     \* the tuples still to come, and the limit
    req,    \* the pack request: the pages built so far and the edges
    status, \* "packing", "ok", "limit exceeded" or "invalid"
    locked  \* the pages that are still locked

vars == <<in, req, status, locked>>

Root == 0
Heights == 0 .. MaxHeight
ZeroStats == [kvs |-> 0, kb |-> 0, mb |-> 0]
AddStats(s, u) == [kvs |-> s.kvs + u.kvs, kb |-> s.kb + u.kb, mb |-> s.mb + u.mb]
Packed(nd) == [nx |-> 0] @@ nd

\* Where two pages share an extent (btree_addrs_share_extent).
Extent(a) == a \div PagesPerExtent

\* btree_pack_setup_start. The root has an extent of its own.
Setup ==
    [ height |-> 0, num |-> 0, kb |-> 0, mb |-> 0, fps |-> <<>>,
      edge |-> [h \in Heights |-> <<>>], stats |-> [h \in Heights |-> <<>>],
      pages |-> Root :> Packed(NewNode(0)), last |-> [h \in Heights |-> 0], ext |-> 1 ]

\* btree_alloc from the batch of height h: the next page of its extent, or the
\* first of a new one.
NewAddr(r, h) ==
    IF r.last[h] = 0 \/ (r.last[h] + 1) % PagesPerExtent = 0 THEN r.ext * PagesPerExtent ELSE r.last[h] + 1

RECURSIVE CreateNextNode(_, _), LinkEdges(_, _, _, _)

\* The last edge of a height, to which the next entry goes.
OldEdge(r, h) == IF r.edge[h] = <<>> THEN 0 ELSE Last(r.edge[h])
OnEdge(r, h, nd) == (OldEdge(r, h) :> nd) @@ r.pages
CountOnEdge(r, h, st) ==
    LET count(ss) == [ss EXCEPT ![Len(ss)] = AddStats(Last(ss), st)] IN [r EXCEPT !.stats[h] = count(r.stats[h])]

\* The parent of a node of height h: created when there is none or it is full.
WithParent(r, h, key) ==
    LET hasRoom(a) == a # 0 /\ CanSetIndex(r.pages[a], Num(r.pages[a]), key)
    IN  IF hasRoom(OldEdge(r, h + 1)) THEN r ELSE CreateNextNode(r, h + 1)
LinkTo(r, h, a, nx, st) ==
    LET set(p) == SetIndex(p, Num(p), KeyAt(r.pages[a], 0), [child |-> a, st |-> st])
    IN  [r EXCEPT !.pages = (a :> [r.pages[a] EXCEPT !.nx = nx]) @@ OnEdge(r, h + 1, set(r.pages[OldEdge(r, h + 1)]))]

\* mutant: the counts of a node are not added to its parent's
LinkNodeKeepsStats(r, h, a, nx, st) == LinkTo(WithParent(r, h, KeyAt(r.pages[a], 0)), h, a, nx, st)

\* btree_pack_link_node: an entry for the node in its parent.
LinkNode(r, h, a, nx, st) ==
    CountOnEdge(LinkTo(WithParent(r, h, KeyAt(r.pages[a], 0)), h, a, nx, st), h + 1, st)

\* btree_pack_link_extent, from the i-th edge on.
LinkEdges(r, h, nx, i) ==
    IF i > Len(r.edge[h])
    THEN [r EXCEPT !.edge[h] = <<>>, !.stats[h] = <<>>]
    ELSE LinkEdges(LinkNode(r, h, r.edge[h][i], nx, r.stats[h][i]), h, nx, i + 1)
LinkExtent(r, h, nx) == LinkEdges(r, h, nx, 1)

\* The new page, chained to the current one of its height.
WithPage(r, h, a) ==
    LET old == OldEdge(r, h)
        chained == IF old = 0 THEN r.pages ELSE (old :> [r.pages[old] EXCEPT !.next = a]) @@ r.pages
    IN  [r EXCEPT !.last[h] = a, !.ext = IF Extent(a) = r.ext THEN r.ext + 1 ELSE r.ext,
                  !.pages = (a :> Packed([NewNode(h) EXCEPT !.prev = old])) @@ chained]
AsEdge(r, h, a) ==
    [r EXCEPT !.height = IF r.height < h THEN h ELSE r.height,
              !.edge[h] = Append(r.edge[h], a), !.stats[h] = Append(r.stats[h], ZeroStats)]
NewExtent(r, h, a) == OldEdge(r, h) # 0 /\ Extent(OldEdge(r, h)) # Extent(a)

\* btree_pack_create_next_node: the edges of the old extent get their parents
\* when the new node begins another one.
CreateNextNode(r, h) ==
    LET create(a) == AsEdge(IF NewExtent(r, h, a) THEN LinkExtent(WithPage(r, h, a), h, a) ELSE WithPage(r, h, a), h, a)
    IN  create(NewAddr(r, h))

\* btree_pack_loop: one tuple into the current leaf, or into a new one.
WithLeaf(r, x) ==
    LET hasRoom(a) == a # 0 /\ CanSetLeaf(r.pages[a], Num(r.pages[a]), x.k, x.m)
    IN  IF hasRoom(OldEdge(r, 0)) THEN r ELSE CreateNextNode(r, 0)
AddTo(r, x) ==
    LET set(nd) == SetLeaf(nd, Num(nd), x.k, x.m)
    IN  [r EXCEPT !.pages = OnEdge(r, 0, set(r.pages[OldEdge(r, 0)])),
                  !.fps = Append(r.fps, x.k), !.num = r.num + 1, !.kb = r.kb + KeySize[x.k], !.mb = r.mb + x.m.sz]
AddTuple(r, x) == CountOnEdge(AddTo(WithLeaf(r, x), x), 0, [kvs |-> 1, kb |-> KeySize[x.k], mb |-> x.m.sz])

\* btree_pack_post_loop: every height but the last is linked, one node is
\* left and it is copied into the root.
RECURSIVE LinkAll(_, _)
\* mutant: a last height of several nodes is not linked
LinkLower(r, h) == IF h < r.height THEN LinkAll(LinkExtent(r, h, 0), h + 1) ELSE r
LinkAll(r, h) == IF h < r.height \/ Len(r.edge[h]) > 1 THEN LinkAll(LinkExtent(r, h, 0), h + 1) ELSE r
Finish(r) ==
    LET copied(q) == [q EXCEPT !.pages = (Root :> [q.pages[q.edge[q.height][1]] EXCEPT !.nx = 0]) @@ q.pages]
    IN  copied(LinkAll(r, 0))

EdgePages(r) == UNION { ToSet(r.edge[h]) : h \in Heights }

-----------------------------------------------------------------------------
Init ==
    /\ in \in Inputs
    /\ req = Setup
    /\ status = "packing"
    /\ locked = {}

\* btree_pack_can_fit_tuple fails, or the message is not a user's: the pages
\* are unlocked and the tree given back.
Abort(why) == status' = why /\ locked' = {} /\ req' = Setup /\ UNCHANGED in

PackTuple ==
    /\ status = "packing"
    /\ in.tuples # <<>>
    /\ req.num < in.max_tuples
    /\ Head(in.tuples).m.def # "invalid"
    /\ req' = AddTuple(req, Head(in.tuples))
    /\ locked' = EdgePages(req')
    /\ in' = [in EXCEPT !.tuples = Tail(in.tuples)]
    /\ UNCHANGED status
TooMany ==
    /\ status = "packing"
    /\ in.tuples # <<>>
    /\ req.num >= in.max_tuples
    /\ Abort("limit exceeded")
InvalidMessage ==
    /\ status = "packing"
    /\ in.tuples # <<>>
    /\ req.num < in.max_tuples
    /\ Head(in.tuples).m.def = "invalid"
    /\ Abort("invalid")
PackEnd ==
    /\ status = "packing"
    /\ in.tuples = <<>>
    /\ status' = "ok"
    /\ locked' = {}
    /\ req' = IF req.num = 0 THEN Setup ELSE Finish(req)
    /\ UNCHANGED in
Done == status # "packing" /\ UNCHANGED vars

Next == PackTuple \/ TooMany \/ InvalidMessage \/ PackEnd \/ Done
Spec == Init /\ [][Next]_vars

-----------------------------------------------------------------------------
(* Reading the packed tree.                                                *)

NodeStats(nd, n) ==
    IF nd.h = 0
    THEN [kvs |-> n, kb |-> FoldLeft(LAMBDA s, e : s + KeySize[e.k], 0, SubSeq(nd.ents, 1, n)),
          mb |-> FoldLeft(LAMBDA s, e : s + e.v.sz, 0, SubSeq(nd.ents, 1, n))]
    ELSE FoldLeft(LAMBDA s, e : AddStats(s, e.v.st), ZeroStats, SubSeq(nd.ents, 1, n))

\* btree_get_rank: what lies to the left of the path to the key.
RECURSIVE RankBelow(_, _)
RankBelow(nd, k) ==
    IF nd.h = 0 THEN NodeStats(nd, FindGE(nd, k))
    ELSE AddStats(NodeStats(nd, ChildIdx(nd, k)), RankBelow(req.pages[Ent(nd, ChildIdx(nd, k)).v.child], k))
Rank(k) == RankBelow(req.pages[Root], k)
CountInRange(min, max) ==
    IF Rank(min).kvs < Rank(max).kvs
    THEN [kvs |-> Rank(max).kvs - Rank(min).kvs, kb |-> Rank(max).kb - Rank(min).kb, mb |-> Rank(max).mb - Rank(min).mb]
    ELSE ZeroStats

-----------------------------------------------------------------------------
(* Properties.                                                             *)

\* The tuples that have been packed.
Tuples == [i \in 1 .. req.num |-> req.fps[i]]
Leaves == { a \in DOMAIN req.pages \ {Root} : req.pages[a].h = 0 }

TypeOK ==
    /\ status \in {"packing", "ok", "limit exceeded", "invalid"}
    /\ locked \subseteq DOMAIN req.pages
    /\ \A a \in DOMAIN req.pages : req.pages[a].used + Num(req.pages[a]) * TableEntry \in 0 .. PageSize

RECURSIVE Keys(_)
Keys(nd) ==
    IF nd.h = 0 THEN [i \in DOMAIN nd.ents |-> nd.ents[i].k]
    ELSE FlattenSeq([i \in DOMAIN nd.ents |-> Keys(req.pages[nd.ents[i].v.child])])
\* A finished tree holds exactly the stream in order, each pivot is the first
\* key below it, and a tree is empty (root 0) only when the stream is.
PackedTreeHoldsStream ==
    status = "ok" =>
        /\ Keys(req.pages[Root]) = Tuples
        /\ \A a \in DOMAIN req.pages : \A i \in DOMAIN req.pages[a].ents :
              req.pages[a].h > 0 => Keys(req.pages[req.pages[a].ents[i].v.child])[1] = req.pages[a].ents[i].k

\* btree.c:3315: the count of a range of a packed tree is exact, in tuples and
\* in bytes, for all bounds; the trunk's flush and split decisions rest on it.
CountsAreExact ==
    status = "ok" /\ req.num > 0 =>
        \A min, max \in 1 .. MaxKey :
            CountInRange(min, max) =
                [ kvs |-> Cardinality({ k \in ToSet(Tuples) : min <= k /\ k < max }),
                  kb |-> FoldLeft(LAMBDA s, k : IF min <= k /\ k < max THEN s + KeySize[k] ELSE s, 0, Tuples),
                  mb |-> MapThenSumSet(LAMBDA a : FoldLeft(LAMBDA s, e : IF min <= e.k /\ e.k < max THEN s + e.v.sz ELSE s, 0, req.pages[a].ents), Leaves) ]

\* The nodes of one height are linked in both directions across extents, and
\* each names the extent that follows its own at that height (what an
\* iterator prefetches), the last ones none.
ExtentsAreLinked ==
    status = "ok" => \A a \in DOMAIN req.pages \ {Root} :
        LET nd == req.pages[a]
            after == { b \in DOMAIN req.pages \ {Root} : req.pages[b].h = nd.h /\ Extent(b) > Extent(a) }
        IN  /\ nd.next # 0 => req.pages[nd.next].prev = a
            /\ nd.h < req.height => nd.nx = IF after = {} THEN 0 ELSE CHOOSE b \in after : \A c \in after : b <= c

\* While packing, the locked pages are those of the current extents, at most
\* one extent for each height, and nothing stays locked at the end.
EdgesAreOneExtent ==
    /\ status = "packing" => \A h \in Heights : \A a, b \in ToSet(req.edge[h]) : Extent(a) = Extent(b) /\ req.pages[a].h = h
    /\ status # "packing" => locked = {}
=============================================================================
