--------------------------- MODULE MiniAllocator ----------------------------
(***************************************************************************)
(* The mini allocator, mini_allocator.c: pages from the extents of the     *)
(* extent allocator, and references to them.                               *)
(*                                                                         *)
(* Threads call mini_alloc at the same time on an unkeyed allocator (trunk *)
(* nodes, memtables); a keyed one (a branch) is filled by the one thread   *)
(* that packs it, with increasing keys, the pages of a level in a batch of *)
(* their own.  Every extent taken is entered in a list of meta pages, and  *)
(* the references to a keyed allocator are counted for each extent over    *)
(* ranges of keys.  held are the references of trunk nodes and of others   *)
(* in the code; a thread that works on one takes it from there, as the     *)
(* locks of the nodes allow only one to do so.  An address is a number,    *)
(* extent * PagesPerExtent + page; the extent allocator hands out any free *)
(* extent, here the lowest.                                                *)
(***************************************************************************)
EXTENDS Integers, Sequences, FiniteSets, FiniteSetsExt

CONSTANTS
    MiniThread,
    MiniExtents,       \* number of extents of the extent allocator
    PagesPerExtent,
    EntriesPerPage,    \* entries that fit in a meta page
    NumBatches,
    Ranges,            \* key ranges <<start_key, end_key>>
    LastKey,           \* positive infinity
    MaxAllocs,         \* pages a thread allocates, of an unkeyed allocator
    PackedLeaves,      \* how many leaves a packed branch may have
    MaxRefs,           \* references and blockers at a time
    MaxReloads         \* times the allocator is loaded again

ASSUME MiniThreadAssumption == IsFiniteSet(MiniThread)
ASSUME MiniSizeAssumption ==
    /\ MiniExtents \in Nat /\ PagesPerExtent \in Nat /\ EntriesPerPage \in Nat /\ NumBatches \in Nat
    /\ PagesPerExtent > 1 /\ EntriesPerPage > 0 /\ MiniExtents > NumBatches
ASSUME MiniKeyAssumption ==
    /\ LastKey \in Nat /\ PackedLeaves \in (SUBSET (1 .. LastKey)) \ {{}}
    /\ IsFiniteSet(Ranges) /\ \A r \in Ranges : r \in Nat \X Nat /\ r[1] <= r[2]

Ext == 1 .. MiniExtents
Batch == 0 .. NumBatches - 1
NoPage == 0
TERMINAL_EXTENT_ADDR == -1
MINI_WAIT == 1
AL_FREE == 0
AL_NO_REFS == 1
AL_ONE_REF == 2
MINI_NO_REFS == 2
Whole == <<1, LastKey>>     \* the reference to an unkeyed allocator

VARIABLES
    keyed,
    refc,         \* ref_count of the extent allocator
    meta,         \* meta pages: address to [next, entries]
    meta_tail,
    next_addr,
    next_extent,
    num_extents,
    claim,        \* who has the claim on a meta page
    mpc,          \* next step of each thread
    lv,           \* its local variables
    held,         \* how many references there are to each range
    blocked,      \* ranges that iterators read under a block
    given,        \* every page handed out: [addr, batch, key]
    life,         \* "open", "released" or "gone"
    allocs,       \* calls of mini_alloc by each thread
    reloads,
    failed        \* assertions that failed

miniVars == <<keyed, refc, meta, meta_tail, next_addr, next_extent,
    num_extents, claim, mpc, lv, held, blocked, given, life, allocs, reloads,
    failed>>
otherVars == <<keyed, meta, meta_tail, next_addr, next_extent, num_extents,
    claim, held, blocked, given, life, allocs, reloads>>

ExtentOf(a) == a \div PagesPerExtent
meta_head == PagesPerExtent + 1     \* the page behind the root
FreeExts == {e \in Ext : refc[e] = AL_FREE}
NoLocals == [op |-> "none"]
AllIdle == \A t \in MiniThread : mpc[t] = "idle"
HeldRefs == UNION {{r} \X (1 .. held[r]) : r \in DOMAIN held}
NumHeld == Cardinality(HeldRefs)
Check(name, ok) == failed' = IF ok THEN failed ELSE failed \cup {name}

-----------------------------------------------------------------------------
(* mini_init: the caller has allocated the first extent, whose first page  *)
(* is its root; every batch gets an extent in advance.                     *)
NewPage == [next |-> NoPage, entries |-> <<>>]
MiniInit ==
    /\ keyed \in BOOLEAN
    /\ refc = [e \in Ext |-> CASE e = 1 -> IF keyed THEN AL_ONE_REF ELSE MINI_NO_REFS + 1
                               [] e \in 2 .. NumBatches + 1 -> AL_ONE_REF
                               [] OTHER -> AL_FREE]
    /\ meta = [a \in {meta_head} |-> NewPage]
    /\ meta_tail = meta_head
    /\ next_addr = [b \in Batch |-> 0]
    /\ next_extent = [b \in Batch |-> b + 2]
    /\ num_extents = NumBatches + 1
    /\ claim = [a \in {} |-> 0]
    /\ mpc = [t \in MiniThread |-> "idle"]
    /\ lv = [t \in MiniThread |-> NoLocals]
    /\ held = [r \in Ranges \cup {Whole} |-> IF ~keyed /\ r = Whole THEN 1 ELSE 0]
    /\ blocked = [t \in MiniThread |-> {}]
    /\ given = {}
    /\ life = "open"
    /\ allocs = [t \in MiniThread |-> 0]
    /\ reloads = 0
    /\ failed = {}

(* mini_init with the meta_tail of an allocator that was released. *)
Reload ==
    /\ ~keyed /\ life = "released" /\ AllIdle /\ reloads < MaxReloads
    /\ NumHeld = 1 /\ Cardinality(FreeExts) >= NumBatches + 2
    /\ LET fresh == CHOOSE f \in [Batch -> FreeExts] : \A b, c \in Batch : b # c => f[b] # f[c]
       IN  /\ next_extent' = fresh
           /\ refc' = [e \in Ext |-> IF \E b \in Batch : fresh[b] = e THEN AL_ONE_REF ELSE refc[e]]
    /\ next_addr' = [b \in Batch |-> 0]
    /\ num_extents' = NumBatches + 1
    /\ life' = "open"
    /\ reloads' = reloads + 1
    /\ UNCHANGED <<keyed, meta, meta_tail, claim, mpc, lv, held, blocked, given, allocs, failed>>

Move(t, from, to, loc) ==
    /\ mpc[t] = from
    /\ mpc' = [mpc EXCEPT ![t] = to]
    /\ lv' = [lv EXCEPT ![t] = loc]
Return(t, from) == Move(t, from, "idle", NoLocals)

Put(f, a, v) == [x \in DOMAIN f \cup {a} |-> IF x = a THEN v ELSE f[x]]
Claimed(a) == a \in DOMAIN claim
Release(a) == [x \in DOMAIN claim \ {a} |-> claim[x]]

-----------------------------------------------------------------------------
(* mini_alloc *)

(* The keys that btree_pack passes increase; a level above the leaves is   *)
(* begun once there is a leaf, and here it has one page.                   *)
Leaves == {g \in given : g.batch = 0}
MayAlloc(t, b) ==
    keyed => /\ \A u \in MiniThread \ {t} : allocs[u] = 0
             /\ b = 0 => Cardinality(Leaves) < Max(PackedLeaves)
             /\ b > 0 => /\ Leaves # {}
                         /\ \A g \in given : g.batch # b

\* mutant: the next address is only read
LockBatchRead(t, b) ==
    /\ life = "open" /\ (keyed \/ allocs[t] < MaxAllocs) /\ Cardinality(FreeExts) > 1
    /\ MayAlloc(t, b)
    /\ next_addr[b] # MINI_WAIT
    /\ Move(t, "idle", IF next_addr[b] % PagesPerExtent = 0 THEN "extent" ELSE "finish",
            [op |-> "alloc", batch |-> b, key |-> Cardinality(Leaves) + 1, addr |-> next_addr[b], tail |-> NoPage])
    /\ allocs' = [allocs EXCEPT ![t] = @ + 1]
    /\ UNCHANGED <<keyed, refc, meta, meta_tail, next_addr, next_extent, num_extents, claim, held, blocked, given, life, reloads, failed>>

(* mini_lock_batch_get_next_addr: the compare-and-swap that succeeds. *)
LockBatch(t, b) ==
    /\ life = "open" /\ (keyed \/ allocs[t] < MaxAllocs) /\ Cardinality(FreeExts) > 1
    /\ MayAlloc(t, b)
    /\ next_addr[b] # MINI_WAIT
    /\ Move(t, "idle", IF next_addr[b] % PagesPerExtent = 0 THEN "extent" ELSE "finish",
            [op |-> "alloc", batch |-> b, key |-> Cardinality(Leaves) + 1, addr |-> next_addr[b], tail |-> NoPage])
    /\ next_addr' = [next_addr EXCEPT ![b] = MINI_WAIT]
    /\ allocs' = [allocs EXCEPT ![t] = @ + 1]
    /\ UNCHANGED <<keyed, refc, meta, meta_tail, next_extent, num_extents, claim, held, blocked, given, life, reloads, failed>>

(* The extent allocated before is used, and another one takes its place    *)
(* (mini_allocator_get_new_extent).                                        *)
NextExtent(t) ==
    LET e == Min(FreeExts)  b == lv[t].batch
    IN  /\ mpc[t] = "extent" /\ FreeExts # {}
        /\ Move(t, "extent", "tail", [lv[t] EXCEPT !.addr = next_extent[b] * PagesPerExtent])
        /\ next_extent' = [next_extent EXCEPT ![b] = e]
        /\ refc' = [refc EXCEPT ![e] = AL_ONE_REF]
        /\ num_extents' = num_extents + 1
        /\ UNCHANGED <<keyed, meta, meta_tail, next_addr, claim, held, blocked, given, life, allocs, reloads, failed>>

(* mini_full_lock_meta_tail: the tail may have moved between reading it    *)
(* and the get, which waits while the page is written.                     *)
ReadTail(t) ==
    /\ Move(t, "tail", "claim_tail", [lv[t] EXCEPT !.tail = meta_tail])
    /\ UNCHANGED <<refc, failed, otherVars>>

LockTail(t) ==
    LET a == lv[t].tail
    IN  /\ mpc[t] = "claim_tail" /\ ~Claimed(a)
        /\ Move(t, "claim_tail", IF a = meta_tail THEN "append" ELSE "tail", lv[t])
        /\ claim' = IF a = meta_tail THEN Put(claim, a, t) ELSE claim
        /\ UNCHANGED <<keyed, refc, meta, meta_tail, next_addr, next_extent, num_extents, held, blocked, given, life, allocs, reloads, failed>>

(* What mini_keyed_append_entry and mini_unkeyed_append_entry add. *)
Entry(t) ==
    [extent |-> IF lv[t].op = "release" THEN TERMINAL_EXTENT_ADDR ELSE ExtentOf(lv[t].addr),
     batch |-> lv[t].batch, key |-> lv[t].key]
Fits(a) == Len(meta[a].entries) < EntriesPerPage
AppendEntry(pages, a, x) == [pages EXCEPT ![a].entries = Append(pages[a].entries, x)]
AfterAppend(t) == IF lv[t].op = "release" THEN "release" ELSE "finish"
NextBatch(t) == IF lv[t].op = "release" THEN [lv[t] EXCEPT !.batch = @ + 1] ELSE lv[t]

(* mini_append_entry, the entry fits in the tail. *)
AppendFits(t) ==
    LET a == lv[t].tail
    IN  /\ mpc[t] = "append" /\ Fits(a)
        /\ Move(t, "append", AfterAppend(t), NextBatch(t))
        /\ meta' = AppendEntry(meta, a, Entry(t))
        /\ claim' = Release(a)
        /\ UNCHANGED <<keyed, refc, meta_tail, next_addr, next_extent, num_extents, held, blocked, given, life, allocs, reloads, failed>>

(* It does not: a new page, locked, becomes the tail and the old one is    *)
(* unlocked.                                                               *)
AppendPage(t) ==
    LET a == lv[t].tail
        wraps == (a + 1) % PagesPerExtent = 0
        e == Min(FreeExts)
        new == IF wraps THEN e * PagesPerExtent ELSE a + 1
    IN  /\ mpc[t] = "append" /\ ~Fits(a) /\ FreeExts # {}
        /\ Move(t, "append", "append_new", [lv[t] EXCEPT !.tail = new])
        /\ meta' = Put([meta EXCEPT ![a].next = new], new, NewPage)
        /\ meta_tail' = new
        /\ refc' = IF wraps THEN [refc EXCEPT ![e] = AL_ONE_REF] ELSE refc
        /\ num_extents' = IF wraps THEN num_extents + 1 ELSE num_extents
        /\ claim' = Put(Release(a), new, t)
        /\ UNCHANGED <<keyed, next_addr, next_extent, held, blocked, given, life, allocs, reloads, failed>>
AppendInNew(t) ==
    LET a == lv[t].tail
    IN  /\ Move(t, "append_new", AfterAppend(t), NextBatch(t))
        /\ meta' = AppendEntry(meta, a, Entry(t))
        /\ claim' = Release(a)
        /\ UNCHANGED <<keyed, refc, meta_tail, next_addr, next_extent, num_extents, held, blocked, given, life, allocs, reloads, failed>>

(* mini_unlock_batch_set_next_addr *)
FinishAlloc(t) ==
    LET a == lv[t].addr  b == lv[t].batch
    IN  /\ Return(t, "finish")
        /\ Check("mini_unlock_batch_set_next_addr", next_addr[b] = MINI_WAIT /\ \A g \in given : g.addr # a)
        /\ next_addr' = [next_addr EXCEPT ![b] = a + 1]
        /\ given' = given \cup {[addr |-> a, batch |-> b, key |-> lv[t].key]}
        /\ UNCHANGED <<keyed, refc, meta, meta_tail, next_extent, num_extents, claim, held, blocked, life, allocs, reloads>>

-----------------------------------------------------------------------------
(* mini_release: the extents in advance go back, batch after batch, and a  *)
(* keyed allocator ends each batch with a terminal entry.  btree_pack has  *)
(* a root above two or more leaves.                                        *)
ReleaseCall(t) ==
    /\ life = "open" /\ AllIdle /\ given # {}
    /\ keyed => /\ \A u \in MiniThread \ {t} : allocs[u] = 0
                /\ Cardinality(Leaves) \in PackedLeaves
                /\ Cardinality(Leaves) > 1 => \E g \in given : g.batch > 0
    /\ Move(t, "idle", "release", [op |-> "release", batch |-> 0, key |-> Cardinality(Leaves) + 1, tail |-> NoPage])
    /\ life' = "released"
    /\ UNCHANGED <<keyed, refc, meta, meta_tail, next_addr, next_extent, num_extents, claim, held, blocked, given, allocs, reloads, failed>>

ReleaseBatch(t) ==
    LET b == lv[t].batch
    IN  /\ mpc[t] = "release" /\ b < NumBatches
        /\ Move(t, "release", IF keyed THEN "tail" ELSE "release", IF keyed THEN lv[t] ELSE [lv[t] EXCEPT !.batch = b + 1])
        /\ Check("mini_release", refc[next_extent[b]] = AL_ONE_REF)
        /\ refc' = [refc EXCEPT ![next_extent[b]] = AL_FREE]
        /\ UNCHANGED otherVars

(* The branch is installed: its caller has the reference to all of it. *)
ReleaseDone(t) ==
    /\ mpc[t] = "release" /\ lv[t].batch = NumBatches
    /\ Return(t, "release")
    /\ held' = IF keyed THEN [held EXCEPT ![Whole] = 1] ELSE held
    /\ UNCHANGED <<keyed, refc, meta, meta_tail, next_addr, next_extent, num_extents, claim, blocked, given, life, allocs, reloads, failed>>

(* mini_destroy_unused, by btree_pack when there was nothing to pack. *)
DestroyUnused(t) ==
    /\ keyed /\ life = "open" /\ allocs = [u \in MiniThread |-> 0]
    /\ Check("mini_destroy_unused", num_extents = NumBatches + 1
                                    /\ \A b \in Batch : refc[next_extent[b]] = AL_ONE_REF)
    /\ refc' = [e \in Ext |-> IF \E b \in Batch : next_extent[b] = e THEN AL_FREE ELSE refc[e]]
    /\ life' = "gone"
    /\ Move(t, "idle", "deinit", [op |-> "deinit", page |-> meta_head])
    /\ UNCHANGED <<keyed, meta, meta_tail, next_addr, next_extent, num_extents, claim, held, blocked, given, allocs, reloads>>

-----------------------------------------------------------------------------
(* The walks over the entries: mini_unkeyed_for_each, mini_keyed_for_each, *)
(* mini_keyed_for_each_self_exclusive.                                     *)

Within(r, s) == r[1] >= s[1] /\ r[2] <= s[2]
HeldAndBlocked == NumHeld + Cardinality({t \in MiniThread : blocked[t] # {}})
Walker(op, r, mine) ==
    [op |-> op, range |-> r, mine |-> mine, page |-> meta_head, i |-> 1, did_work |-> FALSE, cleanup |-> TRUE,
     extent |-> [b \in Batch |-> TERMINAL_EXTENT_ADDR], state |-> [b \in Batch |-> "before_start"]]

(* A thread takes a reference to s and walks: mini_keyed_inc_ref of a      *)
(* part of it, or mini_unkeyed_prefetch.                                   *)
WalkCall(t, op, r, s) ==
    /\ life = "released" /\ held[s] > 0 /\ Within(r, s)
    /\ op = "inc" => keyed /\ HeldAndBlocked < MaxRefs
    /\ op = "prefetch" => ~keyed
    /\ Move(t, "idle", "walk", Walker(op, r, s))
    /\ held' = [held EXCEPT ![s] = @ - 1]
    /\ UNCHANGED <<keyed, refc, meta, meta_tail, next_addr, next_extent, num_extents, claim, blocked, given, life, allocs, reloads, failed>>

(* mini_unkeyed_inc_ref, by one that has a reference. *)
UnkeyedInc(t) ==
    /\ ~keyed /\ life # "gone" /\ held[Whole] > 0 /\ HeldAndBlocked < MaxRefs /\ mpc[t] = "idle"
    /\ refc' = [refc EXCEPT ![1] = @ + 1]
    /\ Check("mini_unkeyed_inc_ref", refc'[1] > MINI_NO_REFS)
    /\ held' = [held EXCEPT ![Whole] = @ + 1]
    /\ UNCHANGED <<keyed, meta, meta_tail, next_addr, next_extent, num_extents, claim, mpc, lv, blocked, given, life, allocs, reloads>>

(* mini_unkeyed_dec_ref *)
UnkeyedDec(t) ==
    /\ ~keyed /\ life = "released" /\ held[Whole] > 0
    /\ refc' = [refc EXCEPT ![1] = @ - 1]
    /\ held' = [held EXCEPT ![Whole] = @ - 1]
    /\ LET last == refc'[1] = MINI_NO_REFS
       IN  Move(t, "idle", IF last THEN "walk" ELSE "idle", IF last THEN Walker("dealloc", Whole, Whole) ELSE NoLocals)
    /\ UNCHANGED <<keyed, meta, meta_tail, next_addr, next_extent, num_extents, claim, blocked, given, life, allocs, reloads, failed>>

(* mini_keyed_dec_ref waits for blockers and claims the first page. *)
KeyedDec(t, r) ==
    /\ keyed /\ life = "released" /\ held[r] > 0
    /\ Move(t, "idle", "wait_blockers", Walker("dec", r, r))
    /\ held' = [held EXCEPT ![r] = @ - 1]
    /\ UNCHANGED <<keyed, refc, meta, meta_tail, next_addr, next_extent, num_extents, claim, blocked, given, life, allocs, reloads, failed>>
\* mutant: the references of iterators are not waited for
WaitForBlockersNever(t) ==
    /\ Move(t, "wait_blockers", "claim_page", lv[t])
    /\ UNCHANGED <<refc, failed, otherVars>>
WaitForBlockers(t) ==
    /\ refc[1] = AL_ONE_REF
    /\ Move(t, "wait_blockers", "claim_page", lv[t])
    /\ UNCHANGED <<refc, failed, otherVars>>
ClaimPage(t) ==
    /\ mpc[t] = "claim_page" /\ ~Claimed(lv[t].page)
    /\ Move(t, "claim_page", "walk", lv[t])
    /\ claim' = Put(claim, lv[t].page, t)
    /\ UNCHANGED <<keyed, refc, meta, meta_tail, next_addr, next_extent, num_extents, held, blocked, given, life, allocs, reloads, failed>>

(* interval_intersects_range and state. *)
Intersects(left, right) == left = "in_range" \/ right = "in_range" \/ left # right
StateOf(r, k) == IF k < r[1] THEN "before_start" ELSE IF k <= r[2] THEN "in_range" ELSE "after_end"

NextState(w, x) ==
    IF w.extent[x.batch] = TERMINAL_EXTENT_ADDR THEN "before_start"
    ELSE IF x.extent = TERMINAL_EXTENT_ADDR THEN "after_end" ELSE StateOf(w.range, x.key)

(* mini_keyed_inc_ref_extent, mini_keyed_dec_ref_extent,                   *)
(* mini_dealloc_extent: the count of an extent after the function.         *)
Applied(op, n) ==
    CASE op = "inc" -> n + 1
      [] op = "dec" -> IF n = AL_ONE_REF THEN AL_FREE ELSE n - 1
      [] op = "dealloc" -> AL_FREE
      [] OTHER -> n

Advanced(w, x) ==
    [w EXCEPT !.i = @ + 1, !.extent[x.batch] = x.extent, !.state[x.batch] = NextState(w, x)]

(* One entry of the page. *)
WalkEntry(t) ==
    LET w == lv[t]
        x == meta[w.page].entries[w.i]
        hit == ~keyed \/ Intersects(w.state[x.batch], NextState(w, x))
        e == IF keyed THEN w.extent[x.batch] ELSE x.extent
        after == IF hit THEN [refc EXCEPT ![e] = Applied(w.op, refc[e])] ELSE refc
    IN  /\ mpc[t] = "walk" /\ w.i <= Len(meta[w.page].entries)
        /\ Check(w.op, hit => e \in Ext /\ (w.op = "dealloc" => refc[e] = AL_ONE_REF) /\ refc[e] # AL_FREE)
        /\ refc' = after
        /\ Move(t, "walk", "walk",
                [Advanced(w, x) EXCEPT !.did_work = @ \/ hit,
                                       !.cleanup = @ /\ (hit => after[e] = AL_FREE)])
        /\ UNCHANGED otherVars

(* The next page; dec_ref claims it before it lets go of this one. *)
WalkPage(t) ==
    LET w == lv[t]  a == meta[w.page].next
    IN  /\ mpc[t] = "walk" /\ w.i > Len(meta[w.page].entries) /\ a # NoPage
        /\ w.op = "dec" => ~Claimed(a)
        /\ Move(t, "walk", "walk", [w EXCEPT !.page = a, !.i = 1])
        /\ claim' = IF w.op = "dec" THEN Put(Release(w.page), a, t) ELSE claim
        /\ UNCHANGED <<keyed, refc, meta, meta_tail, next_addr, next_extent, num_extents, held, blocked, given, life, allocs, reloads, failed>>

(* The end: the reference taken goes back, with a new one from inc_ref;    *)
(* the last dec_ref goes on to mini_deinit.                                *)
WalkEnd(t) ==
    LET w == lv[t]
        deinit == w.op = "dealloc" \/ (w.op = "dec" /\ w.cleanup)
        back == IF w.op \in {"dec", "dealloc"} THEN {} ELSE {w.mine}
    IN  /\ mpc[t] = "walk" /\ w.i > Len(meta[w.page].entries) /\ meta[w.page].next = NoPage
        /\ Check("mini_keyed_for_each", (keyed => w.did_work) /\ (keyed /\ deinit => refc[1] = AL_ONE_REF))
        /\ Move(t, "walk", IF deinit THEN "deinit" ELSE "idle",
                IF deinit THEN [op |-> "deinit", page |-> meta_head] ELSE NoLocals)
        /\ claim' = IF w.op = "dec" THEN Release(w.page) ELSE claim
        /\ held' = [r \in DOMAIN held |-> held[r] + Cardinality(back \cap {r})
                                          + (IF w.op = "inc" /\ r = w.range THEN 1 ELSE 0)]
        /\ life' = IF deinit THEN "gone" ELSE life
        /\ UNCHANGED <<keyed, refc, meta, meta_tail, next_addr, next_extent, num_extents, blocked, given, allocs, reloads>>

(* mini_deinit, one meta page at a time. *)
Deinit(t) ==
    LET a == lv[t].page  n == meta[a].next  e == ExtentOf(a)  last == ExtentOf(n) # e
    IN  /\ mpc[t] = "deinit"
        /\ Check("mini_deinit", last => refc[e] = AL_ONE_REF)
        /\ refc' = IF last THEN [refc EXCEPT ![e] = AL_FREE] ELSE refc
        /\ Move(t, "deinit", IF n = NoPage THEN "idle" ELSE "deinit", IF n = NoPage THEN NoLocals ELSE [lv[t] EXCEPT !.page = n])
        /\ UNCHANGED otherVars

(* mini_block_dec_ref by a range iterator that sees a node with a          *)
(* reference, and mini_unblock_dec_ref.                                    *)
Block(t, r) ==
    /\ keyed /\ held[r] > 0 /\ blocked[t] = {} /\ mpc[t] = "idle" /\ HeldAndBlocked < MaxRefs
    /\ refc' = [refc EXCEPT ![1] = @ + 1]
    /\ Check("mini_block_dec_ref", refc'[1] > AL_ONE_REF)
    /\ blocked' = [blocked EXCEPT ![t] = {r}]
    /\ UNCHANGED <<keyed, meta, meta_tail, next_addr, next_extent, num_extents, claim, mpc, lv, held, given, life, allocs, reloads>>
Unblock(t) ==
    /\ blocked[t] # {} /\ mpc[t] = "idle"
    /\ refc' = [refc EXCEPT ![1] = @ - 1]
    /\ Check("mini_unblock_dec_ref", refc'[1] >= AL_ONE_REF)
    /\ blocked' = [blocked EXCEPT ![t] = {}]
    /\ UNCHANGED <<keyed, meta, meta_tail, next_addr, next_extent, num_extents, claim, mpc, lv, held, given, life, allocs, reloads>>

Step(t) ==
    \/ \E b \in Batch : LockBatch(t, b)
    \/ NextExtent(t) \/ ReadTail(t) \/ LockTail(t)
    \/ AppendFits(t) \/ AppendPage(t) \/ AppendInNew(t) \/ FinishAlloc(t)
    \/ ReleaseCall(t) \/ ReleaseBatch(t) \/ ReleaseDone(t) \/ DestroyUnused(t)
    \/ \E op \in {"inc", "prefetch"}, r, s \in DOMAIN held : WalkCall(t, op, r, s)
    \/ UnkeyedInc(t) \/ UnkeyedDec(t)
    \/ \E r \in DOMAIN held : KeyedDec(t, r) \/ Block(t, r)
    \/ WaitForBlockers(t) \/ ClaimPage(t)
    \/ WalkEntry(t) \/ WalkPage(t) \/ WalkEnd(t) \/ Deinit(t) \/ Unblock(t)

MiniNext == Reload \/ \E t \in MiniThread : Step(t)
MiniSpec == MiniInit /\ [][MiniNext]_miniVars

-----------------------------------------------------------------------------
(* Ranges someone relies on: references, those a thread adds to or         *)
(* prefetches under, and those an iterator reads under a block.         *)
InUse ==
    {r \in DOMAIN held : held[r] > 0}
    \cup (UNION {blocked[t] : t \in MiniThread})
    \cup {lv[t].mine : t \in {u \in MiniThread : lv[u].op \in {"inc", "prefetch"}}}

(* Keys of r are in the page: it has those from its own key, or from the   *)
(* beginning, up to the key of the next page of its batch.                 *)
Covers(g, r) ==
    LET level == {h \in given : h.batch = g.batch}
    IN  /\ g.key <= r[2] \/ \A h \in level : g.key <= h.key
        /\ \A h \in level : h.key > g.key => h.key > r[1]

(* A page that was handed out stays allocated while a reference to a range *)
(* of its keys is held, or an iterator reads that range: no order of inc,  *)
(* dec and block may free it.  The same holds of the meta pages that a     *)
(* thread walks.                                                           *)
PagesInUseStay ==
    /\ \A r \in InUse, g \in given : (~keyed \/ Covers(g, r)) => refc[ExtentOf(g.addr)] # AL_FREE
    /\ \A t \in MiniThread : mpc[t] \in {"walk", "claim_page", "wait_blockers"} => refc[ExtentOf(lv[t].page)] # AL_FREE

RecordedExtents == {x.extent : x \in UNION {{meta[a].entries[i] : i \in DOMAIN meta[a].entries} : a \in DOMAIN meta}} \ {TERMINAL_EXTENT_ADDR}
MetaExtents == {ExtentOf(a) : a \in DOMAIN meta}

(* Whenever no call is in progress, the extents in use are those of the    *)
(* pages handed out, the meta pages and, until the release, one in advance *)
(* for each batch; once the last reference is gone they are all free.  The *)
(* assertions of the mini allocator hold, and no page is handed out twice. *)
ExtentsAreAccounted ==
    /\ failed = {}
    /\ AllIdle =>
         Ext \ FreeExts =
            IF life = "gone" THEN {}
            ELSE IF life = "open" THEN MetaExtents \cup RecordedExtents \cup {next_extent[b] : b \in Batch}
            ELSE MetaExtents \cup {e \in RecordedExtents : keyed => refc[e] # AL_FREE}
    /\ AllIdle /\ life = "released" => NumHeld > 0
    /\ \A g \in given : life = "open" => ExtentOf(g.addr) \in RecordedExtents
=============================================================================
