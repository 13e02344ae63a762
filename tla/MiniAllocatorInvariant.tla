----------------------- MODULE MiniAllocatorInvariant -----------------------
(***************************************************************************)
(* The inductive invariant of the mini allocator.                          *)
(*                                                                         *)
(* A page in use stays and the extents are accounted for because the count *)
(* of every extent is that of the references which a walk over their range *)
(* would count there, less the walks of dec_ref that have passed it and    *)
(* more those of inc_ref that have.  The invariant says this of a list of  *)
(* all entries (log), the places of the meta pages in it (start) and the   *)
(* owners of the extents (own).  These are no variables: the invariant is  *)
(* that there are such a list, places and owners.                          *)
(***************************************************************************)
EXTENDS MiniAllocator

-----------------------------------------------------------------------------
(* Types.                                                                  *)

Rs == Ranges \cup {Whole}
EntryRec == [extent : Ext \cup {TERMINAL_EXTENT_ADDR}, batch : Batch, key : Nat]
PageRec == [next : Nat, entries : Seq(EntryRec)]
GivenRec == [addr : Nat, batch : Batch, key : Nat]
WalkStates == {"before_start", "in_range", "after_end"}

AllocRec == [op : {"alloc"}, batch : Batch, key : Nat, addr : Nat, tail : Nat]
ReleaseRec == [op : {"release"}, batch : 0 .. NumBatches, key : Nat, tail : Nat]
WalkRec == [op : {"inc", "prefetch", "dec", "dealloc"}, range : Rs, mine : Rs, page : Nat, i : Nat,
            did_work : BOOLEAN, cleanup : BOOLEAN,
            extent : [Batch -> Ext \cup {TERMINAL_EXTENT_ADDR}], state : [Batch -> WalkStates]]
DeinitRec == [op : {"deinit"}, page : Nat]

AppendPCs == {"tail", "claim_tail", "append", "append_new"}
AllocPCs == AppendPCs \cup {"extent", "finish"}
ReleasePCs == AppendPCs \cup {"release"}
WaitPCs == {"wait_blockers", "claim_page"}

\* The local variables of a thread at a step.
LocalsAt(at, locals) ==
    \/ at = "idle" /\ locals = NoLocals
    \/ at \in AllocPCs /\ locals \in AllocRec
    \/ at \in ReleasePCs /\ locals \in ReleaseRec
    \/ at = "walk" /\ locals \in WalkRec
    \/ at \in WaitPCs /\ locals \in WalkRec
    \/ at = "deinit" /\ locals \in DeinitRec
PCs == AllocPCs \cup ReleasePCs \cup WaitPCs \cup {"idle", "walk", "deinit"}

(* The types: the local variables of a thread are those of its operation.  *)
TypeOK ==
    /\ keyed \in BOOLEAN
    /\ refc \in [Ext -> Int]
    /\ DOMAIN meta \subseteq Nat /\ meta \in [DOMAIN meta -> PageRec]
    /\ next_addr \in [Batch -> Nat]
    /\ next_extent \in [Batch -> Ext]
    /\ claim \in [DOMAIN claim -> MiniThread]
    /\ mpc \in [MiniThread -> PCs]
    /\ DOMAIN lv = MiniThread
    /\ held \in [Rs -> Nat]
    /\ blocked \in [MiniThread -> SUBSET Rs]
    /\ given \in SUBSET GivenRec /\ IsFiniteSet(given)
    /\ life \in {"open", "released", "gone"}
    /\ allocs \in [MiniThread -> Nat]
    /\ \A t \in MiniThread : LocalsAt(mpc[t], lv[t])

(* The threads in an operation; those that walk over the entries.          *)
Role(op) == {t \in MiniThread : lv[t].op = op}
Walkers == Role("inc") \cup Role("prefetch") \cup Role("dec") \cup Role("dealloc")
NoneHeld == \A r \in Rs : held[r] = 0
NoBlocks == \A t \in MiniThread : blocked[t] = {}

(* Which operations may be under way together: a keyed allocator is filled *)
(* by one thread, released by one, and walked over only after that; who    *)
(* frees an unkeyed one is alone, and when it is gone nobody has a         *)
(* reference or a block.                                                   *)
RoleInv ==
    /\ life = "open" => \A t \in MiniThread : lv[t].op \in {"none", "alloc"}
    /\ life = "released" => Role("alloc") \cup Role("deinit") = {}
    /\ life = "gone" => /\ NoneHeld /\ NoBlocks
                        /\ \A t \in MiniThread : lv[t].op \in {"none", "release", "deinit"}
    /\ \A t, u \in Role("release") : t = u
    /\ \A t, u \in Role("deinit") : t = u
    /\ \A t, u \in Role("dealloc") : t = u
    /\ keyed => Role("prefetch") \cup Role("dealloc") = {}
    /\ ~keyed => /\ Role("inc") \cup Role("dec") = {}
                 /\ NoBlocks
                 /\ \A r \in Rs : r # Whole => held[r] = 0
    /\ keyed /\ life = "open" => NoneHeld /\ NoBlocks
    /\ keyed => \A t \in Role("release") :
                  life = "released" /\ NoneHeld /\ NoBlocks /\ \A u \in MiniThread \ {t} : lv[u].op = "none"
    /\ Role("dealloc") # {} => NoneHeld /\ Role("prefetch") = {}
    /\ \A t \in Role("release") : mpc[t] # "release" => keyed /\ lv[t].batch \in Batch
    /\ \A t \in MiniThread : mpc[t] \in WaitPCs =>
         lv[t].op = "dec" /\ lv[t].page = meta_head /\ lv[t].i = 1 /\ lv[t].cleanup /\ lv[t].range = lv[t].mine
    /\ \A t \in Role("inc") : Within(lv[t].range, lv[t].mine)
    /\ \A t \in Role("prefetch") : lv[t].mine = Whole
    /\ keyed => /\ \A t, u \in MiniThread : allocs[t] > 0 /\ allocs[u] > 0 => t = u
                /\ \A t \in Role("alloc") : allocs[t] > 0
                /\ life = "open" /\ (\A t \in MiniThread : allocs[t] = 0) => num_extents = NumBatches + 1 /\ given = {}

-----------------------------------------------------------------------------
(* The list of meta pages.                                                 *)

(* The meta pages hold one list, log, of all entries; start is where each  *)
(* page begins in it, and a walk has passed Pos entries.                   *)
Pos(start, t) == start[lv[t].page] + lv[t].i - 1

(* A page holds its part of the list, and the next page goes on where it   *)
(* ends; the last page is meta_tail. A next page is the next in the extent *)
(* or begins an extent.                                                    *)
PageInv(log, start, a) ==
    /\ start[a] + Len(meta[a].entries) <= Len(log)
    /\ \A k \in 1 .. Len(meta[a].entries) : meta[a].entries[k] = log[start[a] + k]
    /\ a = meta_tail => meta[a].next = NoPage /\ start[a] + Len(meta[a].entries) = Len(log)
    /\ a # meta_tail => /\ meta[a].next \in DOMAIN meta
                        /\ start[meta[a].next] = start[a] + Len(meta[a].entries)
                        /\ Len(meta[a].entries) > 0
                        /\ meta[a].next = a + 1 \/ (a + 1) % PagesPerExtent = 0

PageOrder(start, a, c) ==
    start[a] < start[c] => /\ start[a] + Len(meta[a].entries) <= start[c]
                           /\ ExtentOf(a) = ExtentOf(c) => a < c

(* Every entry of the list is in a page, and whoever walks is at a page of *)
(* it.                                                                     *)
ListInv(log, start) ==
    /\ log \in Seq(EntryRec)
    /\ start \in [DOMAIN meta -> Nat]
    /\ meta_head \in DOMAIN meta /\ meta_tail \in DOMAIN meta /\ start[meta_head] = 0
    /\ \A a \in DOMAIN meta : PageInv(log, start, a)
    /\ \A a, c \in DOMAIN meta : PageOrder(start, a, c) /\ (start[a] = start[c] => a = c)
    /\ \A p \in 1 .. Len(log) : \E a \in DOMAIN meta : start[a] < p /\ p <= start[a] + Len(meta[a].entries)
    /\ \A t \in Walkers : lv[t].page \in DOMAIN meta /\ lv[t].i \in 1 .. Len(meta[lv[t].page].entries) + 1
    /\ \A t \in Role("deinit") : lv[t].page \in DOMAIN meta

(* Who appends has the claim on the tail; who decrements, the one on the   *)
(* page it is at: no other dec_ref passes it.                              *)
ClaimInv ==
    /\ DOMAIN claim \subseteq DOMAIN meta
    /\ \A t \in MiniThread : mpc[t] \in {"append", "append_new"} =>
         lv[t].tail = meta_tail /\ meta_tail \in DOMAIN claim /\ claim[meta_tail] = t
    /\ \A t \in Role("dec") : mpc[t] = "walk" => lv[t].page \in DOMAIN claim /\ claim[lv[t].page] = t

-----------------------------------------------------------------------------
(* Batches.                                                                *)

(* An entry is an extent, or the end of its batch; j follows i in a batch. *)
Data(log, i) == log[i].extent # TERMINAL_EXTENT_ADDR
FirstOf(log, k) == \A i \in DOMAIN log : i < k => log[i].batch # log[k].batch
LastOf(log, i) == \A k \in DOMAIN log : k > i => log[k].batch # log[i].batch
Pair(log, i, j) ==
    /\ i < j /\ log[i].batch = log[j].batch /\ Data(log, i)
    /\ \A k \in DOMAIN log : i < k /\ k < j => log[k].batch # log[i].batch

(* mini_release has written the end of a batch, or has it still before it. *)
Ended(b) == life # "open" /\ \A t \in Role("release") : b < lv[t].batch
Pending(b) ==
    \/ life = "open"
    \/ \E t \in Role("release") : lv[t].batch < b \/ (lv[t].batch = b /\ mpc[t] = "release")

(* The entries of a batch follow one another; only the last is the end     *)
(* that mini_release writes, and every batch of a released branch has one. *)
BatchInv(log) ==
    /\ \A k \in DOMAIN log : FirstOf(log, k) \/ \E i \in DOMAIN log : Pair(log, i, k)
    /\ \A b \in Batch : (\A i \in DOMAIN log : log[i].batch # b) \/ \E i \in DOMAIN log : LastOf(log, i) /\ log[i].batch = b
    /\ \A i \in DOMAIN log : ~Data(log, i) => keyed /\ LastOf(log, i) /\ Ended(log[i].batch)
    /\ keyed /\ life = "released" => \A b \in Batch : Ended(b) => \E i \in DOMAIN log : log[i].batch = b /\ ~Data(log, i)

-----------------------------------------------------------------------------
(* Owners of extents.                                                      *)
Flying(t) == lv[t].op = "alloc" /\ mpc[t] \in AppendPCs
Free == <<"free", 0>>
Meta == <<"meta", 0>>
(* own says whose an extent is: free, an entry of the list, the meta       *)
(* pages, in advance for a batch, or in the hands of a thread that has not *)
(* entered it yet. No extent is two of these: that is what a page handed   *)
(* out twice would contradict.                                             *)
OwnInv(log, own) ==
    /\ DOMAIN own = Ext
    /\ \A i \in DOMAIN log : Data(log, i) => own[log[i].extent] = <<"data", i>>
    /\ \A a \in DOMAIN meta : ExtentOf(a) \in Ext /\ own[ExtentOf(a)] = Meta
    /\ \A b \in Batch : Pending(b) => own[next_extent[b]] = <<"adv", b>>
    /\ \A t \in MiniThread : Flying(t) =>
         /\ ExtentOf(lv[t].addr) \in Ext /\ own[ExtentOf(lv[t].addr)] = <<"fly", t>>
         /\ lv[t].addr = ExtentOf(lv[t].addr) * PagesPerExtent
    /\ \A e \in Ext :
         \/ own[e] = Free
         \/ \E i \in DOMAIN log : own[e] = <<"data", i>> /\ log[i].extent = e
         \/ own[e] = Meta /\ \E a \in DOMAIN meta : ExtentOf(a) = e
         \/ \E b \in Batch : own[e] = <<"adv", b>> /\ Pending(b) /\ next_extent[b] = e
         \/ \E t \in MiniThread : own[e] = <<"fly", t>> /\ Flying(t) /\ ExtentOf(lv[t].addr) = e

-----------------------------------------------------------------------------
(* Addresses and keys.                                                     *)
GivenIn(e) == {g \in given : ExtentOf(g.addr) = e}
NextAddrOK(log, b, a) ==
    /\ \E i \in DOMAIN log : log[i].extent = ExtentOf(a) /\ Data(log, i) /\ log[i].batch = b /\ LastOf(log, i)
    /\ \A g \in GivenIn(ExtentOf(a)) : g.addr < a
(* A thread that allocates has its batch locked, and the next address of a *)
(* batch is in the last extent of it, behind all pages handed out.         *)
AddrInv(log) ==
    /\ \A t \in Role("alloc") : next_addr[lv[t].batch] = MINI_WAIT
    /\ \A t, u \in Role("alloc") : lv[t].batch = lv[u].batch => t = u
    /\ life = "open" => \A b \in Batch : next_addr[b] # MINI_WAIT /\ next_addr[b] % PagesPerExtent # 0 => NextAddrOK(log, b, next_addr[b])
    /\ \A t \in Role("alloc") : mpc[t] = "finish" => NextAddrOK(log, lv[t].batch, lv[t].addr)
    /\ \A g \in given : \E i \in DOMAIN log : Data(log, i) /\ log[i].extent = ExtentOf(g.addr) /\ log[i].batch = g.batch

(* The keys of a branch: an extent is entered with the key of its first    *)
(* page, the leaves have increasing keys, and a level above them has one   *)
(* page.                                                                   *)
KeyInv(log) ==
    keyed =>
    /\ \A g \in Leaves : g.key <= Cardinality(Leaves) /\ g.key > 0
    /\ Cardinality(Leaves) <= LastKey
    /\ \A t \in Role("alloc") : /\ lv[t].key = Cardinality(Leaves) + 1
                                /\ lv[t].batch = 0 => lv[t].key <= LastKey
                                /\ lv[t].batch > 0 => \A g \in given : g.batch # lv[t].batch
    /\ \A i \in DOMAIN log : Data(log, i) =>
         \/ \E g \in given : ExtentOf(g.addr) = log[i].extent /\ g.batch = log[i].batch /\ g.key = log[i].key
         \/ \E t \in Role("alloc") : /\ mpc[t] = "finish" /\ ExtentOf(lv[t].addr) = log[i].extent
                                     /\ lv[t].batch = log[i].batch /\ lv[t].key = log[i].key
    /\ \A i \in DOMAIN log, g \in given : Data(log, i) /\ log[i].extent = ExtentOf(g.addr) =>
         /\ log[i].key <= g.key
         /\ \A k \in DOMAIN log : k > i /\ log[k].batch = g.batch /\ Data(log, k) => g.key < log[k].key
    /\ \A i, k \in DOMAIN log : i < k /\ log[i].batch = log[k].batch /\ Data(log, k) =>
         log[i].batch = 0 /\ log[i].key < log[k].key
    /\ life = "released" => given # {} /\ (Cardinality(Leaves) > 1 => \E g \in given : g.batch > 0)

-----------------------------------------------------------------------------
(* Walks.                                                                  *)

(* What mini_keyed_for_each computes for entry i of a walk over r, and     *)
(* when it acts on the extent of i: at the entry j behind it in the batch, *)
(* if the two are not on the same side of r.                               *)
StateAt(log, r, i) ==
    IF FirstOf(log, i) THEN "before_start" ELSE IF Data(log, i) THEN StateOf(r, log[i].key) ELSE "after_end"
Hits(log, r, i, j) == Intersects(StateAt(log, r, i), StateAt(log, r, j))
Hit(log, r, i) == \E j \in DOMAIN log : Pair(log, i, j) /\ Hits(log, r, i, j)
Passed(log, i, p) == \E j \in DOMAIN log : Pair(log, i, j) /\ j <= p
Top(log, i, j) == Pair(log, i, j) /\ FirstOf(log, i) /\ ~Data(log, j)

(* A walk remembers of each batch the last entry it has passed, and has    *)
(* counted something once it is behind a batch with one extent.            *)
WalkInv(log, start) ==
    \A t \in Role("inc") \cup Role("dec") :
        /\ \A k \in DOMAIN log : k > Pos(start, t) /\ FirstOf(log, k) =>
             lv[t].extent[log[k].batch] = TERMINAL_EXTENT_ADDR /\ lv[t].state[log[k].batch] = "before_start"
        /\ \A i, k \in DOMAIN log : i <= Pos(start, t) /\ k > Pos(start, t) /\ Pair(log, i, k) =>
             lv[t].extent[log[k].batch] = log[i].extent /\ lv[t].state[log[k].batch] = StateAt(log, lv[t].range, i)
        /\ \A i, j \in DOMAIN log : Top(log, i, j) /\ j <= Pos(start, t) => lv[t].did_work

-----------------------------------------------------------------------------
(* Counts.                                                                 *)

(* The references that the count of the extent of entry i stands for, the  *)
(* tokens: one for each reference to a range that hits it, the one that a  *)
(* walk of inc_ref keeps, the new one once the walk has passed the entry,  *)
(* and the one that a walk of dec_ref takes away until it has passed it.   *)
Active(log, start, i, k) ==
    \/ k[1] = "held" /\ k[2] \in HeldRefs /\ Hit(log, k[2][1], i)
    \/ k[1] = "mine" /\ k[2] \in Role("inc") /\ Hit(log, lv[k[2]].mine, i)
    \/ k[1] = "new" /\ k[2] \in Role("inc") /\ Hit(log, lv[k[2]].range, i) /\ Passed(log, i, Pos(start, k[2]))
    \/ k[1] = "dec" /\ k[2] \in Role("dec") /\ Hit(log, lv[k[2]].range, i) /\ ~Passed(log, i, Pos(start, k[2]))
TokenSet == ({"held"} \X (Rs \X Nat)) \cup ({"mine", "new", "dec"} \X MiniThread)
Tokens(log, start, i) == {k \in TokenSet : Active(log, start, i, k)}
Counted(n) == IF n = 0 THEN AL_FREE ELSE n + 1

(* While a branch is filled every extent has one reference; those of an    *)
(* unkeyed allocator have one until the last dec_ref frees them.           *)
Building == keyed /\ (life = "open" \/ Role("release") # {})
Freed(start, i) == life = "gone" \/ \E t \in Role("dealloc") : Pos(start, t) >= i
(* The first extent counts the references to an unkeyed allocator, and the *)
(* blockers of a keyed one.                                                *)
FirstCount ==
    MINI_NO_REFS + IF keyed THEN Cardinality({t \in MiniThread : blocked[t] # {}})
                   ELSE held[Whole] + Cardinality(Role("prefetch"))
Unreached(start, e) ==
    \E t \in Role("deinit"), c \in DOMAIN meta : ExtentOf(c) = e /\ start[c] >= start[lv[t].page]

(* The count of an extent with pages, of one with meta pages, and of the   *)
(* others.                                                                 *)
DataRefs(log, start, i) ==
    IF Building THEN refc[log[i].extent] = AL_ONE_REF
    ELSE IF ~keyed THEN refc[log[i].extent] = IF Freed(start, i) THEN AL_FREE ELSE AL_ONE_REF
    ELSE /\ IsFiniteSet(Tokens(log, start, i))
         /\ refc[log[i].extent] = Counted(Cardinality(Tokens(log, start, i)))
MetaRefs(start, e) ==
    refc[e] = IF life = "gone" THEN IF Unreached(start, e) THEN AL_ONE_REF ELSE AL_FREE
              ELSE IF e = 1 THEN FirstCount ELSE AL_ONE_REF
RefInv(log, start, own) ==
    /\ \A e \in Ext : own[e] = Free => refc[e] = AL_FREE
    /\ \A b \in Batch : Pending(b) => refc[next_extent[b]] = AL_ONE_REF
    /\ \A t \in MiniThread : Flying(t) => refc[ExtentOf(lv[t].addr)] = AL_ONE_REF
    /\ \A a \in DOMAIN meta : MetaRefs(start, ExtentOf(a))
    /\ \A i \in DOMAIN log : Data(log, i) => DataRefs(log, start, i)

(* An iterator that blocks dec_ref has a reference to read under, or       *)
(* whoever took it waits for the iterator.                                 *)
BlockInv ==
    \A t \in MiniThread : \A r \in blocked[t] :
        \/ held[r] > 0
        \/ \E u \in Role("inc") : lv[u].mine = r
        \/ \E u \in MiniThread : mpc[u] = "wait_blockers" /\ lv[u].range = r

(* An allocator that is not gone has a reference or somebody who walks:    *)
(* somebody frees it.                                                      *)
LiveInv ==
    life # "gone" /\ ~Building =>
        (\E r \in Rs : held[r] > 0) \/ Walkers # {}

(* The dec_ref walks follow one another, each with a claim, so the last of *)
(* them knows from the counts it sees that it is the last: cleanup says    *)
(* whether there is a reference behind it.                                 *)
Behind(start, t) ==
    \/ \E r \in Rs : held[r] > 0
    \/ Role("inc") # {}
    \/ \E u \in Role("dec") : u # t /\ (mpc[u] \in WaitPCs \/ start[lv[u].page] < start[lv[t].page])
OrderInv(log, start) ==
    \A t \in Role("dec") :
        /\ ~lv[t].cleanup => Behind(start, t)
        /\ lv[t].cleanup /\ (\E i, j \in DOMAIN log : Top(log, i, j) /\ j <= Pos(start, t)) => ~Behind(start, t)

Inv(log, start, own) ==
    /\ TypeOK /\ RoleInv /\ ListInv(log, start) /\ ClaimInv /\ BatchInv(log) /\ OwnInv(log, own)
    /\ AddrInv(log) /\ KeyInv(log) /\ WalkInv(log, start) /\ RefInv(log, start, own)
    /\ BlockInv /\ LiveInv /\ OrderInv(log, start) /\ failed = {}

(* The invariant of the specification.                                     *)
IInv == \E log, start, own : Inv(log, start, own)
=============================================================================
