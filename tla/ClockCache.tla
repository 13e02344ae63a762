----------------------------- MODULE ClockCache -----------------------------
(***************************************************************************)
(* The page cache, clockcache.c: the status word and the distributed       *)
(* reference count of each entry, the lookup table from disk addresses to  *)
(* entries, and the threads that get, claim, lock, write, allocate and     *)
(* discard pages while any thread in need of a free entry cleans and       *)
(* evicts others.                                                          *)
(*                                                                         *)
(* Each access to a status word, a reference count, the lookup table or a  *)
(* disk address is one step where another thread can tell; the stores a    *)
(* thread makes under an entry's write lock, and the two of clockcache_get *)
(* that give back an entry of its own batch, are one.  A batch is one      *)
(* entry, and batch_busy[b] says that some thread has b as its free_hand   *)
(* or is cleaning it.  The positions of the clock hands are abstracted:    *)
(* any batch may be the next to be cleaned or evicted.  The content of a   *)
(* page is abstracted to whether it is what was last written to the page:  *)
(* in the memory of an entry (current) and on disk (saved).                *)
(*                                                                         *)
(* When a thread is given the wrong page, a request is put together from   *)
(* the wrong entries or an assertion fails, broken says which and the      *)
(* model stops: what the program does from there on is not described.      *)
(***************************************************************************)
EXTENDS Integers, Sequences, FiniteSets

CONSTANTS
    Thread,             \* registered threads
    Entry,              \* entries of the cache
    Page,               \* pages on disk
    None,               \* CC_UNMAPPED_ENTRY and CC_UNMAPPED_ADDR
    RcWidth,            \* CC_RC_WIDTH
    SlotOf,             \* tid % CC_RC_WIDTH: threads share counters
    Extents,            \* pages of the extents, as sequences
    AsyncThread,        \* threads that use cache_get_async for their gets
    Calls               \* bound: what the users of the cache call

Slot == 0 .. RcWidth - 1

ASSUME ThreadAssumption == IsFiniteSet(Thread)
ASSUME RcWidthAssumption == RcWidth \in Nat \ {0}
ASSUME SlotAssumption == SlotOf \in [Thread -> Slot]
ASSUME NoneAssumption == None \notin Entry \cup Page
ASSUME ExtentsAssumption == Extents \subseteq Seq(Page)
ASSUME AsyncAssumption == AsyncThread \subseteq Thread
ASSUME CallsAssumption == Calls \subseteq {"get", "alloc", "discard"}

VARIABLES
    status,         \* entry[].status, the set of its flags
    disk_addr,      \* entry[].page.disk_addr
    lookup,         \* cc->lookup
    refcount,       \* cc->refcount
    current,        \* entry[].page.data is what was last written to the page
    free_hand,      \* per_thread[].free_hand, a busy batch
    cleaning,       \* the batch a thread has made busy to clean it
    inflight,       \* pages being written from each entry's memory
    saved,          \* the page on disk is what was last written to it
    live,           \* pages of allocated extents
    pc,             \* next step of each thread
    op,             \* the call it is in
    want,           \* addr of the call
    ent,            \* entry_number of the call
    cand,           \* entry of the neighbour being cleaned
    span,           \* pages of a write back being put together
    edge,           \* page at the end of that span
    scan,           \* loop variable of the wait for readers
    given_up,       \* history: threads whose get was waiting for a load when
                    \* the asynchronous get that should have loaded gave it up
    broken          \* what has gone wrong for good, or "no"

entryVars == <<status, disk_addr, lookup, refcount, current>>
diskVars == <<inflight, saved, live>>
handVars == <<free_hand, cleaning, cand, span, edge>>
callVars == <<op, want, ent, scan, given_up>>
vars == <<entryVars, diskVars, handVars, callVars, pc, broken>>

FREE == {"FREE"}
ALLOC == {"WRITELOCKED", "CLAIMED"}
READ_LOADING == {"ACCESSED", "CLEAN", "LOADING"}
EVICTABLE == {"CLEAN"}
LOCKED_EVICTABLE == {"CLEAN", "CLAIMED", "WRITELOCKED"}

Has(e, f) == f \in status[e]

(* The page before (d = -1) or after (d = 1) p in its extent, or None. *)
Neighbour(p, d) ==
    LET next == {q \in Page : \E x \in Extents : \E k \in 1 .. Len(x) :
                    k + d \in 1 .. Len(x) /\ x[k] = p /\ x[k + d] = q}
    IN  IF next = {} THEN None ELSE CHOOSE q \in next : TRUE

BatchBusy(b) == \E t \in Thread : b \in {free_hand[t], cleaning[t]}

Init ==
    /\ status = [e \in Entry |-> FREE]
    /\ disk_addr = [e \in Entry |-> None]
    /\ lookup = [p \in Page |-> None]
    /\ refcount = [e \in Entry |-> [s \in Slot |-> 0]]
    /\ current = [e \in Entry |-> TRUE]
    /\ free_hand = [t \in Thread |-> None]
    /\ cleaning = [t \in Thread |-> None]
    /\ inflight = [e \in Entry |-> {}]
    /\ saved = [p \in Page |-> TRUE]
    /\ live = Page
    /\ pc = [t \in Thread |-> "idle"]
    /\ op = [t \in Thread |-> "none"]
    /\ want = [t \in Thread |-> None]
    /\ ent = [t \in Thread |-> None]
    /\ cand = [t \in Thread |-> None]
    /\ span = [t \in Thread |-> {}]
    /\ edge = [t \in Thread |-> None]
    /\ scan = [t \in Thread |-> 0]
    /\ given_up = {}
    /\ broken = "no"

Goto(t, from, to) ==
    /\ pc[t] = from
    /\ pc' = [pc EXCEPT ![t] = to]

SetFlags(e, fs) == status' = [status EXCEPT ![e] = @ \cup fs]
ClearFlags(e, fs) == status' = [status EXCEPT ![e] = @ \ fs]

IncRef(t, e) == refcount' = [refcount EXCEPT ![e][SlotOf[t]] = @ + 1]
DecRef(t, e) == refcount' = [refcount EXCEPT ![e][SlotOf[t]] = @ - 1]

Return(t) ==
    /\ op' = [op EXCEPT ![t] = "none"]
    /\ want' = [want EXCEPT ![t] = None]
    /\ ent' = [ent EXCEPT ![t] = None]
    /\ given_up' = given_up \ {t}
    /\ UNCHANGED scan

-----------------------------------------------------------------------------
(* clockcache_get and clockcache_get_async of a page somebody may use, and *)
(* the search for the entry that all calls on a page begin with.           *)

GetCall(t, p) ==
    /\ Goto(t, "idle", "lookup")
    /\ "get" \in Calls /\ p \in live
    /\ op' = [op EXCEPT ![t] = IF t \in AsyncThread THEN "async" ELSE "get"]
    /\ want' = [want EXCEPT ![t] = p]
    /\ UNCHANGED <<entryVars, diskVars, handVars, ent, scan, given_up, broken>>

LookupEntry(t) ==
    LET e == lookup[want[t]]
    IN  \/ /\ Goto(t, "lookup", "read")
           /\ e # None
           /\ ent' = [ent EXCEPT ![t] = e]
           /\ UNCHANGED <<entryVars, diskVars, handVars, op, want, scan, given_up,
                          broken>>
        \/ /\ Goto(t, "lookup", "take")
           /\ e = None /\ op[t] # "discard"
           /\ UNCHANGED <<entryVars, diskVars, handVars, callVars, broken>>
        \/ /\ Goto(t, "lookup", "idle")
           /\ e = None /\ op[t] = "discard"
           /\ Return(t)
           /\ UNCHANGED <<entryVars, diskVars, handVars, broken>>

(* clockcache_try_get_read.  A conflict makes cache_get and discard try    *)
(* again (clockcache_get_read); an asynchronous get returns async_locked.  *)
ReadTest(t) ==
    \/ /\ Goto(t, "read", "inc")
       /\ ~Has(ent[t], "WRITELOCKED")
       /\ UNCHANGED <<entryVars, diskVars, handVars, callVars, broken>>
    \/ /\ Goto(t, "read", "idle")
       /\ Has(ent[t], "WRITELOCKED") /\ op[t] = "async"
       /\ Return(t)
       /\ UNCHANGED <<entryVars, diskVars, handVars, broken>>

ReadInc(t) ==
    /\ Goto(t, "inc", "free")
    /\ IncRef(t, ent[t])
    /\ UNCHANGED <<status, disk_addr, lookup, current, diskVars, handVars,
                   callVars, broken>>

ReadTestFree(t) ==
    /\ Goto(t, "free", IF Has(ent[t], "FREE") THEN "evicted" ELSE "locked")
    /\ UNCHANGED <<entryVars, diskVars, handVars, callVars, broken>>

ReadTestLocked(t) ==
    /\ Goto(t, "locked", IF Has(ent[t], "WRITELOCKED") THEN "conflict"
                         ELSE "accessed")
    /\ UNCHANGED <<entryVars, diskVars, handVars, callVars, broken>>

SetAccessed(t) ==
    /\ Goto(t, "accessed", IF op[t] = "discard" THEN "loading" ELSE "addr")
    /\ SetFlags(ent[t], {"ACCESSED"})
    /\ UNCHANGED <<disk_addr, lookup, refcount, current, diskVars, handVars,
                   callVars, broken>>

(* The reference is given back and the call starts over, or returns        *)
(* async_locked.                                                           *)
ReadUndo(t) ==
    /\ pc[t] \in {"evicted", "conflict"}
    /\ DecRef(t, ent[t])
    /\ \/ /\ op[t] = "async"
          /\ pc' = [pc EXCEPT ![t] = "idle"]
          /\ Return(t)
       \/ /\ op[t] # "async"
          /\ pc' = [pc EXCEPT ![t] = IF pc[t] = "conflict" THEN "read"
                                     ELSE "lookup"]
          /\ ent' = [ent EXCEPT ![t] = IF pc[t] = "conflict" THEN @ ELSE None]
          /\ UNCHANGED <<op, want, scan, given_up>>
    /\ UNCHANGED <<status, disk_addr, lookup, current, diskVars, handVars,
                   broken>>

(* "this also means we raced with eviction and really lost" *)
AddrTest(t) ==
    /\ Goto(t, "addr", IF disk_addr[ent[t]] # want[t] THEN "evicted"
                       ELSE IF op[t] = "discard" THEN "d_claim"
                       ELSE "loading")
    /\ UNCHANGED <<entryVars, diskVars, handVars, callVars, broken>>

\* mutant: a page that is being loaded is returned
LoadingIgnored(t) ==
    /\ Goto(t, "loading", IF op[t] = "discard" THEN "addr" ELSE "held")
    /\ UNCHANGED <<entryVars, diskVars, handVars, callVars, broken>>

(* The wait for CC_LOADING; the page is not looked at again before it is   *)
(* returned.                                                               *)
LoadingTest(t) ==
    LET e == ent[t]
    IN  \/ /\ Goto(t, "loading", IF op[t] = "discard" THEN "addr" ELSE "held")
           /\ ~Has(e, "LOADING")
           /\ broken' = IF op[t] # "discard" /\ disk_addr[e] # want[t]
                        THEN "wrong page returned" ELSE broken
           /\ UNCHANGED <<entryVars, diskVars, handVars, callVars>>
        \/ /\ Goto(t, "loading", "evicted")
           /\ Has(e, "LOADING") /\ op[t] = "async"
           /\ UNCHANGED <<entryVars, diskVars, handVars, callVars, broken>>

-----------------------------------------------------------------------------
(* A miss: clockcache_get_free_page has returned an entry in status        *)
(* READ_LOADING.                                                           *)

MapPage(t) ==
    LET p == want[t]
    IN  /\ pc[t] = "map" /\ op[t] # "alloc"
        /\ \/ /\ lookup[p] = None
              /\ lookup' = [lookup EXCEPT ![p] = ent[t]]
              /\ pc' = [pc EXCEPT ![t] = "setaddr"]
           \/ /\ lookup[p] # None
              /\ pc' = [pc EXCEPT ![t] = "abort"]
              /\ UNCHANGED lookup
        /\ UNCHANGED <<status, disk_addr, refcount, current, diskVars, handVars,
                       callVars, broken>>

(* Someone else is loading the page: the entry is free again.  The two     *)
(* stores come in different orders in clockcache_get_internal and          *)
(* clockcache_get_async, and only the batch's owner takes a free entry.    *)
MapAbort(t) ==
    LET e == ent[t]
    IN  /\ pc[t] = "abort"
        /\ DecRef(t, e)
        /\ status' = [status EXCEPT ![e] = FREE]
        /\ \/ /\ op[t] = "async"
              /\ pc' = [pc EXCEPT ![t] = "idle"]
              /\ Return(t)
           \/ /\ op[t] # "async"
              /\ pc' = [pc EXCEPT ![t] = "lookup"]
              /\ ent' = [ent EXCEPT ![t] = None]
              /\ UNCHANGED <<op, want, scan, given_up>>
        /\ UNCHANGED <<disk_addr, lookup, current, diskVars, handVars, broken>>

SetAddr(t) ==
    /\ Goto(t, "setaddr", IF op[t] = "async" THEN "request" ELSE "load")
    /\ disk_addr' = [disk_addr EXCEPT ![ent[t]] = want[t]]
    /\ UNCHANGED <<status, lookup, refcount, current, diskVars, handVars,
                   callVars, broken>>

(* io_get_async_req does not wait: there is a request, or the page is      *)
(* unmapped again (async_no_reqs).                                         *)
Request(t) ==
    \/ /\ Goto(t, "request", "load")
       /\ UNCHANGED <<entryVars, diskVars, handVars, callVars, broken>>
    \/ /\ Goto(t, "request", "unmap")
       /\ lookup' = [lookup EXCEPT ![want[t]] = None]
       /\ UNCHANGED <<status, disk_addr, refcount, current, diskVars, handVars,
                      callVars, broken>>

\* Gets that wait for e to be loaded, having found their page in it.
WaitingFor(e) == {u \in Thread : pc[u] = "loading" /\ op[u] # "discard" /\ ent[u] = e}

NoReqsUnmap(t) ==
    /\ Goto(t, "unmap", "release")
    /\ disk_addr' = [disk_addr EXCEPT ![ent[t]] = None]
    /\ given_up' = given_up \cup WaitingFor(ent[t])
    /\ UNCHANGED <<status, lookup, refcount, current, diskVars, handVars, op, want, ent, scan, broken>>

NoReqsRelease(t) ==
    /\ Goto(t, "release", "evicted")
    /\ status' = [status EXCEPT ![ent[t]] = FREE]
    /\ UNCHANGED <<disk_addr, lookup, refcount, current, diskVars, handVars,
                   callVars, broken>>

(* io_read, or the read of an asynchronous get completes, and CC_LOADING   *)
(* is cleared.                                                             *)
Load(t) ==
    LET e == ent[t]
    IN  /\ Goto(t, "load", "held")
        /\ current' = [current EXCEPT ![e] = saved[want[t]]]
        /\ ClearFlags(e, {"LOADING"})
        /\ UNCHANGED <<disk_addr, lookup, refcount, diskVars, handVars,
                       callVars, broken>>

-----------------------------------------------------------------------------
(* Operations on a page the thread has. *)

Unget(t) ==
    /\ pc[t] \in {"held", "synced"}
    /\ pc' = [pc EXCEPT ![t] = "idle"]
    /\ SetFlags(ent[t], {"ACCESSED"})
    /\ DecRef(t, ent[t])
    /\ Return(t)
    /\ UNCHANGED <<disk_addr, lookup, current, diskVars, handVars, broken>>

(* clockcache_try_claim; when it fails nothing changes. *)
TryClaim(t) ==
    /\ Goto(t, "held", "claimed")
    /\ ~Has(ent[t], "CLAIMED")
    /\ SetFlags(ent[t], {"CLAIMED"})
    /\ UNCHANGED <<disk_addr, lookup, refcount, current, diskVars, handVars,
                   callVars, broken>>

Unclaim(t) ==
    /\ Goto(t, "claimed", "held")
    /\ ClearFlags(ent[t], {"CLAIMED"})
    /\ UNCHANGED <<disk_addr, lookup, refcount, current, diskVars, handVars,
                   callVars, broken>>

(* clockcache_get_write: set the flag, wait for the write back, then for   *)
(* the readers, one counter after the other.                               *)
LockSet(t) ==
    /\ pc[t] \in {"claimed", "d_lock"}
    /\ pc' = [pc EXCEPT ![t] = "lock_flush"]
    /\ SetFlags(ent[t], {"WRITELOCKED"})
    /\ UNCHANGED <<disk_addr, lookup, refcount, current, diskVars, handVars,
                   callVars, broken>>

\* mutant: the write back is not waited for
LockNoFlush(t) ==
    /\ Goto(t, "lock_flush", "lock_drain")
    /\ UNCHANGED <<entryVars, diskVars, handVars, callVars, broken>>

LockFlush(t) ==
    /\ Goto(t, "lock_flush", "lock_drain")
    /\ ~Has(ent[t], "WRITEBACK")
    /\ UNCHANGED <<entryVars, diskVars, handVars, callVars, broken>>

(* The thread's own reference is in the counter of its slot. *)
NoReader(t, e, s) == refcount[e][s] <= IF s = SlotOf[t] THEN 1 ELSE 0

LockDrain(t) ==
    LET last == scan[t] = RcWidth - 1
    IN  /\ Goto(t, "lock_drain", IF ~last THEN "lock_drain"
                                 ELSE IF op[t] = "discard" THEN "d_unmap"
                                 ELSE "write")
        /\ NoReader(t, ent[t], scan[t])
        /\ scan' = [scan EXCEPT ![t] = IF last THEN 0 ELSE @ + 1]
        /\ UNCHANGED <<entryVars, diskVars, handVars, op, want, ent, given_up, broken>>

MarkDirty(t) ==
    /\ Goto(t, "write", "write")
    /\ Has(ent[t], "CLEAN")
    /\ ClearFlags(ent[t], {"CLEAN"})
    /\ UNCHANGED <<disk_addr, lookup, refcount, current, diskVars, handVars,
                   callVars, broken>>

(* A user changes a page it has locked and marked dirty. *)
Write(t) ==
    /\ pc[t] = "write"
    /\ ~Has(ent[t], "CLEAN")
    /\ current' = [e \in Entry |-> e = ent[t] \/
                      (disk_addr[e] # want[t] /\ current[e])]
    /\ saved' = [saved EXCEPT ![want[t]] = FALSE]
    /\ UNCHANGED <<status, disk_addr, lookup, refcount, inflight, live,
                   handVars, callVars, pc, broken>>

Unlock(t) ==
    /\ Goto(t, "write", "claimed")
    /\ ClearFlags(ent[t], {"WRITELOCKED"})
    /\ UNCHANGED <<disk_addr, lookup, refcount, current, diskVars, handVars,
                   callVars, broken>>

-----------------------------------------------------------------------------
(* Write back *)

(* CC_CLEANABLE1_STATUS and, if urgent, CC_CLEANABLE2_STATUS *)
Cleanable(e) == status[e] \subseteq {"ACCESSED"}

(* clockcache_page_sync by the only user of a page. *)
PageSync(t) ==
    LET e == ent[t]
        set == Cleanable(e)
    IN  /\ Goto(t, "held", "synced")
        /\ \A u \in Thread \ {t} : want[u] # want[t]
        /\ status' = [status EXCEPT ![e] = @ \cup IF set THEN {"WRITEBACK"}
                                                 ELSE {}]
        /\ inflight' = [inflight EXCEPT ![e] = @ \cup IF set THEN {want[t]}
                                                     ELSE {}]
        /\ broken' = IF set \/ Has(e, "CLEAN") THEN broken ELSE "page_sync"
        /\ UNCHANGED <<disk_addr, lookup, refcount, current, saved, live,
                       handVars, callVars>>

(* The device has written the page; clockcache_write_callback sets         *)
(* CC_CLEAN and then clears CC_WRITEBACK.                                  *)
WriteDone(e) ==
    /\ inflight[e] # {} /\ ~Has(e, "CLEAN")
    /\ saved' = [p \in Page |-> IF p \in inflight[e]
                               THEN disk_addr[e] = p /\ current[e]
                               ELSE saved[p]]
    /\ SetFlags(e, {"CLEAN"})
    /\ UNCHANGED <<disk_addr, lookup, refcount, current, inflight, live, handVars, callVars, pc, broken>>

WriteClear(e) ==
    /\ inflight[e] # {} /\ Has(e, "CLEAN")
    /\ inflight' = [inflight EXCEPT ![e] = {}]
    /\ ClearFlags(e, {"WRITEBACK"})
    /\ UNCHANGED <<disk_addr, lookup, refcount, current, saved, live, handVars, callVars, pc, broken>>

-----------------------------------------------------------------------------
(* clockcache_get_free_page: take the entry of the thread's own batch, or  *)
(* move the hand.                                                          *)

TakeFree(t) ==
    LET b == free_hand[t]
    IN  /\ Goto(t, "take", "got")
        /\ b # None /\ status[b] = FREE
        /\ status' = [status EXCEPT ![b] = ALLOC]
        /\ ent' = [ent EXCEPT ![t] = b]
        /\ UNCHANGED <<disk_addr, lookup, refcount, current, diskVars, handVars,
                       op, want, scan, given_up, broken>>

(* The entry is the thread's own, so the count and the status are one      *)
(* step: nobody waits for its readers to leave.                            *)
TakeStatus(t) ==
    /\ Goto(t, "got", "map")
    /\ IncRef(t, ent[t])
    /\ status' = [status EXCEPT ![ent[t]] = IF op[t] = "alloc" THEN ALLOC
                                            ELSE READ_LOADING]
    /\ UNCHANGED <<disk_addr, lookup, current, diskVars, handVars, callVars,
                   broken>>

NothingToTake(t) == free_hand[t] # None => status[free_hand[t]] # FREE

(* After three passes a get that does not block gives up. *)
GiveUp(t) ==
    /\ Goto(t, "take", "idle")
    /\ op[t] = "async" /\ NothingToTake(t)
    /\ Return(t)
    /\ UNCHANGED <<entryVars, diskVars, handVars, broken>>

(* clockcache_move_hand: let go of the old batch, clean some batch that is *)
(* not busy, and take another one to evict from.                           *)
MoveHand(t) ==
    /\ Goto(t, "take", "hand")
    /\ NothingToTake(t)
    /\ free_hand' = [free_hand EXCEPT ![t] = None]
    /\ UNCHANGED <<entryVars, diskVars, cleaning, cand, span, edge, callVars,
                   broken>>

HandClean(t, b) ==
    /\ Goto(t, "hand", "clean")
    /\ ~BatchBusy(b)
    /\ cleaning' = [cleaning EXCEPT ![t] = b]
    /\ UNCHANGED <<entryVars, diskVars, free_hand, cand, span, edge, callVars,
                   broken>>

HandTake(t, b) ==
    /\ Goto(t, "hand", "e_test")
    /\ ~BatchBusy(b)
    /\ free_hand' = [free_hand EXCEPT ![t] = b]
    /\ UNCHANGED <<entryVars, diskVars, cleaning, cand, span, edge, callVars,
                   broken>>

(* clockcache_batch_start_writeback of a batch; accessed pages are left    *)
(* out unless it is urgent.                                                *)
CleanSet(t) ==
    LET e == cleaning[t]
    IN  /\ Goto(t, "clean", "back")
        /\ Cleanable(e)
        /\ SetFlags(e, {"WRITEBACK"})
        /\ span' = [span EXCEPT ![t] = {<<disk_addr[e], e>>}]
        /\ edge' = [edge EXCEPT ![t] = disk_addr[e]]
        /\ UNCHANGED <<disk_addr, lookup, refcount, current, diskVars,
                       free_hand, cleaning, cand, callVars, broken>>

CleanSkip(t) ==
    /\ Goto(t, "clean", "hand")
    /\ status[cleaning[t]] # {}
    /\ cleaning' = [cleaning EXCEPT ![t] = None]
    /\ UNCHANGED <<entryVars, diskVars, free_hand, cand, span, edge,
                   callVars, broken>>

(* The walk to the neighbours in the extent, backwards and then forwards:  *)
(* look the neighbour up, then try to set CC_WRITEBACK on its entry.       *)
NextPage(t) == Neighbour(edge[t], IF pc[t] \in {"back", "back_set"} THEN -1
                                  ELSE 1)

WalkEnd(t) ==
    /\ pc' = [pc EXCEPT ![t] = IF @ \in {"back", "back_set"} THEN "forward"
                               ELSE "submit"]
    /\ edge' = [edge EXCEPT ![t] = disk_addr[cleaning[t]]]

NeighbourLookup(t) ==
    LET p == NextPage(t)
        found == p # None => lookup[p] # None
    IN  /\ pc[t] \in {"back", "forward"}
        /\ \/ /\ p # None /\ found
              /\ cand' = [cand EXCEPT ![t] = lookup[p]]
              /\ pc' = [pc EXCEPT ![t] = IF @ = "back" THEN "back_set"
                                         ELSE "forward_set"]
              /\ UNCHANGED edge
           \/ /\ p = None \/ ~found
              /\ WalkEnd(t)
              /\ UNCHANGED cand
        /\ UNCHANGED <<entryVars, diskVars, free_hand, cleaning, span,
                       callVars, broken>>

NeighbourSet(t) ==
    LET e == cand[t]
    IN  /\ pc[t] \in {"back_set", "forward_set"}
        /\ cand' = [cand EXCEPT ![t] = None]
        /\ \/ /\ Cleanable(e)
              /\ SetFlags(e, {"WRITEBACK"})
              /\ span' = [span EXCEPT ![t] = @ \cup {<<NextPage(t), e>>}]
              /\ edge' = [edge EXCEPT ![t] = NextPage(t)]
              /\ pc' = [pc EXCEPT ![t] = IF @ = "back_set" THEN "back"
                                         ELSE "forward"]
           \/ /\ status[e] # {}
              /\ WalkEnd(t)
              /\ UNCHANGED <<status, span>>
        /\ UNCHANGED <<disk_addr, lookup, refcount, current, diskVars,
                       free_hand, cleaning, callVars, broken>>

(* The pages of the request are looked up once more and the write begins.  *)
(* An entry other than the one whose CC_WRITEBACK was set is not protected *)
(* from anybody, and with no entry there is no memory to write.            *)
CleanSubmit(t) ==
    LET right == \A x \in span[t] : lookup[x[1]] = x[2]
    IN  /\ Goto(t, "submit", "hand")
        /\ inflight' = [e \in Entry |-> inflight[e] \cup
                           {p \in Page : <<p, e>> \in span[t]}]
        /\ broken' = IF right THEN broken ELSE "wrong page written back"
        /\ cleaning' = [cleaning EXCEPT ![t] = None]
        /\ span' = [span EXCEPT ![t] = {}]
        /\ edge' = [edge EXCEPT ![t] = None]
        /\ UNCHANGED <<entryVars, saved, live, free_hand, cand,
                       callVars>>

-----------------------------------------------------------------------------
(* clockcache_try_evict of the entry of the batch the hand has moved to:   *)
(* fast tests, read lock, claim, write lock, and the tests again.          *)

EvictTest(t) ==
    LET e == free_hand[t]
    IN  /\ Goto(t, "e_test", IF status[e] = EVICTABLE
                                /\ refcount[e][SlotOf[t]] = 0
                             THEN "e_read" ELSE "take")
        /\ ClearFlags(e, {"ACCESSED"})
        /\ UNCHANGED <<disk_addr, lookup, refcount, current, diskVars, handVars,
                       callVars, broken>>

(* The reads of the status word on the way, in the order of the code. *)
EvictReads(t) ==
    LET e == free_hand[t]
        Branch(at, yes, then, else) == Goto(t, at, IF yes THEN then ELSE else)
    IN  /\ \/ Branch("e_read", Has(e, "WRITELOCKED"), "take", "e_inc")
           \/ Branch("e_free", Has(e, "FREE"), "e_dec", "e_locked")
           \/ Branch("e_locked", Has(e, "WRITELOCKED"), "e_dec", "e_claim")
           \/ Branch("e_loading", Has(e, "LOADING"), "e_unclaim", "e_lock")
           \/ Branch("e_flush", Has(e, "WRITEBACK"), "e_unlock", "e_drain")
        /\ UNCHANGED <<entryVars, diskVars, handVars, callVars, broken>>

EvictRef(t) ==
    LET e == free_hand[t]
    IN  /\ \/ Goto(t, "e_inc", "e_free") /\ IncRef(t, e)
           \/ Goto(t, "e_dec", "take") /\ DecRef(t, e)
        /\ UNCHANGED <<status, disk_addr, lookup, current, diskVars, handVars,
                       callVars, broken>>

(* clockcache_try_get_claim, clockcache_try_get_write, their release, and  *)
(* the status CC_FREE of an evicted entry.                                 *)
EvictFlags(t) ==
    LET e == free_hand[t]
    IN  /\ \/ /\ Goto(t, "e_claim", IF Has(e, "CLAIMED") THEN "e_dec"
                                    ELSE "e_loading")
              /\ SetFlags(e, {"CLAIMED"})
           \/ Goto(t, "e_lock", "e_flush") /\ SetFlags(e, {"WRITELOCKED"})
           \/ Goto(t, "e_unlock", "e_unclaim")
                 /\ ClearFlags(e, {"WRITELOCKED"})
           \/ Goto(t, "e_unclaim", "e_dec") /\ ClearFlags(e, {"CLAIMED"})
           \/ Goto(t, "e_release", "e_dec")
                 /\ status' = [status EXCEPT ![e] = FREE]
        /\ UNCHANGED <<disk_addr, lookup, refcount, current, diskVars, handVars,
                       callVars, broken>>

EvictDrain(t) ==
    LET last == scan[t] = RcWidth - 1
        idle == NoReader(t, free_hand[t], scan[t])
    IN  /\ Goto(t, "e_drain", IF ~idle THEN "e_unlock"
                              ELSE IF last THEN "e_verify" ELSE "e_drain")
        /\ scan' = [scan EXCEPT ![t] = IF idle /\ ~last THEN @ + 1 ELSE 0]
        /\ UNCHANGED <<entryVars, diskVars, handVars, op, want, ent, given_up, broken>>

\* mutant: what the fast test has seen is taken to hold
EvictTrusting(t) ==
    /\ Goto(t, "e_verify", "e_unmap")
    /\ UNCHANGED <<entryVars, diskVars, handVars, callVars, broken>>

(* The page may have been changed before the lock was obtained. *)
EvictVerify(t) ==
    /\ Goto(t, "e_verify", IF status[free_hand[t]] = LOCKED_EVICTABLE
                           THEN "e_unmap" ELSE "e_unlock")
    /\ UNCHANGED <<entryVars, diskVars, handVars, callVars, broken>>

EvictUnmap(t) ==
    LET e == free_hand[t]
    IN  /\ Goto(t, "e_unmap", "e_release")
        /\ lookup' = [p \in Page |-> IF p = disk_addr[e] THEN None
                                     ELSE lookup[p]]
        /\ disk_addr' = [disk_addr EXCEPT ![e] = None]
        /\ UNCHANGED <<status, refcount, current, diskVars, handVars, callVars,
                       broken>>

-----------------------------------------------------------------------------
(* clockcache_alloc of a page of an extent that has just been allocated:   *)
(* its content is whatever the entry's memory holds.                       *)

Unused(p) == \A t \in Thread : want[t] # p

AllocCall(t, p) ==
    /\ Goto(t, "idle", "take")
    /\ "alloc" \in Calls /\ p \notin live /\ Unused(p)
    /\ op' = [op EXCEPT ![t] = "alloc"]
    /\ want' = [want EXCEPT ![t] = p]
    /\ UNCHANGED <<entryVars, diskVars, handVars, ent, scan, given_up, broken>>

AllocAddr(t) ==
    /\ Goto(t, "map", "a_map")
    /\ op[t] = "alloc"
    /\ disk_addr' = [disk_addr EXCEPT ![ent[t]] = want[t]]
    /\ UNCHANGED <<status, lookup, refcount, current, diskVars, handVars,
                   callVars, broken>>

AllocMap(t) ==
    LET p == want[t]
    IN  /\ Goto(t, "a_map", "write")
        /\ lookup' = [lookup EXCEPT ![p] = ent[t]]
        /\ current' = [current EXCEPT ![ent[t]] = TRUE]
        /\ saved' = [saved EXCEPT ![p] = FALSE]
        /\ live' = live \cup {p}
        /\ op' = [op EXCEPT ![t] = "get"]
        /\ UNCHANGED <<status, disk_addr, refcount, inflight, handVars, want, ent, scan, given_up, broken>>

(* clockcache_try_page_discard of a page whose extent has no users left.   *)
DiscardCall(t, p) ==
    /\ Goto(t, "idle", "lookup")
    /\ "discard" \in Calls /\ p \in live /\ Unused(p)
    /\ live' = live \ {p}
    /\ op' = [op EXCEPT ![t] = "discard"]
    /\ want' = [want EXCEPT ![t] = p]
    /\ UNCHANGED <<entryVars, inflight, saved, handVars, ent,
                   scan, given_up, broken>>

DiscardClaim(t) ==
    /\ Goto(t, "d_claim", IF Has(ent[t], "CLAIMED") THEN "evicted"
                          ELSE "d_lock")
    /\ SetFlags(ent[t], {"CLAIMED"})
    /\ UNCHANGED <<disk_addr, lookup, refcount, current, diskVars, handVars,
                   callVars, broken>>

DiscardUnmap(t) ==
    /\ Goto(t, "d_unmap", "d_release")
    /\ lookup' = [lookup EXCEPT ![want[t]] = None]
    /\ disk_addr' = [disk_addr EXCEPT ![ent[t]] = None]
    /\ UNCHANGED <<status, refcount, current, diskVars, handVars, callVars,
                   broken>>

DiscardRelease(t) ==
    /\ Goto(t, "d_release", "d_dec")
    /\ status' = [status EXCEPT ![ent[t]] = FREE]
    /\ UNCHANGED <<disk_addr, lookup, refcount, current, diskVars, handVars,
                   callVars, broken>>

DiscardDec(t) ==
    /\ Goto(t, "d_dec", "idle")
    /\ DecRef(t, ent[t])
    /\ Return(t)
    /\ UNCHANGED <<status, disk_addr, lookup, current, diskVars, handVars,
                   broken>>

-----------------------------------------------------------------------------
CallStep(t) ==
    \/ LookupEntry(t) \/ ReadTest(t) \/ ReadInc(t) \/ ReadTestFree(t)
    \/ ReadTestLocked(t) \/ SetAccessed(t) \/ ReadUndo(t) \/ AddrTest(t)
    \/ LoadingTest(t)
    \/ MapPage(t) \/ MapAbort(t) \/ SetAddr(t) \/ Request(t)
    \/ NoReqsUnmap(t) \/ NoReqsRelease(t) \/ Load(t)
    \/ LockFlush(t) \/ LockDrain(t)
    \/ AllocAddr(t) \/ AllocMap(t)
    \/ DiscardClaim(t) \/ DiscardUnmap(t) \/ DiscardRelease(t)
    \/ DiscardDec(t)

HandStep(t) ==
    \/ TakeFree(t) \/ TakeStatus(t) \/ GiveUp(t) \/ MoveHand(t)
    \/ \E b \in Entry : HandClean(t, b) \/ HandTake(t, b)
    \/ CleanSet(t) \/ CleanSkip(t) \/ NeighbourLookup(t) \/ NeighbourSet(t)
    \/ CleanSubmit(t)

EvictStep(t) ==
    \/ EvictTest(t) \/ EvictReads(t) \/ EvictRef(t) \/ EvictFlags(t)
    \/ EvictDrain(t) \/ EvictVerify(t) \/ EvictUnmap(t)

UserStep(t) ==
    \/ \E p \in Page : GetCall(t, p) \/ AllocCall(t, p) \/ DiscardCall(t, p)
    \/ Unget(t) \/ TryClaim(t) \/ Unclaim(t) \/ LockSet(t) \/ MarkDirty(t)
    \/ Write(t) \/ Unlock(t) \/ PageSync(t)

Next ==
    \/ /\ broken = "no"
       /\ \/ \E t \in Thread :
                CallStep(t) \/ HandStep(t) \/ EvictStep(t) \/ UserStep(t)
          \/ \E e \in Entry : WriteDone(e) \/ WriteClear(e)
    \/ broken # "no" /\ UNCHANGED vars

Spec == Init /\ [][Next]_vars

-----------------------------------------------------------------------------
Flag == {"FREE", "ACCESSED", "CLEAN", "WRITEBACK", "LOADING", "WRITELOCKED",
         "CLAIMED"}

(* Every variable has its type; in particular no reference is given back   *)
(* twice on any way out of try_get_read, get, get_async, try_evict and     *)
(* try_page_discard, so that no reference count goes below zero.           *)
TypeOK ==
    /\ status \in [Entry -> SUBSET Flag]
    /\ disk_addr \in [Entry -> Page \cup {None}]
    /\ lookup \in [Page -> Entry \cup {None}]
    /\ refcount \in [Entry -> [Slot -> Nat]]
    /\ current \in [Entry -> BOOLEAN]
    /\ free_hand \in [Thread -> Entry \cup {None}]
    /\ cleaning \in [Thread -> Entry \cup {None}]
    /\ inflight \in [Entry -> SUBSET Page]
    /\ saved \in [Page -> BOOLEAN]
    /\ live \subseteq Page
    /\ op \in [Thread -> {"none", "get", "async", "alloc", "discard"}]
    /\ want \in [Thread -> Page \cup {None}]
    /\ ent \in [Thread -> Entry \cup {None}]
    /\ cand \in [Thread -> Entry \cup {None}]
    /\ scan \in [Thread -> Slot]
    /\ given_up \subseteq Thread

(* The thread has been given the page. *)
Holds(t) ==
    /\ pc[t] \in {"held", "synced", "claimed", "lock_flush", "lock_drain",
                  "write"}
    /\ op[t] # "discard"

(* A thread that cache_get or cache_get_async has given a page has the     *)
(* entry that the lookup table names, loaded, with what was last written   *)
(* to the page, however eviction, write back, reloading and discarding of  *)
(* that entry interleave with the steps of the get.  There is one          *)
(* exception, and it is the only one: a get that was waiting for a load    *)
(* when an asynchronous get gave that load up (given_up) may return any    *)
(* entry, as GetReturnsItsPage shows.  The states in which broken has just *)
(* been set are not excepted.                                              *)
HoldersSeeLastWrite ==
    \A t \in Thread : Holds(t) /\ t \notin given_up =>
        /\ disk_addr[ent[t]] = want[t]
        /\ lookup[want[t]] = ent[t]
        /\ status[ent[t]] \cap {"FREE", "LOADING"} = {}
        /\ current[ent[t]]

(* The thread has set CC_CLAIMED of the entry and not cleared it. *)
Claims(t, e) ==
    \/ /\ ent[t] = e
       /\ pc[t] \in {"claimed", "lock_flush", "lock_drain", "write", "d_lock",
                     "d_unmap", "d_release"}
    \/ /\ free_hand[t] = e
       /\ pc[t] \in {"e_loading", "e_lock", "e_flush", "e_drain", "e_verify",
                     "e_unmap", "e_release", "e_unlock", "e_unclaim"}

(* The thread that clockcache_lock or clockcache_alloc has given the write *)
(* lock of a page is alone: no other thread has the page, and no write     *)
(* back is reading it.  Of the users that call clockcache_try_claim on a   *)
(* page, the discarder and the evictor that try to claim its entry, one    *)
(* has the claim.                                                          *)
PageWriterAlone ==
    broken = "no" =>
        /\ \A t \in Thread : pc[t] = "write" =>
              /\ inflight[ent[t]] = {}
              /\ \A u \in Thread \ {t} : Holds(u) => ent[u] # ent[t]
        /\ \A e \in Entry : \A t, u \in Thread : Claims(t, e) /\ Claims(u, e) => t = u

(* clockcache_try_evict never throws away the only copy of a write: a page *)
(* in use by the store is on disk as last written, or cached, dirty, in    *)
(* the entry that the lookup table names.                                  *)
NothingLost ==
    broken = "no" => \A p \in live :
        \/ saved[p]
        \/ \E e \in Entry : /\ lookup[p] = e /\ disk_addr[e] = p
                            /\ current[e] /\ status[e] \cap {"CLEAN", "FREE"} = {}

(* "Returns a pointer to the page_handle for the page with address addr",  *)
(* clockcache.c:2262, of clockcache_get.                                   *)
GetReturnsItsPage == broken # "wrong page returned"

=============================================================================
