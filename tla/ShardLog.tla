------------------------------ MODULE ShardLog ------------------------------
(***************************************************************************)
(* The sharded log, shard_log.c: every thread fills log pages of its own,  *)
(* all from one mini allocator, so pages follow each other in the order in *)
(* which the threads took them.  A page gets its checksum, and is written  *)
(* out, when its thread finds no room for the next entry.  The iterator    *)
(* that reads a log after a crash (only tests call it) takes the pages in  *)
(* that order up to the first one without the magic number of the log and  *)
(* a valid checksum.                                                       *)
(*                                                                         *)
(* A page is a sequence of PageSlots units; an entry takes one or more of  *)
(* them.  What the thread has written is in the cache, and a copy on disk. *)
(* Cleaning is the cache at work on its own: it writes a page back and may *)
(* evict it once it is clean (clockcache.c).                               *)
(*                                                                         *)
(* The magic number of a log comes from a counter that starts again with   *)
(* the process: the pages of a log of an earlier process may pass for      *)
(* pages of this one.  They are the remains.                               *)
(***************************************************************************)
EXTENDS Integers, Sequences, SequencesExt

CONSTANTS
    Writer,
    PageSlots,      \* room of a page behind its header
    Entries,        \* what is logged: records of a generation and a size in units
    MaxEntries,     \* entries written in all
    MaxPages        \* pages of the extents the log has, or will have

VARIABLES
    pages,        \* log pages in the order of their allocation, in the cache
    disk,         \* what the disk has in the place of each, now or later
    clean,        \* pages whose entry has CC_CLEAN
    writing,      \* pages with CC_WRITEBACK
    thread_data,  \* addr and offset of each thread
    wpc,          \* "idle", or between filling a page and syncing it
    wrote,        \* number of entries each thread has written
    pending,      \* entry a thread is about to write
    entries,      \* calls of shard_log_write so far
    up,           \* FALSE after a crash
    replayed      \* what the iterator returned after it

logVars == <<pages, disk, clean, writing, thread_data, wpc, wrote, pending, entries, up, replayed>>

SHARD_UNMAPPED == 0
INVALID_GENERATION == -1
Garbage == [gen |-> 0, size |-> 1, by |-> "nobody", seq |-> 0]
Terminal == [Garbage EXCEPT !.gen = INVALID_GENERATION]
\* What is in a place no page of this log was written to: something that is not
\* a page of a log, or a page of an earlier one.
Blank == [slots |-> [i \in 1 .. PageSlots |-> Garbage], checksum |-> FALSE, num_entries |-> 0]
Remains == [Blank EXCEPT !.checksum = TRUE, !.num_entries = PageSlots]
Pg == DOMAIN pages
NoEntry == [gen |-> 0, size |-> 0]
Put(f, i, v) == [f EXCEPT ![i] = v]

(* shard_log_init *)
Init ==
    /\ pages = <<>> /\ disk \in [1 .. MaxPages -> {Blank, Remains}] /\ clean = {} /\ writing = {}
    /\ thread_data = [t \in Writer |-> [addr |-> SHARD_UNMAPPED, offset |-> 1]]
    /\ wpc = [t \in Writer |-> "idle"]
    /\ wrote = [t \in Writer |-> 0]
    /\ pending = [t \in Writer |-> NoEntry]
    /\ entries = 0
    /\ up = TRUE
    /\ replayed = <<>>

(* The slots of page with entry x of t at offset o. *)
Written(page, o, x, t) ==
    [page EXCEPT !.num_entries = @ + 1,
        !.slots = [i \in 1 .. PageSlots |-> IF i = o THEN [gen |-> x.gen, size |-> x.size, by |-> t, seq |-> wrote[t] + 1]
                                            ELSE IF i > o /\ i < o + x.size THEN Garbage ELSE page.slots[i]]]

(* shard_log_write, the entry fits in the page of the thread.  Its         *)
(* generation is the caller's (trunk_insert): that of the leaf the message *)
(* went to, of which each leaf of each memtable has its own.  It may be    *)
(* less than that of an earlier entry, or the same.                        *)
FreeSpace(t) == PageSlots + 1 - thread_data[t].offset
WriteFits(t, x) ==
    LET td == thread_data[t]
    IN  /\ up /\ wpc[t] = "idle" /\ entries < MaxEntries
        /\ td.addr # SHARD_UNMAPPED /\ td.addr \notin writing /\ x.size <= FreeSpace(t)
        /\ pages' = Put(pages, td.addr, Written(pages[td.addr], td.offset, x, t))
        /\ thread_data' = [thread_data EXCEPT ![t].offset = @ + x.size]
        /\ wrote' = [wrote EXCEPT ![t] = @ + 1]
        /\ entries' = entries + 1
        /\ UNCHANGED <<disk, clean, writing, wpc, pending, up, replayed>>

(* The page is full: terminal entry if there is room for one, checksum.    *)
(* The lock is released before the page is synced.                         *)
Terminated(page, o) ==
    [page EXCEPT !.checksum = TRUE,
        !.slots = IF o <= PageSlots THEN Put(page.slots, o, Terminal) ELSE page.slots]
FillPage(t, x) ==
    LET td == thread_data[t]
    IN  /\ up /\ wpc[t] = "idle" /\ entries < MaxEntries
        /\ td.addr # SHARD_UNMAPPED /\ td.addr \notin writing /\ x.size > FreeSpace(t)
        /\ pages' = Put(pages, td.addr, Terminated(pages[td.addr], td.offset))
        /\ wpc' = [wpc EXCEPT ![t] = "sync"]
        /\ pending' = [pending EXCEPT ![t] = x]
        /\ entries' = entries + 1
        /\ UNCHANGED <<disk, clean, writing, thread_data, wrote, up, replayed>>

(* get_new_page_for_thread and the entry behind the new header.  The page  *)
(* shows whatever the buffer had before.                                   *)
NewPage(t, x) ==
    /\ Len(pages) < MaxPages
    /\ pages' = Append(pages, Written(Blank, 1, x, t))
    /\ thread_data' = [thread_data EXCEPT ![t] = [addr |-> Len(pages) + 1, offset |-> 1 + x.size]]
    /\ wrote' = [wrote EXCEPT ![t] = @ + 1]
WriteNewPage(t) ==
    /\ up /\ wpc[t] = "next"
    /\ NewPage(t, pending[t])
    /\ wpc' = [wpc EXCEPT ![t] = "idle"]
    /\ pending' = [pending EXCEPT ![t] = NoEntry]
    /\ UNCHANGED <<disk, clean, writing, entries, up, replayed>>
WriteFirst(t, x) ==
    /\ up /\ wpc[t] = "idle" /\ entries < MaxEntries
    /\ thread_data[t].addr = SHARD_UNMAPPED
    /\ NewPage(t, x)
    /\ entries' = entries + 1
    /\ UNCHANGED <<disk, clean, writing, wpc, pending, up, replayed>>

-----------------------------------------------------------------------------
(* The cache. *)

(* A write that was issued ends: the disk has the page, which is clean. *)
WriteEnds(a) ==
    /\ up /\ a \in writing
    /\ disk' = Put(disk, a, pages[a])
    /\ clean' = clean \cup {a}
    /\ writing' = writing \ {a}
    /\ UNCHANGED <<pages, thread_data, wpc, wrote, pending, entries, up, replayed>>

(* The clock hand cleans a dirty page that nobody has locked. *)
Clean(a) ==
    /\ up /\ a \in Pg \ (clean \cup writing)
    /\ writing' = writing \cup {a}
    /\ UNCHANGED <<pages, disk, clean, thread_data, wpc, wrote, pending, entries, up, replayed>>

(* A clean page is evicted unless a thread has a reference; the next get   *)
(* loads it from the disk.                                                 *)
Current == {thread_data[t].addr : t \in Writer}
Syncing == {thread_data[t].addr : t \in {u \in Writer : wpc[u] = "sync"}}
Evict(a) ==
    /\ up /\ a \in clean \ Syncing
    /\ pages' = Put(pages, a, disk[a])
    /\ UNCHANGED <<disk, clean, writing, thread_data, wpc, wrote, pending, entries, up, replayed>>

-----------------------------------------------------------------------------
(* shard_log_iterator_init after a crash. *)

(* The first pass: pages up to the first one that is not valid. *)
\* mutant: an invalid page is skipped
ValidPagesAll == SelectSeq(disk, LAMBDA p : p.checksum)
ValidPages ==
    LET stop == {i \in DOMAIN disk : ~disk[i].checksum} \cup {Len(disk) + 1}
    IN  SubSeq(disk, 1, Min(stop) - 1)

(* The entries of a page: from the first slot, each behind the one before, *)
(* to the terminal entry or the end of the page.                           *)
PageEntries(p) ==
    LET from[i \in 1 .. 2 * PageSlots] ==
          IF i > PageSlots \/ p.slots[i].gen = INVALID_GENERATION THEN <<>>
          ELSE <<p.slots[i]>> \o from[i + p.slots[i].size]
    IN  from[1]

(* The second pass copies the entries and sorts them by generation. *)
Replay ==
    SortSeq(FlattenSeq([i \in DOMAIN ValidPages |-> PageEntries(ValidPages[i])]), LAMBDA x, y : x.gen < y.gen)

(* A crash: whatever has not reached the disk is gone, and the log is      *)
(* read.                                                                   *)
Dies == up' = FALSE /\ replayed' = Replay
Crash ==
    /\ up /\ Dies
    /\ UNCHANGED <<pages, disk, clean, writing, thread_data, wpc, wrote, pending, entries>>

(* clockcache_page_sync: a page that cannot be set to writeback must be    *)
(* clean already.  If the cleaner has just set it, the assertion fails and *)
(* the process dies.                                                       *)
SyncPage(t) ==
    LET a == thread_data[t].addr
    IN  /\ up /\ wpc[t] = "sync"
        /\ IF a \in writing THEN Dies ELSE UNCHANGED <<up, replayed>>
        /\ writing' = IF a \in clean THEN writing ELSE writing \cup {a}
        /\ wpc' = [wpc EXCEPT ![t] = "next"]
        /\ UNCHANGED <<pages, disk, clean, thread_data, wrote, pending, entries>>

LogStep(t) ==
    \/ \E x \in Entries : WriteFits(t, x) \/ FillPage(t, x) \/ WriteFirst(t, x)
    \/ SyncPage(t) \/ WriteNewPage(t)
Next ==
    \/ \E t \in Writer : LogStep(t)
    \/ \E a \in Pg : WriteEnds(a) \/ Clean(a) \/ Evict(a)
    \/ Crash
Spec == Init /\ [][Next]_logVars

-----------------------------------------------------------------------------
(* What the iterator finds after a crash is, of each thread, the first n   *)
(* entries that it wrote, each once, and nothing else: no entry without    *)
(* those before it, whatever order the threads filled their pages in and   *)
(* whatever writes were still under way (shard_log_iterator_init).         *)
(* Two things the code cannot promise are not claimed.  The entries come   *)
(* sorted by the generations of leaves, which across leaves and memtables  *)
(* is not the order of writing (trunk_insert).  And the iterator takes a   *)
(* page that an earlier process left in the place of one that was never    *)
(* written: the property is about replays that took no such page.          *)
RemainsTaken == \E i \in DOMAIN ValidPages : ValidPages[i] = Remains
ReplayIsPrefix ==
    ~up /\ ~RemainsTaken =>
        /\ \A i \in DOMAIN replayed : replayed[i].by \in Writer
        /\ \A t \in Writer :
             LET own == SelectSeq(replayed, LAMBDA x : x.by = t)
             IN  {own[i].seq : i \in DOMAIN own} = 1 .. Len(own)

(* A page that its thread has filled and synced is on the disk as it is in *)
(* the cache, or about to be written (shard_log_write, page_sync).         *)
SyncedPagesReachDisk ==
    \A a \in Pg \ Current : a \in writing \/ disk[a] = pages[a]
=============================================================================
