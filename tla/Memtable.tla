------------------------------ MODULE Memtable ------------------------------
(***************************************************************************)
(* The memtable protocol: memtable.c, memtable.h and the memtable part of  *)
(* trunk.c.                                                                *)
(*                                                                         *)
(* NumMemtables slots are used round robin, generation g living in slot    *)
(* g % NumMemtables.  Inserts go to the memtable of ctxt->generation; a    *)
(* full memtable is finalized, compacted into a branch by a task of the    *)
(* task system, incorporated into the trunk root in generation order, and  *)
(* its slot is recycled when the last reference to it is gone.  Lookups    *)
(* and range iterators walk the memtables from ctxt->generation down to    *)
(* ctxt->generation_retired, then the trunk.                               *)
(*                                                                         *)
(* The two locks of ctxt->rwlock are atomic reader/claim/writer locks      *)
(* (RWLock), which BatchRWLock implements.  A section under                *)
(* incorporation_mutex is one step: all it shares with code outside the    *)
(* mutex is one compare-and-swap of a memtable state.                      *)
(*                                                                         *)
(* Data is one key.  A write is a message, definitive (an insert or a      *)
(* delete) or an update; a tree's content is the sequence of messages it   *)
(* has for the key, and what a lookup returns is the sequence it merged.   *)
(***************************************************************************)
EXTENDS Integers, Sequences, FiniteSets

CONSTANTS
    NumMemtables,   \* cfg.max_memtables, TRUNK_NUM_MEMTABLES
    Writer,         \* threads that call trunk_insert and splinterdb_close
    Reader,         \* threads that look up or iterate
    Worker,         \* background threads, or any thread that runs a task
    MaxMsgs         \* bound: messages written

(* TRUNK_NUM_MEMTABLES is 4; with one memtable nothing could be rotated to *)
(* while it is flushed.  A thread plays one part.                          *)
ASSUME MemtableAssumption ==
    /\ NumMemtables \in Nat \ {0, 1}
    /\ IsFiniteSet(Reader)
    /\ Writer \cap Reader = {} /\ Writer \cap Worker = {} /\ Reader \cap Worker = {}

Thread == Writer \cup Reader \cup Worker
Slot == 0 .. NumMemtables - 1
SlotOf(g) == g % NumMemtables

VARIABLES
    generation,                 \* ctxt->generation
    generation_to_incorporate,  \* ctxt->generation_to_incorporate
    generation_retired,         \* ctxt->generation_retired, -1 at first
    is_empty,                   \* ctxt->is_empty
    state,                      \* mt[].state
    mt_generation,              \* mt[].generation
    refs,                       \* references on mt[].root_addr
    full,                       \* memtable_is_full(mt[])
    content,                    \* messages in mt[].root_addr
    branch,                     \* messages in compacted_memtable[].branch
    root,                       \* messages in the trunk below spl->root_addr
    insert_lock,                \* rwlock[MEMTABLE_INSERT_LOCK_IDX]
    lookup_lock,                \* rwlock[MEMTABLE_LOOKUP_LOCK_IDX]
    root_claim,                 \* who holds the claim on trunk_root_lock
    queue,                      \* waiting TASK_TYPE_MEMTABLE tasks
    pc,                         \* next step of each thread
    gen,                        \* generation each thread works on
    pinned,                     \* memtables an iterator holds references on
    acc,                        \* merge accumulator of a lookup
    new_root,                   \* content of a copied root not switched in
    hist,                       \* all messages, in the order of insertion
    acked,                      \* newest message whose insert has returned
    low,                        \* acked when a lookup began
    closing,                    \* splinterdb_close has been called
    aborted                     \* a platform_assert has failed

ctxtVars == <<generation, generation_to_incorporate, generation_retired,
              is_empty>>
slotVars == <<state, mt_generation, refs>>
dataVars == <<full, content, branch>>
rootVars == <<root, root_claim, new_root>>
lockVars == <<insert_lock, lookup_lock>>
readVars == <<pinned, acc, low>>
histVars == <<hist, acked>>

memtableVars == <<ctxtVars, slotVars, dataVars, rootVars, lockVars, readVars,
          histVars, queue, pc, gen, closing, aborted>>

Insert == INSTANCE RWLock WITH mode <- insert_lock
Lookup == INSTANCE RWLock WITH mode <- lookup_lock

-----------------------------------------------------------------------------
(* Messages *)

Message == [ver : Nat, definitive : BOOLEAN]

(* Newer messages merged onto older ones: a definitive one hides them. *)
Merge(older, newer) ==
    IF newer # <<>> /\ newer[1].definitive THEN newer ELSE older \o newer

Definitive(msgs) == msgs # <<>> /\ msgs[1].definitive

(* The value of the key once the first k messages are written. *)
ValueAt(k) ==
    LET start == {i \in 1 .. k : hist[i].definitive}
        first == IF start = {} THEN 1
                 ELSE CHOOSE i \in start : \A j \in start : j <= i
    IN  SubSeq(hist, first, k)

-----------------------------------------------------------------------------
MemtableInit ==
    /\ generation = 0
    /\ generation_to_incorporate = 0
    /\ generation_retired = -1
    /\ is_empty = TRUE
    /\ state = [s \in Slot |-> "READY"]
    /\ mt_generation = [s \in Slot |-> s]
    /\ refs = [s \in Slot |-> 1]
    /\ full = [s \in Slot |-> FALSE]
    /\ content = [s \in Slot |-> <<>>]
    /\ branch = [s \in Slot |-> <<>>]
    /\ root = <<>>
    /\ insert_lock = [t \in Thread |-> "none"]
    /\ lookup_lock = [t \in Thread |-> "none"]
    /\ root_claim = {}
    /\ queue = <<>>
    /\ pc = [t \in Thread |-> "idle"]
    /\ gen = [t \in Thread |-> 0]
    /\ pinned = [t \in Reader |-> {}]
    /\ acc = [t \in Reader |-> <<>>]
    /\ new_root = [t \in Thread |-> <<>>]
    /\ hist = <<>>
    /\ acked = 0
    /\ low = [t \in Reader |-> 0]
    /\ closing = FALSE
    /\ aborted = FALSE

Goto(t, from, to) ==
    /\ pc[t] = from
    /\ pc' = [pc EXCEPT ![t] = to]

(* memtable_transition: the compare-and-swap must succeed. *)
Transition(s, new) == state' = [state EXCEPT ![s] = new]

Ready(g) == state[SlotOf(g)] = "READY"

-----------------------------------------------------------------------------
(* Inserts: trunk_memtable_insert, memtable_maybe_rotate_and_begin_insert *)

Inserting == {w \in Writer : pc[w] \notin {"idle", "inserted", "quiesce",
                                           "closed"}}

InsertCall(w) ==
    /\ Len(hist) + Cardinality(Inserting) < MaxMsgs
    /\ ~closing
    /\ Goto(w, "idle", "retry")
    /\ UNCHANGED <<ctxtVars, slotVars, dataVars, rootVars, lockVars,
                   readVars, histVars, queue, gen, closing, aborted>>

BeginInsert(w) ==
    /\ Goto(w, "retry", "check")
    /\ Insert!Get(w)
    /\ gen' = [gen EXCEPT ![w] = generation]
    /\ UNCHANGED <<ctxtVars, slotVars, dataVars, rootVars, lookup_lock,
                   readVars, histVars, queue, closing, aborted>>

(* The memtable is ready and not full: STATUS_OK, with the read lock. *)
MayInsert(w) ==
    /\ Ready(gen[w]) /\ ~full[SlotOf(gen[w])]
    /\ Goto(w, "check", "insert")
    /\ UNCHANGED <<ctxtVars, slotVars, dataVars, rootVars, lockVars,
                   readVars, histVars, queue, gen, closing, aborted>>

(* The slot is not ready, or another thread rotates: back off and retry. *)
BackOff(w) ==
    /\ \/ ~Ready(gen[w])
       \/ /\ full[SlotOf(gen[w])]
          /\ Ready(gen[w] + 1)
          /\ \E u \in Writer : Insert!Claims(u)
    /\ Goto(w, "check", "retry")
    /\ Insert!Unget(w)
    /\ UNCHANGED <<ctxtVars, slotVars, dataVars, rootVars, lookup_lock,
                   readVars, histVars, queue, gen, closing, aborted>>

\* mutant: a busy writer retries without performing a task
BusySpins(w) ==
    /\ Ready(gen[w]) /\ full[SlotOf(gen[w])] /\ ~Ready(gen[w] + 1)
    /\ Goto(w, "check", "retry")
    /\ Insert!Unget(w)
    /\ UNCHANGED <<ctxtVars, slotVars, dataVars, rootVars, lookup_lock,
                   readVars, histVars, queue, gen, closing, aborted>>

(* The next slot is still in use: STATUS_BUSY. *)
Busy(w) ==
    /\ Ready(gen[w]) /\ full[SlotOf(gen[w])] /\ ~Ready(gen[w] + 1)
    /\ Goto(w, "check", "busy")
    /\ Insert!Unget(w)
    /\ UNCHANGED <<ctxtVars, slotVars, dataVars, rootVars, lookup_lock,
                   readVars, histVars, queue, gen, closing, aborted>>

(* task_perform_one_if_needed found no task. *)
BusyRetry(w) ==
    /\ queue = <<>>
    /\ Goto(w, "busy", "retry")
    /\ UNCHANGED <<ctxtVars, slotVars, dataVars, rootVars, lockVars,
                   readVars, histVars, queue, gen, closing, aborted>>

(* memtable_try_begin_insert_rotation: try_claim, then lock. *)
ClaimRotation(w) ==
    /\ Ready(gen[w]) /\ full[SlotOf(gen[w])] /\ Ready(gen[w] + 1)
    /\ Goto(w, "check", "lock")
    /\ Insert!Claim(w)
    /\ UNCHANGED <<ctxtVars, slotVars, dataVars, rootVars, lookup_lock,
                   readVars, histVars, queue, gen, closing, aborted>>

LockRotation(w) ==
    \/ /\ Goto(w, "lock", "drain")
       /\ Insert!Lock(w)
       /\ UNCHANGED <<ctxtVars, slotVars, dataVars, rootVars, lookup_lock,
                      readVars, histVars, queue, gen, closing, aborted>>
    \/ /\ Goto(w, "drain", "rotate")
       /\ Insert!Drained(w)
       /\ UNCHANGED <<ctxtVars, slotVars, dataVars, rootVars, lookup_lock,
                      readVars, histVars, queue, gen, closing, aborted>>

(* Finalize the memtable, move to the next one and release the lock. *)
Rotate(w) ==
    /\ Goto(w, "rotate", "process")
    /\ Transition(SlotOf(gen[w]), "FINALIZED")
    /\ generation' = generation + 1
    /\ is_empty' = TRUE
    /\ Insert!FullUnlock(w)
    /\ UNCHANGED <<generation_to_incorporate, generation_retired,
                   mt_generation, refs, dataVars, rootVars, lookup_lock,
                   readVars, histVars, queue, gen, closing, aborted>>

(* memtable_process, trunk_memtable_flush: enqueue the flush task. *)
Process(w) ==
    /\ Goto(w, "process", "retry")
    /\ queue' = Append(queue, gen[w])
    /\ UNCHANGED <<ctxtVars, slotVars, dataVars, rootVars, lockVars,
                   readVars, histVars, gen, closing, aborted>>

\* mutant: memtable_add_tuple is not called
InsertMsgUncounted(w) ==
    LET s == SlotOf(gen[w])
        m == [ver |-> Len(hist) + 1, definitive |-> FALSE]
    IN  /\ Goto(w, "insert", "inserted")
        /\ content' = [content EXCEPT ![s] = Merge(@, <<m>>)]
        /\ hist' = Append(hist, m)
        /\ gen' = [gen EXCEPT ![w] = Len(hist) + 1]
        /\ UNCHANGED <<ctxtVars, slotVars, full, branch, rootVars,
                       lockVars, readVars, acked, queue, closing, aborted>>

(* memtable_insert: the key is unique if the memtable has no message yet,  *)
(* and the insert may take the memtable to its size limit.                 *)
InsertMsg(w) ==
    LET s == SlotOf(gen[w])
    IN  /\ Goto(w, "insert", "inserted")
        /\ \E d \in BOOLEAN :
              LET m == [ver |-> Len(hist) + 1, definitive |-> d]
              IN  /\ content' = [content EXCEPT ![s] = Merge(@, <<m>>)]
                  /\ hist' = Append(hist, m)
        /\ \E f \in {full[s], TRUE} : full' = [full EXCEPT ![s] = f]
        /\ is_empty' = (is_empty /\ content[s] # <<>>)
        /\ gen' = [gen EXCEPT ![w] = Len(hist) + 1]
        /\ UNCHANGED <<generation, generation_to_incorporate,
                       generation_retired, slotVars, branch, rootVars,
                       lockVars, readVars, acked, queue, closing, aborted>>

(* memtable_end_insert and return to the caller. *)
EndInsert(w) ==
    /\ Goto(w, "inserted", "idle")
    /\ Insert!Unget(w)
    /\ acked' = IF gen[w] > acked THEN gen[w] ELSE acked
    /\ gen' = [gen EXCEPT ![w] = 0]
    /\ UNCHANGED <<ctxtVars, slotVars, dataVars, rootVars, lookup_lock,
                   readVars, hist, queue, closing, aborted>>

-----------------------------------------------------------------------------
(* The flush task: trunk_memtable_flush_internal.  It is run by a worker,  *)
(* by a writer that found the memtables busy, or by the closing thread.    *)

TakeTask(t) ==
    /\ queue # <<>>
    /\ \/ t \in Worker /\ pc[t] = "idle"
       \/ t \in Writer /\ pc[t] \in {"busy", "quiesce"}
    /\ pc' = [pc EXCEPT ![t] = "compact"]
    /\ gen' = [gen EXCEPT ![t] = Head(queue)]
    /\ queue' = Tail(queue)
    /\ UNCHANGED <<ctxtVars, slotVars, dataVars, rootVars, lockVars,
                   readVars, histVars, closing, aborted>>

TaskDone(t) ==
    /\ pc' = [pc EXCEPT ![t] = IF t \in Worker THEN "idle"
                               ELSE IF closing THEN "quiesce"
                               ELSE "retry"]
    /\ gen' = [gen EXCEPT ![t] = 0]

(* trunk_memtable_compact_and_build_filter, up to the pack of the tree *)
StartCompact(t) ==
    /\ Goto(t, "compact", "pack")
    /\ Transition(SlotOf(gen[t]), "COMPACTING")
    /\ UNCHANGED <<ctxtVars, mt_generation, refs, dataVars, rootVars,
                   lockVars, readVars, histVars, queue, gen, closing, aborted>>

FinishCompact(t) ==
    LET s == SlotOf(gen[t])
    IN  /\ Goto(t, "pack", "start")
        /\ branch' = [branch EXCEPT ![s] = content[s]]
        /\ Transition(s, "COMPACTED")
        /\ UNCHANGED <<ctxtVars, mt_generation, refs, full, content,
                       rootVars, lockVars, readVars, histVars, queue, gen,
                       closing, aborted>>

\* mutant: a compacted memtable is incorporated out of turn
MayStartOutOfTurn(g) ==
    /\ mt_generation[SlotOf(g)] = g
    /\ state[SlotOf(g)] = "COMPACTED"

(* trunk_try_start_incorporate, under incorporation_mutex *)
MayStart(g) ==
    /\ mt_generation[SlotOf(g)] = g
    /\ generation_to_incorporate = g
    /\ state[SlotOf(g)] = "COMPACTED"

TryStart(t) ==
    /\ pc[t] = "start"
    /\ MayStart(gen[t])
    /\ Transition(SlotOf(gen[t]), "INCORPORATION_ASSIGNED")
    /\ Goto(t, "start", "claim_root")
    /\ UNCHANGED <<ctxtVars, mt_generation, refs, dataVars, rootVars,
                   lockVars, readVars, histVars, queue, gen, closing, aborted>>

TryStartLost(t) ==
    /\ pc[t] = "start"
    /\ ~MayStart(gen[t])
    /\ TaskDone(t)
    /\ UNCHANGED <<ctxtVars, slotVars, dataVars, rootVars, lockVars,
                   readVars, histVars, queue, closing, aborted>>

(* trunk_memtable_incorporate_and_flush: copy the root under its claim and *)
(* add the branch to the copy.                                             *)
CopyRoot(t) ==
    /\ root_claim = {}
    /\ Goto(t, "claim_root", "block")
    /\ root_claim' = {t}
    /\ new_root' = [new_root EXCEPT ![t] =
                        Merge(root, branch[SlotOf(gen[t])])]
    /\ UNCHANGED <<ctxtVars, slotVars, dataVars, root, lockVars, readVars,
                   histVars, queue, gen, closing, aborted>>

(* memtable_block_lookups: get and claim, then lock. *)
BlockLookups(t) ==
    \/ /\ Goto(t, "block", "block_lock")
       /\ Lookup!GetAndClaim(t)
       /\ UNCHANGED <<ctxtVars, slotVars, dataVars, rootVars, insert_lock,
                      readVars, histVars, queue, gen, closing, aborted>>
    \/ /\ Goto(t, "block_lock", "block_drain")
       /\ Lookup!Lock(t)
       /\ UNCHANGED <<ctxtVars, slotVars, dataVars, rootVars, insert_lock,
                      readVars, histVars, queue, gen, closing, aborted>>
    \/ /\ Goto(t, "block_drain", "retire")
       /\ Lookup!Drained(t)
       /\ UNCHANGED <<ctxtVars, slotVars, dataVars, rootVars, insert_lock,
                      readVars, histVars, queue, gen, closing, aborted>>

(* The memtable passes through INCORPORATING to INCORPORATED. *)
Retire(t) ==
    /\ Goto(t, "retire", "switch")
    /\ Transition(SlotOf(gen[t]), "INCORPORATED")
    /\ generation_retired' = generation_retired + 1
    /\ UNCHANGED <<generation, generation_to_incorporate, is_empty,
                   mt_generation, refs, dataVars, rootVars, lockVars,
                   readVars, histVars, queue, gen, closing, aborted>>

(* trunk_update_claimed_root_and_unlock *)
SwitchRoot(t) ==
    /\ Goto(t, "switch", "unblock")
    /\ root' = new_root[t]
    /\ new_root' = [new_root EXCEPT ![t] = <<>>]
    /\ root_claim' = {}
    /\ UNCHANGED <<ctxtVars, slotVars, dataVars, lockVars, readVars,
                   histVars, queue, gen, closing, aborted>>

UnblockLookups(t) ==
    /\ Goto(t, "unblock", "dec_ref")
    /\ Lookup!FullUnlock(t)
    /\ UNCHANGED <<ctxtVars, slotVars, dataVars, rootVars, insert_lock,
                   readVars, histVars, queue, gen, closing, aborted>>

(* memtable_dec_ref_maybe_recycle, by the flush task or by an iterator:    *)
(* the last reference frees the tree; the slot then gets a new empty tree  *)
(* and its next generation, and becomes ready.                             *)
AfterDecRef(t) == IF t \in Reader THEN "drop" ELSE "continue"

\* mutant: the slot is recycled although an iterator uses the memtable
DecRefAlwaysFrees(t) ==
    LET s == SlotOf(gen[t])
    IN  /\ Goto(t, "dec_ref", IF state[s] = "INCORPORATED" THEN "recycle"
                              ELSE AfterDecRef(t))
        /\ refs' = [refs EXCEPT ![s] = @ - 1]
        /\ UNCHANGED <<ctxtVars, state, mt_generation, dataVars, rootVars,
                       lockVars, readVars, histVars, queue, gen, closing,
                       aborted>>

DecRef(t) ==
    LET s == SlotOf(gen[t])
    IN  /\ Goto(t, "dec_ref", IF refs[s] = 1 THEN "recycle"
                              ELSE AfterDecRef(t))
        /\ refs' = [refs EXCEPT ![s] = @ - 1]
        /\ UNCHANGED <<ctxtVars, state, mt_generation, dataVars, rootVars,
                       lockVars, readVars, histVars, queue, gen, closing,
                       aborted>>

Recycle(t) ==
    LET s == SlotOf(gen[t])
    IN  /\ Goto(t, "recycle", "ready")
        /\ refs' = [refs EXCEPT ![s] = 1]
        /\ content' = [content EXCEPT ![s] = <<>>]
        /\ full' = [full EXCEPT ![s] = FALSE]
        /\ mt_generation' = [mt_generation EXCEPT ![s] = @ + NumMemtables]
        /\ UNCHANGED <<ctxtVars, state, branch, rootVars, lockVars,
                       readVars, histVars, queue, gen, closing, aborted>>

MakeReady(t) ==
    /\ Goto(t, "ready", AfterDecRef(t))
    /\ Transition(SlotOf(gen[t]), "READY")
    /\ UNCHANGED <<ctxtVars, mt_generation, refs, dataVars, rootVars,
                   lockVars, readVars, histVars, queue, gen, closing, aborted>>

\* mutant: the turn passes on only when the next memtable is compacted
TryContinueKeepsTurn(t) ==
    LET next == gen[t] + 1
        s    == SlotOf(next)
    IN  /\ pc[t] = "continue"
        /\ \/ /\ mt_generation[s] = next /\ state[s] = "COMPACTED"
              /\ Transition(s, "INCORPORATION_ASSIGNED")
              /\ Goto(t, "continue", "claim_root")
              /\ gen' = [gen EXCEPT ![t] = next]
              /\ generation_to_incorporate' = generation_to_incorporate + 1
           \/ /\ mt_generation[s] # next \/ state[s] # "COMPACTED"
              /\ TaskDone(t)
              /\ UNCHANGED <<state, generation_to_incorporate>>
        /\ UNCHANGED <<generation, generation_retired, is_empty,
                       mt_generation, refs, dataVars, rootVars, lockVars,
                       readVars, histVars, queue, closing, aborted>>

(* trunk_try_continue_incorporate, under incorporation_mutex: the turn     *)
(* passes to the next generation whether or not it is compacted yet.       *)
TryContinue(t) ==
    LET next    == gen[t] + 1
        s       == SlotOf(next)
        present == mt_generation[s] = next
    IN  /\ generation_to_incorporate' =
               generation_to_incorporate + (IF present THEN 1 ELSE 0)
        /\ \/ /\ present /\ state[s] = "COMPACTED"
              /\ Transition(s, "INCORPORATION_ASSIGNED")
              /\ Goto(t, "continue", "claim_root")
              /\ gen' = [gen EXCEPT ![t] = next]
           \/ /\ ~present \/ state[s] # "COMPACTED"
              /\ pc[t] = "continue"
              /\ TaskDone(t)
              /\ UNCHANGED state
        /\ UNCHANGED <<generation, generation_retired, is_empty,
                       mt_generation, refs, dataVars, rootVars, lockVars,
                       readVars, histVars, queue, closing, aborted>>

-----------------------------------------------------------------------------
(* Lookups and range iterators: trunk_lookup, trunk_range_iterator_init *)

BeginRead(r, kind) ==
    /\ Goto(r, "idle", kind)
    /\ Lookup!Get(r)
    /\ gen' = [gen EXCEPT ![r] = generation]
    /\ low' = [low EXCEPT ![r] = acked]
    /\ UNCHANGED <<ctxtVars, slotVars, dataVars, rootVars, insert_lock,
                   pinned, acc, histVars, queue, closing, aborted>>

LookupCall(r) == ~closing /\ BeginRead(r, "lookup")

IteratorInit(r) == ~closing /\ BeginRead(r, "iter_init")

\* mutant: the branch is used before it is packed
CompactedEarly(g) ==
    state[SlotOf(g)] \in {"COMPACTING", "COMPACTED", "INCORPORATION_ASSIGNED"}

(* memtable_ok_to_lookup_compacted *)
Compacted(g) == state[SlotOf(g)] \in {"COMPACTED", "INCORPORATION_ASSIGNED"}

(* trunk_memtable_lookup of one generation *)
LookupMemtable(r) ==
    LET s     == SlotOf(gen[r])
        found == Merge(IF Compacted(gen[r]) THEN branch[s] ELSE content[s],
                       acc[r])
    IN  /\ gen[r] # generation_retired
        /\ acc' = [acc EXCEPT ![r] = found]
        /\ \/ /\ Definitive(found)
              /\ Goto(r, "lookup", "found")
              /\ Lookup!Unget(r)
              /\ UNCHANGED gen
           \/ /\ ~Definitive(found)
              /\ pc[r] = "lookup"
              /\ gen' = [gen EXCEPT ![r] = @ - 1]
              /\ UNCHANGED <<pc, lookup_lock>>
        /\ UNCHANGED <<ctxtVars, slotVars, dataVars, rootVars, insert_lock,
                       pinned, low, histVars, queue, closing, aborted>>

(* The memtables have no definitive answer: trunk_root_get, then release   *)
(* the lookup lock; the trunk below this root does not change.             *)
LookupTrunk(r) ==
    /\ gen[r] = generation_retired
    /\ Goto(r, "lookup", "found")
    /\ Lookup!Unget(r)
    /\ acc' = [acc EXCEPT ![r] = Merge(root, @)]
    /\ UNCHANGED <<ctxtVars, slotVars, dataVars, rootVars, insert_lock,
                   pinned, low, histVars, queue, gen, closing, aborted>>

LookupReturn(r) ==
    /\ Goto(r, "found", "idle")
    /\ acc' = [acc EXCEPT ![r] = <<>>]
    /\ low' = [low EXCEPT ![r] = 0]
    /\ gen' = [gen EXCEPT ![r] = 0]
    /\ UNCHANGED <<ctxtVars, slotVars, dataVars, rootVars, lockVars,
                   pinned, histVars, queue, closing, aborted>>

(* An iterator takes a reference on each memtable that is not compacted. *)
PinMemtable(r) ==
    LET s == SlotOf(gen[r])
    IN  /\ pc[r] = "iter_init"
        /\ gen[r] # generation_retired
        /\ \/ /\ Compacted(gen[r])
              /\ UNCHANGED <<refs, pinned>>
           \/ /\ ~Compacted(gen[r])
              /\ refs' = [refs EXCEPT ![s] = @ + 1]
              /\ pinned' = [pinned EXCEPT ![r] = @ \cup {gen[r]}]
        /\ gen' = [gen EXCEPT ![r] = @ - 1]
        /\ UNCHANGED <<ctxtVars, state, mt_generation, dataVars, rootVars,
                       lockVars, acc, low, histVars, queue, pc, closing,
                       aborted>>

IteratorReady(r) ==
    /\ gen[r] = generation_retired
    /\ Goto(r, "iter_init", "drop")
    /\ Lookup!Unget(r)
    /\ low' = [low EXCEPT ![r] = 0]
    /\ UNCHANGED <<ctxtVars, slotVars, dataVars, rootVars, insert_lock,
                   pinned, acc, histVars, queue, gen, closing, aborted>>

(* trunk_range_iterator_deinit drops the references, newest first. *)
IteratorDrop(r) ==
    /\ \E g \in pinned[r] :
          /\ \A h \in pinned[r] : h <= g
          /\ gen' = [gen EXCEPT ![r] = g]
          /\ pinned' = [pinned EXCEPT ![r] = @ \ {g}]
    /\ Goto(r, "drop", "dec_ref")
    /\ UNCHANGED <<ctxtVars, slotVars, dataVars, rootVars, lockVars,
                   acc, low, histVars, queue, closing, aborted>>

IteratorDone(r) ==
    /\ pinned[r] = {}
    /\ Goto(r, "drop", "idle")
    /\ gen' = [gen EXCEPT ![r] = 0]
    /\ UNCHANGED <<ctxtVars, slotVars, dataVars, rootVars, lockVars,
                   readVars, histVars, queue, closing, aborted>>

-----------------------------------------------------------------------------
(* Shutdown: trunk_prepare_for_shutdown.  The caller has waited for all    *)
(* its other calls, not for the background tasks.                          *)

CallsReturned == \A t \in Writer \cup Reader : pc[t] = "idle"

CloseEmpty(w) ==
    /\ CallsReturned /\ ~closing /\ is_empty
    /\ Goto(w, "idle", "quiesce")
    /\ closing' = TRUE
    /\ UNCHANGED <<ctxtVars, slotVars, dataVars, rootVars, lockVars,
                   readVars, histVars, queue, gen, aborted>>

(* memtable_force_finalize and trunk_memtable_flush of the current         *)
(* memtable, whether or not the next slot is ready.                        *)
CloseFlush(w) ==
    /\ CallsReturned /\ ~closing /\ ~is_empty
    /\ Goto(w, "idle", "quiesce")
    /\ closing' = TRUE
    /\ Transition(SlotOf(generation), "FINALIZED")
    /\ generation' = generation + 1
    /\ is_empty' = TRUE
    /\ queue' = Append(queue, generation)
    /\ aborted' = (generation + 1 - generation_retired > NumMemtables)
    /\ UNCHANGED <<generation_to_incorporate, generation_retired,
                   mt_generation, refs, dataVars, rootVars, lockVars,
                   readVars, histVars, gen>>

(* task_perform_until_quiescent returns: no task waits or executes. *)
CloseDone(w) ==
    /\ queue = <<>>
    /\ \A t \in Thread \ {w} : pc[t] = "idle"
    /\ Goto(w, "quiesce", "closed")
    /\ UNCHANGED <<ctxtVars, slotVars, dataVars, rootVars, lockVars,
                   readVars, histVars, queue, gen, closing, aborted>>

Stopped == aborted \/ \E w \in Writer : pc[w] = "closed"

-----------------------------------------------------------------------------
WriterStep(w) ==
    \/ BeginInsert(w) \/ BackOff(w) \/ Busy(w) \/ BusyRetry(w)
    \/ ClaimRotation(w) \/ LockRotation(w) \/ Rotate(w) \/ Process(w)
    \/ MayInsert(w) \/ InsertMsg(w) \/ EndInsert(w)
    \/ CloseDone(w)

TaskStep(t) ==
    \/ TakeTask(t)
    \/ StartCompact(t) \/ FinishCompact(t) \/ TryStart(t) \/ TryStartLost(t)
    \/ CopyRoot(t) \/ BlockLookups(t) \/ Retire(t) \/ SwitchRoot(t)
    \/ UnblockLookups(t)
    \/ DecRef(t) \/ Recycle(t) \/ MakeReady(t) \/ TryContinue(t)

ReaderStep(r) ==
    \/ LookupMemtable(r) \/ LookupTrunk(r) \/ LookupReturn(r)
    \/ PinMemtable(r) \/ IteratorReady(r) \/ IteratorDrop(r)
    \/ IteratorDone(r)
    \/ DecRef(r) \/ Recycle(r) \/ MakeReady(r)

MemtableNext ==
    \/ /\ ~aborted
       /\ \/ \E w \in Writer : \/ InsertCall(w)
                               \/ CloseEmpty(w) \/ CloseFlush(w)
                               \/ WriterStep(w)
          \/ \E t \in Writer \cup Worker : TaskStep(t)
          \/ \E r \in Reader : \/ LookupCall(r) \/ IteratorInit(r)
                               \/ ReaderStep(r)
    \/ Stopped /\ UNCHANGED memtableVars

(* A thread that is inside a call or a task keeps running. *)
MemtableFairness ==
    /\ \A w \in Writer : WF_memtableVars(~aborted /\ WriterStep(w))
    /\ \A t \in Writer \cup Worker : WF_memtableVars(~aborted /\ TaskStep(t))
    /\ \A r \in Reader : WF_memtableVars(~aborted /\ ReaderStep(r))

MemtableSpec == MemtableInit /\ [][MemtableNext]_memtableVars /\ MemtableFairness

-----------------------------------------------------------------------------
States == {"READY", "FINALIZED", "COMPACTING", "COMPACTED",
           "INCORPORATION_ASSIGNED", "INCORPORATED"}

PC == {"idle", "retry", "check", "busy", "lock", "drain", "rotate",
       "process", "insert", "inserted", "compact", "pack", "start",
       "claim_root", "block", "block_lock", "block_drain", "retire", "switch", "unblock",
       "dec_ref", "recycle", "ready", "continue", "lookup", "found",
       "iter_init", "drop", "quiesce", "closed"}

TypeOK ==
    /\ generation \in Nat
    /\ generation_to_incorporate \in Nat
    /\ generation_retired \in Nat \cup {-1}
    /\ is_empty \in BOOLEAN
    /\ state \in [Slot -> States]
    /\ mt_generation \in [Slot -> Nat]
    /\ refs \in [Slot -> Nat]
    /\ full \in [Slot -> BOOLEAN]
    /\ content \in [Slot -> Seq(Message)]
    /\ branch \in [Slot -> Seq(Message)]
    /\ root \in Seq(Message)
    /\ insert_lock \in [Thread -> Insert!Modes]
    /\ lookup_lock \in [Thread -> Lookup!Modes]
    /\ root_claim \in SUBSET Thread
    /\ queue \in Seq(Nat)
    /\ pc \in [Thread -> PC]
    /\ gen \in [Thread -> Nat \cup {-1}]
    /\ pinned \in [Reader -> SUBSET Nat]
    /\ acc \in [Reader -> Seq(Message)]
    /\ new_root \in [Thread -> Seq(Message)]
    /\ hist \in Seq(Message)
    /\ acked \in Nat
    /\ low \in [Reader -> Nat]
    /\ closing \in BOOLEAN
    /\ aborted \in BOOLEAN

(* A lookup returns the value of the key at some moment of the call: no    *)
(* message acknowledged before it began is missing, none is applied twice  *)
(* and none is applied out of order, whatever rotations, compactions,      *)
(* incorporations and recyclings happen while it walks the memtables.      *)
LookupsAreFresh ==
    \A r \in Reader :
        pc[r] = "found" =>
            \E k \in low[r] .. Len(hist) : acc[r] = ValueAt(k)

(* The memtables an iterator holds keep their tree: the slot is not        *)
(* recycled before trunk_range_iterator_deinit drops the reference.        *)
PinnedMemtablesStay ==
    \A r \in Reader : \A g \in pinned[r] :
        /\ mt_generation[SlotOf(g)] = g
        /\ refs[SlotOf(g)] > 0

(* platform_assert in memtable_maybe_rotate_and_begin_insert,              *)
(* memtable_transition, memtable_dec_ref_maybe_recycle and                 *)
(* memtable_increment_to_generation_retired and _to_incorporate: every     *)
(* thread finds the memtable it works on in the state it expects; and in   *)
(* trunk_get_memtable and trunk_memtable_root_addr_for_lookup: every       *)
(* generation a lookup or an iterator walks is still in its slot and not   *)
(* yet incorporated.                                                       *)
Expected(t) ==
    LET s == SlotOf(gen[t])
    IN  CASE pc[t] = "rotate" ->
                /\ state[s] = "READY"
                /\ gen[t] = generation
                /\ generation + 1 - generation_retired <= NumMemtables
          [] pc[t] = "compact" -> state[s] = "FINALIZED"
          [] pc[t] = "pack" -> state[s] = "COMPACTING" /\ content[s] # <<>>
          [] pc[t] = "retire" ->
                /\ state[s] = "INCORPORATION_ASSIGNED"
                /\ gen[t] = generation_retired + 1
                /\ gen[t] = generation_to_incorporate
          [] pc[t] \in {"recycle", "ready"} -> state[s] = "INCORPORATED"
          [] pc[t] = "continue" -> gen[t] = generation_to_incorporate
          [] OTHER -> TRUE

ThreadsFindExpectedState ==
    \A t \in Thread :
        /\ Expected(t)
        /\ pc[t] \in {"compact", "pack", "claim_root", "block", "retire",
                      "dec_ref", "recycle"}
           => mt_generation[SlotOf(gen[t])] = gen[t]
        /\ pc[t] \in {"lookup", "iter_init"} /\ gen[t] # generation_retired
           => /\ gen[t] > generation_retired
              /\ mt_generation[SlotOf(gen[t])] = gen[t]
              /\ state[SlotOf(gen[t])] # "INCORPORATED"

(* When splinterdb_close has finished, the trunk holds every message that  *)
(* was ever inserted, in order.                                            *)
CloseKeepsEverything ==
    (\E w \in Writer : pc[w] = "closed") =>
        /\ root = ValueAt(Len(hist))
        /\ \A s \in Slot : state[s] = "READY" => content[s] = <<>>
        /\ \A s \in Slot : refs[s] = 1

(* Every finalized memtable is incorporated: the turn to incorporate never *)
(* gets lost between try_start and try_continue.  The writers insert       *)
(* MaxMsgs messages, so a moment must come when nothing finalized waits.   *)
FinalizedIsRetired == []<>(generation_retired = generation - 1 \/ aborted)

(* Every insert returns, also when all memtables are in use and the only   *)
(* thread that can run the flush tasks is the one that inserts.            *)
InsertsReturn ==
    \A w \in Writer : pc[w] = "retry" ~> (pc[w] = "idle" \/ aborted)
=============================================================================
