------------------------------ MODULE MCLocks -------------------------------
(***************************************************************************)
(* Progress of the batch rwlock and of the memtables that are built on it, *)
(* side by side: three threads on one lock, so that one can drain while    *)
(* another is inside get and the third inside claim_loop; three memtables  *)
(* with a background thread; two memtables and no background thread.  The  *)
(* initial state says which of the three moves.                            *)
(***************************************************************************)
EXTENDS BatchRWLock

CONSTANTS Writer, Reader, Worker, MaxMsgs

VARIABLES
    part,
    generation, generation_to_incorporate, generation_retired, is_empty, state, mt_generation, refs, full, content,
    branch, root, insert_lock, lookup_lock, root_claim, queue, mpc, gen, pinned, acc, new_root, hist, acked, low,
    closing, aborted

Background == INSTANCE Memtable WITH NumMemtables <- 3, Reader <- {}, pc <- mpc
Foreground == INSTANCE Memtable WITH NumMemtables <- 2, Worker <- {}, pc <- mpc

memtableVars == <<generation, generation_to_incorporate, generation_retired, is_empty, state, mt_generation, refs, full,
    content, branch, root, insert_lock, lookup_lock, root_claim, queue, mpc, gen, pinned, acc, new_root, hist, acked,
    low, closing, aborted>>
allVars == <<part, vars, memtableVars>>

MCInit ==
    /\ part \in {"lock", "background", "foreground"}
    /\ Init
    /\ IF part = "foreground" THEN Foreground!MemtableInit ELSE Background!MemtableInit

OnLock(A) == part = "lock" /\ A /\ UNCHANGED <<part, memtableVars>>
InBackground(A) == part = "background" /\ A /\ UNCHANGED <<part, vars>>
InForeground(A) == part = "foreground" /\ A /\ UNCHANGED <<part, vars>>
MCNext == OnLock(Next) \/ InBackground(Background!MemtableNext) \/ InForeground(Foreground!MemtableNext)

\* The fairness of BatchRWLock and of Memtable.
MCSpec ==
    /\ MCInit /\ [][MCNext]_allVars
    /\ \A t \in Thread : WF_allVars(OnLock(Proceed(t))) /\ WF_allVars(OnLock(Unget(t)))
    /\ \A w \in Writer : WF_allVars(\/ InBackground(~aborted /\ Background!WriterStep(w))
                                    \/ InForeground(~aborted /\ Foreground!WriterStep(w)))
    /\ \A w \in Writer : WF_allVars(\/ InBackground(~aborted /\ Background!TaskStep(w))
                                    \/ InForeground(~aborted /\ Foreground!TaskStep(w)))
    /\ \A k \in Worker : WF_allVars(InBackground(~aborted /\ Background!TaskStep(k)))
    /\ \A r \in Reader : WF_allVars(InForeground(~aborted /\ Foreground!ReaderStep(r)))

(* Every finalized memtable is incorporated (trunk_try_start_incorporate,  *)
(* trunk_try_continue_incorporate).                                        *)
FinalizedIsRetired == part = "background" => Background!FinalizedIsRetired

(* Every insert returns although the writers are the only ones that can    *)
(* flush (memtable_maybe_rotate_and_begin_insert, trunk_memtable_insert).  *)
InsertsReturn == part = "foreground" => Foreground!InsertsReturn
=============================================================================
