------------------------- MODULE MemtableProofs -------------------------
(***************************************************************************)
(* Theorems about the memtable protocol (Memtable), for any number of      *)
(* writers, readers and workers, of memtables from two up, and of          *)
(* messages.                                                               *)
(*                                                                         *)
(* IInv is the inductive invariant of the protocol.  DataInv, on top of    *)
(* it, says where the messages are: the history of all inserts is cut at   *)
(* the rotations, a memtable has the messages of its piece, the trunk root *)
(* those of all retired pieces, and a lookup has merged the pieces from    *)
(* the newest down to where it is.  TasksInv, at last, says that a         *)
(* memtable on its way to the trunk has a task or a thread to take it      *)
(* there, which is what close relies on.                                   *)
(***************************************************************************)
EXTENDS Memtable, FiniteSetTheorems, SequenceTheorems, WellFoundedInduction, TLAPS

-----------------------------------------------------------------------------
(* Where a thread may be. *)

Compacting == {"compact", "pack"}
Incorporating == {"claim_root", "block", "block_lock", "block_drain", "retire"}
Incorporated == {"switch", "unblock", "dec_ref", "recycle", "ready", "continue"}
Turn == Incorporating \cup Incorporated
TaskPC == Compacting \cup {"start"} \cup Turn
CallPC == {"retry", "check", "busy", "lock", "drain", "rotate", "process",
           "insert", "inserted"}
ReaderPC == {"idle", "lookup", "found", "iter_init", "drop", "dec_ref",
             "recycle", "ready"}
Flusher == Writer \cup Worker

RoleInv ==
    /\ \A k \in Worker : pc[k] \in {"idle"} \cup TaskPC
    /\ \A r \in Reader : pc[r] \in ReaderPC
    /\ \A w \in Writer :
          pc[w] \in {"idle"} \cup TaskPC \cup (IF closing THEN {"quiesce", "closed"}
                                               ELSE CallPC)
    /\ closing => \A r \in Reader : pc[r] = "idle"

(* What a thread holds of the two locks depends on where it is. *)
InsertMode(at) ==
    CASE at \in {"check", "insert", "inserted"} -> "read"
      [] at = "lock" -> "claim"
      [] at = "drain" -> "drain"
      [] at = "rotate" -> "write"
      [] OTHER -> "none"

LookupMode(at) ==
    CASE at \in {"lookup", "iter_init"} -> "read"
      [] at = "block_lock" -> "claim"
      [] at = "block_drain" -> "drain"
      [] at \in {"retire", "switch", "unblock"} -> "write"
      [] OTHER -> "none"

LocksInv ==
    \A t \in Thread :
        /\ insert_lock[t] = InsertMode(pc[t])
        /\ lookup_lock[t] = LookupMode(pc[t])
        /\ \A u \in Thread \ {t} :
              /\ ~(Insert!Claims(t) /\ Insert!Claims(u))
              /\ insert_lock[t] = "write" => insert_lock[u] = "none"
              /\ ~(Lookup!Claims(t) /\ Lookup!Claims(u))
              /\ lookup_lock[t] = "write" => lookup_lock[u] = "none"

(* A slot holds one of the NumMemtables generations around the retired and *)
(* the current one, and its state tells on which side of them.             *)
Behind == {"FINALIZED", "COMPACTING", "COMPACTED", "INCORPORATION_ASSIGNED"}
SlotsInv ==
    /\ generation_retired < generation
    /\ generation_to_incorporate \in {generation_retired, generation_retired + 1}
    /\ ~closing => Ready(generation)
    /\ \A s \in Slot :
          /\ SlotOf(mt_generation[s]) = s
          /\ generation - NumMemtables <= mt_generation[s]
          /\ mt_generation[s] <= generation_retired + NumMemtables
          /\ state[s] = "READY" => mt_generation[s] >= generation
          /\ state[s] \in Behind => /\ generation_retired < mt_generation[s]
                                    /\ mt_generation[s] < generation
          /\ state[s] = "INCORPORATED" => \/ mt_generation[s] <= generation_retired
                                          \/ mt_generation[s] >= generation

InsertsInv ==
    \A w \in Writer :
        /\ pc[w] \in {"check", "insert", "lock", "drain", "rotate"} => gen[w] = generation
        /\ pc[w] \in {"lock", "drain", "rotate"} =>
              Ready(generation + 1) /\ full[SlotOf(generation)]

InState(g, st) == mt_generation[SlotOf(g)] = g /\ state[SlotOf(g)] = st

(* A finalized memtable is on its way to be compacted once. *)
CompactInv ==
    /\ \A t \in Flusher :
          /\ pc[t] \in {"process", "compact"} => gen[t] >= 0 /\ InState(gen[t], "FINALIZED")
          /\ pc[t] = "pack" => gen[t] >= 0 /\ InState(gen[t], "COMPACTING")
          /\ pc[t] = "start" => gen[t] >= 0
          /\ pc[t] \in {"process"} \cup Compacting =>
                \A u \in Flusher \ {t} :
                    pc[u] \in {"process"} \cup Compacting => gen[u] # gen[t]
    /\ \A i \in DOMAIN queue :
          /\ InState(queue[i], "FINALIZED")
          /\ \A t \in Flusher : pc[t] \in {"process", "compact"} => gen[t] # queue[i]
          /\ \A j \in DOMAIN queue : queue[i] = queue[j] => i = j

(* One thread has the turn to incorporate. *)
TurnInv ==
    \A t \in Flusher :
        /\ pc[t] \in Turn =>
              /\ gen[t] = generation_to_incorporate
              /\ \A u \in Flusher \ {t} : pc[u] \notin Turn
        /\ pc[t] \in Incorporating =>
              /\ gen[t] = generation_retired + 1
              /\ InState(gen[t], "INCORPORATION_ASSIGNED")
        /\ pc[t] \in Incorporated => gen[t] = generation_retired
        /\ pc[t] \in {"switch", "unblock", "dec_ref"} => InState(gen[t], "INCORPORATED")

(* The references on a memtable: its own, until the flush task drops it,   *)
(* and those of the iterators.                                             *)
Dropped(s) ==
    /\ state[s] = "INCORPORATED"
    /\ mt_generation[s] <= generation_retired
    /\ \A t \in Flusher : pc[t] \in {"switch", "unblock", "dec_ref"} => gen[t] # mt_generation[s]
PinnedBy(s) ==
    {r \in Reader : \/ mt_generation[s] \in pinned[r]
                    \/ pc[r] = "dec_ref" /\ gen[r] = mt_generation[s]}
RefsInv ==
    \A s \in Slot : refs[s] = Cardinality(PinnedBy(s)) + (IF Dropped(s) THEN 0 ELSE 1)

ReadersInv ==
    \A r \in Reader :
        /\ \A g \in pinned[r] : mt_generation[SlotOf(g)] = g
        /\ pc[r] \in {"lookup", "iter_init"} =>
              generation_retired <= gen[r] /\ gen[r] <= generation
        /\ pc[r] \in {"idle", "lookup", "found"} => pinned[r] = {}
        /\ pc[r] = "iter_init" => \A g \in pinned[r] : gen[r] < g
        /\ pc[r] = "dec_ref" =>
              /\ gen[r] >= 0
              /\ mt_generation[SlotOf(gen[r])] = gen[r]
              /\ gen[r] \notin pinned[r]

RecycleInv ==
    \A t \in Thread :
        /\ pc[t] = "recycle" =>
              /\ gen[t] >= 0
              /\ InState(gen[t], "INCORPORATED")
              /\ gen[t] <= generation_retired
              /\ refs[SlotOf(gen[t])] = 0
        /\ pc[t] = "ready" =>
              /\ gen[t] >= 0
              /\ mt_generation[SlotOf(gen[t])] = gen[t] + NumMemtables
              /\ generation <= gen[t] + NumMemtables
              /\ state[SlotOf(gen[t])] = "INCORPORATED"
        /\ pc[t] \in {"recycle", "ready"} =>
              \A u \in Thread \ {t} : pc[u] \in {"recycle", "ready"} => SlotOf(gen[u]) # SlotOf(gen[t])

ContentInv ==
    /\ ~is_empty => content[SlotOf(generation)] # <<>>
    /\ closing => is_empty
    /\ \A s \in Slot :
          /\ full[s] => content[s] # <<>>
          /\ state[s] \in {"FINALIZED", "COMPACTING"} => content[s] # <<>>

IInv ==
    /\ TypeOK
    /\ RoleInv
    /\ LocksInv
    /\ SlotsInv
    /\ InsertsInv
    /\ CompactInv
    /\ TurnInv
    /\ RefsInv
    /\ ReadersInv
    /\ RecycleInv
    /\ ContentInv

-----------------------------------------------------------------------------
(* Slots *)

(* Every generation has a slot.                                            *)
LEMMA SlotType == ASSUME NEW g \in Int PROVE SlotOf(g) \in Slot
BY MemtableAssumption DEF SlotOf, Slot

(* Two generations that differ by less than NumMemtables have different    *)
(* slots.                                                                  *)
LEMMA SlotUnique ==
    ASSUME NEW g \in Int, NEW h \in Int, SlotOf(g) = SlotOf(h),
           g - h < NumMemtables, h - g < NumMemtables
    PROVE  g = h
<1> DEFINE N == NumMemtables  a == g \div N  b == h \div N
<1>1. N \in Int /\ N > 0 /\ a \in Int /\ b \in Int
  BY MemtableAssumption
<1>2. g = N * a + (g % N) /\ h = N * b + (h % N)
  BY MemtableAssumption
<1>3. g - h = N * (a - b)
  BY <1>1, <1>2 DEF SlotOf
<1>4. ASSUME a - b >= 1 PROVE FALSE
  <2>1. N * (a - b) >= N BY <1>1, <1>4
  <2> QED BY <2>1, <1>3, <1>1
<1>5. ASSUME b - a >= 1 PROVE FALSE
  <2>1. N * (b - a) >= N BY <1>1, <1>5
  <2>2. h - g = N * (b - a) BY <1>1, <1>3
  <2> QED BY <2>1, <2>2, <1>1
<1>6. a = b BY <1>1, <1>4, <1>5
<1> QED BY <1>1, <1>2, <1>6 DEF SlotOf

(* A recycled memtable keeps its slot.                                     *)
LEMMA SlotShift == ASSUME NEW g \in Int PROVE SlotOf(g + NumMemtables) = SlotOf(g)
<1> DEFINE N == NumMemtables  a == g \div N  b == (g + N) \div N
<1>1. N \in Int /\ N > 0 /\ a \in Int /\ b \in Int
  BY MemtableAssumption
<1>2. /\ g = N * a + (g % N) /\ g % N \in 0 .. N - 1
      /\ g + N = N * b + ((g + N) % N) /\ (g + N) % N \in 0 .. N - 1
  BY MemtableAssumption
<1> DEFINE c == b - (a + 1)
<1>3. c \in Int /\ (g % N) - ((g + N) % N) = N * c
  BY <1>1, <1>2
<1>4. ~(c >= 1)
  <2>1. c >= 1 => N * c >= N BY <1>1, <1>3
  <2> QED BY <2>1, <1>1, <1>2, <1>3
<1>5. ~(c <= -1)
  <2>1. c <= -1 => N * c <= -N BY <1>1, <1>3
  <2> QED BY <2>1, <1>1, <1>2, <1>3
<1>6. c = 0 BY <1>3, <1>4, <1>5
<1> QED BY <1>1, <1>2, <1>3, <1>6 DEF SlotOf

(* The next generation is in another slot.                                 *)
LEMMA SlotNext == ASSUME NEW g \in Int PROVE SlotOf(g + 1) # SlotOf(g)
<1>1. NumMemtables \in Int /\ NumMemtables >= 2 BY MemtableAssumption
<1> QED BY <1>1, SlotUnique

(* A thread plays one part.                                                *)
LEMMA ThreadRoles ==
    /\ Flusher \subseteq Thread /\ Reader \subseteq Thread /\ Writer \subseteq Flusher /\ Worker \subseteq Flusher
    /\ Flusher \cap Reader = {} /\ Thread = Flusher \cup Reader
BY MemtableAssumption DEF Flusher, Thread

(* What the threads, the queue and the context name is in a slot.          *)
LEMMA SlotsTyped ==
    ASSUME TypeOK
    PROVE  /\ \A t \in Thread : gen[t] \in Int /\ SlotOf(gen[t]) \in Slot
           /\ \A i \in DOMAIN queue : queue[i] \in Nat /\ SlotOf(queue[i]) \in Slot
           /\ SlotOf(generation) \in Slot /\ SlotOf(generation + 1) \in Slot
<1>1. \A t \in Thread : gen[t] \in Int
  BY DEF TypeOK
<1>2. \A i \in DOMAIN queue : queue[i] \in Nat
  BY DEF TypeOK
<1>3. generation \in Int /\ generation + 1 \in Int
  BY DEF TypeOK
<1>4. \A g \in Nat : g \in Int
  OBVIOUS
<1> QED BY <1>1, <1>2, <1>3, <1>4, SlotType

-----------------------------------------------------------------------------
(* Frames: what a part of the invariant does not notice. *)

SamePlaces == UNCHANGED <<state, mt_generation>>
SameTurns == UNCHANGED <<generation, generation_to_incorporate,
                         generation_retired>>
Moves(t, to) == pc' = [pc EXCEPT ![t] = to] /\ \A u \in Thread \ {t} : gen'[u] = gen[u]

(* A move between places with the same locks.                              *)
LEMMA LocksFrame ==
    ASSUME TypeOK, LocksInv, NEW t \in Thread, NEW to \in PC, Moves(t, to),
           InsertMode(to) = InsertMode(pc[t]), LookupMode(to) = LookupMode(pc[t]),
           UNCHANGED <<insert_lock, lookup_lock>>
    PROVE  LocksInv'
<1>1. \A u \in Thread : pc'[u] = IF u = t THEN to ELSE pc[u]
  BY DEF TypeOK, Moves
<1>2. \A u \in Thread : InsertMode(pc'[u]) = InsertMode(pc[u]) /\ LookupMode(pc'[u]) = LookupMode(pc[u])
  BY <1>1
<1> QED BY <1>2 DEF LocksInv, Insert!Claims, Lookup!Claims

(* A step that only takes memtables from one state on the way to the trunk *)
(* to another.                                                             *)
LEMMA SlotsFrame ==
    ASSUME TypeOK, SlotsInv, mt_generation' = mt_generation, SameTurns, closing' = closing,
           \A s \in Slot : state'[s] = state[s] \/ (state[s] \in Behind /\ state'[s] \in Behind)
    PROVE  SlotsInv'
<1>1. \A s \in Slot : state[s] = "READY" <=> state'[s] = "READY"
  BY DEF Behind
<1>2. \A s \in Slot : state[s] = "INCORPORATED" <=> state'[s] = "INCORPORATED"
  BY DEF Behind
<1>3. \A s \in Slot : state[s] \in Behind <=> state'[s] \in Behind
  OBVIOUS
<1>4. SlotOf(generation) \in Slot
  BY SlotsTyped
<1> QED BY <1>1, <1>2, <1>3, <1>4 DEF SlotsInv, SameTurns, Ready

(* A move that does not enter an insert.                                   *)
LEMMA InsertsFrame ==
    ASSUME TypeOK, InsertsInv, NEW t \in Thread, NEW to \in PC, Moves(t, to),
           to \notin {"check", "insert", "lock", "drain", "rotate"},
           UNCHANGED <<generation, full>>,
           \A s \in Slot : state[s] = "READY" => state'[s] = "READY"
    PROVE  InsertsInv'
<1>1. \A u \in Thread : pc'[u] = IF u = t THEN to ELSE pc[u]
  BY DEF TypeOK, Moves
<1>2. \A w \in Writer : w \in Thread
  BY DEF Thread
<1>3. SlotOf(generation + 1) \in Slot
  BY SlotsTyped
<1> QED BY <1>1, <1>2, <1>3 DEF InsertsInv, Moves, Ready

(* A move that does not enter a compaction.                                *)
LEMMA CompactFrame ==
    ASSUME TypeOK, CompactInv, NEW t \in Thread, NEW to \in PC, Moves(t, to),
           to \notin {"process", "compact", "pack", "start"} \/ t \in Reader,
           UNCHANGED <<mt_generation, queue>>,
           \A s \in Slot : state[s] \in {"FINALIZED", "COMPACTING"} => state'[s] = state[s]
    PROVE  CompactInv'
<1>1. \A u \in Thread : pc'[u] = IF u = t THEN to ELSE pc[u]
  BY DEF TypeOK, Moves
<1>2. \A u \in Flusher : u \in Thread /\ u \notin Reader
  BY ThreadRoles
<1>3. \A u \in Flusher : gen[u] >= 0 => SlotOf(gen[u]) \in Slot
  BY <1>2, SlotsTyped
<1>4. \A i \in DOMAIN queue : SlotOf(queue[i]) \in Slot
  BY SlotsTyped
<1> QED BY <1>1, <1>2, <1>3, <1>4 DEF CompactInv, Moves, InState, Compacting

(* A move that does not take the turn to incorporate.                      *)
LEMMA TurnFrame ==
    ASSUME TypeOK, TurnInv, NEW t \in Thread, NEW to \in PC, Moves(t, to),
           to \notin Turn \/ t \in Reader, UNCHANGED <<generation_to_incorporate,
                                                       generation_retired,
                                                       mt_generation>>,
           \A s \in Slot : state[s] \in {"INCORPORATION_ASSIGNED", "INCORPORATED"} => state'[s] = state[s]
    PROVE  TurnInv'
<1>1. \A u \in Thread : pc'[u] = IF u = t THEN to ELSE pc[u]
  BY DEF TypeOK, Moves
<1>2. \A u \in Flusher : u \in Thread /\ u \notin Reader
  BY ThreadRoles
<1>3. {"switch", "unblock", "dec_ref"} \subseteq Incorporated
  BY DEF Incorporated
<1>4. \A u \in Flusher : SlotOf(gen[u]) \in Slot
  BY <1>2, SlotsTyped
<1> QED BY <1>1, <1>2, <1>3, <1>4 DEF TurnInv, Moves, InState, Turn

(* A move that takes and drops no reference.                               *)
LEMMA RefsFrame ==
    ASSUME TypeOK, RefsInv, NEW t \in Thread, NEW to \in PC, Moves(t, to),
           pc[t] \in {"switch", "unblock", "dec_ref"} <=> to \in {"switch", "unblock", "dec_ref"},
           pc[t] \in {"switch", "unblock", "dec_ref"} => gen'[t] = gen[t] /\ t \notin Reader,
           UNCHANGED <<mt_generation, generation_retired, refs, pinned>>,
           \A s \in Slot : state'[s] = "INCORPORATED" <=> state[s] = "INCORPORATED"
    PROVE  RefsInv'
<1>1. \A u \in Thread : pc'[u] = IF u = t THEN to ELSE pc[u]
  BY DEF TypeOK, Moves
<1>2. \A u \in Flusher : u \in Thread
  BY ThreadRoles
<1>3. \A r \in Reader : r \in Thread
  BY ThreadRoles
<1>4. ASSUME NEW s \in Slot PROVE Dropped(s)' <=> Dropped(s)
  BY <1>1, <1>2 DEF Dropped, Moves
<1>5. ASSUME NEW s \in Slot PROVE PinnedBy(s)' = PinnedBy(s)
  BY <1>1, <1>3 DEF PinnedBy, Moves
<1> QED BY <1>4, <1>5 DEF RefsInv

(* A move of a thread that is not a reader.                                *)
LEMMA ReadersFrame ==
    ASSUME TypeOK, ReadersInv, NEW t \in Thread, t \notin Reader, NEW to \in PC, Moves(t, to),
           UNCHANGED <<mt_generation, generation, generation_retired, pinned>>
    PROVE  ReadersInv'
<1>1. \A r \in Reader : r \in Thread /\ pc'[r] = pc[r] /\ gen'[r] = gen[r]
  BY ThreadRoles DEF TypeOK, Moves
<1> QED BY <1>1 DEF ReadersInv, Moves

(* A move that does not enter the recycling of a slot.                     *)
LEMMA RecycleFrame ==
    ASSUME TypeOK, RecycleInv, NEW t \in Thread, NEW to \in PC, Moves(t, to),
           to \notin {"recycle", "ready"}, UNCHANGED <<mt_generation,
                                                       generation,
                                                       generation_retired,
                                                       refs>>,
           \A s \in Slot : state[s] = "INCORPORATED" => state'[s] = "INCORPORATED"
    PROVE  RecycleInv'
<1>1. \A u \in Thread : pc'[u] = IF u = t THEN to ELSE pc[u]
  BY DEF TypeOK, Moves
<1>2. \A u \in Thread : SlotOf(gen[u]) \in Slot
  BY SlotsTyped
<1> QED BY <1>1, <1>2 DEF RecycleInv, Moves, InState

(* A step that changes no tree.                                            *)
LEMMA ContentFrame ==
    ASSUME ContentInv, UNCHANGED <<is_empty, content, generation, closing,
                                   full>>,
           \A s \in Slot : state'[s] = state[s] \/ state'[s] \notin {"FINALIZED", "COMPACTING"}
                             \/ state[s] \in {"FINALIZED", "COMPACTING"}
    PROVE  ContentInv'
BY DEF ContentInv

(* A move to a place of the same part.                                     *)
LEMMA RoleFrame ==
    ASSUME TypeOK, RoleInv, NEW t \in Thread, NEW to \in PC, Moves(t, to), closing' = closing,
           t \in Worker => to \in {"idle"} \cup TaskPC,
           t \in Reader => to \in ReaderPC /\ ~closing,
           t \in Writer => to \in {"idle"} \cup TaskPC \cup (IF closing THEN {"quiesce", "closed"} ELSE CallPC)
    PROVE  RoleInv'
<1>1. \A u \in Thread : pc'[u] = IF u = t THEN to ELSE pc[u]
  BY DEF TypeOK, Moves
<1>2. \A u \in Reader \cup Writer \cup Worker : u \in Thread
  BY DEF Thread
<1>3. closing => t \notin Reader
  OBVIOUS
<1> QED BY <1>1, <1>2, <1>3, MemtableAssumption DEF RoleInv

(* A tree with a message is not empty.                                     *)
LEMMA MergeMessage ==
    ASSUME NEW a \in Seq(Message), NEW m \in Message
    PROVE  Merge(a, <<m>>) \in Seq(Message) \ {<<>>}
<1>1. <<m>> \in Seq(Message) /\ <<m>> # <<>>
  OBVIOUS
<1>2. a \o <<m>> \in Seq(Message) /\ Len(a \o <<m>>) = Len(a) + 1 /\ Len(a) \in Nat
  BY <1>1
<1>3. a \o <<m>> # <<>>
  BY <1>2
<1> QED BY <1>1, <1>2, <1>3 DEF Merge

(* A memtable is taken, or done, by the thread that compacts it.           *)
LEMMA CompactSlotChange ==
    ASSUME TypeOK, CompactInv, NEW t \in Flusher, t \in Thread, NEW to \in {"pack", "start"}, NEW new,
           pc[t] \in {"compact", "pack"}, Moves(t, to), gen' = gen, gen[t] \in Nat,
           mt_generation[SlotOf(gen[t])] = gen[t], UNCHANGED <<mt_generation,
                                                               queue>>,
           \A q \in Slot : state'[q] = IF q = SlotOf(gen[t]) THEN new ELSE state[q],
           to = "pack" => new = "COMPACTING"
    PROVE  CompactInv'
<1>0. SlotOf(gen[t]) \in Slot
  BY SlotsTyped
<1>1. \A u \in Flusher : u # t => pc'[u] = pc[u] /\ gen'[u] = gen[u]
  BY ThreadRoles DEF Moves, TypeOK
<1>2. pc'[t] = to /\ gen'[t] = gen[t]
  BY DEF Moves, TypeOK
<1>3. \A g : InState(g, "FINALIZED") /\ g # gen[t] /\ SlotOf(g) \in Slot => InState(g, "FINALIZED")'
  BY DEF InState
<1>4. \A g : InState(g, "COMPACTING") /\ g # gen[t] /\ SlotOf(g) \in Slot => InState(g, "COMPACTING")'
  BY DEF InState
<1>5. \A u \in Flusher : SlotOf(gen[u]) \in Slot
  BY SlotsTyped, ThreadRoles
<1>6. \A i \in DOMAIN queue : SlotOf(queue[i]) \in Slot
  BY SlotsTyped
<1>7. \A i \in DOMAIN queue : queue[i] # gen[t]
  BY DEF CompactInv, InState
<1>8. \A u \in Flusher : u # t /\ pc[u] \in {"process", "compact", "pack"} => gen[u] # gen[t]
  BY DEF CompactInv, Compacting, InState
<1>9. (\A u \in Flusher :
        /\ pc[u] \in {"process", "compact"} => gen[u] >= 0 /\ InState(gen[u], "FINALIZED")
        /\ pc[u] = "pack" => gen[u] >= 0 /\ InState(gen[u], "COMPACTING")
        /\ pc[u] = "start" => gen[u] >= 0
        /\ pc[u] \in {"process"} \cup Compacting =>
              \A v \in Flusher \ {u} :
                  pc[v] \in {"process"} \cup Compacting => gen[v] # gen[u])'
  <2> SUFFICES ASSUME NEW u \in Flusher
      PROVE (/\ pc[u] \in {"process", "compact"} => gen[u] >= 0 /\ InState(gen[u], "FINALIZED")
             /\ pc[u] = "pack" => gen[u] >= 0 /\ InState(gen[u], "COMPACTING")
             /\ pc[u] = "start" => gen[u] >= 0
             /\ pc[u] \in {"process"} \cup Compacting =>
                  \A v \in Flusher \ {u} :
                      pc[v] \in {"process"} \cup Compacting => gen[v] # gen[u])'
    OBVIOUS
  <2>1. CASE u = t
    BY <1>0, <1>1, <1>2, <1>8, <2>1 DEF Compacting, InState, CompactInv
  <2>2. CASE u # t
    <3>1. pc'[u] = pc[u] /\ gen'[u] = gen[u] /\ SlotOf(gen[u]) \in Slot
      BY <1>1, <1>5, <2>2
    <3>2. pc[u] \in {"process", "compact"} => gen[u] >= 0 /\ InState(gen[u], "FINALIZED") /\ gen[u] # gen[t]
      BY <1>8, <2>2 DEF CompactInv
    <3>3. pc[u] = "pack" => gen[u] >= 0 /\ InState(gen[u], "COMPACTING") /\ gen[u] # gen[t]
      BY <1>8, <2>2 DEF CompactInv
    <3>4. (pc[u] \in {"process", "compact"} => gen[u] >= 0 /\ InState(gen[u], "FINALIZED"))'
      BY <3>1, <3>2 DEF InState
    <3>5. (pc[u] = "pack" => gen[u] >= 0 /\ InState(gen[u], "COMPACTING"))'
      BY <3>1, <3>3 DEF InState
    <3>6. (pc[u] = "start" => gen[u] >= 0)'
      BY <3>1 DEF CompactInv
    <3>7. ASSUME NEW v \in Flusher \ {u}, pc'[u] \in {"process"} \cup Compacting, pc'[v] \in {"process"} \cup Compacting
          PROVE  gen'[v] # gen'[u]
      BY <1>1, <1>2, <1>8, <2>2, <3>1, <3>7 DEF CompactInv, Compacting
    <3> QED BY <3>4, <3>5, <3>6, <3>7
  <2> QED BY <2>1, <2>2
<1>10. ASSUME NEW i \in DOMAIN queue
      PROVE  /\ InState(queue[i], "FINALIZED")'
             /\ \A u \in Flusher : pc'[u] \in {"process", "compact"} => gen'[u] # queue[i]
  <2>1. InState(queue[i], "FINALIZED") /\ queue[i] # gen[t] /\ SlotOf(queue[i]) \in Slot
    BY <1>6, <1>7 DEF CompactInv
  <2>2. InState(queue[i], "FINALIZED")'
    BY <2>1 DEF InState
  <2> QED BY <1>1, <1>2, <1>7, <2>2 DEF CompactInv
<1> QED BY <1>9, <1>10 DEF CompactInv, InState

(* What is merged is messages.                                             *)
LEMMA MergeType ==
    ASSUME NEW a \in Seq(Message), NEW b \in Seq(Message)
    PROVE  Merge(a, b) \in Seq(Message)
BY DEF Merge

(* Where a thread goes on when a task is done. *)
AfterTask(t) == IF t \in Worker THEN "idle" ELSE IF closing THEN "quiesce" ELSE "retry"

(* The pins on a slot can be counted.                                      *)
LEMMA PinnedFinite ==
    ASSUME NEW s
    PROVE  /\ IsFiniteSet(PinnedBy(s))
           /\ Cardinality(PinnedBy(s)) \in Nat
           /\ Cardinality(PinnedBy(s)) = 0 <=> PinnedBy(s) = {}
<1>1. PinnedBy(s) \subseteq Reader
  BY DEF PinnedBy
<1> QED BY <1>1, MemtableAssumption, FS_Subset, FS_CardinalityType, FS_EmptySet

(* Every generation that is not retired and not in the future is in its    *)
(* slot.                                                                   *)
LEMMA InPlace ==
    ASSUME TypeOK, SlotsInv, NEW g \in Int, generation_retired < g, g < generation
    PROVE  /\ SlotOf(g) \in Slot
           /\ mt_generation[SlotOf(g)] = g
           /\ state[SlotOf(g)] \in Behind
<1> DEFINE m == mt_generation[SlotOf(g)]
<1>1. SlotOf(g) \in Slot
  BY SlotType
<1>2. m \in Int /\ generation \in Int /\ generation_retired \in Int /\ NumMemtables \in Int
  BY <1>1, MemtableAssumption DEF TypeOK
<1>3. SlotOf(m) = SlotOf(g) /\ generation - NumMemtables <= m /\ m <= generation_retired + NumMemtables
  BY <1>1 DEF SlotsInv
<1>4. g - m < NumMemtables /\ m - g < NumMemtables
  BY <1>2, <1>3
<1>5. m = g
  BY <1>2, <1>3, <1>4, SlotUnique
<1>6. state[SlotOf(g)] # "READY" /\ state[SlotOf(g)] # "INCORPORATED"
  BY <1>1, <1>2, <1>5 DEF SlotsInv
<1> QED BY <1>1, <1>5, <1>6 DEF TypeOK, States, Behind

(* Until close, the current memtable is ready and in its slot.             *)
LEMMA CurrentInPlace ==
    ASSUME TypeOK, SlotsInv, ~closing
    PROVE  /\ SlotOf(generation) \in Slot
           /\ mt_generation[SlotOf(generation)] = generation
           /\ state[SlotOf(generation)] = "READY"
<1> DEFINE m == mt_generation[SlotOf(generation)]
<1>1. SlotOf(generation) \in Slot /\ state[SlotOf(generation)] = "READY"
  BY SlotsTyped DEF SlotsInv, Ready
<1>2. m \in Int /\ generation \in Int /\ generation_retired \in Int /\ NumMemtables \in Int
  BY <1>1, MemtableAssumption DEF TypeOK
<1>3. SlotOf(m) = SlotOf(generation) /\ generation <= m /\ m <= generation_retired + NumMemtables /\ generation_retired < generation
  BY <1>1 DEF SlotsInv
<1>4. generation - m < NumMemtables /\ m - generation < NumMemtables
  BY <1>2, <1>3
<1>5. m = generation
  BY <1>2, <1>3, <1>4, SlotUnique
<1> QED BY <1>1, <1>5

(* A lookup or an iterator finds every generation it walks.                *)
LEMMA WalkedInPlace ==
    ASSUME TypeOK, RoleInv, SlotsInv, ReadersInv, NEW r \in Reader, pc[r] \in {"lookup", "iter_init"},
           gen[r] # generation_retired
    PROVE  /\ generation_retired < gen[r] /\ SlotOf(gen[r]) \in Slot
           /\ mt_generation[SlotOf(gen[r])] = gen[r] /\ state[SlotOf(gen[r])] # "INCORPORATED"
<1>1. ~closing
  BY DEF RoleInv
<1>2. r \in Thread
  BY ThreadRoles
<1>3. gen[r] \in Int /\ generation \in Int /\ generation_retired \in Int
  BY <1>2, SlotsTyped DEF TypeOK
<1>4. generation_retired < gen[r] /\ gen[r] <= generation
  BY <1>3 DEF ReadersInv
<1>5. CASE gen[r] = generation
  BY <1>1, <1>4, <1>5, CurrentInPlace
<1>6. CASE gen[r] < generation
  BY <1>3, <1>4, <1>6, InPlace DEF Behind
<1> QED BY <1>3, <1>4, <1>5, <1>6

(* The range of generation_retired.                                        *)
LEMMA FromMinusOne == ASSUME NEW x \in Int, x >= -1 PROVE x \in Nat \cup {-1}
<1>1. x >= 0 \/ x = -1
  OBVIOUS
<1> QED BY <1>1

-----------------------------------------------------------------------------
(* The current memtable is finalized and the next one becomes current.     *)

Advances ==
    /\ ~closing
    /\ generation' = generation + 1
    /\ \A q \in Slot : state'[q] = IF q = SlotOf(generation) THEN "FINALIZED" ELSE state[q]
    /\ UNCHANGED <<mt_generation, generation_retired,
                   generation_to_incorporate>>

(* Rotation keeps the slots in order.                                      *)
LEMMA SlotsAdvance ==
    ASSUME TypeOK, SlotsInv, Advances, closing' \/ Ready(generation + 1)
    PROVE  SlotsInv'
<1>1. /\ SlotOf(generation) \in Slot /\ SlotOf(generation + 1) \in Slot
      /\ mt_generation[SlotOf(generation)] = generation
      /\ state[SlotOf(generation)] = "READY"
  BY SlotsTyped, CurrentInPlace DEF Advances
<1>2. /\ generation \in Int /\ generation_retired \in Int /\ NumMemtables \in Int /\ NumMemtables > 0
      /\ \A q \in Slot : mt_generation[q] \in Int
  BY MemtableAssumption DEF TypeOK
<1>3. SlotOf(generation + 1) # SlotOf(generation)
  BY <1>2, SlotNext
<1>4. ~closing' => Ready(generation)'
  BY <1>1, <1>3 DEF Advances, Ready
<1>5. \A q \in Slot : q # SlotOf(generation) => mt_generation[q] # generation /\ mt_generation[q] # generation - NumMemtables
  <2>1. generation - NumMemtables \in Int /\ (generation - NumMemtables) + NumMemtables = generation
    BY <1>2
  <2>2. SlotOf(generation - NumMemtables) = SlotOf(generation)
    BY <2>1, SlotShift
  <2> QED BY <2>2 DEF SlotsInv
<1>6. ASSUME NEW q \in Slot
      PROVE (/\ SlotOf(mt_generation[q]) = q
             /\ generation - NumMemtables <= mt_generation[q]
             /\ mt_generation[q] <= generation_retired + NumMemtables
             /\ state[q] = "READY" => mt_generation[q] >= generation
             /\ state[q] \in Behind => /\ generation_retired < mt_generation[q]
                                       /\ mt_generation[q] < generation
             /\ state[q] = "INCORPORATED" => \/ mt_generation[q] <= generation_retired
                                             \/ mt_generation[q] >= generation)'
  <2>1. CASE q = SlotOf(generation)
    BY <1>1, <1>2, <2>1 DEF SlotsInv, Advances
  <2>2. CASE q # SlotOf(generation)
    BY <1>2, <1>5, <2>2 DEF SlotsInv, Advances
  <2> QED BY <2>1, <2>2
<1>7. generation_retired' < generation' /\ generation_to_incorporate' \in {generation_retired', generation_retired' + 1}
  BY <1>2 DEF SlotsInv, Advances
<1> QED BY <1>4, <1>6, <1>7 DEF SlotsInv

(* Rotation does not disturb the recycling of another slot.                *)
LEMMA RecycleAdvance ==
    ASSUME TypeOK, SlotsInv, RecycleInv, Advances, NEW t \in Thread, NEW to \in PC \ {"recycle", "ready"},
           Moves(t, to), refs' = refs
    PROVE  RecycleInv'
<1>1. \A u \in Thread : pc'[u] = IF u = t THEN to ELSE pc[u]
  BY DEF TypeOK, Moves
<1>2. \A u \in Thread : gen[u] \in Int /\ SlotOf(gen[u]) \in Slot
  BY SlotsTyped
<1>3. /\ generation \in Int /\ NumMemtables \in Int /\ state[SlotOf(generation)] = "READY"
      /\ SlotOf(generation) \in Slot
  BY MemtableAssumption, CurrentInPlace DEF TypeOK, Advances
<1>4. ASSUME NEW u \in Thread, pc[u] = "ready"
      PROVE  generation + 1 <= gen[u] + NumMemtables
  <2>1. generation <= gen[u] + NumMemtables
    BY <1>4 DEF RecycleInv
  <2>2. generation # gen[u] + NumMemtables
    <3>1. mt_generation[SlotOf(gen[u])] = gen[u] + NumMemtables /\ state[SlotOf(gen[u])] = "INCORPORATED"
      BY <1>4 DEF RecycleInv
    <3>2. SlotOf(gen[u] + NumMemtables) = SlotOf(gen[u])
      BY <1>2, SlotShift
    <3> QED BY <1>3, <3>1, <3>2
  <2> QED BY <1>2, <1>3, <2>1, <2>2
<1>5. \A u \in Thread : pc[u] \in {"recycle", "ready"} => state'[SlotOf(gen[u])] = "INCORPORATED"
  BY <1>2, <1>3 DEF RecycleInv, InState, Advances
<1>7. \A u \in Thread : pc'[u] \in {"recycle", "ready"} => u # t /\ pc'[u] = pc[u] /\ gen'[u] = gen[u]
  BY <1>1 DEF Moves
<1> QED BY <1>2, <1>4, <1>5, <1>7 DEF RecycleInv, InState, Advances

(* Rotation hands the finalized memtable to one compaction.                *)
LEMMA CompactAdvance ==
    ASSUME TypeOK, SlotsInv, CompactInv, Advances, NEW t \in Writer, NEW to \in PC, Moves(t, to), gen' = gen,
           \/ to = "process" /\ gen[t] = generation /\ queue' = queue
           \/ to = "quiesce" /\ queue' = Append(queue, generation)
    PROVE  CompactInv'
<1>1. t \in Flusher /\ t \in Thread /\ \A u \in Flusher : u \in Thread /\ SlotOf(gen[u]) \in Slot
  BY ThreadRoles, SlotsTyped
<1>2. \A u \in Flusher : pc'[u] = IF u = t THEN to ELSE pc[u]
  BY <1>1 DEF TypeOK, Moves
<1>3. /\ SlotOf(generation) \in Slot /\ mt_generation[SlotOf(generation)] = generation
      /\ state[SlotOf(generation)] = "READY" /\ generation \in Nat
  BY CurrentInPlace DEF Advances, TypeOK
<1>4. \A g : SlotOf(g) \in Slot /\ InState(g, "FINALIZED") => InState(g, "FINALIZED")' /\ g # generation
  BY <1>3 DEF InState, Advances
<1>5. \A g : SlotOf(g) \in Slot /\ InState(g, "COMPACTING") => InState(g, "COMPACTING")' /\ g # generation
  BY <1>3 DEF InState, Advances
<1>6. InState(generation, "FINALIZED") <=> InState(generation, "FINALIZED")
  OBVIOUS
<1>7. mt_generation'[SlotOf(generation)] = generation /\ state'[SlotOf(generation)] = "FINALIZED"
  BY <1>3 DEF Advances
<1>8. \A u \in Flusher : pc[u] \in {"process"} \cup Compacting => gen[u] # generation
  BY <1>1, <1>4, <1>5 DEF CompactInv, Compacting
<1>9. \A i \in DOMAIN queue : SlotOf(queue[i]) \in Slot /\ queue[i] # generation
  BY <1>4, SlotsTyped DEF CompactInv
<1>10. ASSUME NEW u \in Flusher
       PROVE (/\ pc[u] \in {"process", "compact"} => gen[u] >= 0 /\ InState(gen[u], "FINALIZED")
              /\ pc[u] = "pack" => gen[u] >= 0 /\ InState(gen[u], "COMPACTING")
              /\ pc[u] = "start" => gen[u] >= 0
              /\ pc[u] \in {"process"} \cup Compacting =>
                    \A v \in Flusher \ {u} :
                        pc[v] \in {"process"} \cup Compacting => gen[v] # gen[u])'
  <2>1. CASE u = t
    BY <1>2, <1>3, <1>7, <1>8, <2>1 DEF InState, Compacting
  <2>2. CASE u # t
    <3>1. pc'[u] = pc[u]
      BY <1>2, <2>2
    <3>2. pc[u] \in {"process", "compact"} => gen[u] >= 0 /\ mt_generation'[SlotOf(gen[u])] = gen[u] /\ state'[SlotOf(gen[u])] = "FINALIZED"
      BY <1>1, <1>3 DEF CompactInv, InState, Advances
    <3>3. pc[u] = "pack" => gen[u] >= 0 /\ mt_generation'[SlotOf(gen[u])] = gen[u] /\ state'[SlotOf(gen[u])] = "COMPACTING"
      BY <1>1, <1>3 DEF CompactInv, InState, Advances
    <3>4. pc[u] \in {"process"} \cup Compacting => \A v \in Flusher \ {u} : pc'[v] \in {"process"} \cup Compacting => gen[v] # gen[u]
      BY <1>1, <1>2, <1>8, <2>2 DEF CompactInv, Compacting
    <3>5. pc[u] = "start" => gen[u] >= 0
      BY DEF CompactInv
    <3> QED BY <3>1, <3>2, <3>3, <3>4, <3>5 DEF InState
  <2> QED BY <2>1, <2>2
<1>11. \A i \in DOMAIN queue :
          /\ mt_generation'[SlotOf(queue[i])] = queue[i] /\ state'[SlotOf(queue[i])] = "FINALIZED"
          /\ \A u \in Flusher : pc'[u] \in {"process", "compact"} => gen[u] # queue[i]
          /\ \A j \in DOMAIN queue : queue[i] = queue[j] => i = j
  BY <1>1, <1>2, <1>3, <1>9 DEF CompactInv, InState, Advances
<1>12. ASSUME NEW i \in DOMAIN queue'
       PROVE (/\ InState(queue[i], "FINALIZED")
              /\ \A u \in Flusher : pc[u] \in {"process", "compact"} => gen[u] # queue[i]
              /\ \A j \in DOMAIN queue : queue[i] = queue[j] => i = j)'
  <2>1. CASE queue' = queue
    BY <1>11, <1>12, <2>1 DEF InState
  <2>2. CASE to = "quiesce" /\ queue' = Append(queue, generation)
    <3>1. /\ Len(queue) \in Nat /\ DOMAIN queue = 1 .. Len(queue)
          /\ DOMAIN queue' = 1 .. Len(queue) + 1
          /\ \A j \in DOMAIN queue : queue'[j] = queue[j]
          /\ queue'[Len(queue) + 1] = generation
      BY <1>3, <2>2 DEF TypeOK
    <3>2. \A u \in Flusher : pc'[u] \in {"process", "compact"} => gen[u] # generation
      BY <1>2, <1>8, <2>2 DEF Compacting
    <3>3. CASE i \in DOMAIN queue
      BY <1>9, <1>11, <3>1, <3>3 DEF InState
    <3>4. CASE i = Len(queue) + 1
      BY <1>7, <1>9, <3>1, <3>2, <3>4 DEF InState
    <3> QED BY <1>12, <3>1, <3>3, <3>4
  <2> QED BY <2>1, <2>2
<1> QED BY <1>10, <1>12 DEF CompactInv

(* One lemma per action: it keeps the invariant.  A lemma first says where *)
(* the thread goes and what stays as it is, then has one step per part of  *)
(* the invariant, by the frame lemma of the part or, where the action      *)
(* disturbs the part, by its own argument.                                 *)
LEMMA InsertCallKeeps ==
    ASSUME IInv, NEW t \in Writer, InsertCall(t)
    PROVE  IInv'
<1>1. /\ TypeOK /\ RoleInv /\ LocksInv /\ SlotsInv /\ InsertsInv /\ CompactInv
      /\ TurnInv /\ RefsInv /\ ReadersInv /\ RecycleInv /\ ContentInv
  BY DEF IInv
<1>2. t \in Thread /\ t \in Flusher /\ t \notin Reader /\ t \notin Worker
  BY ThreadRoles, MemtableAssumption DEF Flusher, Thread
<1>3. /\ "retry" \in PC
      /\ Moves(t, "retry")
      /\ pc[t] = "idle" /\ ~closing /\ gen' = gen
      /\ SamePlaces /\ SameTurns
      /\ UNCHANGED <<closing, full, queue, refs, pinned, is_empty, content>>
      /\ UNCHANGED <<insert_lock, lookup_lock>>
  BY <1>1, <1>2
  DEF InsertCall, Goto, Moves, PC, TypeOK, SamePlaces, SameTurns, ctxtVars,
      slotVars, dataVars, rootVars, lockVars, readVars, histVars
<1>4. TypeOK'
  BY <1>1, <1>2, <1>3
  DEF InsertCall, Goto, TypeOK, PC, Insert!Modes, Lookup!Modes, ctxtVars,
      slotVars, dataVars, rootVars, lockVars, readVars, histVars
<1>5. RoleInv'
  BY <1>1, <1>2, <1>3, RoleFrame
  DEF RoleInv, PC, TaskPC, Turn, Compacting, Incorporating, Incorporated,
      CallPC, ReaderPC
<1>6. LocksInv'
  BY <1>1, <1>2, <1>3, LocksFrame DEF InsertMode, LookupMode
<1>7. SlotsInv'
  BY <1>1, <1>2, <1>3, SlotsFrame DEF SamePlaces, SameTurns
<1>8. InsertsInv'
  BY <1>1, <1>2, <1>3, InsertsFrame DEF SamePlaces, SameTurns
<1>9. CompactInv'
  BY <1>1, <1>2, <1>3, CompactFrame DEF SamePlaces, SameTurns
<1>10. TurnInv'
  BY <1>1, <1>2, <1>3, TurnFrame
  DEF SamePlaces, SameTurns, Turn, Incorporating, Incorporated
<1>11. RefsInv'
  BY <1>1, <1>2, <1>3, RefsFrame DEF SamePlaces, SameTurns
<1>12. ReadersInv'
  BY <1>1, <1>2, <1>3, ReadersFrame DEF SamePlaces, SameTurns
<1>13. RecycleInv'
  BY <1>1, <1>2, <1>3, RecycleFrame DEF SamePlaces, SameTurns
<1>14. ContentInv'
  BY <1>1, <1>2, <1>3, ContentFrame DEF SamePlaces, SameTurns
<1> QED
  BY <1>4, <1>5, <1>6, <1>7, <1>8, <1>9, <1>10, <1>11, <1>12, <1>13, <1>14
  DEF IInv

LEMMA BeginInsertKeeps ==
    ASSUME IInv, NEW t \in Writer, BeginInsert(t)
    PROVE  IInv'
<1>1. /\ TypeOK /\ RoleInv /\ LocksInv /\ SlotsInv /\ InsertsInv /\ CompactInv
      /\ TurnInv /\ RefsInv /\ ReadersInv /\ RecycleInv /\ ContentInv
  BY DEF IInv
<1>2. t \in Thread /\ t \in Flusher /\ t \notin Reader /\ t \notin Worker
  BY ThreadRoles, MemtableAssumption DEF Flusher, Thread
<1>3. /\ "check" \in PC
      /\ Moves(t, "check")
      /\ pc[t] = "retry" /\ gen' = [gen EXCEPT ![t] = generation]
      /\ \A u \in Thread : insert_lock[u] \notin {"drain", "write"}
      /\ insert_lock[t] = "none" /\ lookup_lock' = lookup_lock /\ insert_lock' = [insert_lock EXCEPT ![t] = "read"]
      /\ SamePlaces /\ SameTurns
      /\ UNCHANGED <<closing, full, queue, refs, pinned, is_empty, content>>
  BY <1>1, <1>2
  DEF BeginInsert, Goto, Moves, PC, TypeOK, SamePlaces, SameTurns, Insert!Get,
      Insert!Unget, Insert!Claim, Insert!Lock, Insert!Drained,
      Insert!FullUnlock, Insert!Move, Insert!Claims, ctxtVars, slotVars,
      dataVars, rootVars, lockVars, readVars, histVars
<1>4. TypeOK'
  BY <1>1, <1>2, <1>3
  DEF BeginInsert, Goto, TypeOK, PC, Insert!Modes, Lookup!Modes, Insert!Get,
      Insert!Unget, Insert!Claim, Insert!Lock, Insert!Drained,
      Insert!FullUnlock, Insert!Move, Insert!Claims, ctxtVars, slotVars,
      dataVars, rootVars, lockVars, readVars, histVars
<1>5. RoleInv'
  BY <1>1, <1>2, <1>3, RoleFrame
  DEF RoleInv, PC, TaskPC, Turn, Compacting, Incorporating, Incorporated,
      CallPC, ReaderPC
<1>6. LocksInv'
  BY <1>1, <1>2, <1>3
  DEF LocksInv, TypeOK, Moves, InsertMode, LookupMode, Insert!Claims,
      Lookup!Claims
<1>7. SlotsInv'
  BY <1>1, <1>2, <1>3, SlotsFrame DEF SamePlaces, SameTurns
<1>8. InsertsInv'
  <2>1. \A w \in Writer : w # t => pc'[w] = pc[w] /\ gen'[w] = gen[w]
    BY <1>1, <1>3 DEF Moves, TypeOK, Thread
  <2>2. pc'[t] = "check" /\ gen'[t] = generation
    BY <1>1, <1>2, <1>3 DEF Moves, TypeOK, InsertsInv, SamePlaces
  <2> QED
    BY <1>1, <1>3, <2>1, <2>2
    DEF InsertsInv, SamePlaces, SameTurns, Ready
<1>9. CompactInv'
  BY <1>1, <1>2, <1>3, CompactFrame DEF SamePlaces, SameTurns
<1>10. TurnInv'
  BY <1>1, <1>2, <1>3, TurnFrame
  DEF SamePlaces, SameTurns, Turn, Incorporating, Incorporated
<1>11. RefsInv'
  BY <1>1, <1>2, <1>3, RefsFrame DEF SamePlaces, SameTurns
<1>12. ReadersInv'
  BY <1>1, <1>2, <1>3, ReadersFrame DEF SamePlaces, SameTurns
<1>13. RecycleInv'
  BY <1>1, <1>2, <1>3, RecycleFrame DEF SamePlaces, SameTurns
<1>14. ContentInv'
  BY <1>1, <1>2, <1>3, ContentFrame DEF SamePlaces, SameTurns
<1> QED
  BY <1>4, <1>5, <1>6, <1>7, <1>8, <1>9, <1>10, <1>11, <1>12, <1>13, <1>14
  DEF IInv

LEMMA MayInsertKeeps ==
    ASSUME IInv, NEW t \in Writer, MayInsert(t)
    PROVE  IInv'
<1>1. /\ TypeOK /\ RoleInv /\ LocksInv /\ SlotsInv /\ InsertsInv /\ CompactInv
      /\ TurnInv /\ RefsInv /\ ReadersInv /\ RecycleInv /\ ContentInv
  BY DEF IInv
<1>2. t \in Thread /\ t \in Flusher /\ t \notin Reader /\ t \notin Worker
  BY ThreadRoles, MemtableAssumption DEF Flusher, Thread
<1>3. /\ "insert" \in PC
      /\ Moves(t, "insert")
      /\ pc[t] = "check" /\ gen' = gen
      /\ SamePlaces /\ SameTurns
      /\ UNCHANGED <<closing, full, queue, refs, pinned, is_empty, content>>
      /\ UNCHANGED <<insert_lock, lookup_lock>>
  BY <1>1, <1>2
  DEF MayInsert, Goto, Moves, PC, TypeOK, SamePlaces, SameTurns, ctxtVars,
      slotVars, dataVars, rootVars, lockVars, readVars, histVars
<1>4. TypeOK'
  BY <1>1, <1>2, <1>3
  DEF MayInsert, Goto, TypeOK, PC, Insert!Modes, Lookup!Modes, ctxtVars,
      slotVars, dataVars, rootVars, lockVars, readVars, histVars
<1>5. RoleInv'
  BY <1>1, <1>2, <1>3, RoleFrame
  DEF RoleInv, PC, TaskPC, Turn, Compacting, Incorporating, Incorporated,
      CallPC, ReaderPC
<1>6. LocksInv'
  BY <1>1, <1>2, <1>3, LocksFrame DEF InsertMode, LookupMode
<1>7. SlotsInv'
  BY <1>1, <1>2, <1>3, SlotsFrame DEF SamePlaces, SameTurns
<1>8. InsertsInv'
  <2>1. \A w \in Writer : w # t => pc'[w] = pc[w] /\ gen'[w] = gen[w]
    BY <1>1, <1>3 DEF Moves, TypeOK, Thread
  <2>2. pc'[t] = "insert" /\ gen'[t] = generation
    BY <1>1, <1>2, <1>3 DEF Moves, TypeOK, InsertsInv, SamePlaces
  <2> QED
    BY <1>1, <1>3, <2>1, <2>2
    DEF InsertsInv, SamePlaces, SameTurns, Ready
<1>9. CompactInv'
  BY <1>1, <1>2, <1>3, CompactFrame DEF SamePlaces, SameTurns
<1>10. TurnInv'
  BY <1>1, <1>2, <1>3, TurnFrame
  DEF SamePlaces, SameTurns, Turn, Incorporating, Incorporated
<1>11. RefsInv'
  BY <1>1, <1>2, <1>3, RefsFrame DEF SamePlaces, SameTurns
<1>12. ReadersInv'
  BY <1>1, <1>2, <1>3, ReadersFrame DEF SamePlaces, SameTurns
<1>13. RecycleInv'
  BY <1>1, <1>2, <1>3, RecycleFrame DEF SamePlaces, SameTurns
<1>14. ContentInv'
  BY <1>1, <1>2, <1>3, ContentFrame DEF SamePlaces, SameTurns
<1> QED
  BY <1>4, <1>5, <1>6, <1>7, <1>8, <1>9, <1>10, <1>11, <1>12, <1>13, <1>14
  DEF IInv

LEMMA BackOffKeeps ==
    ASSUME IInv, NEW t \in Writer, BackOff(t)
    PROVE  IInv'
<1>1. /\ TypeOK /\ RoleInv /\ LocksInv /\ SlotsInv /\ InsertsInv /\ CompactInv
      /\ TurnInv /\ RefsInv /\ ReadersInv /\ RecycleInv /\ ContentInv
  BY DEF IInv
<1>2. t \in Thread /\ t \in Flusher /\ t \notin Reader /\ t \notin Worker
  BY ThreadRoles, MemtableAssumption DEF Flusher, Thread
<1>3. /\ "retry" \in PC
      /\ Moves(t, "retry")
      /\ pc[t] = "check" /\ gen' = gen
      /\ insert_lock[t] = "read" /\ lookup_lock' = lookup_lock /\ insert_lock' = [insert_lock EXCEPT ![t] = "none"]
      /\ SamePlaces /\ SameTurns
      /\ UNCHANGED <<closing, full, queue, refs, pinned, is_empty, content>>
  BY <1>1, <1>2
  DEF BackOff, Goto, Moves, PC, TypeOK, SamePlaces, SameTurns, Insert!Get,
      Insert!Unget, Insert!Claim, Insert!Lock, Insert!Drained,
      Insert!FullUnlock, Insert!Move, Insert!Claims, ctxtVars, slotVars,
      dataVars, rootVars, lockVars, readVars, histVars
<1>4. TypeOK'
  BY <1>1, <1>2, <1>3
  DEF BackOff, Goto, TypeOK, PC, Insert!Modes, Lookup!Modes, Insert!Get,
      Insert!Unget, Insert!Claim, Insert!Lock, Insert!Drained,
      Insert!FullUnlock, Insert!Move, Insert!Claims, ctxtVars, slotVars,
      dataVars, rootVars, lockVars, readVars, histVars
<1>5. RoleInv'
  BY <1>1, <1>2, <1>3, RoleFrame
  DEF RoleInv, PC, TaskPC, Turn, Compacting, Incorporating, Incorporated,
      CallPC, ReaderPC
<1>6. LocksInv'
  BY <1>1, <1>2, <1>3
  DEF LocksInv, TypeOK, Moves, InsertMode, LookupMode, Insert!Claims,
      Lookup!Claims
<1>7. SlotsInv'
  BY <1>1, <1>2, <1>3, SlotsFrame DEF SamePlaces, SameTurns
<1>8. InsertsInv'
  BY <1>1, <1>2, <1>3, InsertsFrame DEF SamePlaces, SameTurns
<1>9. CompactInv'
  BY <1>1, <1>2, <1>3, CompactFrame DEF SamePlaces, SameTurns
<1>10. TurnInv'
  BY <1>1, <1>2, <1>3, TurnFrame
  DEF SamePlaces, SameTurns, Turn, Incorporating, Incorporated
<1>11. RefsInv'
  BY <1>1, <1>2, <1>3, RefsFrame DEF SamePlaces, SameTurns
<1>12. ReadersInv'
  BY <1>1, <1>2, <1>3, ReadersFrame DEF SamePlaces, SameTurns
<1>13. RecycleInv'
  BY <1>1, <1>2, <1>3, RecycleFrame DEF SamePlaces, SameTurns
<1>14. ContentInv'
  BY <1>1, <1>2, <1>3, ContentFrame DEF SamePlaces, SameTurns
<1> QED
  BY <1>4, <1>5, <1>6, <1>7, <1>8, <1>9, <1>10, <1>11, <1>12, <1>13, <1>14
  DEF IInv

LEMMA BusyKeeps ==
    ASSUME IInv, NEW t \in Writer, Busy(t)
    PROVE  IInv'
<1>1. /\ TypeOK /\ RoleInv /\ LocksInv /\ SlotsInv /\ InsertsInv /\ CompactInv
      /\ TurnInv /\ RefsInv /\ ReadersInv /\ RecycleInv /\ ContentInv
  BY DEF IInv
<1>2. t \in Thread /\ t \in Flusher /\ t \notin Reader /\ t \notin Worker
  BY ThreadRoles, MemtableAssumption DEF Flusher, Thread
<1>3. /\ "busy" \in PC
      /\ Moves(t, "busy")
      /\ pc[t] = "check" /\ gen' = gen
      /\ insert_lock[t] = "read" /\ lookup_lock' = lookup_lock /\ insert_lock' = [insert_lock EXCEPT ![t] = "none"]
      /\ SamePlaces /\ SameTurns
      /\ UNCHANGED <<closing, full, queue, refs, pinned, is_empty, content>>
  BY <1>1, <1>2
  DEF Busy, Goto, Moves, PC, TypeOK, SamePlaces, SameTurns, Insert!Get,
      Insert!Unget, Insert!Claim, Insert!Lock, Insert!Drained,
      Insert!FullUnlock, Insert!Move, Insert!Claims, ctxtVars, slotVars,
      dataVars, rootVars, lockVars, readVars, histVars
<1>4. TypeOK'
  BY <1>1, <1>2, <1>3
  DEF Busy, Goto, TypeOK, PC, Insert!Modes, Lookup!Modes, Insert!Get,
      Insert!Unget, Insert!Claim, Insert!Lock, Insert!Drained,
      Insert!FullUnlock, Insert!Move, Insert!Claims, ctxtVars, slotVars,
      dataVars, rootVars, lockVars, readVars, histVars
<1>5. RoleInv'
  BY <1>1, <1>2, <1>3, RoleFrame
  DEF RoleInv, PC, TaskPC, Turn, Compacting, Incorporating, Incorporated,
      CallPC, ReaderPC
<1>6. LocksInv'
  BY <1>1, <1>2, <1>3
  DEF LocksInv, TypeOK, Moves, InsertMode, LookupMode, Insert!Claims,
      Lookup!Claims
<1>7. SlotsInv'
  BY <1>1, <1>2, <1>3, SlotsFrame DEF SamePlaces, SameTurns
<1>8. InsertsInv'
  BY <1>1, <1>2, <1>3, InsertsFrame DEF SamePlaces, SameTurns
<1>9. CompactInv'
  BY <1>1, <1>2, <1>3, CompactFrame DEF SamePlaces, SameTurns
<1>10. TurnInv'
  BY <1>1, <1>2, <1>3, TurnFrame
  DEF SamePlaces, SameTurns, Turn, Incorporating, Incorporated
<1>11. RefsInv'
  BY <1>1, <1>2, <1>3, RefsFrame DEF SamePlaces, SameTurns
<1>12. ReadersInv'
  BY <1>1, <1>2, <1>3, ReadersFrame DEF SamePlaces, SameTurns
<1>13. RecycleInv'
  BY <1>1, <1>2, <1>3, RecycleFrame DEF SamePlaces, SameTurns
<1>14. ContentInv'
  BY <1>1, <1>2, <1>3, ContentFrame DEF SamePlaces, SameTurns
<1> QED
  BY <1>4, <1>5, <1>6, <1>7, <1>8, <1>9, <1>10, <1>11, <1>12, <1>13, <1>14
  DEF IInv

LEMMA BusyRetryKeeps ==
    ASSUME IInv, NEW t \in Writer, BusyRetry(t)
    PROVE  IInv'
<1>1. /\ TypeOK /\ RoleInv /\ LocksInv /\ SlotsInv /\ InsertsInv /\ CompactInv
      /\ TurnInv /\ RefsInv /\ ReadersInv /\ RecycleInv /\ ContentInv
  BY DEF IInv
<1>2. t \in Thread /\ t \in Flusher /\ t \notin Reader /\ t \notin Worker
  BY ThreadRoles, MemtableAssumption DEF Flusher, Thread
<1>3. /\ "retry" \in PC
      /\ Moves(t, "retry")
      /\ pc[t] = "busy" /\ gen' = gen
      /\ SamePlaces /\ SameTurns
      /\ UNCHANGED <<closing, full, queue, refs, pinned, is_empty, content>>
      /\ UNCHANGED <<insert_lock, lookup_lock>>
  BY <1>1, <1>2
  DEF BusyRetry, Goto, Moves, PC, TypeOK, SamePlaces, SameTurns, ctxtVars,
      slotVars, dataVars, rootVars, lockVars, readVars, histVars
<1>4. TypeOK'
  BY <1>1, <1>2, <1>3
  DEF BusyRetry, Goto, TypeOK, PC, Insert!Modes, Lookup!Modes, ctxtVars,
      slotVars, dataVars, rootVars, lockVars, readVars, histVars
<1>5. RoleInv'
  BY <1>1, <1>2, <1>3, RoleFrame
  DEF RoleInv, PC, TaskPC, Turn, Compacting, Incorporating, Incorporated,
      CallPC, ReaderPC
<1>6. LocksInv'
  BY <1>1, <1>2, <1>3, LocksFrame DEF InsertMode, LookupMode
<1>7. SlotsInv'
  BY <1>1, <1>2, <1>3, SlotsFrame DEF SamePlaces, SameTurns
<1>8. InsertsInv'
  BY <1>1, <1>2, <1>3, InsertsFrame DEF SamePlaces, SameTurns
<1>9. CompactInv'
  BY <1>1, <1>2, <1>3, CompactFrame DEF SamePlaces, SameTurns
<1>10. TurnInv'
  BY <1>1, <1>2, <1>3, TurnFrame
  DEF SamePlaces, SameTurns, Turn, Incorporating, Incorporated
<1>11. RefsInv'
  BY <1>1, <1>2, <1>3, RefsFrame DEF SamePlaces, SameTurns
<1>12. ReadersInv'
  BY <1>1, <1>2, <1>3, ReadersFrame DEF SamePlaces, SameTurns
<1>13. RecycleInv'
  BY <1>1, <1>2, <1>3, RecycleFrame DEF SamePlaces, SameTurns
<1>14. ContentInv'
  BY <1>1, <1>2, <1>3, ContentFrame DEF SamePlaces, SameTurns
<1> QED
  BY <1>4, <1>5, <1>6, <1>7, <1>8, <1>9, <1>10, <1>11, <1>12, <1>13, <1>14
  DEF IInv

LEMMA ClaimRotationKeeps ==
    ASSUME IInv, NEW t \in Writer, ClaimRotation(t)
    PROVE  IInv'
<1>1. /\ TypeOK /\ RoleInv /\ LocksInv /\ SlotsInv /\ InsertsInv /\ CompactInv
      /\ TurnInv /\ RefsInv /\ ReadersInv /\ RecycleInv /\ ContentInv
  BY DEF IInv
<1>2. t \in Thread /\ t \in Flusher /\ t \notin Reader /\ t \notin Worker
  BY ThreadRoles, MemtableAssumption DEF Flusher, Thread
<1>3. /\ "lock" \in PC
      /\ Moves(t, "lock")
      /\ pc[t] = "check" /\ gen' = gen
      /\ Ready(gen[t] + 1) /\ full[SlotOf(gen[t])]
      /\ \A u \in Thread : ~Insert!Claims(u)
      /\ insert_lock[t] = "read" /\ lookup_lock' = lookup_lock /\ insert_lock' = [insert_lock EXCEPT ![t] = "claim"]
      /\ SamePlaces /\ SameTurns
      /\ UNCHANGED <<closing, full, queue, refs, pinned, is_empty, content>>
  BY <1>1, <1>2
  DEF ClaimRotation, Goto, Moves, PC, TypeOK, SamePlaces, SameTurns,
      Insert!Get, Insert!Unget, Insert!Claim, Insert!Lock, Insert!Drained,
      Insert!FullUnlock, Insert!Move, Insert!Claims, ctxtVars, slotVars,
      dataVars, rootVars, lockVars, readVars, histVars
<1>4. TypeOK'
  BY <1>1, <1>2, <1>3
  DEF ClaimRotation, Goto, TypeOK, PC, Insert!Modes, Lookup!Modes, Insert!Get,
      Insert!Unget, Insert!Claim, Insert!Lock, Insert!Drained,
      Insert!FullUnlock, Insert!Move, Insert!Claims, ctxtVars, slotVars,
      dataVars, rootVars, lockVars, readVars, histVars
<1>5. RoleInv'
  BY <1>1, <1>2, <1>3, RoleFrame
  DEF RoleInv, PC, TaskPC, Turn, Compacting, Incorporating, Incorporated,
      CallPC, ReaderPC
<1>6. LocksInv'
  BY <1>1, <1>2, <1>3
  DEF LocksInv, TypeOK, Moves, InsertMode, LookupMode, Insert!Claims,
      Lookup!Claims
<1>7. SlotsInv'
  BY <1>1, <1>2, <1>3, SlotsFrame DEF SamePlaces, SameTurns
<1>8. InsertsInv'
  <2>1. \A w \in Writer : w # t => pc'[w] = pc[w] /\ gen'[w] = gen[w]
    BY <1>1, <1>3 DEF Moves, TypeOK, Thread
  <2>2. pc'[t] = "lock" /\ gen'[t] = generation /\ Ready(generation + 1) /\ full[SlotOf(generation)]
    BY <1>1, <1>2, <1>3 DEF Moves, TypeOK, InsertsInv, SamePlaces
  <2> QED
    BY <1>1, <1>3, <2>1, <2>2
    DEF InsertsInv, SamePlaces, SameTurns, Ready
<1>9. CompactInv'
  BY <1>1, <1>2, <1>3, CompactFrame DEF SamePlaces, SameTurns
<1>10. TurnInv'
  BY <1>1, <1>2, <1>3, TurnFrame
  DEF SamePlaces, SameTurns, Turn, Incorporating, Incorporated
<1>11. RefsInv'
  BY <1>1, <1>2, <1>3, RefsFrame DEF SamePlaces, SameTurns
<1>12. ReadersInv'
  BY <1>1, <1>2, <1>3, ReadersFrame DEF SamePlaces, SameTurns
<1>13. RecycleInv'
  BY <1>1, <1>2, <1>3, RecycleFrame DEF SamePlaces, SameTurns
<1>14. ContentInv'
  BY <1>1, <1>2, <1>3, ContentFrame DEF SamePlaces, SameTurns
<1> QED
  BY <1>4, <1>5, <1>6, <1>7, <1>8, <1>9, <1>10, <1>11, <1>12, <1>13, <1>14
  DEF IInv

LEMMA LockRotationKeeps ==
    ASSUME IInv, NEW t \in Writer, pc[t] = "lock", LockRotation(t)
    PROVE  IInv'
<1>1. /\ TypeOK /\ RoleInv /\ LocksInv /\ SlotsInv /\ InsertsInv /\ CompactInv
      /\ TurnInv /\ RefsInv /\ ReadersInv /\ RecycleInv /\ ContentInv
  BY DEF IInv
<1>2. t \in Thread /\ t \in Flusher /\ t \notin Reader /\ t \notin Worker
  BY ThreadRoles, MemtableAssumption DEF Flusher, Thread
<1>3. /\ "drain" \in PC
      /\ Moves(t, "drain")
      /\ gen' = gen
      /\ insert_lock[t] = "claim" /\ lookup_lock' = lookup_lock /\ insert_lock' = [insert_lock EXCEPT ![t] = "drain"]
      /\ SamePlaces /\ SameTurns
      /\ UNCHANGED <<closing, full, queue, refs, pinned, is_empty, content>>
  BY <1>1, <1>2
  DEF LockRotation, Goto, Moves, PC, TypeOK, SamePlaces, SameTurns, Insert!Get,
      Insert!Unget, Insert!Claim, Insert!Lock, Insert!Drained,
      Insert!FullUnlock, Insert!Move, Insert!Claims, ctxtVars, slotVars,
      dataVars, rootVars, lockVars, readVars, histVars
<1>4. TypeOK'
  BY <1>1, <1>2, <1>3
  DEF LockRotation, Goto, TypeOK, PC, Insert!Modes, Lookup!Modes, Insert!Get,
      Insert!Unget, Insert!Claim, Insert!Lock, Insert!Drained,
      Insert!FullUnlock, Insert!Move, Insert!Claims, ctxtVars, slotVars,
      dataVars, rootVars, lockVars, readVars, histVars
<1>5. RoleInv'
  BY <1>1, <1>2, <1>3, RoleFrame
  DEF RoleInv, PC, TaskPC, Turn, Compacting, Incorporating, Incorporated,
      CallPC, ReaderPC
<1>6. LocksInv'
  BY <1>1, <1>2, <1>3
  DEF LocksInv, TypeOK, Moves, InsertMode, LookupMode, Insert!Claims,
      Lookup!Claims
<1>7. SlotsInv'
  BY <1>1, <1>2, <1>3, SlotsFrame DEF SamePlaces, SameTurns
<1>8. InsertsInv'
  <2>1. \A w \in Writer : w # t => pc'[w] = pc[w] /\ gen'[w] = gen[w]
    BY <1>1, <1>3 DEF Moves, TypeOK, Thread
  <2>2. pc'[t] = "drain" /\ gen'[t] = generation /\ Ready(generation + 1) /\ full[SlotOf(generation)]
    BY <1>1, <1>2, <1>3 DEF Moves, TypeOK, InsertsInv, SamePlaces
  <2> QED
    BY <1>1, <1>3, <2>1, <2>2
    DEF InsertsInv, SamePlaces, SameTurns, Ready
<1>9. CompactInv'
  BY <1>1, <1>2, <1>3, CompactFrame DEF SamePlaces, SameTurns
<1>10. TurnInv'
  BY <1>1, <1>2, <1>3, TurnFrame
  DEF SamePlaces, SameTurns, Turn, Incorporating, Incorporated
<1>11. RefsInv'
  BY <1>1, <1>2, <1>3, RefsFrame DEF SamePlaces, SameTurns
<1>12. ReadersInv'
  BY <1>1, <1>2, <1>3, ReadersFrame DEF SamePlaces, SameTurns
<1>13. RecycleInv'
  BY <1>1, <1>2, <1>3, RecycleFrame DEF SamePlaces, SameTurns
<1>14. ContentInv'
  BY <1>1, <1>2, <1>3, ContentFrame DEF SamePlaces, SameTurns
<1> QED
  BY <1>4, <1>5, <1>6, <1>7, <1>8, <1>9, <1>10, <1>11, <1>12, <1>13, <1>14
  DEF IInv

LEMMA DrainRotationKeeps ==
    ASSUME IInv, NEW t \in Writer, pc[t] = "drain", LockRotation(t)
    PROVE  IInv'
<1>1. /\ TypeOK /\ RoleInv /\ LocksInv /\ SlotsInv /\ InsertsInv /\ CompactInv
      /\ TurnInv /\ RefsInv /\ ReadersInv /\ RecycleInv /\ ContentInv
  BY DEF IInv
<1>2. t \in Thread /\ t \in Flusher /\ t \notin Reader /\ t \notin Worker
  BY ThreadRoles, MemtableAssumption DEF Flusher, Thread
<1>3. /\ "rotate" \in PC
      /\ Moves(t, "rotate")
      /\ gen' = gen
      /\ \A u \in Thread \ {t} : insert_lock[u] = "none"
      /\ insert_lock[t] = "drain" /\ lookup_lock' = lookup_lock /\ insert_lock' = [insert_lock EXCEPT ![t] = "write"]
      /\ SamePlaces /\ SameTurns
      /\ UNCHANGED <<closing, full, queue, refs, pinned, is_empty, content>>
  BY <1>1, <1>2
  DEF LockRotation, Goto, Moves, PC, TypeOK, SamePlaces, SameTurns, Insert!Get,
      Insert!Unget, Insert!Claim, Insert!Lock, Insert!Drained,
      Insert!FullUnlock, Insert!Move, Insert!Claims, ctxtVars, slotVars,
      dataVars, rootVars, lockVars, readVars, histVars
<1>4. TypeOK'
  BY <1>1, <1>2, <1>3
  DEF LockRotation, Goto, TypeOK, PC, Insert!Modes, Lookup!Modes, Insert!Get,
      Insert!Unget, Insert!Claim, Insert!Lock, Insert!Drained,
      Insert!FullUnlock, Insert!Move, Insert!Claims, ctxtVars, slotVars,
      dataVars, rootVars, lockVars, readVars, histVars
<1>5. RoleInv'
  BY <1>1, <1>2, <1>3, RoleFrame
  DEF RoleInv, PC, TaskPC, Turn, Compacting, Incorporating, Incorporated,
      CallPC, ReaderPC
<1>6. LocksInv'
  BY <1>1, <1>2, <1>3
  DEF LocksInv, TypeOK, Moves, InsertMode, LookupMode, Insert!Claims,
      Lookup!Claims
<1>7. SlotsInv'
  BY <1>1, <1>2, <1>3, SlotsFrame DEF SamePlaces, SameTurns
<1>8. InsertsInv'
  <2>1. \A w \in Writer : w # t => pc'[w] = pc[w] /\ gen'[w] = gen[w]
    BY <1>1, <1>3 DEF Moves, TypeOK, Thread
  <2>2. pc'[t] = "rotate" /\ gen'[t] = generation /\ Ready(generation + 1) /\ full[SlotOf(generation)]
    BY <1>1, <1>2, <1>3 DEF Moves, TypeOK, InsertsInv, SamePlaces
  <2> QED
    BY <1>1, <1>3, <2>1, <2>2
    DEF InsertsInv, SamePlaces, SameTurns, Ready
<1>9. CompactInv'
  BY <1>1, <1>2, <1>3, CompactFrame DEF SamePlaces, SameTurns
<1>10. TurnInv'
  BY <1>1, <1>2, <1>3, TurnFrame
  DEF SamePlaces, SameTurns, Turn, Incorporating, Incorporated
<1>11. RefsInv'
  BY <1>1, <1>2, <1>3, RefsFrame DEF SamePlaces, SameTurns
<1>12. ReadersInv'
  BY <1>1, <1>2, <1>3, ReadersFrame DEF SamePlaces, SameTurns
<1>13. RecycleInv'
  BY <1>1, <1>2, <1>3, RecycleFrame DEF SamePlaces, SameTurns
<1>14. ContentInv'
  BY <1>1, <1>2, <1>3, ContentFrame DEF SamePlaces, SameTurns
<1> QED
  BY <1>4, <1>5, <1>6, <1>7, <1>8, <1>9, <1>10, <1>11, <1>12, <1>13, <1>14
  DEF IInv

LEMMA EndInsertKeeps ==
    ASSUME IInv, NEW t \in Writer, EndInsert(t)
    PROVE  IInv'
<1>1. /\ TypeOK /\ RoleInv /\ LocksInv /\ SlotsInv /\ InsertsInv /\ CompactInv
      /\ TurnInv /\ RefsInv /\ ReadersInv /\ RecycleInv /\ ContentInv
  BY DEF IInv
<1>2. t \in Thread /\ t \in Flusher /\ t \notin Reader /\ t \notin Worker
  BY ThreadRoles, MemtableAssumption DEF Flusher, Thread
<1>3. /\ "idle" \in PC
      /\ Moves(t, "idle")
      /\ pc[t] = "inserted" /\ gen' = [gen EXCEPT ![t] = 0]
      /\ insert_lock[t] = "read" /\ lookup_lock' = lookup_lock /\ insert_lock' = [insert_lock EXCEPT ![t] = "none"]
      /\ SamePlaces /\ SameTurns
      /\ UNCHANGED <<closing, full, queue, refs, pinned, is_empty, content>>
  BY <1>1, <1>2
  DEF EndInsert, Goto, Moves, PC, TypeOK, SamePlaces, SameTurns, Insert!Get,
      Insert!Unget, Insert!Claim, Insert!Lock, Insert!Drained,
      Insert!FullUnlock, Insert!Move, Insert!Claims, ctxtVars, slotVars,
      dataVars, rootVars, lockVars, readVars, histVars
<1>4. TypeOK'
  BY <1>1, <1>2, <1>3
  DEF EndInsert, Goto, TypeOK, PC, Insert!Modes, Lookup!Modes, Insert!Get,
      Insert!Unget, Insert!Claim, Insert!Lock, Insert!Drained,
      Insert!FullUnlock, Insert!Move, Insert!Claims, ctxtVars, slotVars,
      dataVars, rootVars, lockVars, readVars, histVars
<1>5. RoleInv'
  BY <1>1, <1>2, <1>3, RoleFrame
  DEF RoleInv, PC, TaskPC, Turn, Compacting, Incorporating, Incorporated,
      CallPC, ReaderPC
<1>6. LocksInv'
  BY <1>1, <1>2, <1>3
  DEF LocksInv, TypeOK, Moves, InsertMode, LookupMode, Insert!Claims,
      Lookup!Claims
<1>7. SlotsInv'
  BY <1>1, <1>2, <1>3, SlotsFrame DEF SamePlaces, SameTurns
<1>8. InsertsInv'
  BY <1>1, <1>2, <1>3, InsertsFrame DEF SamePlaces, SameTurns
<1>9. CompactInv'
  BY <1>1, <1>2, <1>3, CompactFrame DEF SamePlaces, SameTurns
<1>10. TurnInv'
  BY <1>1, <1>2, <1>3, TurnFrame
  DEF SamePlaces, SameTurns, Turn, Incorporating, Incorporated
<1>11. RefsInv'
  BY <1>1, <1>2, <1>3, RefsFrame DEF SamePlaces, SameTurns
<1>12. ReadersInv'
  BY <1>1, <1>2, <1>3, ReadersFrame DEF SamePlaces, SameTurns
<1>13. RecycleInv'
  BY <1>1, <1>2, <1>3, RecycleFrame DEF SamePlaces, SameTurns
<1>14. ContentInv'
  BY <1>1, <1>2, <1>3, ContentFrame DEF SamePlaces, SameTurns
<1> QED
  BY <1>4, <1>5, <1>6, <1>7, <1>8, <1>9, <1>10, <1>11, <1>12, <1>13, <1>14
  DEF IInv

LEMMA CloseDoneKeeps ==
    ASSUME IInv, NEW t \in Writer, CloseDone(t)
    PROVE  IInv'
<1>1. /\ TypeOK /\ RoleInv /\ LocksInv /\ SlotsInv /\ InsertsInv /\ CompactInv
      /\ TurnInv /\ RefsInv /\ ReadersInv /\ RecycleInv /\ ContentInv
  BY DEF IInv
<1>2. t \in Thread /\ t \in Flusher /\ t \notin Reader /\ t \notin Worker
  BY ThreadRoles, MemtableAssumption DEF Flusher, Thread
<1>3. /\ "closed" \in PC
      /\ Moves(t, "closed")
      /\ pc[t] = "quiesce" /\ gen' = gen
      /\ SamePlaces /\ SameTurns
      /\ UNCHANGED <<closing, full, queue, refs, pinned, is_empty, content>>
      /\ UNCHANGED <<insert_lock, lookup_lock>>
  BY <1>1, <1>2
  DEF CloseDone, Goto, Moves, PC, TypeOK, SamePlaces, SameTurns, ctxtVars,
      slotVars, dataVars, rootVars, lockVars, readVars, histVars
<1>4. TypeOK'
  BY <1>1, <1>2, <1>3
  DEF CloseDone, Goto, TypeOK, PC, Insert!Modes, Lookup!Modes, ctxtVars,
      slotVars, dataVars, rootVars, lockVars, readVars, histVars
<1>5. RoleInv'
  BY <1>1, <1>2, <1>3, RoleFrame
  DEF RoleInv, PC, TaskPC, Turn, Compacting, Incorporating, Incorporated,
      CallPC, ReaderPC
<1>6. LocksInv'
  BY <1>1, <1>2, <1>3, LocksFrame DEF InsertMode, LookupMode
<1>7. SlotsInv'
  BY <1>1, <1>2, <1>3, SlotsFrame DEF SamePlaces, SameTurns
<1>8. InsertsInv'
  BY <1>1, <1>2, <1>3, InsertsFrame DEF SamePlaces, SameTurns
<1>9. CompactInv'
  BY <1>1, <1>2, <1>3, CompactFrame DEF SamePlaces, SameTurns
<1>10. TurnInv'
  BY <1>1, <1>2, <1>3, TurnFrame
  DEF SamePlaces, SameTurns, Turn, Incorporating, Incorporated
<1>11. RefsInv'
  BY <1>1, <1>2, <1>3, RefsFrame DEF SamePlaces, SameTurns
<1>12. ReadersInv'
  BY <1>1, <1>2, <1>3, ReadersFrame DEF SamePlaces, SameTurns
<1>13. RecycleInv'
  BY <1>1, <1>2, <1>3, RecycleFrame DEF SamePlaces, SameTurns
<1>14. ContentInv'
  BY <1>1, <1>2, <1>3, ContentFrame DEF SamePlaces, SameTurns
<1> QED
  BY <1>4, <1>5, <1>6, <1>7, <1>8, <1>9, <1>10, <1>11, <1>12, <1>13, <1>14
  DEF IInv

LEMMA ProcessKeeps ==
    ASSUME IInv, NEW t \in Writer, Process(t)
    PROVE  IInv'
<1>1. /\ TypeOK /\ RoleInv /\ LocksInv /\ SlotsInv /\ InsertsInv /\ CompactInv
      /\ TurnInv /\ RefsInv /\ ReadersInv /\ RecycleInv /\ ContentInv
  BY DEF IInv
<1>2. t \in Thread /\ t \in Flusher /\ t \notin Reader /\ t \notin Worker
  BY ThreadRoles, MemtableAssumption DEF Flusher, Thread
<1>3. /\ "retry" \in PC
      /\ Moves(t, "retry")
      /\ pc[t] = "process" /\ gen' = gen
      /\ queue' = Append(queue, gen[t])
      /\ SamePlaces /\ SameTurns
      /\ UNCHANGED <<closing, full, refs, pinned, is_empty, content>>
      /\ UNCHANGED <<insert_lock, lookup_lock>>
  BY <1>1, <1>2
  DEF Process, Goto, Moves, PC, TypeOK, SamePlaces, SameTurns, ctxtVars,
      slotVars, dataVars, rootVars, lockVars, readVars, histVars
<1>4. TypeOK'
  <2>1. gen[t] \in Nat
    BY <1>1, <1>2, <1>3 DEF CompactInv, TypeOK
  <2> QED
    BY <1>1, <1>2, <1>3, <2>1
    DEF Process, Goto, TypeOK, PC, Insert!Modes, Lookup!Modes, ctxtVars,
        slotVars, dataVars, rootVars, lockVars, readVars, histVars
<1>5. RoleInv'
  BY <1>1, <1>2, <1>3, RoleFrame
  DEF RoleInv, PC, TaskPC, Turn, Compacting, Incorporating, Incorporated,
      CallPC, ReaderPC
<1>6. LocksInv'
  BY <1>1, <1>2, <1>3, LocksFrame DEF InsertMode, LookupMode
<1>7. SlotsInv'
  BY <1>1, <1>2, <1>3, SlotsFrame DEF SamePlaces, SameTurns
<1>8. InsertsInv'
  BY <1>1, <1>2, <1>3, InsertsFrame DEF SamePlaces, SameTurns
<1>9. CompactInv'
  <2>1. gen[t] \in Nat /\ InState(gen[t], "FINALIZED")
    BY <1>1, <1>2, <1>3 DEF CompactInv, TypeOK
  <2>2. queue \in Seq(Nat)
    BY <1>1 DEF TypeOK
  <2>3. /\ Len(queue) \in Nat /\ DOMAIN queue = 1 .. Len(queue)
        /\ DOMAIN queue' = 1 .. Len(queue) + 1
        /\ \A i \in 1 .. Len(queue) : queue'[i] = queue[i]
        /\ queue'[Len(queue) + 1] = gen[t]
    BY <1>3, <2>1, <2>2
  <2>4. /\ \A u \in Flusher : gen'[u] = gen[u]
        /\ \A u \in Flusher : u # t => pc'[u] = pc[u]
        /\ pc'[t] = "retry"
    BY <1>1, <1>2, <1>3, ThreadRoles DEF Moves, TypeOK
  <2>5. \A i \in DOMAIN queue : queue[i] # gen[t]
    BY <1>1, <1>2, <1>3 DEF CompactInv
  <2>6. ASSUME NEW i \in DOMAIN queue'
        PROVE  i \in DOMAIN queue \/ (queue'[i] = gen[t] /\ i = Len(queue) + 1)
    BY <2>3
  <2>7. \A g : InState(g, "FINALIZED")' <=> InState(g, "FINALIZED")
    BY <1>3 DEF InState, SamePlaces
  <2>8. \A g : InState(g, "COMPACTING")' <=> InState(g, "COMPACTING")
    BY <1>3 DEF InState, SamePlaces
  <2>9. \A u \in Flusher : u # t /\ pc[u] \in {"process", "compact"} => gen[u] # gen[t]
    BY <1>1, <1>2, <1>3 DEF CompactInv, Compacting
  <2>10. (\A u \in Flusher :
          /\ pc[u] \in {"process", "compact"} => gen[u] >= 0 /\ InState(gen[u], "FINALIZED")
          /\ pc[u] = "pack" => gen[u] >= 0 /\ InState(gen[u], "COMPACTING")
          /\ pc[u] = "start" => gen[u] >= 0
          /\ pc[u] \in {"process"} \cup Compacting =>
                \A v \in Flusher \ {u} :
                    pc[v] \in {"process"} \cup Compacting => gen[v] # gen[u])'
    BY <1>1, <2>4, <1>3 DEF CompactInv, Compacting, InState, SamePlaces
  <2>11. ASSUME NEW i \in DOMAIN queue'
        PROVE  /\ InState(queue'[i], "FINALIZED")
               /\ \A u \in Flusher : pc'[u] \in {"process", "compact"} => gen[u] # queue'[i]
               /\ \A j \in DOMAIN queue' : queue'[i] = queue'[j] => i = j
    BY <1>1, <2>1, <2>3, <2>4, <2>5, <2>6, <2>9 DEF CompactInv
  <2> QED BY <2>4, <2>7, <2>10, <2>11, <1>3 DEF CompactInv, InState, SamePlaces
<1>10. TurnInv'
  BY <1>1, <1>2, <1>3, TurnFrame
  DEF SamePlaces, SameTurns, Turn, Incorporating, Incorporated
<1>11. RefsInv'
  BY <1>1, <1>2, <1>3, RefsFrame DEF SamePlaces, SameTurns
<1>12. ReadersInv'
  BY <1>1, <1>2, <1>3, ReadersFrame DEF SamePlaces, SameTurns
<1>13. RecycleInv'
  BY <1>1, <1>2, <1>3, RecycleFrame DEF SamePlaces, SameTurns
<1>14. ContentInv'
  BY <1>1, <1>2, <1>3, ContentFrame DEF SamePlaces, SameTurns
<1> QED
  BY <1>4, <1>5, <1>6, <1>7, <1>8, <1>9, <1>10, <1>11, <1>12, <1>13, <1>14
  DEF IInv

LEMMA InsertMsgKeeps ==
    ASSUME IInv, NEW t \in Writer, InsertMsg(t)
    PROVE  IInv'
<1>1. /\ TypeOK /\ RoleInv /\ LocksInv /\ SlotsInv /\ InsertsInv /\ CompactInv
      /\ TurnInv /\ RefsInv /\ ReadersInv /\ RecycleInv /\ ContentInv
  BY DEF IInv
<1>2. t \in Thread /\ t \in Flusher /\ t \notin Reader /\ t \notin Worker
  BY ThreadRoles, MemtableAssumption DEF Flusher, Thread
<1>3. /\ "inserted" \in PC
      /\ Moves(t, "inserted")
      /\ pc[t] = "insert" /\ generation' = generation
      /\ SlotOf(generation) \in Slot
      /\ \A q \in Slot : q # SlotOf(generation) => content'[q] = content[q] /\ full'[q] = full[q]
      /\ content' \in [Slot -> Seq(Message)] /\ full' \in [Slot -> BOOLEAN]
      /\ content'[SlotOf(generation)] # <<>> /\ (full[SlotOf(generation)] => full'[SlotOf(generation)])
      /\ is_empty' => is_empty
      /\ SamePlaces /\ SameTurns
      /\ UNCHANGED <<closing, refs, pinned, queue>>
      /\ UNCHANGED <<insert_lock, lookup_lock>>
  <2> DEFINE s == SlotOf(gen[t])
  <2>1. gen[t] = generation /\ s \in Slot /\ pc[t] = "insert"
    BY <1>1, <1>2, SlotsTyped DEF InsertMsg, Goto, InsertsInv
  <2>2. PICK d \in BOOLEAN, f \in {full[s], TRUE} :
           /\ content' = [content EXCEPT ![s] = Merge(@, <<[ver |-> Len(hist) + 1, definitive |-> d]>>)]
           /\ full' = [full EXCEPT ![s] = f]
    BY DEF InsertMsg
  <2> DEFINE m == [ver |-> Len(hist) + 1, definitive |-> d]
  <2>3. m \in Message /\ content[s] \in Seq(Message)
    BY <1>1, <2>1 DEF TypeOK, Message
  <2>4. Merge(content[s], <<m>>) \in Seq(Message) \ {<<>>}
    BY <2>3, MergeMessage
  <2> HIDE DEF m
  <2>5. /\ content' \in [Slot -> Seq(Message)]
        /\ \A q \in Slot : content'[q] = IF q = s THEN Merge(content[s], <<m>>) ELSE content[q]
    BY <1>1, <2>1, <2>2, <2>4 DEF TypeOK, m
  <2>6. /\ full' \in [Slot -> BOOLEAN]
        /\ \A q \in Slot : full'[q] = IF q = s THEN f ELSE full[q]
    BY <1>1, <2>1, <2>2 DEF TypeOK
  <2>7. Moves(t, "inserted")
    BY <1>1, <1>2 DEF InsertMsg, Goto, Moves, TypeOK
  <2>8. f = full[s] \/ f = TRUE
    BY <2>2
  <2>9. /\ "inserted" \in PC /\ SamePlaces /\ SameTurns /\ generation' = generation
        /\ UNCHANGED <<closing, refs, pinned, queue>> /\ UNCHANGED <<insert_lock,
                                                                     lookup_lock>>
        /\ is_empty' => is_empty
    BY <1>1
    DEF InsertMsg, PC, TypeOK, SamePlaces, SameTurns, slotVars, lockVars,
        readVars
  <2> QED BY <2>1, <2>4, <2>5, <2>6, <2>7, <2>8, <2>9
<1>4. TypeOK'
  <2>1. hist' \in Seq(Message) /\ gen' \in [Thread -> Nat \cup {-1}]
    <3>1. PICK d \in BOOLEAN : hist' = Append(hist, [ver |-> Len(hist) + 1, definitive |-> d])
      BY DEF InsertMsg
    <3>2. [ver |-> Len(hist) + 1, definitive |-> d] \in Message /\ Len(hist) + 1 \in Nat
      BY <1>1 DEF TypeOK, Message
    <3>3. gen' = [gen EXCEPT ![t] = Len(hist) + 1]
      BY DEF InsertMsg
    <3>4. hist \in Seq(Message) /\ gen \in [Thread -> Nat \cup {-1}]
      BY <1>1 DEF TypeOK
    <3>5. hist' \in Seq(Message)
      BY <3>1, <3>2, <3>4
    <3> QED BY <3>2, <3>3, <3>4, <3>5
  <2>2. is_empty' \in BOOLEAN
    BY <1>1 DEF InsertMsg, TypeOK
  <2>3. pc' \in [Thread -> PC]
    BY <1>1, <1>3 DEF Moves, TypeOK
  <2> QED
    BY <1>1, <1>3, <2>1, <2>2, <2>3
    DEF InsertMsg, TypeOK, Insert!Modes, Lookup!Modes, ctxtVars, slotVars,
        rootVars, lockVars, readVars
<1>5. RoleInv'
  BY <1>1, <1>2, <1>3, RoleFrame
  DEF RoleInv, PC, TaskPC, Turn, Compacting, Incorporating, Incorporated,
      CallPC, ReaderPC
<1>6. LocksInv'
  BY <1>1, <1>2, <1>3, LocksFrame DEF InsertMode, LookupMode
<1>7. SlotsInv'
  BY <1>1, <1>2, <1>3, SlotsFrame DEF SamePlaces, SameTurns
<1>8. InsertsInv'
  <2>1. \A w \in Writer : w \in Thread /\ (w # t => pc'[w] = pc[w] /\ gen'[w] = gen[w])
    BY <1>1, <1>3 DEF Moves, TypeOK, Thread
  <2>2. pc'[t] = "inserted"
    BY <1>1, <1>2, <1>3 DEF Moves, TypeOK
  <2> QED
    BY <1>1, <1>3, <2>1, <2>2
    DEF InsertsInv, SamePlaces, SameTurns, Ready
<1>9. CompactInv'
  BY <1>1, <1>2, <1>3, CompactFrame DEF SamePlaces, SameTurns
<1>10. TurnInv'
  BY <1>1, <1>2, <1>3, TurnFrame
  DEF SamePlaces, SameTurns, Turn, Incorporating, Incorporated
<1>11. RefsInv'
  BY <1>1, <1>2, <1>3, RefsFrame DEF SamePlaces, SameTurns
<1>12. ReadersInv'
  BY <1>1, <1>2, <1>3, ReadersFrame DEF SamePlaces, SameTurns
<1>13. RecycleInv'
  BY <1>1, <1>2, <1>3, RecycleFrame DEF SamePlaces, SameTurns
<1>14. ContentInv'
  <2>1. \A q \in Slot : content[q] # <<>> => content'[q] # <<>>
    BY <1>3
  <2>2. \A q \in Slot : full'[q] => content'[q] # <<>>
    BY <1>1, <1>3 DEF ContentInv
  <2>3. \A q \in Slot : state'[q] = state[q]
    BY <1>3 DEF SamePlaces
  <2>4. closing' => is_empty'
    BY <1>1, <1>2, <1>3
    DEF RoleInv, CallPC, TaskPC, Turn, Compacting, Incorporating, Incorporated
  <2> QED BY <1>1, <1>3, <2>1, <2>2, <2>3, <2>4 DEF ContentInv
<1> QED
  BY <1>4, <1>5, <1>6, <1>7, <1>8, <1>9, <1>10, <1>11, <1>12, <1>13, <1>14
  DEF IInv

LEMMA TakeTaskKeeps ==
    ASSUME IInv, NEW t \in Flusher, TakeTask(t)
    PROVE  IInv'
<1>1. /\ TypeOK /\ RoleInv /\ LocksInv /\ SlotsInv /\ InsertsInv /\ CompactInv
      /\ TurnInv /\ RefsInv /\ ReadersInv /\ RecycleInv /\ ContentInv
  BY DEF IInv
<1>2. t \in Thread /\ t \notin Reader
  BY ThreadRoles, MemtableAssumption DEF Flusher, Thread
<1>3. /\ "compact" \in PC
      /\ Moves(t, "compact")
      /\ pc[t] \in {"idle", "busy", "quiesce"} /\ (t \notin Worker => pc[t] # "idle")
      /\ queue # <<>> /\ queue' = Tail(queue) /\ gen' = [gen EXCEPT ![t] = Head(queue)]
      /\ SamePlaces /\ SameTurns
      /\ UNCHANGED <<closing, full, refs, pinned, is_empty, content>>
      /\ UNCHANGED <<insert_lock, lookup_lock>>
  BY <1>1, <1>2
  DEF TakeTask, Goto, Moves, PC, TypeOK, SamePlaces, SameTurns, ctxtVars,
      slotVars, dataVars, rootVars, lockVars, readVars, histVars
<1>4. TypeOK'
  BY <1>1, <1>2, <1>3
  DEF TakeTask, Goto, TypeOK, PC, Insert!Modes, Lookup!Modes, ctxtVars,
      slotVars, dataVars, rootVars, lockVars, readVars, histVars
<1>5. RoleInv'
  BY <1>1, <1>2, <1>3, RoleFrame
  DEF RoleInv, PC, TaskPC, Turn, Compacting, Incorporating, Incorporated,
      CallPC, ReaderPC
<1>6. LocksInv'
  BY <1>1, <1>2, <1>3, LocksFrame DEF InsertMode, LookupMode
<1>7. SlotsInv'
  BY <1>1, <1>2, <1>3, SlotsFrame DEF SamePlaces, SameTurns
<1>8. InsertsInv'
  BY <1>1, <1>2, <1>3, InsertsFrame DEF SamePlaces, SameTurns
<1>9. CompactInv'
  <2>2. queue \in Seq(Nat)
    BY <1>1 DEF TypeOK
  <2>3. /\ Len(queue) \in Nat \ {0} /\ DOMAIN queue = 1 .. Len(queue)
        /\ DOMAIN queue' = 1 .. Len(queue) - 1
        /\ \A i \in 1 .. Len(queue) - 1 : queue'[i] = queue[i + 1]
        /\ Head(queue) = queue[1]
    BY <1>3, <2>2
  <2>1. queue[1] \in Nat /\ InState(queue[1], "FINALIZED")
    BY <1>1, <2>2, <2>3 DEF CompactInv
  <2>4. /\ \A u \in Flusher : u # t => pc'[u] = pc[u] /\ gen'[u] = gen[u]
        /\ pc'[t] = "compact" /\ gen'[t] = queue[1]
    BY <1>1, <1>2, <1>3, <2>3, ThreadRoles DEF Moves, TypeOK
  <2>5. \A u \in Flusher : pc[u] \in {"process", "compact"} => gen[u] # queue[1]
    BY <1>1, <2>3 DEF CompactInv
  <2>6. \A u \in Flusher : pc[u] = "pack" => gen[u] # queue[1]
    BY <1>1, <2>1 DEF CompactInv, InState
  <2>10. (\A u \in Flusher :
          /\ pc[u] \in {"process", "compact"} => gen[u] >= 0 /\ InState(gen[u], "FINALIZED")
          /\ pc[u] = "pack" => gen[u] >= 0 /\ InState(gen[u], "COMPACTING")
          /\ pc[u] = "start" => gen[u] >= 0
          /\ pc[u] \in {"process"} \cup Compacting =>
                \A v \in Flusher \ {u} :
                    pc[v] \in {"process"} \cup Compacting => gen[v] # gen[u])'
    BY <1>1, <2>1, <2>4, <2>5, <2>6, <1>3
    DEF CompactInv, Compacting, InState, SamePlaces
  <2>11. ASSUME NEW i \in DOMAIN queue'
        PROVE  /\ InState(queue'[i], "FINALIZED")
               /\ \A u \in Flusher : pc'[u] \in {"process", "compact"} => gen'[u] # queue'[i]
               /\ \A j \in DOMAIN queue' : queue'[i] = queue'[j] => i = j
    <3>1. i \in 1 .. Len(queue) - 1 /\ i + 1 \in DOMAIN queue /\ queue'[i] = queue[i + 1] /\ i + 1 # 1 /\ 1 \in DOMAIN queue
      BY <2>3
    <3>2. \A j \in DOMAIN queue' : j \in Int /\ j + 1 \in DOMAIN queue /\ queue'[j] = queue[j + 1]
      BY <2>3
    <3>3. queue[i + 1] # queue[1]
      BY <1>1, <3>1 DEF CompactInv
    <3>4. \A j \in DOMAIN queue' : queue'[i] = queue'[j] => i = j
      <4> TAKE j \in DOMAIN queue'
      <4>1. queue[i + 1] = queue[j + 1] => i + 1 = j + 1
        BY <1>1, <3>1, <3>2 DEF CompactInv
      <4> QED BY <4>1, <3>1, <3>2
    <3> QED BY <1>1, <2>4, <3>1, <3>3, <3>4 DEF CompactInv
  <2> QED BY <2>10, <2>11, <1>3 DEF CompactInv, InState, SamePlaces
<1>10. TurnInv'
  BY <1>1, <1>2, <1>3, TurnFrame
  DEF SamePlaces, SameTurns, Turn, Incorporating, Incorporated
<1>11. RefsInv'
  BY <1>1, <1>2, <1>3, RefsFrame DEF SamePlaces, SameTurns
<1>12. ReadersInv'
  BY <1>1, <1>2, <1>3, ReadersFrame DEF SamePlaces, SameTurns
<1>13. RecycleInv'
  BY <1>1, <1>2, <1>3, RecycleFrame DEF SamePlaces, SameTurns
<1>14. ContentInv'
  BY <1>1, <1>2, <1>3, ContentFrame DEF SamePlaces, SameTurns
<1> QED
  BY <1>4, <1>5, <1>6, <1>7, <1>8, <1>9, <1>10, <1>11, <1>12, <1>13, <1>14
  DEF IInv

LEMMA StartCompactKeeps ==
    ASSUME IInv, NEW t \in Flusher, StartCompact(t)
    PROVE  IInv'
<1>1. /\ TypeOK /\ RoleInv /\ LocksInv /\ SlotsInv /\ InsertsInv /\ CompactInv
      /\ TurnInv /\ RefsInv /\ ReadersInv /\ RecycleInv /\ ContentInv
  BY DEF IInv
<1>2. t \in Thread /\ t \notin Reader
  BY ThreadRoles, MemtableAssumption DEF Flusher, Thread
<1>3. /\ "pack" \in PC
      /\ Moves(t, "pack")
      /\ pc[t] = "compact" /\ gen' = gen
      /\ gen[t] \in Nat /\ SlotOf(gen[t]) \in Slot /\ mt_generation[SlotOf(gen[t])] = gen[t] /\ state[SlotOf(gen[t])] = "FINALIZED"
      /\ \A q \in Slot : state'[q] = IF q = SlotOf(gen[t]) THEN "COMPACTING" ELSE state[q]
      /\ mt_generation' = mt_generation
      /\ SameTurns
      /\ UNCHANGED <<closing, full, refs, pinned, is_empty,
                     content>> /\ queue' = queue
      /\ UNCHANGED <<insert_lock, lookup_lock>>
  <2>1. gen[t] \in Nat /\ SlotOf(gen[t]) \in Slot
    BY <1>1, <1>2, SlotsTyped DEF StartCompact, Goto, TypeOK, CompactInv
  <2> QED
    BY <1>1, <1>2, <2>1
    DEF StartCompact, Goto, Transition, Moves, PC, TypeOK, SameTurns, InState,
        CompactInv, ctxtVars, slotVars, dataVars, rootVars, lockVars, readVars,
        histVars
<1>4. TypeOK'
  <2>1. state' \in [Slot -> States]
    BY <1>1, <1>3 DEF StartCompact, Transition, TypeOK, States
  <2> QED
    BY <1>1, <1>2, <1>3, <2>1
    DEF StartCompact, Goto, TypeOK, PC, Insert!Modes, Lookup!Modes, ctxtVars,
        slotVars, dataVars, rootVars, lockVars, readVars, histVars
<1>5. RoleInv'
  BY <1>1, <1>2, <1>3, RoleFrame
  DEF RoleInv, PC, TaskPC, Turn, Compacting, Incorporating, Incorporated,
      CallPC, ReaderPC
<1>6. LocksInv'
  BY <1>1, <1>2, <1>3, LocksFrame DEF InsertMode, LookupMode
<1>7. SlotsInv'
  BY <1>1, <1>2, <1>3, SlotsFrame DEF Behind, SameTurns
<1>8. InsertsInv'
  BY <1>1, <1>2, <1>3, InsertsFrame DEF SamePlaces, SameTurns
<1>9. CompactInv'
  BY <1>1, <1>2, <1>3, CompactSlotChange
<1>10. TurnInv'
  BY <1>1, <1>2, <1>3, TurnFrame
  DEF SamePlaces, SameTurns, Turn, Incorporating, Incorporated
<1>11. RefsInv'
  BY <1>1, <1>2, <1>3, RefsFrame DEF SamePlaces, SameTurns
<1>12. ReadersInv'
  BY <1>1, <1>2, <1>3, ReadersFrame DEF SamePlaces, SameTurns
<1>13. RecycleInv'
  BY <1>1, <1>2, <1>3, RecycleFrame DEF SamePlaces, SameTurns
<1>14. ContentInv'
  BY <1>1, <1>2, <1>3, ContentFrame DEF SamePlaces, SameTurns
<1> QED
  BY <1>4, <1>5, <1>6, <1>7, <1>8, <1>9, <1>10, <1>11, <1>12, <1>13, <1>14
  DEF IInv

LEMMA FinishCompactKeeps ==
    ASSUME IInv, NEW t \in Flusher, FinishCompact(t)
    PROVE  IInv'
<1>1. /\ TypeOK /\ RoleInv /\ LocksInv /\ SlotsInv /\ InsertsInv /\ CompactInv
      /\ TurnInv /\ RefsInv /\ ReadersInv /\ RecycleInv /\ ContentInv
  BY DEF IInv
<1>2. t \in Thread /\ t \notin Reader
  BY ThreadRoles, MemtableAssumption DEF Flusher, Thread
<1>3. /\ "start" \in PC
      /\ Moves(t, "start")
      /\ pc[t] = "pack" /\ gen' = gen
      /\ gen[t] \in Nat /\ SlotOf(gen[t]) \in Slot /\ mt_generation[SlotOf(gen[t])] = gen[t] /\ state[SlotOf(gen[t])] = "COMPACTING"
      /\ \A q \in Slot : state'[q] = IF q = SlotOf(gen[t]) THEN "COMPACTED" ELSE state[q]
      /\ mt_generation' = mt_generation
      /\ SameTurns
      /\ UNCHANGED <<closing, full, refs, pinned, is_empty,
                     content>> /\ queue' = queue
      /\ UNCHANGED <<insert_lock, lookup_lock>>
  <2>1. gen[t] \in Nat /\ SlotOf(gen[t]) \in Slot
    BY <1>1, <1>2, SlotsTyped DEF FinishCompact, Goto, TypeOK, CompactInv
  <2> QED
    BY <1>1, <1>2, <2>1
    DEF FinishCompact, Goto, Transition, Moves, PC, TypeOK, SameTurns, InState,
        CompactInv, ctxtVars, slotVars, dataVars, rootVars, lockVars, readVars,
        histVars
<1>4. TypeOK'
  <2>1. state' \in [Slot -> States]
    BY <1>1, <1>3 DEF FinishCompact, Transition, TypeOK, States
  <2> QED
    BY <1>1, <1>2, <1>3, <2>1
    DEF FinishCompact, Goto, TypeOK, PC, Insert!Modes, Lookup!Modes, ctxtVars,
        slotVars, dataVars, rootVars, lockVars, readVars, histVars
<1>5. RoleInv'
  BY <1>1, <1>2, <1>3, RoleFrame
  DEF RoleInv, PC, TaskPC, Turn, Compacting, Incorporating, Incorporated,
      CallPC, ReaderPC
<1>6. LocksInv'
  BY <1>1, <1>2, <1>3, LocksFrame DEF InsertMode, LookupMode
<1>7. SlotsInv'
  BY <1>1, <1>2, <1>3, SlotsFrame DEF Behind, SameTurns
<1>8. InsertsInv'
  BY <1>1, <1>2, <1>3, InsertsFrame DEF SamePlaces, SameTurns
<1>9. CompactInv'
  BY <1>1, <1>2, <1>3, CompactSlotChange
<1>10. TurnInv'
  BY <1>1, <1>2, <1>3, TurnFrame
  DEF SamePlaces, SameTurns, Turn, Incorporating, Incorporated
<1>11. RefsInv'
  BY <1>1, <1>2, <1>3, RefsFrame DEF SamePlaces, SameTurns
<1>12. ReadersInv'
  BY <1>1, <1>2, <1>3, ReadersFrame DEF SamePlaces, SameTurns
<1>13. RecycleInv'
  BY <1>1, <1>2, <1>3, RecycleFrame DEF SamePlaces, SameTurns
<1>14. ContentInv'
  BY <1>1, <1>2, <1>3, ContentFrame DEF SamePlaces, SameTurns
<1> QED
  BY <1>4, <1>5, <1>6, <1>7, <1>8, <1>9, <1>10, <1>11, <1>12, <1>13, <1>14
  DEF IInv

LEMMA TryStartKeeps ==
    ASSUME IInv, NEW t \in Flusher, TryStart(t)
    PROVE  IInv'
<1>1. /\ TypeOK /\ RoleInv /\ LocksInv /\ SlotsInv /\ InsertsInv /\ CompactInv
      /\ TurnInv /\ RefsInv /\ ReadersInv /\ RecycleInv /\ ContentInv
  BY DEF IInv
<1>2. t \in Thread /\ t \notin Reader
  BY ThreadRoles, MemtableAssumption DEF Flusher, Thread
<1>3. /\ "claim_root" \in PC
      /\ Moves(t, "claim_root")
      /\ pc[t] = "start" /\ gen' = gen
      /\ gen[t] = generation_to_incorporate
      /\ gen[t] \in Nat /\ SlotOf(gen[t]) \in Slot /\ mt_generation[SlotOf(gen[t])] = gen[t] /\ state[SlotOf(gen[t])] = "COMPACTED"
      /\ \A q \in Slot : state'[q] = IF q = SlotOf(gen[t]) THEN "INCORPORATION_ASSIGNED" ELSE state[q]
      /\ mt_generation' = mt_generation
      /\ SameTurns
      /\ UNCHANGED <<closing, full, refs, pinned, is_empty,
                     content>> /\ queue' = queue
      /\ UNCHANGED <<insert_lock, lookup_lock>>
  <2>1. gen[t] \in Nat /\ SlotOf(gen[t]) \in Slot
    BY <1>1, <1>2, SlotsTyped DEF TryStart, Goto, TypeOK, CompactInv
  <2> QED
    BY <1>1, <1>2, <2>1
    DEF TryStart, Goto, Transition, Moves, PC, TypeOK, SameTurns, InState,
        MayStart, CompactInv, ctxtVars, slotVars, dataVars, rootVars, lockVars,
        readVars, histVars
<1>4. TypeOK'
  <2>1. state' \in [Slot -> States]
    BY <1>1, <1>3 DEF TryStart, Transition, TypeOK, States
  <2> QED
    BY <1>1, <1>2, <1>3, <2>1
    DEF TryStart, Goto, TypeOK, PC, Insert!Modes, Lookup!Modes, ctxtVars,
        slotVars, dataVars, rootVars, lockVars, readVars, histVars
<1>5. RoleInv'
  BY <1>1, <1>2, <1>3, RoleFrame
  DEF RoleInv, PC, TaskPC, Turn, Compacting, Incorporating, Incorporated,
      CallPC, ReaderPC
<1>6. LocksInv'
  BY <1>1, <1>2, <1>3, LocksFrame DEF InsertMode, LookupMode
<1>7. SlotsInv'
  BY <1>1, <1>2, <1>3, SlotsFrame DEF Behind, SameTurns
<1>8. InsertsInv'
  BY <1>1, <1>2, <1>3, InsertsFrame DEF SamePlaces, SameTurns
<1>9. CompactInv'
  BY <1>1, <1>2, <1>3, CompactFrame DEF SamePlaces, SameTurns
<1>10. TurnInv'
  <2>1. \A u \in Flusher : u # t => pc'[u] = pc[u] /\ gen'[u] = gen[u]
    BY <1>1, <1>3, ThreadRoles DEF Moves, TypeOK
  <2>2. pc'[t] = "claim_root" /\ gen'[t] = gen[t]
    BY <1>1, <1>2, <1>3 DEF Moves, TypeOK
  <2>3. generation_retired < gen[t] /\ gen[t] = generation_retired + 1
    BY <1>1, <1>3 DEF SlotsInv, Behind, TypeOK
  <2>4. \A u \in Flusher : pc[u] \in Incorporating => FALSE
    BY <1>1, <1>3 DEF TurnInv, Turn, InState
  <2>5. \A u \in Flusher : pc[u] \in Incorporated => FALSE
    BY <1>1, <1>3, <2>3 DEF TurnInv, Turn, TypeOK
  <2>6. \A u \in Flusher : u # t => pc'[u] \notin Turn
    BY <2>1, <2>4, <2>5 DEF Turn
  <2> QED
    BY <1>2, <1>3, <2>2, <2>3, <2>6
    DEF TurnInv, Turn, Incorporating, Incorporated, SameTurns, InState
<1>11. RefsInv'
  BY <1>1, <1>2, <1>3, RefsFrame DEF SamePlaces, SameTurns
<1>12. ReadersInv'
  BY <1>1, <1>2, <1>3, ReadersFrame DEF SamePlaces, SameTurns
<1>13. RecycleInv'
  BY <1>1, <1>2, <1>3, RecycleFrame DEF SamePlaces, SameTurns
<1>14. ContentInv'
  BY <1>1, <1>2, <1>3, ContentFrame DEF SamePlaces, SameTurns
<1> QED
  BY <1>4, <1>5, <1>6, <1>7, <1>8, <1>9, <1>10, <1>11, <1>12, <1>13, <1>14
  DEF IInv

LEMMA TryStartLostKeeps ==
    ASSUME IInv, NEW t \in Flusher, TryStartLost(t)
    PROVE  IInv'
<1>1. /\ TypeOK /\ RoleInv /\ LocksInv /\ SlotsInv /\ InsertsInv /\ CompactInv
      /\ TurnInv /\ RefsInv /\ ReadersInv /\ RecycleInv /\ ContentInv
  BY DEF IInv
<1>2. t \in Thread /\ t \notin Reader
  BY ThreadRoles, MemtableAssumption DEF Flusher, Thread
<1>3. /\ AfterTask(t) \in PC
      /\ Moves(t, AfterTask(t))
      /\ AfterTask(t) \in {"idle", "quiesce", "retry"}
      /\ pc[t] = "start" /\ gen' = [gen EXCEPT ![t] = 0]
      /\ SamePlaces /\ SameTurns
      /\ UNCHANGED <<closing, full, refs, pinned, is_empty,
                     content>> /\ queue' = queue
      /\ UNCHANGED <<insert_lock, lookup_lock>>
  BY <1>1, <1>2
  DEF TryStartLost, Goto, Moves, PC, TypeOK, SamePlaces, SameTurns, TaskDone,
      AfterTask, ctxtVars, slotVars, dataVars, rootVars, lockVars, readVars,
      histVars
<1>4. TypeOK'
  BY <1>1, <1>2, <1>3
  DEF TryStartLost, Goto, TypeOK, PC, Insert!Modes, Lookup!Modes, TaskDone,
      AfterTask, ctxtVars, slotVars, dataVars, rootVars, lockVars, readVars,
      histVars
<1>5. RoleInv'
  BY <1>1, <1>2, <1>3, RoleFrame, MemtableAssumption
  DEF RoleInv, AfterTask, Flusher, PC, TaskPC, Turn, Compacting, Incorporating,
      Incorporated, CallPC, ReaderPC
<1>6. LocksInv'
  BY <1>1, <1>2, <1>3, LocksFrame DEF InsertMode, LookupMode
<1>7. SlotsInv'
  BY <1>1, <1>2, <1>3, SlotsFrame DEF SamePlaces, SameTurns
<1>8. InsertsInv'
  BY <1>1, <1>2, <1>3, InsertsFrame DEF SamePlaces, SameTurns
<1>9. CompactInv'
  BY <1>1, <1>2, <1>3, CompactFrame DEF SamePlaces, SameTurns
<1>10. TurnInv'
  BY <1>1, <1>2, <1>3, TurnFrame
  DEF SamePlaces, SameTurns, Turn, Incorporating, Incorporated
<1>11. RefsInv'
  BY <1>1, <1>2, <1>3, RefsFrame DEF SamePlaces, SameTurns
<1>12. ReadersInv'
  BY <1>1, <1>2, <1>3, ReadersFrame DEF SamePlaces, SameTurns
<1>13. RecycleInv'
  BY <1>1, <1>2, <1>3, RecycleFrame DEF SamePlaces, SameTurns
<1>14. ContentInv'
  BY <1>1, <1>2, <1>3, ContentFrame DEF SamePlaces, SameTurns
<1> QED
  BY <1>4, <1>5, <1>6, <1>7, <1>8, <1>9, <1>10, <1>11, <1>12, <1>13, <1>14
  DEF IInv

LEMMA CopyRootKeeps ==
    ASSUME IInv, NEW t \in Flusher, CopyRoot(t)
    PROVE  IInv'
<1>1. /\ TypeOK /\ RoleInv /\ LocksInv /\ SlotsInv /\ InsertsInv /\ CompactInv
      /\ TurnInv /\ RefsInv /\ ReadersInv /\ RecycleInv /\ ContentInv
  BY DEF IInv
<1>2. t \in Thread /\ t \notin Reader
  BY ThreadRoles, MemtableAssumption DEF Flusher, Thread
<1>3. /\ "block" \in PC
      /\ Moves(t, "block")
      /\ pc[t] = "claim_root" /\ gen' = gen
      /\ SamePlaces /\ SameTurns
      /\ UNCHANGED <<closing, full, refs, pinned, is_empty,
                     content>> /\ queue' = queue
      /\ UNCHANGED <<insert_lock, lookup_lock>>
  BY <1>1, <1>2
  DEF CopyRoot, Goto, Moves, PC, TypeOK, SamePlaces, SameTurns, ctxtVars,
      slotVars, dataVars, rootVars, lockVars, readVars, histVars
<1>4. TypeOK'
  <2>1. new_root' \in [Thread -> Seq(Message)]
    <3>1. SlotOf(gen[t]) \in Slot
      BY <1>1, <1>2, SlotsTyped
    <3>2. root \in Seq(Message) /\ branch[SlotOf(gen[t])] \in Seq(Message)
      BY <1>1, <3>1 DEF TypeOK
    <3>3. Merge(root, branch[SlotOf(gen[t])]) \in Seq(Message)
      BY <3>2, MergeType
    <3> QED BY <1>1, <1>2, <3>3 DEF CopyRoot, TypeOK
  <2> QED
    BY <1>1, <1>2, <1>3, <2>1
    DEF CopyRoot, Goto, TypeOK, PC, Insert!Modes, Lookup!Modes, ctxtVars,
        slotVars, dataVars, lockVars, readVars, histVars
<1>5. RoleInv'
  BY <1>1, <1>2, <1>3, RoleFrame
  DEF RoleInv, PC, TaskPC, Turn, Compacting, Incorporating, Incorporated,
      CallPC, ReaderPC
<1>6. LocksInv'
  BY <1>1, <1>2, <1>3, LocksFrame DEF InsertMode, LookupMode
<1>7. SlotsInv'
  BY <1>1, <1>2, <1>3, SlotsFrame DEF SamePlaces, SameTurns
<1>8. InsertsInv'
  BY <1>1, <1>2, <1>3, InsertsFrame DEF SamePlaces, SameTurns
<1>9. CompactInv'
  BY <1>1, <1>2, <1>3, CompactFrame DEF SamePlaces, SameTurns
<1>10. TurnInv'
  <2>1. \A u \in Flusher : u # t => pc'[u] = pc[u] /\ gen'[u] = gen[u]
    BY <1>1, <1>3, ThreadRoles DEF Moves, TypeOK
  <2>2. pc'[t] = "block" /\ gen'[t] = gen[t]
    BY <1>1, <1>2, <1>3 DEF Moves, TypeOK
  <2>3. pc[t] \in Turn
    BY <1>3 DEF Turn, Incorporating, Incorporated
  <2>4. \A u \in Flusher : u # t => pc[u] \notin Turn
    BY <1>1, <1>2, <2>3 DEF TurnInv
  <2>5. \A u \in Flusher : u # t => pc'[u] \notin Turn
    BY <2>1, <2>4
  <2> QED
    BY <1>1, <1>2, <1>3, <2>2, <2>5
    DEF TurnInv, Turn, Incorporating, Incorporated, SameTurns, SamePlaces,
        InState
<1>11. RefsInv'
  BY <1>1, <1>2, <1>3, RefsFrame DEF SamePlaces, SameTurns
<1>12. ReadersInv'
  BY <1>1, <1>2, <1>3, ReadersFrame DEF SamePlaces, SameTurns
<1>13. RecycleInv'
  BY <1>1, <1>2, <1>3, RecycleFrame DEF SamePlaces, SameTurns
<1>14. ContentInv'
  BY <1>1, <1>2, <1>3, ContentFrame DEF SamePlaces, SameTurns
<1> QED
  BY <1>4, <1>5, <1>6, <1>7, <1>8, <1>9, <1>10, <1>11, <1>12, <1>13, <1>14
  DEF IInv

LEMMA BlockLookupsKeeps ==
    ASSUME IInv, NEW t \in Flusher, pc[t] = "block", BlockLookups(t)
    PROVE  IInv'
<1>1. /\ TypeOK /\ RoleInv /\ LocksInv /\ SlotsInv /\ InsertsInv /\ CompactInv
      /\ TurnInv /\ RefsInv /\ ReadersInv /\ RecycleInv /\ ContentInv
  BY DEF IInv
<1>2. t \in Thread /\ t \notin Reader
  BY ThreadRoles, MemtableAssumption DEF Flusher, Thread
<1>3. /\ "block_lock" \in PC
      /\ Moves(t, "block_lock")
      /\ gen' = gen
      /\ \A u \in Thread : ~Lookup!Claims(u)
      /\ lookup_lock[t] = "none" /\ insert_lock' = insert_lock /\ lookup_lock' = [lookup_lock EXCEPT ![t] = "claim"]
      /\ SamePlaces /\ SameTurns
      /\ UNCHANGED <<closing, full, refs, pinned, is_empty,
                     content>> /\ queue' = queue
  BY <1>1, <1>2
  DEF BlockLookups, Goto, Moves, PC, TypeOK, SamePlaces, SameTurns, Lookup!Get,
      Lookup!GetAndClaim, Lookup!Unget, Lookup!Claim, Lookup!Lock,
      Lookup!Drained, Lookup!FullUnlock, Lookup!Move, Lookup!Claims, ctxtVars,
      slotVars, dataVars, rootVars, lockVars, readVars, histVars
<1>4. TypeOK'
  BY <1>1, <1>2, <1>3
  DEF BlockLookups, Goto, TypeOK, PC, Insert!Modes, Lookup!Modes, Lookup!Get,
      Lookup!GetAndClaim, Lookup!Unget, Lookup!Claim, Lookup!Lock,
      Lookup!Drained, Lookup!FullUnlock, Lookup!Move, Lookup!Claims, ctxtVars,
      slotVars, dataVars, rootVars, lockVars, readVars, histVars
<1>5. RoleInv'
  BY <1>1, <1>2, <1>3, RoleFrame
  DEF RoleInv, PC, TaskPC, Turn, Compacting, Incorporating, Incorporated,
      CallPC, ReaderPC
<1>6. LocksInv'
  BY <1>1, <1>2, <1>3
  DEF LocksInv, TypeOK, Moves, InsertMode, LookupMode, Insert!Claims,
      Lookup!Claims
<1>7. SlotsInv'
  BY <1>1, <1>2, <1>3, SlotsFrame DEF SamePlaces, SameTurns
<1>8. InsertsInv'
  BY <1>1, <1>2, <1>3, InsertsFrame DEF SamePlaces, SameTurns
<1>9. CompactInv'
  BY <1>1, <1>2, <1>3, CompactFrame DEF SamePlaces, SameTurns
<1>10. TurnInv'
  <2>1. \A u \in Flusher : u # t => pc'[u] = pc[u] /\ gen'[u] = gen[u]
    BY <1>1, <1>3, ThreadRoles DEF Moves, TypeOK
  <2>2. pc'[t] = "block_lock" /\ gen'[t] = gen[t]
    BY <1>1, <1>2, <1>3 DEF Moves, TypeOK
  <2>3. pc[t] \in Turn
    BY <1>3 DEF Turn, Incorporating, Incorporated
  <2>4. \A u \in Flusher : u # t => pc[u] \notin Turn
    BY <1>1, <1>2, <2>3 DEF TurnInv
  <2>5. \A u \in Flusher : u # t => pc'[u] \notin Turn
    BY <2>1, <2>4
  <2> QED
    BY <1>1, <1>2, <1>3, <2>2, <2>5
    DEF TurnInv, Turn, Incorporating, Incorporated, SameTurns, SamePlaces,
        InState
<1>11. RefsInv'
  BY <1>1, <1>2, <1>3, RefsFrame DEF SamePlaces, SameTurns
<1>12. ReadersInv'
  BY <1>1, <1>2, <1>3, ReadersFrame DEF SamePlaces, SameTurns
<1>13. RecycleInv'
  BY <1>1, <1>2, <1>3, RecycleFrame DEF SamePlaces, SameTurns
<1>14. ContentInv'
  BY <1>1, <1>2, <1>3, ContentFrame DEF SamePlaces, SameTurns
<1> QED
  BY <1>4, <1>5, <1>6, <1>7, <1>8, <1>9, <1>10, <1>11, <1>12, <1>13, <1>14
  DEF IInv

LEMMA LockLookupsKeeps ==
    ASSUME IInv, NEW t \in Flusher, pc[t] = "block_lock", BlockLookups(t)
    PROVE  IInv'
<1>1. /\ TypeOK /\ RoleInv /\ LocksInv /\ SlotsInv /\ InsertsInv /\ CompactInv
      /\ TurnInv /\ RefsInv /\ ReadersInv /\ RecycleInv /\ ContentInv
  BY DEF IInv
<1>2. t \in Thread /\ t \notin Reader
  BY ThreadRoles, MemtableAssumption DEF Flusher, Thread
<1>3. /\ "block_drain" \in PC
      /\ Moves(t, "block_drain")
      /\ gen' = gen
      /\ SamePlaces
      /\ lookup_lock[t] = "claim" /\ insert_lock' = insert_lock /\ lookup_lock' = [lookup_lock EXCEPT ![t] = "drain"]
      /\ SamePlaces /\ SameTurns
      /\ UNCHANGED <<closing, full, refs, pinned, is_empty,
                     content>> /\ queue' = queue
  BY <1>1, <1>2
  DEF BlockLookups, Goto, Moves, PC, TypeOK, SamePlaces, SameTurns, Lookup!Get,
      Lookup!GetAndClaim, Lookup!Unget, Lookup!Claim, Lookup!Lock,
      Lookup!Drained, Lookup!FullUnlock, Lookup!Move, Lookup!Claims, ctxtVars,
      slotVars, dataVars, rootVars, lockVars, readVars, histVars
<1>4. TypeOK'
  BY <1>1, <1>2, <1>3
  DEF BlockLookups, Goto, TypeOK, PC, Insert!Modes, Lookup!Modes, Lookup!Get,
      Lookup!GetAndClaim, Lookup!Unget, Lookup!Claim, Lookup!Lock,
      Lookup!Drained, Lookup!FullUnlock, Lookup!Move, Lookup!Claims, ctxtVars,
      slotVars, dataVars, rootVars, lockVars, readVars, histVars
<1>5. RoleInv'
  BY <1>1, <1>2, <1>3, RoleFrame
  DEF RoleInv, PC, TaskPC, Turn, Compacting, Incorporating, Incorporated,
      CallPC, ReaderPC
<1>6. LocksInv'
  BY <1>1, <1>2, <1>3
  DEF LocksInv, TypeOK, Moves, InsertMode, LookupMode, Insert!Claims,
      Lookup!Claims
<1>7. SlotsInv'
  BY <1>1, <1>2, <1>3, SlotsFrame DEF SamePlaces, SameTurns
<1>8. InsertsInv'
  BY <1>1, <1>2, <1>3, InsertsFrame DEF SamePlaces, SameTurns
<1>9. CompactInv'
  BY <1>1, <1>2, <1>3, CompactFrame DEF SamePlaces, SameTurns
<1>10. TurnInv'
  <2>1. \A u \in Flusher : u # t => pc'[u] = pc[u] /\ gen'[u] = gen[u]
    BY <1>1, <1>3, ThreadRoles DEF Moves, TypeOK
  <2>2. pc'[t] = "block_drain" /\ gen'[t] = gen[t]
    BY <1>1, <1>2, <1>3 DEF Moves, TypeOK
  <2>3. pc[t] \in Turn
    BY <1>3 DEF Turn, Incorporating, Incorporated
  <2>4. \A u \in Flusher : u # t => pc[u] \notin Turn
    BY <1>1, <1>2, <2>3 DEF TurnInv
  <2>5. \A u \in Flusher : u # t => pc'[u] \notin Turn
    BY <2>1, <2>4
  <2> QED
    BY <1>1, <1>2, <1>3, <2>2, <2>5
    DEF TurnInv, Turn, Incorporating, Incorporated, SameTurns, SamePlaces,
        InState
<1>11. RefsInv'
  BY <1>1, <1>2, <1>3, RefsFrame DEF SamePlaces, SameTurns
<1>12. ReadersInv'
  BY <1>1, <1>2, <1>3, ReadersFrame DEF SamePlaces, SameTurns
<1>13. RecycleInv'
  BY <1>1, <1>2, <1>3, RecycleFrame DEF SamePlaces, SameTurns
<1>14. ContentInv'
  BY <1>1, <1>2, <1>3, ContentFrame DEF SamePlaces, SameTurns
<1> QED
  BY <1>4, <1>5, <1>6, <1>7, <1>8, <1>9, <1>10, <1>11, <1>12, <1>13, <1>14
  DEF IInv

LEMMA DrainLookupsKeeps ==
    ASSUME IInv, NEW t \in Flusher, pc[t] = "block_drain", BlockLookups(t)
    PROVE  IInv'
<1>1. /\ TypeOK /\ RoleInv /\ LocksInv /\ SlotsInv /\ InsertsInv /\ CompactInv
      /\ TurnInv /\ RefsInv /\ ReadersInv /\ RecycleInv /\ ContentInv
  BY DEF IInv
<1>2. t \in Thread /\ t \notin Reader
  BY ThreadRoles, MemtableAssumption DEF Flusher, Thread
<1>3. /\ "retire" \in PC
      /\ Moves(t, "retire")
      /\ gen' = gen
      /\ \A u \in Thread \ {t} : lookup_lock[u] = "none"
      /\ lookup_lock[t] = "drain" /\ insert_lock' = insert_lock /\ lookup_lock' = [lookup_lock EXCEPT ![t] = "write"]
      /\ SamePlaces /\ SameTurns
      /\ UNCHANGED <<closing, full, refs, pinned, is_empty,
                     content>> /\ queue' = queue
  BY <1>1, <1>2
  DEF BlockLookups, Goto, Moves, PC, TypeOK, SamePlaces, SameTurns, Lookup!Get,
      Lookup!GetAndClaim, Lookup!Unget, Lookup!Claim, Lookup!Lock,
      Lookup!Drained, Lookup!FullUnlock, Lookup!Move, Lookup!Claims, ctxtVars,
      slotVars, dataVars, rootVars, lockVars, readVars, histVars
<1>4. TypeOK'
  BY <1>1, <1>2, <1>3
  DEF BlockLookups, Goto, TypeOK, PC, Insert!Modes, Lookup!Modes, Lookup!Get,
      Lookup!GetAndClaim, Lookup!Unget, Lookup!Claim, Lookup!Lock,
      Lookup!Drained, Lookup!FullUnlock, Lookup!Move, Lookup!Claims, ctxtVars,
      slotVars, dataVars, rootVars, lockVars, readVars, histVars
<1>5. RoleInv'
  BY <1>1, <1>2, <1>3, RoleFrame
  DEF RoleInv, PC, TaskPC, Turn, Compacting, Incorporating, Incorporated,
      CallPC, ReaderPC
<1>6. LocksInv'
  BY <1>1, <1>2, <1>3
  DEF LocksInv, TypeOK, Moves, InsertMode, LookupMode, Insert!Claims,
      Lookup!Claims
<1>7. SlotsInv'
  BY <1>1, <1>2, <1>3, SlotsFrame DEF SamePlaces, SameTurns
<1>8. InsertsInv'
  BY <1>1, <1>2, <1>3, InsertsFrame DEF SamePlaces, SameTurns
<1>9. CompactInv'
  BY <1>1, <1>2, <1>3, CompactFrame DEF SamePlaces, SameTurns
<1>10. TurnInv'
  <2>1. \A u \in Flusher : u # t => pc'[u] = pc[u] /\ gen'[u] = gen[u]
    BY <1>1, <1>3, ThreadRoles DEF Moves, TypeOK
  <2>2. pc'[t] = "retire" /\ gen'[t] = gen[t]
    BY <1>1, <1>2, <1>3 DEF Moves, TypeOK
  <2>3. pc[t] \in Turn
    BY <1>3 DEF Turn, Incorporating, Incorporated
  <2>4. \A u \in Flusher : u # t => pc[u] \notin Turn
    BY <1>1, <1>2, <2>3 DEF TurnInv
  <2>5. \A u \in Flusher : u # t => pc'[u] \notin Turn
    BY <2>1, <2>4
  <2> QED
    BY <1>1, <1>2, <1>3, <2>2, <2>5
    DEF TurnInv, Turn, Incorporating, Incorporated, SameTurns, SamePlaces,
        InState
<1>11. RefsInv'
  BY <1>1, <1>2, <1>3, RefsFrame DEF SamePlaces, SameTurns
<1>12. ReadersInv'
  BY <1>1, <1>2, <1>3, ReadersFrame DEF SamePlaces, SameTurns
<1>13. RecycleInv'
  BY <1>1, <1>2, <1>3, RecycleFrame DEF SamePlaces, SameTurns
<1>14. ContentInv'
  BY <1>1, <1>2, <1>3, ContentFrame DEF SamePlaces, SameTurns
<1> QED
  BY <1>4, <1>5, <1>6, <1>7, <1>8, <1>9, <1>10, <1>11, <1>12, <1>13, <1>14
  DEF IInv

LEMMA SwitchRootKeeps ==
    ASSUME IInv, NEW t \in Flusher, SwitchRoot(t)
    PROVE  IInv'
<1>1. /\ TypeOK /\ RoleInv /\ LocksInv /\ SlotsInv /\ InsertsInv /\ CompactInv
      /\ TurnInv /\ RefsInv /\ ReadersInv /\ RecycleInv /\ ContentInv
  BY DEF IInv
<1>2. t \in Thread /\ t \notin Reader
  BY ThreadRoles, MemtableAssumption DEF Flusher, Thread
<1>3. /\ "unblock" \in PC
      /\ Moves(t, "unblock")
      /\ pc[t] = "switch" /\ gen' = gen
      /\ SamePlaces /\ SameTurns
      /\ UNCHANGED <<closing, full, refs, pinned, is_empty,
                     content>> /\ queue' = queue
      /\ UNCHANGED <<insert_lock, lookup_lock>>
  BY <1>1, <1>2
  DEF SwitchRoot, Goto, Moves, PC, TypeOK, SamePlaces, SameTurns, ctxtVars,
      slotVars, dataVars, rootVars, lockVars, readVars, histVars
<1>4. TypeOK'
  BY <1>1, <1>2, <1>3
  DEF SwitchRoot, Goto, TypeOK, PC, Insert!Modes, Lookup!Modes, ctxtVars,
      slotVars, dataVars, rootVars, lockVars, readVars, histVars
<1>5. RoleInv'
  BY <1>1, <1>2, <1>3, RoleFrame
  DEF RoleInv, PC, TaskPC, Turn, Compacting, Incorporating, Incorporated,
      CallPC, ReaderPC
<1>6. LocksInv'
  BY <1>1, <1>2, <1>3, LocksFrame DEF InsertMode, LookupMode
<1>7. SlotsInv'
  BY <1>1, <1>2, <1>3, SlotsFrame DEF SamePlaces, SameTurns
<1>8. InsertsInv'
  BY <1>1, <1>2, <1>3, InsertsFrame DEF SamePlaces, SameTurns
<1>9. CompactInv'
  BY <1>1, <1>2, <1>3, CompactFrame DEF SamePlaces, SameTurns
<1>10. TurnInv'
  <2>1. \A u \in Flusher : u # t => pc'[u] = pc[u] /\ gen'[u] = gen[u]
    BY <1>1, <1>3, ThreadRoles DEF Moves, TypeOK
  <2>2. pc'[t] = "unblock" /\ gen'[t] = gen[t]
    BY <1>1, <1>2, <1>3 DEF Moves, TypeOK
  <2>3. pc[t] \in Turn
    BY <1>3 DEF Turn, Incorporating, Incorporated
  <2>4. \A u \in Flusher : u # t => pc[u] \notin Turn
    BY <1>1, <1>2, <2>3 DEF TurnInv
  <2>5. \A u \in Flusher : u # t => pc'[u] \notin Turn
    BY <2>1, <2>4
  <2> QED
    BY <1>1, <1>2, <1>3, <2>2, <2>5
    DEF TurnInv, Turn, Incorporating, Incorporated, SameTurns, SamePlaces,
        InState
<1>11. RefsInv'
  BY <1>1, <1>2, <1>3, RefsFrame DEF SamePlaces, SameTurns
<1>12. ReadersInv'
  BY <1>1, <1>2, <1>3, ReadersFrame DEF SamePlaces, SameTurns
<1>13. RecycleInv'
  BY <1>1, <1>2, <1>3, RecycleFrame DEF SamePlaces, SameTurns
<1>14. ContentInv'
  BY <1>1, <1>2, <1>3, ContentFrame DEF SamePlaces, SameTurns
<1> QED
  BY <1>4, <1>5, <1>6, <1>7, <1>8, <1>9, <1>10, <1>11, <1>12, <1>13, <1>14
  DEF IInv

LEMMA UnblockLookupsKeeps ==
    ASSUME IInv, NEW t \in Flusher, UnblockLookups(t)
    PROVE  IInv'
<1>1. /\ TypeOK /\ RoleInv /\ LocksInv /\ SlotsInv /\ InsertsInv /\ CompactInv
      /\ TurnInv /\ RefsInv /\ ReadersInv /\ RecycleInv /\ ContentInv
  BY DEF IInv
<1>2. t \in Thread /\ t \notin Reader
  BY ThreadRoles, MemtableAssumption DEF Flusher, Thread
<1>3. /\ "dec_ref" \in PC
      /\ Moves(t, "dec_ref")
      /\ pc[t] = "unblock" /\ gen' = gen
      /\ lookup_lock[t] = "write" /\ insert_lock' = insert_lock /\ lookup_lock' = [lookup_lock EXCEPT ![t] = "none"]
      /\ SamePlaces /\ SameTurns
      /\ UNCHANGED <<closing, full, refs, pinned, is_empty,
                     content>> /\ queue' = queue
  BY <1>1, <1>2
  DEF UnblockLookups, Goto, Moves, PC, TypeOK, SamePlaces, SameTurns,
      Lookup!Get, Lookup!GetAndClaim, Lookup!Unget, Lookup!Claim, Lookup!Lock,
      Lookup!Drained, Lookup!FullUnlock, Lookup!Move, Lookup!Claims, ctxtVars,
      slotVars, dataVars, rootVars, lockVars, readVars, histVars
<1>4. TypeOK'
  BY <1>1, <1>2, <1>3
  DEF UnblockLookups, Goto, TypeOK, PC, Insert!Modes, Lookup!Modes, Lookup!Get,
      Lookup!GetAndClaim, Lookup!Unget, Lookup!Claim, Lookup!Lock,
      Lookup!Drained, Lookup!FullUnlock, Lookup!Move, Lookup!Claims, ctxtVars,
      slotVars, dataVars, rootVars, lockVars, readVars, histVars
<1>5. RoleInv'
  BY <1>1, <1>2, <1>3, RoleFrame
  DEF RoleInv, PC, TaskPC, Turn, Compacting, Incorporating, Incorporated,
      CallPC, ReaderPC
<1>6. LocksInv'
  BY <1>1, <1>2, <1>3
  DEF LocksInv, TypeOK, Moves, InsertMode, LookupMode, Insert!Claims,
      Lookup!Claims
<1>7. SlotsInv'
  BY <1>1, <1>2, <1>3, SlotsFrame DEF SamePlaces, SameTurns
<1>8. InsertsInv'
  BY <1>1, <1>2, <1>3, InsertsFrame DEF SamePlaces, SameTurns
<1>9. CompactInv'
  BY <1>1, <1>2, <1>3, CompactFrame DEF SamePlaces, SameTurns
<1>10. TurnInv'
  <2>1. \A u \in Flusher : u # t => pc'[u] = pc[u] /\ gen'[u] = gen[u]
    BY <1>1, <1>3, ThreadRoles DEF Moves, TypeOK
  <2>2. pc'[t] = "dec_ref" /\ gen'[t] = gen[t]
    BY <1>1, <1>2, <1>3 DEF Moves, TypeOK
  <2>3. pc[t] \in Turn
    BY <1>3 DEF Turn, Incorporating, Incorporated
  <2>4. \A u \in Flusher : u # t => pc[u] \notin Turn
    BY <1>1, <1>2, <2>3 DEF TurnInv
  <2>5. \A u \in Flusher : u # t => pc'[u] \notin Turn
    BY <2>1, <2>4
  <2> QED
    BY <1>1, <1>2, <1>3, <2>2, <2>5
    DEF TurnInv, Turn, Incorporating, Incorporated, SameTurns, SamePlaces,
        InState
<1>11. RefsInv'
  BY <1>1, <1>2, <1>3, RefsFrame DEF SamePlaces, SameTurns
<1>12. ReadersInv'
  BY <1>1, <1>2, <1>3, ReadersFrame DEF SamePlaces, SameTurns
<1>13. RecycleInv'
  BY <1>1, <1>2, <1>3, RecycleFrame DEF SamePlaces, SameTurns
<1>14. ContentInv'
  BY <1>1, <1>2, <1>3, ContentFrame DEF SamePlaces, SameTurns
<1> QED
  BY <1>4, <1>5, <1>6, <1>7, <1>8, <1>9, <1>10, <1>11, <1>12, <1>13, <1>14
  DEF IInv

LEMMA RetireKeeps ==
    ASSUME IInv, NEW t \in Flusher, Retire(t)
    PROVE  IInv'
<1>1. /\ TypeOK /\ RoleInv /\ LocksInv /\ SlotsInv /\ InsertsInv /\ CompactInv
      /\ TurnInv /\ RefsInv /\ ReadersInv /\ RecycleInv /\ ContentInv
  BY DEF IInv
<1>2. t \in Thread /\ t \notin Reader
  BY ThreadRoles, MemtableAssumption DEF Flusher, Thread
<1>3. /\ "switch" \in PC
      /\ Moves(t, "switch")
      /\ pc[t] = "retire" /\ gen' = gen
      /\ gen[t] \in Nat /\ SlotOf(gen[t]) \in Slot /\ mt_generation[SlotOf(gen[t])] = gen[t] /\ state[SlotOf(gen[t])] = "INCORPORATION_ASSIGNED"
      /\ \A q \in Slot : state'[q] = IF q = SlotOf(gen[t]) THEN "INCORPORATED" ELSE state[q]
      /\ mt_generation' = mt_generation
      /\ gen[t] = generation_retired + 1 /\ generation_retired' = generation_retired + 1
      /\ gen[t] = generation_to_incorporate
      /\ UNCHANGED <<generation, generation_to_incorporate>>
      /\ UNCHANGED <<closing, full, refs, pinned, is_empty,
                     content>> /\ queue' = queue
      /\ UNCHANGED <<insert_lock, lookup_lock>>
  <2>1. gen[t] = generation_retired + 1 /\ gen[t] = generation_to_incorporate /\ InState(gen[t], "INCORPORATION_ASSIGNED")
    BY <1>1, <1>2 DEF Retire, Goto, TurnInv, Turn, Incorporating
  <2>2. gen[t] \in Nat /\ SlotOf(gen[t]) \in Slot
    BY <1>1, <1>2, <2>1, SlotsTyped DEF TypeOK
  <2> QED
    BY <1>1, <1>2, <2>1, <2>2
    DEF Retire, Goto, Transition, Moves, PC, TypeOK, InState, ctxtVars,
        slotVars, dataVars, rootVars, lockVars, readVars, histVars
<1>4. TypeOK'
  <2>1. state' \in [Slot -> States]
    BY <1>1, <1>3 DEF Retire, Transition, TypeOK, States
  <2>2. generation_retired' \in Nat \cup {-1}
    BY <1>3
  <2> QED
    BY <1>1, <1>2, <1>3, <2>1, <2>2
    DEF Retire, Goto, TypeOK, PC, Insert!Modes, Lookup!Modes, slotVars,
        dataVars, rootVars, lockVars, readVars, histVars
<1>5. RoleInv'
  BY <1>1, <1>2, <1>3, RoleFrame
  DEF RoleInv, PC, TaskPC, Turn, Compacting, Incorporating, Incorporated,
      CallPC, ReaderPC
<1>6. LocksInv'
  BY <1>1, <1>2, <1>3, LocksFrame DEF InsertMode, LookupMode
<1>7. SlotsInv'
  <2>1. generation_retired + 1 < generation
    BY <1>1, <1>3 DEF SlotsInv, Behind
  <2>2. \A q \in Slot : mt_generation[q] = generation_retired + 1 => q = SlotOf(gen[t])
    BY <1>1, <1>3 DEF SlotsInv
  <2>3. \A q \in Slot : mt_generation[q] \in Int
    BY <1>1 DEF TypeOK
  <2>4. generation \in Int /\ generation_retired \in Int /\ NumMemtables \in Int
    BY <1>1, MemtableAssumption DEF TypeOK
  <2>5. ~closing' => Ready(generation)'
    BY <1>1, <1>3, SlotsTyped DEF SlotsInv, Ready
  <2>6. ASSUME NEW q \in Slot
        PROVE (/\ SlotOf(mt_generation[q]) = q
               /\ generation - NumMemtables <= mt_generation[q]
               /\ mt_generation[q] <= generation_retired + NumMemtables
               /\ state[q] = "READY" => mt_generation[q] >= generation
               /\ state[q] \in Behind => /\ generation_retired < mt_generation[q]
                                         /\ mt_generation[q] < generation
               /\ state[q] = "INCORPORATED" => \/ mt_generation[q] <= generation_retired
                                               \/ mt_generation[q] >= generation)'
    <3>1. CASE q = SlotOf(gen[t])
      BY <1>1, <1>3, <2>1, <2>4, <3>1 DEF SlotsInv, Behind
    <3>2. CASE q # SlotOf(gen[t])
      BY <1>1, <1>3, <2>2, <2>3, <2>4, <3>2 DEF SlotsInv
    <3> QED BY <3>1, <3>2
  <2> QED BY <1>1, <1>3, <2>1, <2>4, <2>5, <2>6 DEF SlotsInv
<1>8. InsertsInv'
  BY <1>1, <1>2, <1>3, InsertsFrame DEF SamePlaces, SameTurns
<1>9. CompactInv'
  BY <1>1, <1>2, <1>3, CompactFrame DEF SamePlaces, SameTurns
<1>10. TurnInv'
  <2>1. \A u \in Flusher : u # t => pc'[u] = pc[u]
    BY <1>1, <1>3, ThreadRoles DEF Moves, TypeOK
  <2>2. pc'[t] = "switch"
    BY <1>1, <1>2, <1>3 DEF Moves, TypeOK
  <2>3. pc[t] \in Turn
    BY <1>3 DEF Turn, Incorporating, Incorporated
  <2>4. \A u \in Flusher : u # t => pc'[u] \notin Turn
    BY <1>1, <1>2, <2>1, <2>3 DEF TurnInv
  <2> QED
    BY <1>2, <1>3, <2>2, <2>4
    DEF TurnInv, Turn, Incorporating, Incorporated, InState
<1>11. RefsInv'
  <2>1. \A u \in Thread : u # t => pc'[u] = pc[u] /\ gen'[u] = gen[u]
    BY <1>1, <1>3 DEF Moves, TypeOK
  <2>2. pc'[t] = "switch" /\ gen'[t] = gen[t]
    BY <1>1, <1>2, <1>3 DEF Moves, TypeOK
  <2>3. ASSUME NEW q \in Slot PROVE PinnedBy(q)' = PinnedBy(q)
    BY <1>2, <1>3, <2>1, ThreadRoles DEF PinnedBy
  <2>4. ASSUME NEW q \in Slot PROVE Dropped(q)' <=> Dropped(q)
    <3>1. CASE q = SlotOf(gen[t])
      BY <1>2, <1>3, <2>2, <3>1 DEF Dropped
    <3>2. CASE q # SlotOf(gen[t])
      <4>1. mt_generation[q] # gen[t] /\ mt_generation[q] \in Int /\ generation_retired \in Int
        BY <1>1, <3>2 DEF SlotsInv, TypeOK
      <4>2. mt_generation'[q] <= generation_retired' <=> mt_generation[q] <= generation_retired
        BY <1>3, <4>1
      <4>3. state'[q] = state[q]
        BY <1>3, <3>2
      <4> QED BY <1>3, <2>1, <2>2, <4>1, <4>2, <4>3, ThreadRoles DEF Dropped
    <3> QED BY <3>1, <3>2
  <2> QED BY <1>1, <1>3, <2>3, <2>4 DEF RefsInv
<1>12. ReadersInv'
  <2>1. \A u \in Thread : u # t => pc'[u] = pc[u] /\ gen'[u] = gen[u]
    BY <1>1, <1>3 DEF Moves, TypeOK
  <2>2. lookup_lock[t] = "write"
    BY <1>1, <1>2, <1>3 DEF LocksInv, LookupMode
  <2>3. \A r \in Reader : r \in Thread /\ r # t
    BY <1>2, ThreadRoles
  <2>4. \A r \in Reader : pc[r] \notin {"lookup", "iter_init"}
    BY <1>1, <1>2, <2>2, <2>3 DEF LocksInv, LookupMode
  <2> QED BY <1>1, <1>3, <2>1, <2>3, <2>4 DEF ReadersInv
<1>13. RecycleInv'
  <2>1. \A u \in Thread : u # t => pc'[u] = pc[u] /\ gen'[u] = gen[u]
    BY <1>1, <1>3 DEF Moves, TypeOK
  <2>2. pc'[t] = "switch"
    BY <1>1, <1>2, <1>3 DEF Moves, TypeOK
  <2>3. \A u \in Thread : gen[u] \in Int /\ SlotOf(gen[u]) \in Slot /\ generation_retired \in Int
    BY <1>1, SlotsTyped DEF TypeOK
  <2>4. \A q \in Slot : state[q] = "INCORPORATED" => state'[q] = "INCORPORATED"
    BY <1>3
  <2>5. \A u \in Thread : gen[u] <= generation_retired => gen[u] <= generation_retired'
    BY <1>3, <2>3
  <2> QED BY <1>1, <1>3, <2>1, <2>2, <2>3, <2>4, <2>5 DEF RecycleInv, InState
<1>14. ContentInv'
  BY <1>1, <1>2, <1>3, ContentFrame DEF SamePlaces, SameTurns
<1> QED
  BY <1>4, <1>5, <1>6, <1>7, <1>8, <1>9, <1>10, <1>11, <1>12, <1>13, <1>14
  DEF IInv

LEMMA LastDecRefKeeps ==
    ASSUME IInv, NEW t \in Flusher, refs[SlotOf(gen[t])] = 1, DecRef(t)
    PROVE  IInv'
<1>1. /\ TypeOK /\ RoleInv /\ LocksInv /\ SlotsInv /\ InsertsInv /\ CompactInv
      /\ TurnInv /\ RefsInv /\ ReadersInv /\ RecycleInv /\ ContentInv
  BY DEF IInv
<1>2. t \in Thread /\ t \notin Reader
  BY ThreadRoles, MemtableAssumption DEF Flusher, Thread
<1>3. /\ "recycle" \in PC
      /\ Moves(t, "recycle")
      /\ pc[t] = "dec_ref" /\ gen' = gen
      /\ gen[t] = generation_retired /\ state[SlotOf(gen[t])] = "INCORPORATED"
      /\ refs[SlotOf(gen[t])] = Cardinality(PinnedBy(SlotOf(gen[t]))) + 1
      /\ gen[t] \in Nat /\ SlotOf(gen[t]) \in Slot /\ mt_generation[SlotOf(gen[t])] = gen[t]
      /\ refs[SlotOf(gen[t])] \in Nat \ {0} /\ refs' \in [Slot -> Nat]
      /\ \A q \in Slot : refs'[q] = IF q = SlotOf(gen[t]) THEN refs[q] - 1 ELSE refs[q]
      /\ SamePlaces /\ SameTurns
      /\ UNCHANGED <<closing, full, pinned, is_empty, content, queue>>
      /\ UNCHANGED <<insert_lock, lookup_lock>>
  <2>1. gen[t] = generation_retired /\ InState(gen[t], "INCORPORATED")
    BY <1>1, <1>2 DEF DecRef, Goto, TurnInv, Incorporated
  <2>2. gen[t] \in Int /\ SlotOf(gen[t]) \in Slot
    BY <1>1, <1>2, SlotsTyped
  <2>3. gen[t] \in Nat
    BY <1>1, <2>1, <2>2 DEF InState, TypeOK
  <2>4. refs[SlotOf(gen[t])] = Cardinality(PinnedBy(SlotOf(gen[t]))) + 1
    BY <1>1, <1>2, <2>1, <2>2 DEF RefsInv, Dropped, InState, DecRef, Goto
  <2>5. refs[SlotOf(gen[t])] \in Nat \ {0}
    BY <2>4, PinnedFinite
  <2>6. refs' = [refs EXCEPT ![SlotOf(gen[t])] = @ - 1] /\ refs \in [Slot -> Nat]
    BY <1>1 DEF DecRef, TypeOK
  <2>7. refs' \in [Slot -> Nat]
    BY <2>2, <2>5, <2>6
  <2>8. \A q \in Slot : refs'[q] = IF q = SlotOf(gen[t]) THEN refs[q] - 1 ELSE refs[q]
    BY <2>2, <2>6
  <2> QED
    BY <1>1, <1>2, <2>1, <2>2, <2>3, <2>4, <2>5, <2>7, <2>8
    DEF DecRef, Goto, Moves, PC, TypeOK, SamePlaces, SameTurns, InState,
        AfterDecRef, ctxtVars, slotVars, dataVars, rootVars, lockVars,
        readVars, histVars
<1>4. TypeOK'
  BY <1>1, <1>2, <1>3
  DEF DecRef, Goto, Moves, TypeOK, PC, Insert!Modes, Lookup!Modes, ctxtVars,
      slotVars, dataVars, rootVars, lockVars, readVars, histVars
<1>5. RoleInv'
  BY <1>1, <1>2, <1>3, RoleFrame
  DEF RoleInv, PC, TaskPC, Turn, Compacting, Incorporating, Incorporated,
      CallPC, ReaderPC
<1>6. LocksInv'
  BY <1>1, <1>2, <1>3, LocksFrame DEF InsertMode, LookupMode
<1>7. SlotsInv'
  BY <1>1, <1>2, <1>3, SlotsFrame DEF SamePlaces, SameTurns
<1>8. InsertsInv'
  BY <1>1, <1>2, <1>3, InsertsFrame DEF SamePlaces, SameTurns
<1>9. CompactInv'
  BY <1>1, <1>2, <1>3, CompactFrame DEF SamePlaces, SameTurns
<1>10. TurnInv'
  <2>1. \A u \in Flusher : u # t => pc'[u] = pc[u] /\ gen'[u] = gen[u]
    BY <1>1, <1>3, ThreadRoles DEF Moves, TypeOK
  <2>2. pc'[t] = "recycle" /\ gen'[t] = gen[t]
    BY <1>1, <1>2, <1>3 DEF Moves, TypeOK
  <2>3. pc[t] \in Turn
    BY <1>3 DEF Turn, Incorporating, Incorporated
  <2>4. \A u \in Flusher : u # t => pc[u] \notin Turn
    BY <1>1, <1>2, <2>3 DEF TurnInv
  <2>5. \A u \in Flusher : u # t => pc'[u] \notin Turn
    BY <2>1, <2>4
  <2> QED
    BY <1>1, <1>2, <1>3, <2>2, <2>5
    DEF TurnInv, Turn, Incorporating, Incorporated, SameTurns, SamePlaces,
        InState
<1>11. RefsInv'
  <2>1. \A u \in Thread : u # t => pc'[u] = pc[u] /\ gen'[u] = gen[u]
    BY <1>1, <1>3 DEF Moves, TypeOK
  <2>2. pc'[t] = "recycle" /\ gen'[t] = gen[t]
    BY <1>1, <1>2, <1>3 DEF Moves, TypeOK
  <2>3. ASSUME NEW q \in Slot PROVE PinnedBy(q)' = PinnedBy(q)
    BY <1>2, <1>3, <2>1, ThreadRoles DEF PinnedBy, SamePlaces
  <2>4. \A u \in Flusher : u # t => pc[u] \notin {"switch", "unblock", "dec_ref"}
    BY <1>1, <1>2, <1>3 DEF TurnInv, Turn, Incorporated
  <2>5. \A u \in Flusher : pc'[u] \notin {"switch", "unblock", "dec_ref"}
    BY <2>1, <2>2, <2>4, ThreadRoles
  <2>6. ASSUME NEW q \in Slot
        PROVE  refs'[q] = Cardinality(PinnedBy(q)) + (IF Dropped(q)' THEN 0 ELSE 1)
    <3>1. CASE q = SlotOf(gen[t])
      <4>1. Dropped(q)'
        BY <1>1, <1>3, <2>5, <3>1 DEF Dropped, SamePlaces, SameTurns, TypeOK
      <4> QED BY <1>3, <3>1, <4>1, PinnedFinite
    <3>2. CASE q # SlotOf(gen[t])
      <4>1. mt_generation[q] # gen[t]
        BY <1>3, <3>2, <1>1 DEF SlotsInv
      <4>2. Dropped(q)' <=> Dropped(q)
        BY <1>2, <1>3, <2>4, <2>5, <4>1 DEF Dropped, SamePlaces, SameTurns
      <4> QED BY <1>1, <1>3, <3>2, <4>2 DEF RefsInv
    <3> QED BY <3>1, <3>2
  <2> QED BY <2>3, <2>6 DEF RefsInv
<1>12. ReadersInv'
  BY <1>1, <1>2, <1>3, ReadersFrame DEF SamePlaces, SameTurns
<1>13. RecycleInv'
  <2>1. \A u \in Thread : u # t => pc'[u] = pc[u] /\ gen'[u] = gen[u]
    BY <1>1, <1>3 DEF Moves, TypeOK
  <2>2. pc'[t] = "recycle" /\ gen'[t] = gen[t]
    BY <1>1, <1>2, <1>3 DEF Moves, TypeOK
  <2>3. \A u \in Thread : gen[u] \in Int /\ SlotOf(gen[u]) \in Slot
    BY <1>1, SlotsTyped
  <2>4. ASSUME NEW u \in Thread, u # t, pc[u] \in {"recycle", "ready"}
        PROVE  SlotOf(gen[u]) # SlotOf(gen[t])
    <3>1. CASE pc[u] = "recycle"
      BY <1>1, <1>3, <3>1 DEF RecycleInv
    <3>2. CASE pc[u] = "ready"
      <4>1. generation_retired < generation /\ generation \in Int /\ generation_retired \in Int
        BY <1>1 DEF SlotsInv, TypeOK
      <4> QED BY <1>1, <1>3, <2>3, <3>2, <4>1 DEF RecycleInv
    <3> QED BY <2>4, <3>1, <3>2
  <2>5. refs'[SlotOf(gen[t])] = 0
    BY <1>3
  <2>6. \A u \in Thread : pc[u] = "recycle" => SlotOf(gen[u]) # SlotOf(gen[t])
    BY <1>1, <1>3 DEF RecycleInv
  <2>7. ASSUME NEW u \in Thread, u # t
        PROVE (/\ pc[u] = "recycle" =>
                  /\ gen[u] >= 0
                  /\ InState(gen[u], "INCORPORATED")
                  /\ gen[u] <= generation_retired
                  /\ refs[SlotOf(gen[u])] = 0
               /\ pc[u] = "ready" =>
                  /\ gen[u] >= 0
                  /\ mt_generation[SlotOf(gen[u])] = gen[u] + NumMemtables
                  /\ generation <= gen[u] + NumMemtables
                  /\ state[SlotOf(gen[u])] = "INCORPORATED")'
    BY <1>1, <1>3, <2>1, <2>3, <2>6, <2>7
    DEF RecycleInv, InState, SamePlaces, SameTurns
  <2>8. (/\ gen[t] >= 0
         /\ InState(gen[t], "INCORPORATED")
         /\ gen[t] <= generation_retired
         /\ refs[SlotOf(gen[t])] = 0)'
    BY <1>1, <1>3, <2>2, <2>5 DEF InState, SamePlaces, SameTurns, TypeOK
  <2>9. \A u \in Thread : pc'[u] \in {"recycle", "ready"} =>
              \A v \in Thread \ {u} : pc'[v] \in {"recycle", "ready"} => SlotOf(gen'[u]) # SlotOf(gen'[v])
    BY <1>1, <2>1, <2>2, <2>4 DEF RecycleInv
  <2> QED BY <2>2, <2>7, <2>8, <2>9 DEF RecycleInv
<1>14. ContentInv'
  BY <1>1, <1>2, <1>3, ContentFrame DEF SamePlaces, SameTurns
<1> QED
  BY <1>4, <1>5, <1>6, <1>7, <1>8, <1>9, <1>10, <1>11, <1>12, <1>13, <1>14
  DEF IInv

LEMMA DecRefKeeps ==
    ASSUME IInv, NEW t \in Flusher, refs[SlotOf(gen[t])] # 1, DecRef(t)
    PROVE  IInv'
<1>1. /\ TypeOK /\ RoleInv /\ LocksInv /\ SlotsInv /\ InsertsInv /\ CompactInv
      /\ TurnInv /\ RefsInv /\ ReadersInv /\ RecycleInv /\ ContentInv
  BY DEF IInv
<1>2. t \in Thread /\ t \notin Reader
  BY ThreadRoles, MemtableAssumption DEF Flusher, Thread
<1>3. /\ "continue" \in PC
      /\ Moves(t, "continue")
      /\ pc[t] = "dec_ref" /\ gen' = gen
      /\ gen[t] = generation_retired /\ state[SlotOf(gen[t])] = "INCORPORATED"
      /\ refs[SlotOf(gen[t])] = Cardinality(PinnedBy(SlotOf(gen[t]))) + 1
      /\ gen[t] \in Nat /\ SlotOf(gen[t]) \in Slot /\ mt_generation[SlotOf(gen[t])] = gen[t]
      /\ refs[SlotOf(gen[t])] \in Nat \ {0} /\ refs' \in [Slot -> Nat]
      /\ \A q \in Slot : refs'[q] = IF q = SlotOf(gen[t]) THEN refs[q] - 1 ELSE refs[q]
      /\ SamePlaces /\ SameTurns
      /\ UNCHANGED <<closing, full, pinned, is_empty, content, queue>>
      /\ UNCHANGED <<insert_lock, lookup_lock>>
  <2>1. gen[t] = generation_retired /\ InState(gen[t], "INCORPORATED")
    BY <1>1, <1>2 DEF DecRef, Goto, TurnInv, Incorporated
  <2>2. gen[t] \in Int /\ SlotOf(gen[t]) \in Slot
    BY <1>1, <1>2, SlotsTyped
  <2>3. gen[t] \in Nat
    BY <1>1, <2>1, <2>2 DEF InState, TypeOK
  <2>4. refs[SlotOf(gen[t])] = Cardinality(PinnedBy(SlotOf(gen[t]))) + 1
    BY <1>1, <1>2, <2>1, <2>2 DEF RefsInv, Dropped, InState, DecRef, Goto
  <2>5. refs[SlotOf(gen[t])] \in Nat \ {0}
    BY <2>4, PinnedFinite
  <2>6. refs' = [refs EXCEPT ![SlotOf(gen[t])] = @ - 1] /\ refs \in [Slot -> Nat]
    BY <1>1 DEF DecRef, TypeOK
  <2>7. refs' \in [Slot -> Nat]
    BY <2>2, <2>5, <2>6
  <2>8. \A q \in Slot : refs'[q] = IF q = SlotOf(gen[t]) THEN refs[q] - 1 ELSE refs[q]
    BY <2>2, <2>6
  <2> QED
    BY <1>1, <1>2, <2>1, <2>2, <2>3, <2>4, <2>5, <2>7, <2>8
    DEF DecRef, Goto, Moves, PC, TypeOK, SamePlaces, SameTurns, InState,
        AfterDecRef, ctxtVars, slotVars, dataVars, rootVars, lockVars,
        readVars, histVars
<1>4. TypeOK'
  BY <1>1, <1>2, <1>3
  DEF DecRef, Goto, Moves, TypeOK, PC, Insert!Modes, Lookup!Modes, ctxtVars,
      slotVars, dataVars, rootVars, lockVars, readVars, histVars
<1>5. RoleInv'
  BY <1>1, <1>2, <1>3, RoleFrame
  DEF RoleInv, PC, TaskPC, Turn, Compacting, Incorporating, Incorporated,
      CallPC, ReaderPC
<1>6. LocksInv'
  BY <1>1, <1>2, <1>3, LocksFrame DEF InsertMode, LookupMode
<1>7. SlotsInv'
  BY <1>1, <1>2, <1>3, SlotsFrame DEF SamePlaces, SameTurns
<1>8. InsertsInv'
  BY <1>1, <1>2, <1>3, InsertsFrame DEF SamePlaces, SameTurns
<1>9. CompactInv'
  BY <1>1, <1>2, <1>3, CompactFrame DEF SamePlaces, SameTurns
<1>10. TurnInv'
  <2>1. \A u \in Flusher : u # t => pc'[u] = pc[u] /\ gen'[u] = gen[u]
    BY <1>1, <1>3, ThreadRoles DEF Moves, TypeOK
  <2>2. pc'[t] = "continue" /\ gen'[t] = gen[t]
    BY <1>1, <1>2, <1>3 DEF Moves, TypeOK
  <2>3. pc[t] \in Turn
    BY <1>3 DEF Turn, Incorporating, Incorporated
  <2>4. \A u \in Flusher : u # t => pc[u] \notin Turn
    BY <1>1, <1>2, <2>3 DEF TurnInv
  <2>5. \A u \in Flusher : u # t => pc'[u] \notin Turn
    BY <2>1, <2>4
  <2> QED
    BY <1>1, <1>2, <1>3, <2>2, <2>5
    DEF TurnInv, Turn, Incorporating, Incorporated, SameTurns, SamePlaces,
        InState
<1>11. RefsInv'
  <2>1. \A u \in Thread : u # t => pc'[u] = pc[u] /\ gen'[u] = gen[u]
    BY <1>1, <1>3 DEF Moves, TypeOK
  <2>2. pc'[t] = "continue" /\ gen'[t] = gen[t]
    BY <1>1, <1>2, <1>3 DEF Moves, TypeOK
  <2>3. ASSUME NEW q \in Slot PROVE PinnedBy(q)' = PinnedBy(q)
    BY <1>2, <1>3, <2>1, ThreadRoles DEF PinnedBy, SamePlaces
  <2>4. \A u \in Flusher : u # t => pc[u] \notin {"switch", "unblock", "dec_ref"}
    BY <1>1, <1>2, <1>3 DEF TurnInv, Turn, Incorporated
  <2>5. \A u \in Flusher : pc'[u] \notin {"switch", "unblock", "dec_ref"}
    BY <2>1, <2>2, <2>4, ThreadRoles
  <2>6. ASSUME NEW q \in Slot
        PROVE  refs'[q] = Cardinality(PinnedBy(q)) + (IF Dropped(q)' THEN 0 ELSE 1)
    <3>1. CASE q = SlotOf(gen[t])
      <4>1. Dropped(q)'
        BY <1>1, <1>3, <2>5, <3>1 DEF Dropped, SamePlaces, SameTurns, TypeOK
      <4> QED BY <1>3, <3>1, <4>1, PinnedFinite
    <3>2. CASE q # SlotOf(gen[t])
      <4>1. mt_generation[q] # gen[t]
        BY <1>3, <3>2, <1>1 DEF SlotsInv
      <4>2. Dropped(q)' <=> Dropped(q)
        BY <1>2, <1>3, <2>4, <2>5, <4>1 DEF Dropped, SamePlaces, SameTurns
      <4> QED BY <1>1, <1>3, <3>2, <4>2 DEF RefsInv
    <3> QED BY <3>1, <3>2
  <2> QED BY <2>3, <2>6 DEF RefsInv
<1>12. ReadersInv'
  BY <1>1, <1>2, <1>3, ReadersFrame DEF SamePlaces, SameTurns
<1>13. RecycleInv'
  <2>1. \A u \in Thread : u # t => pc'[u] = pc[u] /\ gen'[u] = gen[u]
    BY <1>1, <1>3 DEF Moves, TypeOK
  <2>2. \A u \in Thread : gen[u] \in Int /\ SlotOf(gen[u]) \in Slot
    BY <1>1, SlotsTyped
  <2>3. pc'[t] \notin {"recycle", "ready"}
    BY <1>1, <1>2, <1>3 DEF Moves, TypeOK
  <2>4. \A u \in Thread : pc[u] = "recycle" => refs'[SlotOf(gen[u])] = 0
    BY <1>1, <1>3, <2>2 DEF RecycleInv
  <2> QED
    BY <1>1, <1>3, <2>1, <2>2, <2>3, <2>4
    DEF RecycleInv, InState, SamePlaces, SameTurns
<1>14. ContentInv'
  BY <1>1, <1>2, <1>3, ContentFrame DEF SamePlaces, SameTurns
<1> QED
  BY <1>4, <1>5, <1>6, <1>7, <1>8, <1>9, <1>10, <1>11, <1>12, <1>13, <1>14
  DEF IInv

LEMMA LastReaderDecRefKeeps ==
    ASSUME IInv, NEW t \in Reader, refs[SlotOf(gen[t])] = 1, DecRef(t)
    PROVE  IInv'
<1>1. /\ TypeOK /\ RoleInv /\ LocksInv /\ SlotsInv /\ InsertsInv /\ CompactInv
      /\ TurnInv /\ RefsInv /\ ReadersInv /\ RecycleInv /\ ContentInv
  BY DEF IInv
<1>2. t \in Thread /\ t \notin Flusher /\ t \notin Writer /\ t \notin Worker
  BY ThreadRoles, MemtableAssumption DEF Flusher, Thread
<1>3. /\ "recycle" \in PC
      /\ Moves(t, "recycle")
      /\ pc[t] = "dec_ref" /\ gen' = gen
      /\ gen[t] <= generation_retired /\ state[SlotOf(gen[t])] = "INCORPORATED"
      /\ t \in PinnedBy(SlotOf(gen[t])) /\ gen[t] \notin pinned[t]
      /\ gen[t] \in Nat /\ SlotOf(gen[t]) \in Slot /\ mt_generation[SlotOf(gen[t])] = gen[t]
      /\ refs[SlotOf(gen[t])] \in Nat \ {0} /\ refs' \in [Slot -> Nat]
      /\ \A q \in Slot : refs'[q] = IF q = SlotOf(gen[t]) THEN refs[q] - 1 ELSE refs[q]
      /\ SamePlaces /\ SameTurns
      /\ UNCHANGED <<closing, full, pinned, is_empty, content, queue>>
      /\ UNCHANGED <<insert_lock, lookup_lock>>
  <2>1. gen[t] \in Int /\ SlotOf(gen[t]) \in Slot
    BY <1>1, <1>2, SlotsTyped
  <2>2. gen[t] \in Nat /\ mt_generation[SlotOf(gen[t])] = gen[t] /\ gen[t] \notin pinned[t]
    BY <1>1, <1>2, <2>1 DEF DecRef, Goto, ReadersInv
  <2>3. t \in PinnedBy(SlotOf(gen[t]))
    BY <1>2, <2>2 DEF DecRef, Goto, PinnedBy
  <2>4. Cardinality(PinnedBy(SlotOf(gen[t]))) \in Nat \ {0}
    BY <2>3, PinnedFinite
  <2>5. refs[SlotOf(gen[t])] \in Nat \ {0}
    BY <1>1, <2>1, <2>4 DEF RefsInv
  <2>6. refs' = [refs EXCEPT ![SlotOf(gen[t])] = @ - 1] /\ refs \in [Slot -> Nat]
    BY <1>1 DEF DecRef, TypeOK
  <2>7. refs' \in [Slot -> Nat]
    BY <2>1, <2>5, <2>6
  <2>8. \A q \in Slot : refs'[q] = IF q = SlotOf(gen[t]) THEN refs[q] - 1 ELSE refs[q]
    BY <2>1, <2>6
  <2>9. ASSUME refs[SlotOf(gen[t])] = 1
        PROVE  state[SlotOf(gen[t])] = "INCORPORATED" /\ gen[t] <= generation_retired
    <3>1. Dropped(SlotOf(gen[t]))
      BY <1>1, <2>1, <2>4, <2>9 DEF RefsInv
    <3> QED BY <3>1, <2>2 DEF Dropped
  <2>10. pc[t] = "dec_ref" /\ gen' = gen /\ Moves(t, "recycle") /\ "recycle" \in PC
    BY <1>1, <1>2 DEF DecRef, Goto, Moves, PC, TypeOK, AfterDecRef
  <2> QED
    BY <1>1, <1>2, <2>1, <2>2, <2>3, <2>5, <2>7, <2>8, <2>9, <2>10
    DEF DecRef, SamePlaces, SameTurns, ctxtVars, slotVars, dataVars, rootVars,
        lockVars, readVars, histVars
<1>4. TypeOK'
  BY <1>1, <1>2, <1>3
  DEF DecRef, Goto, Moves, TypeOK, PC, Insert!Modes, Lookup!Modes, ctxtVars,
      slotVars, dataVars, rootVars, lockVars, readVars, histVars
<1>5. RoleInv'
  BY <1>1, <1>2, <1>3, RoleFrame
  DEF RoleInv, PC, TaskPC, Turn, Compacting, Incorporating, Incorporated,
      CallPC, ReaderPC
<1>6. LocksInv'
  BY <1>1, <1>2, <1>3, LocksFrame DEF InsertMode, LookupMode
<1>7. SlotsInv'
  BY <1>1, <1>2, <1>3, SlotsFrame DEF SamePlaces, SameTurns
<1>8. InsertsInv'
  BY <1>1, <1>2, <1>3, InsertsFrame DEF SamePlaces, SameTurns
<1>9. CompactInv'
  BY <1>1, <1>2, <1>3, CompactFrame DEF SamePlaces, SameTurns
<1>10. TurnInv'
  BY <1>1, <1>2, <1>3, TurnFrame
  DEF SamePlaces, SameTurns, Turn, Incorporating, Incorporated
<1>11. RefsInv'
  <2>1. \A u \in Thread : u # t => pc'[u] = pc[u] /\ gen'[u] = gen[u]
    BY <1>1, <1>3 DEF Moves, TypeOK
  <2>2. pc'[t] = "recycle" /\ gen'[t] = gen[t]
    BY <1>1, <1>2, <1>3 DEF Moves, TypeOK
  <2>3. ASSUME NEW q \in Slot, q # SlotOf(gen[t])
        PROVE  PinnedBy(q)' = PinnedBy(q)
    <3>1. mt_generation[q] # gen[t]
      BY <1>1, <1>3, <2>3 DEF SlotsInv
    <3> QED
      BY <1>2, <1>3, <2>1, <2>2, <3>1, ThreadRoles
      DEF PinnedBy, SamePlaces
  <2>0. PICK s \in Slot : s = SlotOf(gen[t])
    BY <1>3
  <2>4. PinnedBy(s)' = PinnedBy(s) \ {t}
    <3>1. mt_generation'[s] = gen[t] /\ gen[t] \notin pinned'[t] /\ mt_generation[s] = gen[t]
      BY <1>1, <1>3, <2>0 DEF SamePlaces, ReadersInv
    <3> QED BY <1>2, <1>3, <2>1, <2>2, <3>1, ThreadRoles DEF PinnedBy
  <2>5. Cardinality(PinnedBy(s) \ {t}) = Cardinality(PinnedBy(s)) - 1
    BY <1>3, <2>0, PinnedFinite, FS_RemoveElement
  <2>6. ASSUME NEW q \in Slot PROVE Dropped(q)' <=> Dropped(q)
    BY <1>2, <1>3, <2>1, ThreadRoles DEF Dropped, SamePlaces, SameTurns
  <2>7. ASSUME NEW q \in Slot
        PROVE  refs'[q] = Cardinality(PinnedBy(q)') + (IF Dropped(q) THEN 0 ELSE 1)
    <3>1. CASE q = s
      <4>1. refs'[q] = refs[s] - 1
        BY <1>3, <2>0, <3>1
      <4>2. refs[s] = Cardinality(PinnedBy(s)) + (IF Dropped(s) THEN 0 ELSE 1)
        BY <1>1 DEF RefsInv
      <4>3. Cardinality(PinnedBy(s)') = Cardinality(PinnedBy(s)) - 1
        BY <2>4, <2>5
      <4>4. Cardinality(PinnedBy(s)) \in Nat
        BY PinnedFinite
      <4>5. refs'[s] = Cardinality(PinnedBy(s)') + (IF Dropped(s) THEN 0 ELSE 1)
        BY <4>1, <4>2, <4>3, <4>4, <3>1
      <4> QED BY <4>5, <3>1
    <3>2. CASE q # s
      BY <1>1, <1>3, <2>0, <2>3, <3>2 DEF RefsInv
    <3> QED BY <3>1, <3>2
  <2> QED BY <2>6, <2>7 DEF RefsInv
<1>12. ReadersInv'
  <2>1. \A u \in Thread : u # t => pc'[u] = pc[u] /\ gen'[u] = gen[u]
    BY <1>1, <1>3 DEF Moves, TypeOK
  <2>2. pc'[t] = "recycle" /\ gen'[t] = gen[t]
    BY <1>1, <1>2, <1>3 DEF Moves, TypeOK
  <2>3. \A r \in Reader : r \in Thread
    BY ThreadRoles
  <2> QED BY <1>1, <1>3, <2>1, <2>2, <2>3 DEF ReadersInv, SamePlaces, SameTurns
<1>13. RecycleInv'
  <2>1. \A u \in Thread : u # t => pc'[u] = pc[u] /\ gen'[u] = gen[u]
    BY <1>1, <1>3 DEF Moves, TypeOK
  <2>2. pc'[t] = "recycle" /\ gen'[t] = gen[t]
    BY <1>1, <1>2, <1>3 DEF Moves, TypeOK
  <2>3. \A u \in Thread : gen[u] \in Int /\ SlotOf(gen[u]) \in Slot
    BY <1>1, SlotsTyped
  <2>4. ASSUME NEW u \in Thread, u # t, pc[u] \in {"recycle", "ready"}
        PROVE  SlotOf(gen[u]) # SlotOf(gen[t])
    <3>1. CASE pc[u] = "recycle"
      BY <1>1, <1>3, <3>1 DEF RecycleInv
    <3>2. CASE pc[u] = "ready"
      <4>1. generation_retired < generation /\ generation \in Int /\ generation_retired \in Int
        BY <1>1 DEF SlotsInv, TypeOK
      <4> QED BY <1>1, <1>3, <2>3, <3>2, <4>1 DEF RecycleInv
    <3> QED BY <2>4, <3>1, <3>2
  <2>5. refs'[SlotOf(gen[t])] = 0
    BY <1>3
  <2>6. \A u \in Thread : pc[u] = "recycle" => SlotOf(gen[u]) # SlotOf(gen[t])
    BY <1>1, <1>3 DEF RecycleInv
  <2>7. ASSUME NEW u \in Thread, u # t
        PROVE (/\ pc[u] = "recycle" =>
                  /\ gen[u] >= 0
                  /\ InState(gen[u], "INCORPORATED")
                  /\ gen[u] <= generation_retired
                  /\ refs[SlotOf(gen[u])] = 0
               /\ pc[u] = "ready" =>
                  /\ gen[u] >= 0
                  /\ mt_generation[SlotOf(gen[u])] = gen[u] + NumMemtables
                  /\ generation <= gen[u] + NumMemtables
                  /\ state[SlotOf(gen[u])] = "INCORPORATED")'
    BY <1>1, <1>3, <2>1, <2>3, <2>6, <2>7
    DEF RecycleInv, InState, SamePlaces, SameTurns
  <2>8. (/\ gen[t] >= 0
         /\ InState(gen[t], "INCORPORATED")
         /\ gen[t] <= generation_retired
         /\ refs[SlotOf(gen[t])] = 0)'
    BY <1>1, <1>3, <2>2, <2>5 DEF InState, SamePlaces, SameTurns, TypeOK
  <2>9. \A u \in Thread : pc'[u] \in {"recycle", "ready"} =>
              \A v \in Thread \ {u} : pc'[v] \in {"recycle", "ready"} => SlotOf(gen'[u]) # SlotOf(gen'[v])
    BY <1>1, <2>1, <2>2, <2>4 DEF RecycleInv
  <2> QED BY <2>2, <2>7, <2>8, <2>9 DEF RecycleInv
<1>14. ContentInv'
  BY <1>1, <1>2, <1>3, ContentFrame DEF SamePlaces, SameTurns
<1> QED
  BY <1>4, <1>5, <1>6, <1>7, <1>8, <1>9, <1>10, <1>11, <1>12, <1>13, <1>14
  DEF IInv

LEMMA ReaderDecRefKeeps ==
    ASSUME IInv, NEW t \in Reader, refs[SlotOf(gen[t])] # 1, DecRef(t)
    PROVE  IInv'
<1>1. /\ TypeOK /\ RoleInv /\ LocksInv /\ SlotsInv /\ InsertsInv /\ CompactInv
      /\ TurnInv /\ RefsInv /\ ReadersInv /\ RecycleInv /\ ContentInv
  BY DEF IInv
<1>2. t \in Thread /\ t \notin Flusher /\ t \notin Writer /\ t \notin Worker
  BY ThreadRoles, MemtableAssumption DEF Flusher, Thread
<1>3. /\ "drop" \in PC
      /\ Moves(t, "drop")
      /\ pc[t] = "dec_ref" /\ gen' = gen
      /\ t \in PinnedBy(SlotOf(gen[t])) /\ gen[t] \notin pinned[t]
      /\ gen[t] \in Nat /\ SlotOf(gen[t]) \in Slot /\ mt_generation[SlotOf(gen[t])] = gen[t]
      /\ refs[SlotOf(gen[t])] \in Nat \ {0} /\ refs' \in [Slot -> Nat]
      /\ \A q \in Slot : refs'[q] = IF q = SlotOf(gen[t]) THEN refs[q] - 1 ELSE refs[q]
      /\ SamePlaces /\ SameTurns
      /\ UNCHANGED <<closing, full, pinned, is_empty, content, queue>>
      /\ UNCHANGED <<insert_lock, lookup_lock>>
  <2>1. gen[t] \in Int /\ SlotOf(gen[t]) \in Slot
    BY <1>1, <1>2, SlotsTyped
  <2>2. gen[t] \in Nat /\ mt_generation[SlotOf(gen[t])] = gen[t] /\ gen[t] \notin pinned[t]
    BY <1>1, <1>2, <2>1 DEF DecRef, Goto, ReadersInv
  <2>3. t \in PinnedBy(SlotOf(gen[t]))
    BY <1>2, <2>2 DEF DecRef, Goto, PinnedBy
  <2>4. Cardinality(PinnedBy(SlotOf(gen[t]))) \in Nat \ {0}
    BY <2>3, PinnedFinite
  <2>5. refs[SlotOf(gen[t])] \in Nat \ {0}
    BY <1>1, <2>1, <2>4 DEF RefsInv
  <2>6. refs' = [refs EXCEPT ![SlotOf(gen[t])] = @ - 1] /\ refs \in [Slot -> Nat]
    BY <1>1 DEF DecRef, TypeOK
  <2>7. refs' \in [Slot -> Nat]
    BY <2>1, <2>5, <2>6
  <2>8. \A q \in Slot : refs'[q] = IF q = SlotOf(gen[t]) THEN refs[q] - 1 ELSE refs[q]
    BY <2>1, <2>6
  <2>9. ASSUME refs[SlotOf(gen[t])] = 1
        PROVE  state[SlotOf(gen[t])] = "INCORPORATED" /\ gen[t] <= generation_retired
    <3>1. Dropped(SlotOf(gen[t]))
      BY <1>1, <2>1, <2>4, <2>9 DEF RefsInv
    <3> QED BY <3>1, <2>2 DEF Dropped
  <2>10. pc[t] = "dec_ref" /\ gen' = gen /\ Moves(t, "drop") /\ "drop" \in PC
    BY <1>1, <1>2 DEF DecRef, Goto, Moves, PC, TypeOK, AfterDecRef
  <2> QED
    BY <1>1, <1>2, <2>1, <2>2, <2>3, <2>5, <2>7, <2>8, <2>9, <2>10
    DEF DecRef, SamePlaces, SameTurns, ctxtVars, slotVars, dataVars, rootVars,
        lockVars, readVars, histVars
<1>4. TypeOK'
  BY <1>1, <1>2, <1>3
  DEF DecRef, Goto, Moves, TypeOK, PC, Insert!Modes, Lookup!Modes, ctxtVars,
      slotVars, dataVars, rootVars, lockVars, readVars, histVars
<1>5. RoleInv'
  BY <1>1, <1>2, <1>3, RoleFrame
  DEF RoleInv, PC, TaskPC, Turn, Compacting, Incorporating, Incorporated,
      CallPC, ReaderPC
<1>6. LocksInv'
  BY <1>1, <1>2, <1>3, LocksFrame DEF InsertMode, LookupMode
<1>7. SlotsInv'
  BY <1>1, <1>2, <1>3, SlotsFrame DEF SamePlaces, SameTurns
<1>8. InsertsInv'
  BY <1>1, <1>2, <1>3, InsertsFrame DEF SamePlaces, SameTurns
<1>9. CompactInv'
  BY <1>1, <1>2, <1>3, CompactFrame DEF SamePlaces, SameTurns
<1>10. TurnInv'
  BY <1>1, <1>2, <1>3, TurnFrame
  DEF SamePlaces, SameTurns, Turn, Incorporating, Incorporated
<1>11. RefsInv'
  <2>1. \A u \in Thread : u # t => pc'[u] = pc[u] /\ gen'[u] = gen[u]
    BY <1>1, <1>3 DEF Moves, TypeOK
  <2>2. pc'[t] = "drop" /\ gen'[t] = gen[t]
    BY <1>1, <1>2, <1>3 DEF Moves, TypeOK
  <2>3. ASSUME NEW q \in Slot, q # SlotOf(gen[t])
        PROVE  PinnedBy(q)' = PinnedBy(q)
    <3>1. mt_generation[q] # gen[t]
      BY <1>1, <1>3, <2>3 DEF SlotsInv
    <3> QED
      BY <1>2, <1>3, <2>1, <2>2, <3>1, ThreadRoles
      DEF PinnedBy, SamePlaces
  <2>0. PICK s \in Slot : s = SlotOf(gen[t])
    BY <1>3
  <2>4. PinnedBy(s)' = PinnedBy(s) \ {t}
    <3>1. mt_generation'[s] = gen[t] /\ gen[t] \notin pinned'[t] /\ mt_generation[s] = gen[t]
      BY <1>1, <1>3, <2>0 DEF SamePlaces, ReadersInv
    <3> QED BY <1>2, <1>3, <2>1, <2>2, <3>1, ThreadRoles DEF PinnedBy
  <2>5. Cardinality(PinnedBy(s) \ {t}) = Cardinality(PinnedBy(s)) - 1
    BY <1>3, <2>0, PinnedFinite, FS_RemoveElement
  <2>6. ASSUME NEW q \in Slot PROVE Dropped(q)' <=> Dropped(q)
    BY <1>2, <1>3, <2>1, ThreadRoles DEF Dropped, SamePlaces, SameTurns
  <2>7. ASSUME NEW q \in Slot
        PROVE  refs'[q] = Cardinality(PinnedBy(q)') + (IF Dropped(q) THEN 0 ELSE 1)
    <3>1. CASE q = s
      <4>1. refs'[q] = refs[s] - 1
        BY <1>3, <2>0, <3>1
      <4>2. refs[s] = Cardinality(PinnedBy(s)) + (IF Dropped(s) THEN 0 ELSE 1)
        BY <1>1 DEF RefsInv
      <4>3. Cardinality(PinnedBy(s)') = Cardinality(PinnedBy(s)) - 1
        BY <2>4, <2>5
      <4>4. Cardinality(PinnedBy(s)) \in Nat
        BY PinnedFinite
      <4>5. refs'[s] = Cardinality(PinnedBy(s)') + (IF Dropped(s) THEN 0 ELSE 1)
        BY <4>1, <4>2, <4>3, <4>4, <3>1
      <4> QED BY <4>5, <3>1
    <3>2. CASE q # s
      BY <1>1, <1>3, <2>0, <2>3, <3>2 DEF RefsInv
    <3> QED BY <3>1, <3>2
  <2> QED BY <2>6, <2>7 DEF RefsInv
<1>12. ReadersInv'
  <2>1. \A u \in Thread : u # t => pc'[u] = pc[u] /\ gen'[u] = gen[u]
    BY <1>1, <1>3 DEF Moves, TypeOK
  <2>2. pc'[t] = "drop" /\ gen'[t] = gen[t]
    BY <1>1, <1>2, <1>3 DEF Moves, TypeOK
  <2>3. \A r \in Reader : r \in Thread
    BY ThreadRoles
  <2> QED BY <1>1, <1>3, <2>1, <2>2, <2>3 DEF ReadersInv, SamePlaces, SameTurns
<1>13. RecycleInv'
  <2>1. \A u \in Thread : u # t => pc'[u] = pc[u] /\ gen'[u] = gen[u]
    BY <1>1, <1>3 DEF Moves, TypeOK
  <2>2. \A u \in Thread : gen[u] \in Int /\ SlotOf(gen[u]) \in Slot
    BY <1>1, SlotsTyped
  <2>3. pc'[t] \notin {"recycle", "ready"}
    BY <1>1, <1>2, <1>3 DEF Moves, TypeOK
  <2>4. \A u \in Thread : pc[u] = "recycle" => refs'[SlotOf(gen[u])] = 0
    BY <1>1, <1>3, <2>2 DEF RecycleInv
  <2> QED
    BY <1>1, <1>3, <2>1, <2>2, <2>3, <2>4
    DEF RecycleInv, InState, SamePlaces, SameTurns
<1>14. ContentInv'
  BY <1>1, <1>2, <1>3, ContentFrame DEF SamePlaces, SameTurns
<1> QED
  BY <1>4, <1>5, <1>6, <1>7, <1>8, <1>9, <1>10, <1>11, <1>12, <1>13, <1>14
  DEF IInv

LEMMA RecycleKeeps ==
    ASSUME IInv, NEW t \in Thread, Recycle(t)
    PROVE  IInv'
<1>1. /\ TypeOK /\ RoleInv /\ LocksInv /\ SlotsInv /\ InsertsInv /\ CompactInv
      /\ TurnInv /\ RefsInv /\ ReadersInv /\ RecycleInv /\ ContentInv
  BY DEF IInv
<1>2. t \in Thread /\ (t \in Flusher \/ t \in Reader)
  BY ThreadRoles, MemtableAssumption DEF Flusher, Thread
<1>3. /\ "ready" \in PC
      /\ Moves(t, "ready")
      /\ pc[t] = "recycle" /\ gen' = gen
      /\ gen[t] \in Nat /\ SlotOf(gen[t]) \in Slot /\ gen[t] <= generation_retired
      /\ mt_generation[SlotOf(gen[t])] = gen[t] /\ state[SlotOf(gen[t])] = "INCORPORATED"
      /\ refs[SlotOf(gen[t])] = 0
      /\ PinnedBy(SlotOf(gen[t])) = {}
      /\ \A u \in Flusher : pc[u] \in {"switch", "unblock", "dec_ref"} => gen[u] # gen[t]
      /\ \A q \in Slot : mt_generation'[q] = IF q = SlotOf(gen[t]) THEN gen[t] + NumMemtables ELSE mt_generation[q]
      /\ \A q \in Slot : refs'[q] = IF q = SlotOf(gen[t]) THEN 1 ELSE refs[q]
      /\ \A q \in Slot : content'[q] = IF q = SlotOf(gen[t]) THEN <<>> ELSE content[q]
      /\ \A q \in Slot : full'[q] = IF q = SlotOf(gen[t]) THEN FALSE ELSE full[q]
      /\ state' = state /\ SameTurns
      /\ UNCHANGED <<closing, pinned, is_empty, queue>>
      /\ UNCHANGED <<insert_lock, lookup_lock>>
  <2>1. pc[t] = "recycle"
    BY DEF Recycle, Goto
  <2>2. gen[t] \in Int /\ SlotOf(gen[t]) \in Slot
    BY <1>1, <1>2, SlotsTyped
  <2>3. gen[t] \in Nat /\ InState(gen[t], "INCORPORATED") /\ gen[t] <= generation_retired /\ refs[SlotOf(gen[t])] = 0
    BY <1>1, <1>2, <2>1, <2>2 DEF RecycleInv
  <2>4. Dropped(SlotOf(gen[t])) /\ PinnedBy(SlotOf(gen[t])) = {}
    BY <1>1, <2>2, <2>3, PinnedFinite DEF RefsInv
  <2>5. NumMemtables \in Nat
    BY MemtableAssumption
  <2>6. mt_generation' = [mt_generation EXCEPT ![SlotOf(gen[t])] = @ + NumMemtables]
    BY DEF Recycle
  <2>7. \A q \in Slot : mt_generation'[q] = IF q = SlotOf(gen[t]) THEN gen[t] + NumMemtables ELSE mt_generation[q]
    BY <1>1, <2>2, <2>3, <2>6 DEF TypeOK, InState
  <2>8. /\ \A q \in Slot : refs'[q] = IF q = SlotOf(gen[t]) THEN 1 ELSE refs[q]
        /\ \A q \in Slot : content'[q] = IF q = SlotOf(gen[t]) THEN <<>> ELSE content[q]
        /\ \A q \in Slot : full'[q] = IF q = SlotOf(gen[t]) THEN FALSE ELSE full[q]
    BY <1>1, <2>2 DEF Recycle, TypeOK
  <2> QED
    BY <1>1, <1>2, <2>1, <2>2, <2>3, <2>4, <2>7, <2>8
    DEF Recycle, Goto, Moves, PC, TypeOK, SameTurns, InState, Dropped,
        ctxtVars, slotVars, dataVars, rootVars, lockVars, readVars, histVars
<1>4. TypeOK'
  <2>1. gen[t] + NumMemtables \in Nat /\ <<>> \in Seq(Message)
    BY <1>3, MemtableAssumption
  <2>2. /\ mt_generation' \in [Slot -> Nat] /\ refs' \in [Slot -> Nat]
        /\ content' \in [Slot -> Seq(Message)] /\ full' \in [Slot -> BOOLEAN]
    <3>1. mt_generation[SlotOf(gen[t])] + NumMemtables \in Nat
      BY <1>3, <2>1
    <3> QED BY <1>1, <1>3, <2>1, <3>1 DEF Recycle, TypeOK
  <2> QED
    BY <1>1, <1>2, <1>3, <2>2
    DEF Recycle, Goto, TypeOK, PC, Insert!Modes, Lookup!Modes, ctxtVars,
        rootVars, lockVars, readVars, histVars
<1>5. RoleInv'
  BY <1>1, <1>2, <1>3, RoleFrame
  DEF RoleInv, PC, TaskPC, Turn, Compacting, Incorporating, Incorporated,
      CallPC, ReaderPC
<1>6. LocksInv'
  BY <1>1, <1>2, <1>3, LocksFrame DEF InsertMode, LookupMode
<1>7. SlotsInv'
  <2>1. \A q \in Slot : mt_generation[q] \in Int
    BY <1>1 DEF TypeOK
  <2>2. generation \in Int /\ generation_retired \in Int /\ NumMemtables \in Int /\ NumMemtables > 0
    BY <1>1, MemtableAssumption DEF TypeOK
  <2>3. SlotOf(gen[t] + NumMemtables) = SlotOf(gen[t])
    BY <1>3, SlotShift
  <2>4. generation - NumMemtables <= gen[t]
    BY <1>1, <1>3 DEF SlotsInv
  <2>5. ~closing' => Ready(generation)'
    BY <1>1, <1>3 DEF SlotsInv, Ready, SameTurns
  <2>6. ASSUME NEW q \in Slot
        PROVE (/\ SlotOf(mt_generation[q]) = q
               /\ generation - NumMemtables <= mt_generation[q]
               /\ mt_generation[q] <= generation_retired + NumMemtables
               /\ state[q] = "READY" => mt_generation[q] >= generation
               /\ state[q] \in Behind => /\ generation_retired < mt_generation[q]
                                         /\ mt_generation[q] < generation
               /\ state[q] = "INCORPORATED" => \/ mt_generation[q] <= generation_retired
                                               \/ mt_generation[q] >= generation)'
    <3>1. CASE q = SlotOf(gen[t])
      BY <1>3, <2>2, <2>3, <2>4, <3>1 DEF Behind, SameTurns
    <3>2. CASE q # SlotOf(gen[t])
      BY <1>1, <1>3, <3>2 DEF SlotsInv, SameTurns
    <3> QED BY <3>1, <3>2
  <2> QED BY <1>1, <1>3, <2>5, <2>6 DEF SlotsInv, SameTurns
<1>8. InsertsInv'
  <2>1. \A w \in Writer : w \in Thread /\ pc[w] \in {"lock", "drain", "rotate"} => ~closing
    BY <1>1, ThreadRoles
    DEF RoleInv, TaskPC, Turn, Compacting, Incorporating, Incorporated
  <2>2. ~closing => SlotOf(generation) # SlotOf(gen[t])
    BY <1>1, <1>3 DEF SlotsInv, Ready
  <2>3. \A u \in Thread : pc'[u] = IF u = t THEN "ready" ELSE pc[u]
    BY <1>1, <1>3 DEF Moves, TypeOK
  <2>4. \A w \in Writer : w \in Thread
    BY ThreadRoles
  <2>5. SlotOf(generation) \in Slot
    BY <1>1, SlotsTyped
  <2> QED
    BY <1>1, <1>3, <2>1, <2>2, <2>3, <2>4, <2>5
    DEF InsertsInv, SameTurns, Ready
<1>9. CompactInv'
  <2>1. \A g : SlotOf(g) \in Slot /\ InState(g, "FINALIZED") => InState(g, "FINALIZED")'
    BY <1>3 DEF InState
  <2>2. \A g : SlotOf(g) \in Slot /\ InState(g, "COMPACTING") => InState(g, "COMPACTING")'
    BY <1>3 DEF InState
  <2>3. \A u \in Thread : pc'[u] = IF u = t THEN "ready" ELSE pc[u]
    BY <1>1, <1>3 DEF Moves, TypeOK
  <2>4. \A u \in Flusher : u \in Thread /\ SlotOf(gen[u]) \in Slot
    BY <1>1, SlotsTyped, ThreadRoles
  <2>5. \A i \in DOMAIN queue : SlotOf(queue[i]) \in Slot
    BY <1>1, SlotsTyped
  <2>6. \A u \in Flusher :
          /\ (pc[u] \in {"process", "compact"} => gen[u] >= 0 /\ InState(gen[u], "FINALIZED"))'
          /\ (pc[u] = "pack" => gen[u] >= 0 /\ InState(gen[u], "COMPACTING"))'
    BY <1>1, <1>3, <2>3, <2>4 DEF CompactInv, InState
  <2>7. \A i \in DOMAIN queue : InState(queue[i], "FINALIZED")'
    BY <1>1, <1>3, <2>5 DEF CompactInv, InState
  <2> QED
    BY <1>1, <1>3, <2>3, <2>4, <2>6, <2>7
    DEF CompactInv, Compacting, InState
<1>10. TurnInv'
  <2>1. \A u \in Thread : pc'[u] = IF u = t THEN "ready" ELSE pc[u]
    BY <1>1, <1>3 DEF Moves, TypeOK
  <2>2. \A u \in Flusher : u \in Thread /\ SlotOf(gen[u]) \in Slot
    BY <1>1, SlotsTyped, ThreadRoles
  <2>3. \A u \in Flusher : pc[u] \in Incorporating => InState(gen[u], "INCORPORATION_ASSIGNED")'
    BY <1>1, <1>3, <2>2 DEF TurnInv, InState
  <2>4. \A u \in Flusher : pc[u] \in {"switch", "unblock", "dec_ref"} => InState(gen[u], "INCORPORATED")'
    BY <1>1, <1>3, <2>2 DEF TurnInv, InState
  <2>5. "recycle" \in Incorporated /\ "ready" \in Incorporated /\ "ready" \notin Incorporating
    BY DEF Incorporated, Incorporating
  <2>6. \A u \in Flusher : (pc'[u] \in Turn <=> pc[u] \in Turn) /\ (pc'[u] \in Incorporating => pc[u] \in Incorporating)
                            /\ (pc'[u] \in Incorporated => pc[u] \in Incorporated)
    BY <1>3, <2>1, <2>2, <2>5 DEF Turn
  <2>7. \A u \in Flusher : pc'[u] \in {"switch", "unblock", "dec_ref"} => pc[u] \in {"switch", "unblock", "dec_ref"}
    BY <2>1, <2>2
  <2>8. \A u \in Flusher : (pc[u] \in Turn =>
              /\ gen[u] = generation_to_incorporate
              /\ \A v \in Flusher \ {u} : pc[v] \notin Turn)'
    BY <1>1, <1>3, <2>6 DEF TurnInv, SameTurns
  <2> QED BY <1>1, <1>3, <2>3, <2>4, <2>6, <2>7, <2>8 DEF TurnInv, SameTurns
<1>11. RefsInv'
  <2>1. \A u \in Thread : pc'[u] = IF u = t THEN "ready" ELSE pc[u]
    BY <1>1, <1>3 DEF Moves, TypeOK
  <2>2. \A u \in Flusher : u \in Thread
    BY ThreadRoles
  <2>3. \A r \in Reader : r \in Thread
    BY ThreadRoles
  <2>4. PICK s \in Slot : s = SlotOf(gen[t])
    BY <1>3
  <2>5. ASSUME NEW q \in Slot, q # s
        PROVE  refs'[q] = Cardinality(PinnedBy(q)') + (IF Dropped(q)' THEN 0 ELSE 1)
    <3>1. PinnedBy(q)' = PinnedBy(q)
      BY <1>3, <2>1, <2>3, <2>4, <2>5 DEF PinnedBy
    <3>2. Dropped(q)' <=> Dropped(q)
      BY <1>3, <2>1, <2>2, <2>4, <2>5 DEF Dropped, SameTurns
    <3> QED BY <1>1, <1>3, <2>4, <2>5, <3>1, <3>2 DEF RefsInv
  <2>6. refs'[s] = Cardinality(PinnedBy(s)') + (IF Dropped(s)' THEN 0 ELSE 1)
    <3>1. mt_generation'[s] = gen[t] + NumMemtables /\ refs'[s] = 1 /\ mt_generation[s] = gen[t]
      BY <1>3, <2>4
    <3>2. SlotOf(gen[t] + NumMemtables) = s /\ gen[t] + NumMemtables # gen[t] /\ gen[t] + NumMemtables > generation_retired
      <4>1. generation \in Int /\ generation_retired \in Int /\ NumMemtables \in Int /\ NumMemtables > 0
        BY <1>1, MemtableAssumption DEF TypeOK
      <4>2. generation - NumMemtables <= gen[t] /\ generation_retired < generation
        BY <1>1, <1>3 DEF SlotsInv
      <4>3. gen[t] \in Int
        BY <1>3
      <4>4. SlotOf(gen[t] + NumMemtables) = s
        BY <2>4, <4>3, SlotShift
      <4> QED BY <4>1, <4>2, <4>3, <4>4
    <3>3. ~Dropped(s)'
      <4>1. generation_retired \in Int /\ gen[t] + NumMemtables \in Int
        BY <1>1, <1>3, MemtableAssumption DEF TypeOK
      <4> QED BY <1>3, <3>1, <3>2, <4>1 DEF Dropped, SameTurns
    <3>4. \A r \in Reader : gen[t] + NumMemtables \notin pinned[r]
      BY <1>1, <3>1, <3>2 DEF ReadersInv
    <3>5. \A r \in Reader : pc[r] = "dec_ref" => gen[r] # gen[t] + NumMemtables
      BY <1>1, <3>1, <3>2 DEF ReadersInv
    <3>6. PinnedBy(s)' = {}
      BY <1>3, <2>1, <2>3, <3>1, <3>4, <3>5 DEF PinnedBy
    <3> QED BY <3>1, <3>3, <3>6, FS_EmptySet
  <2> QED BY <2>5, <2>6 DEF RefsInv
<1>12. ReadersInv'
  <2>1. \A u \in Thread : pc'[u] = IF u = t THEN "ready" ELSE pc[u]
    BY <1>1, <1>3 DEF Moves, TypeOK
  <2>2. \A r \in Reader : r \in Thread
    BY ThreadRoles
  <2>3. \A r \in Reader : pinned[r] \subseteq Nat
    BY <1>1 DEF TypeOK
  <2>4. \A r \in Reader : gen[t] \notin pinned[r] /\ (pc[r] = "dec_ref" => gen[r] # gen[t])
    BY <1>3 DEF PinnedBy
  <2>5. ASSUME NEW r \in Reader, NEW g \in pinned[r]
        PROVE  mt_generation'[SlotOf(g)] = g
    <3>1. mt_generation[SlotOf(g)] = g /\ g # gen[t] /\ g \in Int
      BY <1>1, <2>3, <2>4, <2>5 DEF ReadersInv
    <3>2. SlotOf(g) \in Slot
      BY <3>1, SlotType
    <3> QED BY <1>3, <3>1, <3>2
  <2>6. ASSUME NEW r \in Reader, pc[r] = "dec_ref"
        PROVE  mt_generation'[SlotOf(gen[r])] = gen[r]
    <3>1. mt_generation[SlotOf(gen[r])] = gen[r] /\ gen[r] # gen[t] /\ SlotOf(gen[r]) \in Slot
      BY <1>1, <2>2, <2>4, <2>6, SlotsTyped DEF ReadersInv
    <3> QED BY <1>3, <3>1
  <2> QED BY <1>1, <1>3, <2>1, <2>2, <2>5, <2>6 DEF ReadersInv, SameTurns
<1>13. RecycleInv'
  <2>1. \A u \in Thread : pc'[u] = IF u = t THEN "ready" ELSE pc[u]
    BY <1>1, <1>3 DEF Moves, TypeOK
  <2>2. \A u \in Thread : gen[u] \in Int /\ SlotOf(gen[u]) \in Slot
    BY <1>1, SlotsTyped
  <2>3. \A u \in Thread : u # t /\ pc[u] \in {"recycle", "ready"} => SlotOf(gen[u]) # SlotOf(gen[t])
    BY <1>1, <1>3 DEF RecycleInv
  <2>4. generation <= gen[t] + NumMemtables
    <3>1. generation - NumMemtables <= gen[t]
      BY <1>1, <1>3 DEF SlotsInv
    <3> QED BY <1>1, <1>3, <3>1, MemtableAssumption DEF TypeOK
  <2> QED
    BY <1>1, <1>3, <2>1, <2>2, <2>3, <2>4
    DEF RecycleInv, InState, SameTurns
<1>14. ContentInv'
  <2>1. ~closing => SlotOf(generation) # SlotOf(gen[t])
    BY <1>1, <1>3 DEF SlotsInv, Ready
  <2>2. SlotOf(generation) \in Slot
    BY <1>1, SlotsTyped
  <2> QED BY <1>1, <1>3, <2>1, <2>2 DEF ContentInv, SameTurns
<1> QED
  BY <1>4, <1>5, <1>6, <1>7, <1>8, <1>9, <1>10, <1>11, <1>12, <1>13, <1>14
  DEF IInv

LEMMA MakeReadyKeeps ==
    ASSUME IInv, NEW t \in Thread, MakeReady(t)
    PROVE  IInv'
<1>1. /\ TypeOK /\ RoleInv /\ LocksInv /\ SlotsInv /\ InsertsInv /\ CompactInv
      /\ TurnInv /\ RefsInv /\ ReadersInv /\ RecycleInv /\ ContentInv
  BY DEF IInv
<1>2. t \in Thread /\ (t \in Flusher \/ t \in Reader)
  BY ThreadRoles, MemtableAssumption DEF Flusher, Thread
<1>3. /\ AfterDecRef(t) \in PC
      /\ Moves(t, AfterDecRef(t))
      /\ AfterDecRef(t) = IF t \in Reader THEN "drop" ELSE "continue"
      /\ pc[t] = "ready" /\ gen' = gen
      /\ gen[t] \in Nat /\ SlotOf(gen[t]) \in Slot
      /\ mt_generation[SlotOf(gen[t])] >= generation /\ state[SlotOf(gen[t])] = "INCORPORATED"
      /\ \A q \in Slot : state'[q] = IF q = SlotOf(gen[t]) THEN "READY" ELSE state[q]
      /\ mt_generation' = mt_generation /\ SameTurns
      /\ UNCHANGED <<closing, full, refs, pinned, is_empty,
                     content>> /\ queue' = queue
      /\ UNCHANGED <<insert_lock, lookup_lock>>
  <2>1. pc[t] = "ready" /\ gen' = gen
    BY DEF MakeReady, Goto
  <2>2. gen[t] \in Int /\ SlotOf(gen[t]) \in Slot
    BY <1>1, <1>2, SlotsTyped
  <2>3. gen[t] \in Nat /\ state[SlotOf(gen[t])] = "INCORPORATED" /\ mt_generation[SlotOf(gen[t])] >= generation
    BY <1>1, <1>2, <2>1, <2>2 DEF RecycleInv
  <2> QED
    BY <1>1, <1>2, <2>1, <2>2, <2>3
    DEF MakeReady, AfterDecRef, Goto, Transition, Moves, PC, TypeOK, SameTurns,
        ctxtVars, slotVars, dataVars, rootVars, lockVars, readVars, histVars
<1>4. TypeOK'
  <2>1. state' \in [Slot -> States]
    BY <1>1, <1>3 DEF MakeReady, Transition, TypeOK, States
  <2> QED
    BY <1>1, <1>2, <1>3, <2>1
    DEF MakeReady, Goto, AfterDecRef, TypeOK, PC, Insert!Modes, Lookup!Modes,
        ctxtVars, slotVars, dataVars, rootVars, lockVars, readVars, histVars
<1>5. RoleInv'
  BY <1>1, <1>2, <1>3, RoleFrame, MemtableAssumption
  DEF RoleInv, Flusher, PC, TaskPC, Turn, Compacting, Incorporating,
      Incorporated, CallPC, ReaderPC
<1>6. LocksInv'
  BY <1>1, <1>2, <1>3, LocksFrame DEF InsertMode, LookupMode
<1>7. SlotsInv'
  <2>1. \A q \in Slot : mt_generation[q] \in Int
    BY <1>1 DEF TypeOK
  <2>2. ~closing' => Ready(generation)'
    BY <1>1, <1>3, SlotsTyped DEF SlotsInv, Ready, SameTurns
  <2> QED BY <1>1, <1>3, <2>1, <2>2 DEF SlotsInv, Behind, SameTurns
<1>8. InsertsInv'
  BY <1>1, <1>2, <1>3, InsertsFrame DEF SamePlaces, SameTurns
<1>9. CompactInv'
  BY <1>1, <1>2, <1>3, CompactFrame DEF SamePlaces, SameTurns
<1>10. TurnInv'
  <2>1. \A u \in Thread : pc'[u] = IF u = t THEN AfterDecRef(t) ELSE pc[u]
    BY <1>1, <1>3 DEF Moves, TypeOK
  <2>2. \A u \in Flusher : u \in Thread /\ SlotOf(gen[u]) \in Slot /\ u \notin Reader
    BY <1>1, SlotsTyped, ThreadRoles
  <2>3. \A u \in Flusher : pc[u] \in Incorporating => InState(gen[u], "INCORPORATION_ASSIGNED")'
    BY <1>1, <1>3, <2>2 DEF TurnInv, InState
  <2>4. \A u \in Flusher : pc[u] \in {"switch", "unblock", "dec_ref"} => InState(gen[u], "INCORPORATED")'
    <3>1. generation_retired < generation /\ generation \in Int /\ generation_retired \in Int
      BY <1>1 DEF SlotsInv, TypeOK
    <3>2. \A u \in Flusher : pc[u] \in {"switch", "unblock", "dec_ref"} => InState(gen[u], "INCORPORATED") /\ gen[u] = generation_retired
      BY <1>1 DEF TurnInv, Incorporated
    <3>3. \A u \in Flusher : pc[u] \in {"switch", "unblock", "dec_ref"} => SlotOf(gen[u]) # SlotOf(gen[t])
      BY <1>3, <3>1, <3>2 DEF InState
    <3> QED BY <1>3, <2>2, <3>2, <3>3 DEF InState
  <2>5. "ready" \in Incorporated /\ "continue" \in Incorporated /\ "continue" \notin Incorporating
    BY DEF Incorporated, Incorporating
  <2>6. \A u \in Flusher : (pc'[u] \in Turn <=> pc[u] \in Turn) /\ (pc'[u] \in Incorporating => pc[u] \in Incorporating)
                            /\ (pc'[u] \in Incorporated => pc[u] \in Incorporated)
    BY <1>3, <2>1, <2>2, <2>5 DEF Turn
  <2>7. \A u \in Flusher : pc'[u] \in {"switch", "unblock", "dec_ref"} => pc[u] \in {"switch", "unblock", "dec_ref"}
    BY <1>3, <2>1, <2>2
  <2>8. \A u \in Flusher : (pc[u] \in Turn =>
              /\ gen[u] = generation_to_incorporate
              /\ \A v \in Flusher \ {u} : pc[v] \notin Turn)'
    BY <1>1, <1>3, <2>6 DEF TurnInv, SameTurns
  <2> QED BY <1>1, <1>3, <2>3, <2>4, <2>6, <2>7, <2>8 DEF TurnInv, SameTurns
<1>11. RefsInv'
  <2>1. \A u \in Thread : pc'[u] = IF u = t THEN AfterDecRef(t) ELSE pc[u]
    BY <1>1, <1>3 DEF Moves, TypeOK
  <2>2. \A u \in Flusher : u \in Thread
    BY ThreadRoles
  <2>3. \A r \in Reader : r \in Thread
    BY ThreadRoles
  <2>4. generation_retired < generation /\ generation \in Int /\ generation_retired \in Int
    BY <1>1 DEF SlotsInv, TypeOK
  <2>5. \A q \in Slot : mt_generation[q] \in Int
    BY <1>1 DEF TypeOK
  <2>6. ASSUME NEW q \in Slot PROVE PinnedBy(q)' = PinnedBy(q)
    BY <1>3, <2>1, <2>3 DEF PinnedBy
  <2>7. ASSUME NEW q \in Slot PROVE Dropped(q)' <=> Dropped(q)
    <3>1. CASE q = SlotOf(gen[t])
      BY <1>3, <2>4, <2>5, <3>1 DEF Dropped, SameTurns
    <3>2. CASE q # SlotOf(gen[t])
      BY <1>3, <2>1, <2>2, <3>2 DEF Dropped, SameTurns
    <3> QED BY <3>1, <3>2
  <2> QED BY <1>1, <1>3, <2>6, <2>7 DEF RefsInv
<1>12. ReadersInv'
  <2>1. \A u \in Thread : pc'[u] = IF u = t THEN AfterDecRef(t) ELSE pc[u]
    BY <1>1, <1>3 DEF Moves, TypeOK
  <2>2. \A r \in Reader : r \in Thread
    BY ThreadRoles
  <2> QED BY <1>1, <1>3, <2>1, <2>2 DEF ReadersInv, SameTurns
<1>13. RecycleInv'
  <2>1. \A u \in Thread : pc'[u] = IF u = t THEN AfterDecRef(t) ELSE pc[u]
    BY <1>1, <1>3 DEF Moves, TypeOK
  <2>2. \A u \in Thread : gen[u] \in Int /\ SlotOf(gen[u]) \in Slot
    BY <1>1, SlotsTyped
  <2>3. \A u \in Thread : u # t /\ pc[u] \in {"recycle", "ready"} => SlotOf(gen[u]) # SlotOf(gen[t])
    BY <1>1, <1>3 DEF RecycleInv
  <2>4. pc'[t] \notin {"recycle", "ready"}
    BY <1>2, <1>3, <2>1
  <2> QED
    BY <1>1, <1>3, <2>1, <2>2, <2>3, <2>4
    DEF RecycleInv, InState, SameTurns
<1>14. ContentInv'
  BY <1>1, <1>2, <1>3, ContentFrame DEF SamePlaces, SameTurns
<1> QED
  BY <1>4, <1>5, <1>6, <1>7, <1>8, <1>9, <1>10, <1>11, <1>12, <1>13, <1>14
  DEF IInv

LEMMA TryContinueKeeps ==
    ASSUME IInv, NEW t \in Flusher, mt_generation[SlotOf(gen[t] + 1)] = gen[t] + 1,
           state[SlotOf(gen[t] + 1)] = "COMPACTED", TryContinue(t)
    PROVE  IInv'
<1>1. /\ TypeOK /\ RoleInv /\ LocksInv /\ SlotsInv /\ InsertsInv /\ CompactInv
      /\ TurnInv /\ RefsInv /\ ReadersInv /\ RecycleInv /\ ContentInv
  BY DEF IInv
<1>2. t \in Thread /\ t \notin Reader
  BY ThreadRoles, MemtableAssumption DEF Flusher, Thread
<1>3. /\ "claim_root" \in PC
      /\ Moves(t, "claim_root")
      /\ pc[t] = "continue" /\ gen' = [gen EXCEPT ![t] = gen[t] + 1]
      /\ gen[t] = generation_retired /\ gen[t] = generation_to_incorporate /\ gen[t] + 1 \in Nat
      /\ generation_to_incorporate' = gen[t] + 1 /\ UNCHANGED <<generation,
                                                                generation_retired>>
      /\ SlotOf(gen[t] + 1) \in Slot /\ mt_generation[SlotOf(gen[t] + 1)] = gen[t] + 1 /\ state[SlotOf(gen[t] + 1)] = "COMPACTED"
      /\ \A q \in Slot : state'[q] = IF q = SlotOf(gen[t] + 1) THEN "INCORPORATION_ASSIGNED" ELSE state[q]
      /\ mt_generation' = mt_generation
      /\ UNCHANGED <<closing, full, refs, pinned, is_empty,
                     content>> /\ queue' = queue
      /\ UNCHANGED <<insert_lock, lookup_lock>>
  <2>1. gen[t] = generation_retired /\ gen[t] = generation_to_incorporate
    BY <1>1, <1>2 DEF TryContinue, Goto, TurnInv, Turn, Incorporated
  <2>2. gen[t] \in Int /\ generation_retired + 1 \in Nat /\ generation_retired + 1 \in Int
    BY <1>1, <1>2, SlotsTyped DEF TypeOK
  <2>3. SlotOf(gen[t] + 1) \in Slot
    BY <2>1, <2>2, SlotType
  <2> QED
    BY <1>1, <1>2, <2>1, <2>2, <2>3
    DEF TryContinue, Goto, Transition, Moves, PC, TypeOK, SameTurns, ctxtVars,
        slotVars, dataVars, rootVars, lockVars, readVars, histVars
<1>4. TypeOK'
  <2>1. state' \in [Slot -> States]
    BY <1>1, <1>3 DEF TryContinue, Transition, TypeOK, States
  <2> QED
    BY <1>1, <1>2, <1>3, <2>1
    DEF TryContinue, Goto, TypeOK, PC, Insert!Modes, Lookup!Modes, ctxtVars,
        slotVars, dataVars, rootVars, lockVars, readVars, histVars
<1>5. RoleInv'
  BY <1>1, <1>2, <1>3, RoleFrame
  DEF RoleInv, PC, TaskPC, Turn, Compacting, Incorporating, Incorporated,
      CallPC, ReaderPC
<1>6. LocksInv'
  BY <1>1, <1>2, <1>3, LocksFrame DEF InsertMode, LookupMode
<1>7. SlotsInv'
  <2>1. \A q \in Slot : state[q] = "READY" <=> state'[q] = "READY"
    BY <1>3
  <2>2. \A q \in Slot : state[q] = "INCORPORATED" <=> state'[q] = "INCORPORATED"
    BY <1>3
  <2>3. \A q \in Slot : state[q] \in Behind <=> state'[q] \in Behind
    BY <1>3 DEF Behind
  <2> QED BY <1>1, <1>3, <2>1, <2>2, <2>3, SlotsTyped DEF SlotsInv, Ready
<1>8. InsertsInv'
  BY <1>1, <1>2, <1>3, InsertsFrame DEF SamePlaces, SameTurns
<1>9. CompactInv'
  BY <1>1, <1>2, <1>3, CompactFrame DEF SamePlaces, SameTurns
<1>10. TurnInv'
  <2>1. \A u \in Flusher : u # t => pc'[u] = pc[u]
    BY <1>1, <1>3, ThreadRoles DEF Moves, TypeOK
  <2>2. pc'[t] = "claim_root" /\ gen'[t] = gen[t] + 1
    BY <1>1, <1>2, <1>3 DEF Moves, TypeOK
  <2>3. pc[t] \in Turn
    BY <1>3 DEF Turn, Incorporated
  <2>4. \A u \in Flusher : u # t => pc'[u] \notin Turn
    BY <1>1, <1>2, <2>1, <2>3 DEF TurnInv
  <2> QED
    BY <1>2, <1>3, <2>2, <2>4
    DEF TurnInv, Turn, Incorporating, Incorporated, InState
<1>11. RefsInv'
  BY <1>1, <1>2, <1>3, RefsFrame DEF SamePlaces, SameTurns
<1>12. ReadersInv'
  BY <1>1, <1>2, <1>3, ReadersFrame DEF SamePlaces, SameTurns
<1>13. RecycleInv'
  BY <1>1, <1>2, <1>3, RecycleFrame DEF SamePlaces, SameTurns
<1>14. ContentInv'
  BY <1>1, <1>2, <1>3, ContentFrame DEF SamePlaces, SameTurns
<1> QED
  BY <1>4, <1>5, <1>6, <1>7, <1>8, <1>9, <1>10, <1>11, <1>12, <1>13, <1>14
  DEF IInv

LEMMA TryContinueLostKeeps ==
    ASSUME IInv, NEW t \in Flusher, mt_generation[SlotOf(gen[t] + 1)] # gen[t] + 1 \/ state[SlotOf(gen[t] + 1)] # "COMPACTED", TryContinue(t)
    PROVE  IInv'
<1>1. /\ TypeOK /\ RoleInv /\ LocksInv /\ SlotsInv /\ InsertsInv /\ CompactInv
      /\ TurnInv /\ RefsInv /\ ReadersInv /\ RecycleInv /\ ContentInv
  BY DEF IInv
<1>2. t \in Thread /\ t \notin Reader
  BY ThreadRoles, MemtableAssumption DEF Flusher, Thread
<1>3. /\ AfterTask(t) \in PC
      /\ Moves(t, AfterTask(t))
      /\ AfterTask(t) \in {"idle", "quiesce", "retry"}
      /\ pc[t] = "continue" /\ gen' = [gen EXCEPT ![t] = 0]
      /\ gen[t] = generation_retired /\ gen[t] = generation_to_incorporate
      /\ generation_to_incorporate' \in {generation_retired, generation_retired + 1}
      /\ UNCHANGED <<generation, generation_retired>> /\ SamePlaces
      /\ UNCHANGED <<closing, full, refs, pinned, is_empty,
                     content>> /\ queue' = queue
      /\ UNCHANGED <<insert_lock, lookup_lock>>
  <2>1. gen[t] = generation_retired /\ gen[t] = generation_to_incorporate
    BY <1>1, <1>2 DEF TryContinue, Goto, TurnInv, Turn, Incorporated
  <2>2. gen[t] \in Int /\ generation_retired + 1 \in Nat /\ generation_retired + 1 \in Int
    BY <1>1, <1>2, SlotsTyped DEF TypeOK
  <2>3. SlotOf(gen[t] + 1) \in Slot
    BY <2>1, <2>2, SlotType
  <2>4. (IF mt_generation[SlotOf(gen[t] + 1)] = gen[t] + 1 THEN 1 ELSE 0) \in {0, 1}
    OBVIOUS
  <2> QED
    BY <1>1, <1>2, <2>1, <2>2, <2>3, <2>4
    DEF TryContinue, Goto, TaskDone, AfterTask, Moves, PC, TypeOK, SamePlaces,
        ctxtVars, slotVars, dataVars, rootVars, lockVars, readVars, histVars
<1>4. TypeOK'
  <2>1. generation_to_incorporate' \in Nat
    BY <1>1, <1>3 DEF TypeOK, TryContinue
  <2>2. pc' \in [Thread -> PC]
    BY <1>1, <1>3 DEF TypeOK, Moves
  <2> QED
    BY <1>1, <1>2, <1>3, <2>1, <2>2
    DEF TryContinue, TypeOK, Insert!Modes, Lookup!Modes, SamePlaces, ctxtVars,
        slotVars, dataVars, rootVars, lockVars, readVars, histVars
<1>5. RoleInv'
  BY <1>1, <1>2, <1>3, RoleFrame, MemtableAssumption
  DEF RoleInv, AfterTask, Flusher, PC, TaskPC, Turn, Compacting, Incorporating,
      Incorporated, CallPC, ReaderPC
<1>6. LocksInv'
  BY <1>1, <1>2, <1>3, LocksFrame DEF InsertMode, LookupMode
<1>7. SlotsInv'
  BY <1>1, <1>3 DEF SlotsInv, SamePlaces, Ready
<1>8. InsertsInv'
  BY <1>1, <1>2, <1>3, InsertsFrame DEF SamePlaces, SameTurns
<1>9. CompactInv'
  BY <1>1, <1>2, <1>3, CompactFrame DEF SamePlaces, SameTurns
<1>10. TurnInv'
  <2>1. \A u \in Flusher : u # t => pc'[u] = pc[u]
    BY <1>1, <1>3, ThreadRoles DEF Moves, TypeOK
  <2>2. pc'[t] \notin Turn
    BY <1>1, <1>2, <1>3 DEF Moves, TypeOK, Turn, Incorporating, Incorporated
  <2>3. pc[t] \in Turn
    BY <1>3 DEF Turn, Incorporated
  <2>4. \A u \in Flusher : pc'[u] \notin Turn
    BY <1>1, <1>2, <2>1, <2>2, <2>3 DEF TurnInv
  <2>5. \A u \in Flusher : pc'[u] \notin Incorporating /\ pc'[u] \notin Incorporated /\ pc'[u] \notin {"switch", "unblock", "dec_ref"}
    BY <2>4 DEF Turn, Incorporated
  <2> QED BY <2>4, <2>5 DEF TurnInv
<1>11. RefsInv'
  BY <1>1, <1>2, <1>3, RefsFrame DEF SamePlaces, SameTurns
<1>12. ReadersInv'
  BY <1>1, <1>2, <1>3, ReadersFrame DEF SamePlaces, SameTurns
<1>13. RecycleInv'
  BY <1>1, <1>2, <1>3, RecycleFrame DEF SamePlaces, SameTurns
<1>14. ContentInv'
  BY <1>1, <1>2, <1>3, ContentFrame DEF SamePlaces, SameTurns
<1> QED
  BY <1>4, <1>5, <1>6, <1>7, <1>8, <1>9, <1>10, <1>11, <1>12, <1>13, <1>14
  DEF IInv

LEMMA LookupCallKeeps ==
    ASSUME IInv, NEW t \in Reader, LookupCall(t)
    PROVE  IInv'
<1>1. /\ TypeOK /\ RoleInv /\ LocksInv /\ SlotsInv /\ InsertsInv /\ CompactInv
      /\ TurnInv /\ RefsInv /\ ReadersInv /\ RecycleInv /\ ContentInv
  BY DEF IInv
<1>2. t \in Thread /\ t \notin Flusher /\ t \notin Writer /\ t \notin Worker
  BY ThreadRoles, MemtableAssumption DEF Flusher, Thread
<1>3. /\ "lookup" \in PC
      /\ Moves(t, "lookup")
      /\ pc[t] = "idle" /\ ~closing /\ gen' = [gen EXCEPT ![t] = generation]
      /\ \A u \in Thread : lookup_lock[u] \notin {"drain", "write"}
      /\ lookup_lock[t] = "none" /\ insert_lock' = insert_lock /\ lookup_lock' = [lookup_lock EXCEPT ![t] = "read"]
      /\ SamePlaces /\ SameTurns
      /\ UNCHANGED <<closing, full, refs, pinned, is_empty,
                     content>> /\ queue' = queue
  BY <1>1, <1>2
  DEF LookupCall, Goto, Moves, PC, TypeOK, SamePlaces, SameTurns, BeginRead,
      Lookup!Get, Lookup!GetAndClaim, Lookup!Unget, Lookup!Claim, Lookup!Lock,
      Lookup!Drained, Lookup!FullUnlock, Lookup!Move, Lookup!Claims, ctxtVars,
      slotVars, dataVars, rootVars, lockVars, readVars, histVars
<1>4. TypeOK'
  BY <1>1, <1>2, <1>3
  DEF LookupCall, Goto, TypeOK, PC, Insert!Modes, Lookup!Modes, BeginRead,
      Lookup!Get, Lookup!GetAndClaim, Lookup!Unget, Lookup!Claim, Lookup!Lock,
      Lookup!Drained, Lookup!FullUnlock, Lookup!Move, Lookup!Claims, ctxtVars,
      slotVars, dataVars, rootVars, lockVars, readVars, histVars
<1>5. RoleInv'
  BY <1>1, <1>2, <1>3, RoleFrame
  DEF RoleInv, PC, TaskPC, Turn, Compacting, Incorporating, Incorporated,
      CallPC, ReaderPC
<1>6. LocksInv'
  BY <1>1, <1>2, <1>3
  DEF LocksInv, TypeOK, Moves, InsertMode, LookupMode, Insert!Claims,
      Lookup!Claims
<1>7. SlotsInv'
  BY <1>1, <1>2, <1>3, SlotsFrame DEF SamePlaces, SameTurns
<1>8. InsertsInv'
  BY <1>1, <1>2, <1>3, InsertsFrame DEF SamePlaces, SameTurns
<1>9. CompactInv'
  BY <1>1, <1>2, <1>3, CompactFrame DEF SamePlaces, SameTurns
<1>10. TurnInv'
  BY <1>1, <1>2, <1>3, TurnFrame
  DEF SamePlaces, SameTurns, Turn, Incorporating, Incorporated
<1>11. RefsInv'
  BY <1>1, <1>2, <1>3, RefsFrame DEF SamePlaces, SameTurns
<1>12. ReadersInv'
  <2>1. \A u \in Thread : u # t => pc'[u] = pc[u] /\ gen'[u] = gen[u]
    BY <1>1, <1>3 DEF Moves, TypeOK
  <2>2. pc'[t] = "lookup" /\ gen'[t] = generation
    BY <1>1, <1>2, <1>3 DEF Moves, TypeOK
  <2>3. \A r \in Reader : r \in Thread
    BY ThreadRoles
  <2> QED
    BY <1>1, <1>2, <1>3, <2>1, <2>2, <2>3
    DEF ReadersInv, SlotsInv, TypeOK, SamePlaces, SameTurns
<1>13. RecycleInv'
  BY <1>1, <1>2, <1>3, RecycleFrame DEF SamePlaces, SameTurns
<1>14. ContentInv'
  BY <1>1, <1>2, <1>3, ContentFrame DEF SamePlaces, SameTurns
<1> QED
  BY <1>4, <1>5, <1>6, <1>7, <1>8, <1>9, <1>10, <1>11, <1>12, <1>13, <1>14
  DEF IInv

LEMMA IteratorInitKeeps ==
    ASSUME IInv, NEW t \in Reader, IteratorInit(t)
    PROVE  IInv'
<1>1. /\ TypeOK /\ RoleInv /\ LocksInv /\ SlotsInv /\ InsertsInv /\ CompactInv
      /\ TurnInv /\ RefsInv /\ ReadersInv /\ RecycleInv /\ ContentInv
  BY DEF IInv
<1>2. t \in Thread /\ t \notin Flusher /\ t \notin Writer /\ t \notin Worker
  BY ThreadRoles, MemtableAssumption DEF Flusher, Thread
<1>3. /\ "iter_init" \in PC
      /\ Moves(t, "iter_init")
      /\ pc[t] = "idle" /\ ~closing /\ gen' = [gen EXCEPT ![t] = generation]
      /\ \A u \in Thread : lookup_lock[u] \notin {"drain", "write"}
      /\ lookup_lock[t] = "none" /\ insert_lock' = insert_lock /\ lookup_lock' = [lookup_lock EXCEPT ![t] = "read"]
      /\ SamePlaces /\ SameTurns
      /\ UNCHANGED <<closing, full, refs, pinned, is_empty,
                     content>> /\ queue' = queue
  BY <1>1, <1>2
  DEF IteratorInit, Goto, Moves, PC, TypeOK, SamePlaces, SameTurns, BeginRead,
      Lookup!Get, Lookup!GetAndClaim, Lookup!Unget, Lookup!Claim, Lookup!Lock,
      Lookup!Drained, Lookup!FullUnlock, Lookup!Move, Lookup!Claims, ctxtVars,
      slotVars, dataVars, rootVars, lockVars, readVars, histVars
<1>4. TypeOK'
  BY <1>1, <1>2, <1>3
  DEF IteratorInit, Goto, TypeOK, PC, Insert!Modes, Lookup!Modes, BeginRead,
      Lookup!Get, Lookup!GetAndClaim, Lookup!Unget, Lookup!Claim, Lookup!Lock,
      Lookup!Drained, Lookup!FullUnlock, Lookup!Move, Lookup!Claims, ctxtVars,
      slotVars, dataVars, rootVars, lockVars, readVars, histVars
<1>5. RoleInv'
  BY <1>1, <1>2, <1>3, RoleFrame
  DEF RoleInv, PC, TaskPC, Turn, Compacting, Incorporating, Incorporated,
      CallPC, ReaderPC
<1>6. LocksInv'
  BY <1>1, <1>2, <1>3
  DEF LocksInv, TypeOK, Moves, InsertMode, LookupMode, Insert!Claims,
      Lookup!Claims
<1>7. SlotsInv'
  BY <1>1, <1>2, <1>3, SlotsFrame DEF SamePlaces, SameTurns
<1>8. InsertsInv'
  BY <1>1, <1>2, <1>3, InsertsFrame DEF SamePlaces, SameTurns
<1>9. CompactInv'
  BY <1>1, <1>2, <1>3, CompactFrame DEF SamePlaces, SameTurns
<1>10. TurnInv'
  BY <1>1, <1>2, <1>3, TurnFrame
  DEF SamePlaces, SameTurns, Turn, Incorporating, Incorporated
<1>11. RefsInv'
  BY <1>1, <1>2, <1>3, RefsFrame DEF SamePlaces, SameTurns
<1>12. ReadersInv'
  <2>1. \A u \in Thread : u # t => pc'[u] = pc[u] /\ gen'[u] = gen[u]
    BY <1>1, <1>3 DEF Moves, TypeOK
  <2>2. pc'[t] = "iter_init" /\ gen'[t] = generation
    BY <1>1, <1>2, <1>3 DEF Moves, TypeOK
  <2>3. \A r \in Reader : r \in Thread
    BY ThreadRoles
  <2> QED
    BY <1>1, <1>2, <1>3, <2>1, <2>2, <2>3
    DEF ReadersInv, SlotsInv, TypeOK, SamePlaces, SameTurns
<1>13. RecycleInv'
  BY <1>1, <1>2, <1>3, RecycleFrame DEF SamePlaces, SameTurns
<1>14. ContentInv'
  BY <1>1, <1>2, <1>3, ContentFrame DEF SamePlaces, SameTurns
<1> QED
  BY <1>4, <1>5, <1>6, <1>7, <1>8, <1>9, <1>10, <1>11, <1>12, <1>13, <1>14
  DEF IInv

LEMMA LookupFoundKeeps ==
    ASSUME IInv, NEW t \in Reader, pc'[t] = "found", LookupMemtable(t)
    PROVE  IInv'
<1>1. /\ TypeOK /\ RoleInv /\ LocksInv /\ SlotsInv /\ InsertsInv /\ CompactInv
      /\ TurnInv /\ RefsInv /\ ReadersInv /\ RecycleInv /\ ContentInv
  BY DEF IInv
<1>2. t \in Thread /\ t \notin Flusher /\ t \notin Writer /\ t \notin Worker
  BY ThreadRoles, MemtableAssumption DEF Flusher, Thread
<1>3. /\ "found" \in PC
      /\ Moves(t, "found")
      /\ pc[t] = "lookup" /\ gen' = gen
      /\ lookup_lock[t] = "read" /\ insert_lock' = insert_lock /\ lookup_lock' = [lookup_lock EXCEPT ![t] = "none"]
      /\ SamePlaces /\ SameTurns
      /\ UNCHANGED <<closing, full, refs, pinned, is_empty,
                     content>> /\ queue' = queue
  <2>1. pc[t] = "lookup" /\ gen[t] # generation_retired
    BY DEF LookupMemtable, Goto
  <2>2. generation_retired <= gen[t] /\ gen[t] <= generation
    BY <1>1, <1>2, <2>1 DEF ReadersInv
  <2>3. generation_retired < gen[t]
    BY <1>1, <1>2, <2>1, <2>2 DEF TypeOK
  <2>4. SamePlaces /\ SameTurns /\ UNCHANGED <<closing, full, refs, pinned,
                                               is_empty, content, queue,
                                               insert_lock>>
    BY DEF LookupMemtable, SamePlaces, SameTurns, ctxtVars, slotVars, dataVars,
           rootVars, lockVars, readVars, histVars
  <2>5. pc' = [pc EXCEPT ![t] = "found"] /\ gen' = gen /\ Lookup!Unget(t)
    BY <1>1, <1>2, <2>1 DEF LookupMemtable, Goto
  <2> QED
    BY <1>1, <1>2, <2>1, <2>2, <2>3, <2>4, <2>5
    DEF Moves, PC, TypeOK, Lookup!Unget, Lookup!Move
<1>4. TypeOK'
  <2>1. acc' \in [Reader -> Seq(Message)]
    <3>1. SlotOf(gen[t]) \in Slot
      BY <1>1, <1>2, SlotsTyped
    <3>2. acc[t] \in Seq(Message) /\ branch[SlotOf(gen[t])] \in Seq(Message) /\ content[SlotOf(gen[t])] \in Seq(Message)
      BY <1>1, <3>1 DEF TypeOK
    <3>3. PICK older \in Seq(Message) : acc' = [acc EXCEPT ![t] = Merge(older, acc[t])]
      BY <3>2 DEF LookupMemtable
    <3>4. Merge(older, acc[t]) \in Seq(Message)
      BY <3>2, MergeType
    <3> QED BY <1>1, <3>3, <3>4 DEF TypeOK
  <2> QED
    BY <1>1, <1>2, <1>3, <2>1
    DEF LookupMemtable, Lookup!Get, Lookup!GetAndClaim, Lookup!Unget,
        Lookup!Claim, Lookup!Lock, Lookup!Drained, Lookup!FullUnlock,
        Lookup!Move, Lookup!Claims, Goto, TypeOK, PC, Insert!Modes,
        Lookup!Modes, ctxtVars, slotVars, dataVars, rootVars, lockVars,
        histVars
<1>5. RoleInv'
  BY <1>1, <1>2, <1>3, RoleFrame
  DEF RoleInv, PC, TaskPC, Turn, Compacting, Incorporating, Incorporated,
      CallPC, ReaderPC
<1>6. LocksInv'
  BY <1>1, <1>2, <1>3
  DEF LocksInv, TypeOK, Moves, InsertMode, LookupMode, Insert!Claims,
      Lookup!Claims
<1>7. SlotsInv'
  BY <1>1, <1>2, <1>3, SlotsFrame DEF SamePlaces, SameTurns
<1>8. InsertsInv'
  BY <1>1, <1>2, <1>3, InsertsFrame DEF SamePlaces, SameTurns
<1>9. CompactInv'
  BY <1>1, <1>2, <1>3, CompactFrame DEF SamePlaces, SameTurns
<1>10. TurnInv'
  BY <1>1, <1>2, <1>3, TurnFrame
  DEF SamePlaces, SameTurns, Turn, Incorporating, Incorporated
<1>11. RefsInv'
  BY <1>1, <1>2, <1>3, RefsFrame DEF SamePlaces, SameTurns
<1>12. ReadersInv'
  <2>1. \A u \in Thread : u # t => pc'[u] = pc[u] /\ gen'[u] = gen[u]
    BY <1>1, <1>3 DEF Moves, TypeOK
  <2>2. pc'[t] = "found" /\ gen'[t] = gen[t]
    BY <1>1, <1>2, <1>3 DEF Moves, TypeOK
  <2>3. \A r \in Reader : r \in Thread
    BY ThreadRoles
  <2> QED
    BY <1>1, <1>2, <1>3, <2>1, <2>2, <2>3
    DEF ReadersInv, SlotsInv, TypeOK, SamePlaces, SameTurns
<1>13. RecycleInv'
  BY <1>1, <1>2, <1>3, RecycleFrame DEF SamePlaces, SameTurns
<1>14. ContentInv'
  BY <1>1, <1>2, <1>3, ContentFrame DEF SamePlaces, SameTurns
<1> QED
  BY <1>4, <1>5, <1>6, <1>7, <1>8, <1>9, <1>10, <1>11, <1>12, <1>13, <1>14
  DEF IInv

LEMMA LookupMemtableKeeps ==
    ASSUME IInv, NEW t \in Reader, pc' = pc, LookupMemtable(t)
    PROVE  IInv'
<1>1. /\ TypeOK /\ RoleInv /\ LocksInv /\ SlotsInv /\ InsertsInv /\ CompactInv
      /\ TurnInv /\ RefsInv /\ ReadersInv /\ RecycleInv /\ ContentInv
  BY DEF IInv
<1>2. t \in Thread /\ t \notin Flusher /\ t \notin Writer /\ t \notin Worker
  BY ThreadRoles, MemtableAssumption DEF Flusher, Thread
<1>3. /\ "lookup" \in PC
      /\ Moves(t, "lookup")
      /\ pc[t] = "lookup" /\ gen' = [gen EXCEPT ![t] = gen[t] - 1] /\ generation_retired < gen[t] /\ gen[t] <= generation
      /\ UNCHANGED <<insert_lock, lookup_lock>>
      /\ SamePlaces /\ SameTurns
      /\ UNCHANGED <<closing, full, refs, pinned, is_empty,
                     content>> /\ queue' = queue
  <2>1. pc[t] = "lookup" /\ gen[t] # generation_retired
    BY DEF LookupMemtable, Goto
  <2>2. generation_retired <= gen[t] /\ gen[t] <= generation
    BY <1>1, <1>2, <2>1 DEF ReadersInv
  <2>3. generation_retired < gen[t]
    BY <1>1, <1>2, <2>1, <2>2 DEF TypeOK
  <2>4. SamePlaces /\ SameTurns /\ UNCHANGED <<closing, full, refs, pinned,
                                               is_empty, content, queue,
                                               insert_lock>>
    BY DEF LookupMemtable, SamePlaces, SameTurns, ctxtVars, slotVars, dataVars,
           rootVars, lockVars, readVars, histVars
  <2>5. gen' = [gen EXCEPT ![t] = gen[t] - 1] /\ lookup_lock' = lookup_lock
    <3>1. pc'[t] # "found"
      BY <2>1
    <3>2. pc \in [Thread -> PC]
      BY <1>1 DEF TypeOK
    <3> QED BY <1>2, <3>1, <3>2 DEF LookupMemtable, Goto
  <2>6. pc' = [pc EXCEPT ![t] = "lookup"]
    BY <1>1, <1>2, <2>1 DEF TypeOK
  <2> QED
    BY <1>1, <1>2, <2>1, <2>2, <2>3, <2>4, <2>5, <2>6
    DEF Moves, PC, TypeOK
<1>4. TypeOK'
  <2>1. acc' \in [Reader -> Seq(Message)]
    <3>1. SlotOf(gen[t]) \in Slot
      BY <1>1, <1>2, SlotsTyped
    <3>2. acc[t] \in Seq(Message) /\ branch[SlotOf(gen[t])] \in Seq(Message) /\ content[SlotOf(gen[t])] \in Seq(Message)
      BY <1>1, <3>1 DEF TypeOK
    <3>3. PICK older \in Seq(Message) : acc' = [acc EXCEPT ![t] = Merge(older, acc[t])]
      BY <3>2 DEF LookupMemtable
    <3>4. Merge(older, acc[t]) \in Seq(Message)
      BY <3>2, MergeType
    <3> QED BY <1>1, <3>3, <3>4 DEF TypeOK
  <2>2. gen' \in [Thread -> Nat \cup {-1}]
    <3>1. gen[t] \in Int /\ generation_retired \in Int /\ generation_retired >= -1
      BY <1>1, <1>2 DEF TypeOK
    <3>2. gen[t] - 1 \in Int /\ gen[t] - 1 >= -1
      BY <1>3, <3>1
    <3>3. gen[t] - 1 \in Nat \cup {-1}
      BY <3>2, FromMinusOne
    <3> QED BY <1>1, <1>3, <3>3 DEF TypeOK
  <2> QED
    BY <1>1, <1>2, <1>3, <2>1, <2>2
    DEF LookupMemtable, Lookup!Get, Lookup!GetAndClaim, Lookup!Unget,
        Lookup!Claim, Lookup!Lock, Lookup!Drained, Lookup!FullUnlock,
        Lookup!Move, Lookup!Claims, Goto, TypeOK, PC, Insert!Modes,
        Lookup!Modes, ctxtVars, slotVars, dataVars, rootVars, lockVars,
        histVars
<1>5. RoleInv'
  BY <1>1, <1>2, <1>3, RoleFrame
  DEF RoleInv, PC, TaskPC, Turn, Compacting, Incorporating, Incorporated,
      CallPC, ReaderPC
<1>6. LocksInv'
  BY <1>1, <1>2, <1>3, LocksFrame DEF InsertMode, LookupMode
<1>7. SlotsInv'
  BY <1>1, <1>2, <1>3, SlotsFrame DEF SamePlaces, SameTurns
<1>8. InsertsInv'
  BY <1>1, <1>2, <1>3, InsertsFrame DEF SamePlaces, SameTurns
<1>9. CompactInv'
  BY <1>1, <1>2, <1>3, CompactFrame DEF SamePlaces, SameTurns
<1>10. TurnInv'
  BY <1>1, <1>2, <1>3, TurnFrame
  DEF SamePlaces, SameTurns, Turn, Incorporating, Incorporated
<1>11. RefsInv'
  BY <1>1, <1>2, <1>3, RefsFrame DEF SamePlaces, SameTurns
<1>12. ReadersInv'
  <2>1. \A u \in Thread : u # t => pc'[u] = pc[u] /\ gen'[u] = gen[u]
    BY <1>1, <1>3 DEF Moves, TypeOK
  <2>2. pc'[t] = "lookup" /\ gen'[t] = gen[t] - 1
    BY <1>1, <1>2, <1>3 DEF Moves, TypeOK
  <2>3. \A r \in Reader : r \in Thread
    BY ThreadRoles
  <2> QED
    BY <1>1, <1>2, <1>3, <2>1, <2>2, <2>3
    DEF ReadersInv, SlotsInv, TypeOK, SamePlaces, SameTurns
<1>13. RecycleInv'
  BY <1>1, <1>2, <1>3, RecycleFrame DEF SamePlaces, SameTurns
<1>14. ContentInv'
  BY <1>1, <1>2, <1>3, ContentFrame DEF SamePlaces, SameTurns
<1> QED
  BY <1>4, <1>5, <1>6, <1>7, <1>8, <1>9, <1>10, <1>11, <1>12, <1>13, <1>14
  DEF IInv

LEMMA LookupTrunkKeeps ==
    ASSUME IInv, NEW t \in Reader, LookupTrunk(t)
    PROVE  IInv'
<1>1. /\ TypeOK /\ RoleInv /\ LocksInv /\ SlotsInv /\ InsertsInv /\ CompactInv
      /\ TurnInv /\ RefsInv /\ ReadersInv /\ RecycleInv /\ ContentInv
  BY DEF IInv
<1>2. t \in Thread /\ t \notin Flusher /\ t \notin Writer /\ t \notin Worker
  BY ThreadRoles, MemtableAssumption DEF Flusher, Thread
<1>3. /\ "found" \in PC
      /\ Moves(t, "found")
      /\ pc[t] = "lookup" /\ gen' = gen
      /\ lookup_lock[t] = "read" /\ insert_lock' = insert_lock /\ lookup_lock' = [lookup_lock EXCEPT ![t] = "none"]
      /\ SamePlaces /\ SameTurns
      /\ UNCHANGED <<closing, full, refs, pinned, is_empty,
                     content>> /\ queue' = queue
  BY <1>1, <1>2
  DEF LookupTrunk, Goto, Moves, PC, TypeOK, SamePlaces, SameTurns, Lookup!Get,
      Lookup!GetAndClaim, Lookup!Unget, Lookup!Claim, Lookup!Lock,
      Lookup!Drained, Lookup!FullUnlock, Lookup!Move, Lookup!Claims, ctxtVars,
      slotVars, dataVars, rootVars, lockVars, readVars, histVars
<1>4. TypeOK'
  <2>1. acc' \in [Reader -> Seq(Message)]
    <3>1. acc[t] \in Seq(Message) /\ root \in Seq(Message)
      BY <1>1 DEF TypeOK
    <3>2. Merge(root, acc[t]) \in Seq(Message)
      BY <3>1, MergeType
    <3> QED BY <1>1, <3>2 DEF LookupTrunk, TypeOK
  <2> QED
    BY <1>1, <1>2, <1>3, <2>1
    DEF LookupTrunk, Lookup!Get, Lookup!GetAndClaim, Lookup!Unget,
        Lookup!Claim, Lookup!Lock, Lookup!Drained, Lookup!FullUnlock,
        Lookup!Move, Lookup!Claims, Goto, TypeOK, PC, Insert!Modes,
        Lookup!Modes, ctxtVars, slotVars, dataVars, rootVars, lockVars,
        histVars
<1>5. RoleInv'
  BY <1>1, <1>2, <1>3, RoleFrame
  DEF RoleInv, PC, TaskPC, Turn, Compacting, Incorporating, Incorporated,
      CallPC, ReaderPC
<1>6. LocksInv'
  BY <1>1, <1>2, <1>3
  DEF LocksInv, TypeOK, Moves, InsertMode, LookupMode, Insert!Claims,
      Lookup!Claims
<1>7. SlotsInv'
  BY <1>1, <1>2, <1>3, SlotsFrame DEF SamePlaces, SameTurns
<1>8. InsertsInv'
  BY <1>1, <1>2, <1>3, InsertsFrame DEF SamePlaces, SameTurns
<1>9. CompactInv'
  BY <1>1, <1>2, <1>3, CompactFrame DEF SamePlaces, SameTurns
<1>10. TurnInv'
  BY <1>1, <1>2, <1>3, TurnFrame
  DEF SamePlaces, SameTurns, Turn, Incorporating, Incorporated
<1>11. RefsInv'
  BY <1>1, <1>2, <1>3, RefsFrame DEF SamePlaces, SameTurns
<1>12. ReadersInv'
  <2>1. \A u \in Thread : u # t => pc'[u] = pc[u] /\ gen'[u] = gen[u]
    BY <1>1, <1>3 DEF Moves, TypeOK
  <2>2. pc'[t] = "found" /\ gen'[t] = gen[t]
    BY <1>1, <1>2, <1>3 DEF Moves, TypeOK
  <2>3. \A r \in Reader : r \in Thread
    BY ThreadRoles
  <2> QED
    BY <1>1, <1>2, <1>3, <2>1, <2>2, <2>3
    DEF ReadersInv, SlotsInv, TypeOK, SamePlaces, SameTurns
<1>13. RecycleInv'
  BY <1>1, <1>2, <1>3, RecycleFrame DEF SamePlaces, SameTurns
<1>14. ContentInv'
  BY <1>1, <1>2, <1>3, ContentFrame DEF SamePlaces, SameTurns
<1> QED
  BY <1>4, <1>5, <1>6, <1>7, <1>8, <1>9, <1>10, <1>11, <1>12, <1>13, <1>14
  DEF IInv

LEMMA LookupReturnKeeps ==
    ASSUME IInv, NEW t \in Reader, LookupReturn(t)
    PROVE  IInv'
<1>1. /\ TypeOK /\ RoleInv /\ LocksInv /\ SlotsInv /\ InsertsInv /\ CompactInv
      /\ TurnInv /\ RefsInv /\ ReadersInv /\ RecycleInv /\ ContentInv
  BY DEF IInv
<1>2. t \in Thread /\ t \notin Flusher /\ t \notin Writer /\ t \notin Worker
  BY ThreadRoles, MemtableAssumption DEF Flusher, Thread
<1>3. /\ "idle" \in PC
      /\ Moves(t, "idle")
      /\ pc[t] = "found" /\ gen' = [gen EXCEPT ![t] = 0]
      /\ SamePlaces /\ SameTurns
      /\ UNCHANGED <<closing, full, refs, pinned, is_empty,
                     content>> /\ queue' = queue
      /\ UNCHANGED <<insert_lock, lookup_lock>>
  BY <1>1, <1>2
  DEF LookupReturn, Goto, Moves, PC, TypeOK, SamePlaces, SameTurns, ctxtVars,
      slotVars, dataVars, rootVars, lockVars, readVars, histVars
<1>4. TypeOK'
  BY <1>1, <1>2, <1>3
  DEF LookupReturn, Goto, TypeOK, PC, Insert!Modes, Lookup!Modes, ctxtVars,
      slotVars, dataVars, rootVars, lockVars, readVars, histVars
<1>5. RoleInv'
  BY <1>1, <1>2, <1>3, RoleFrame
  DEF RoleInv, PC, TaskPC, Turn, Compacting, Incorporating, Incorporated,
      CallPC, ReaderPC
<1>6. LocksInv'
  BY <1>1, <1>2, <1>3, LocksFrame DEF InsertMode, LookupMode
<1>7. SlotsInv'
  BY <1>1, <1>2, <1>3, SlotsFrame DEF SamePlaces, SameTurns
<1>8. InsertsInv'
  BY <1>1, <1>2, <1>3, InsertsFrame DEF SamePlaces, SameTurns
<1>9. CompactInv'
  BY <1>1, <1>2, <1>3, CompactFrame DEF SamePlaces, SameTurns
<1>10. TurnInv'
  BY <1>1, <1>2, <1>3, TurnFrame
  DEF SamePlaces, SameTurns, Turn, Incorporating, Incorporated
<1>11. RefsInv'
  BY <1>1, <1>2, <1>3, RefsFrame DEF SamePlaces, SameTurns
<1>12. ReadersInv'
  <2>1. \A u \in Thread : u # t => pc'[u] = pc[u] /\ gen'[u] = gen[u]
    BY <1>1, <1>3 DEF Moves, TypeOK
  <2>2. pc'[t] = "idle" /\ gen'[t] = 0
    BY <1>1, <1>2, <1>3 DEF Moves, TypeOK
  <2>3. \A r \in Reader : r \in Thread
    BY ThreadRoles
  <2> QED
    BY <1>1, <1>2, <1>3, <2>1, <2>2, <2>3
    DEF ReadersInv, SlotsInv, TypeOK, SamePlaces, SameTurns
<1>13. RecycleInv'
  BY <1>1, <1>2, <1>3, RecycleFrame DEF SamePlaces, SameTurns
<1>14. ContentInv'
  BY <1>1, <1>2, <1>3, ContentFrame DEF SamePlaces, SameTurns
<1> QED
  BY <1>4, <1>5, <1>6, <1>7, <1>8, <1>9, <1>10, <1>11, <1>12, <1>13, <1>14
  DEF IInv

LEMMA IteratorReadyKeeps ==
    ASSUME IInv, NEW t \in Reader, IteratorReady(t)
    PROVE  IInv'
<1>1. /\ TypeOK /\ RoleInv /\ LocksInv /\ SlotsInv /\ InsertsInv /\ CompactInv
      /\ TurnInv /\ RefsInv /\ ReadersInv /\ RecycleInv /\ ContentInv
  BY DEF IInv
<1>2. t \in Thread /\ t \notin Flusher /\ t \notin Writer /\ t \notin Worker
  BY ThreadRoles, MemtableAssumption DEF Flusher, Thread
<1>3. /\ "drop" \in PC
      /\ Moves(t, "drop")
      /\ pc[t] = "iter_init" /\ gen' = gen
      /\ lookup_lock[t] = "read" /\ insert_lock' = insert_lock /\ lookup_lock' = [lookup_lock EXCEPT ![t] = "none"]
      /\ SamePlaces /\ SameTurns
      /\ UNCHANGED <<closing, full, refs, pinned, is_empty,
                     content>> /\ queue' = queue
  BY <1>1, <1>2
  DEF IteratorReady, Goto, Moves, PC, TypeOK, SamePlaces, SameTurns,
      Lookup!Get, Lookup!GetAndClaim, Lookup!Unget, Lookup!Claim, Lookup!Lock,
      Lookup!Drained, Lookup!FullUnlock, Lookup!Move, Lookup!Claims, ctxtVars,
      slotVars, dataVars, rootVars, lockVars, readVars, histVars
<1>4. TypeOK'
  BY <1>1, <1>2, <1>3
  DEF IteratorReady, Goto, TypeOK, PC, Insert!Modes, Lookup!Modes, Lookup!Get,
      Lookup!GetAndClaim, Lookup!Unget, Lookup!Claim, Lookup!Lock,
      Lookup!Drained, Lookup!FullUnlock, Lookup!Move, Lookup!Claims, ctxtVars,
      slotVars, dataVars, rootVars, lockVars, readVars, histVars
<1>5. RoleInv'
  BY <1>1, <1>2, <1>3, RoleFrame
  DEF RoleInv, PC, TaskPC, Turn, Compacting, Incorporating, Incorporated,
      CallPC, ReaderPC
<1>6. LocksInv'
  BY <1>1, <1>2, <1>3
  DEF LocksInv, TypeOK, Moves, InsertMode, LookupMode, Insert!Claims,
      Lookup!Claims
<1>7. SlotsInv'
  BY <1>1, <1>2, <1>3, SlotsFrame DEF SamePlaces, SameTurns
<1>8. InsertsInv'
  BY <1>1, <1>2, <1>3, InsertsFrame DEF SamePlaces, SameTurns
<1>9. CompactInv'
  BY <1>1, <1>2, <1>3, CompactFrame DEF SamePlaces, SameTurns
<1>10. TurnInv'
  BY <1>1, <1>2, <1>3, TurnFrame
  DEF SamePlaces, SameTurns, Turn, Incorporating, Incorporated
<1>11. RefsInv'
  BY <1>1, <1>2, <1>3, RefsFrame DEF SamePlaces, SameTurns
<1>12. ReadersInv'
  <2>1. \A u \in Thread : u # t => pc'[u] = pc[u] /\ gen'[u] = gen[u]
    BY <1>1, <1>3 DEF Moves, TypeOK
  <2>2. pc'[t] = "drop" /\ gen'[t] = gen[t]
    BY <1>1, <1>2, <1>3 DEF Moves, TypeOK
  <2>3. \A r \in Reader : r \in Thread
    BY ThreadRoles
  <2> QED
    BY <1>1, <1>2, <1>3, <2>1, <2>2, <2>3
    DEF ReadersInv, SlotsInv, TypeOK, SamePlaces, SameTurns
<1>13. RecycleInv'
  BY <1>1, <1>2, <1>3, RecycleFrame DEF SamePlaces, SameTurns
<1>14. ContentInv'
  BY <1>1, <1>2, <1>3, ContentFrame DEF SamePlaces, SameTurns
<1> QED
  BY <1>4, <1>5, <1>6, <1>7, <1>8, <1>9, <1>10, <1>11, <1>12, <1>13, <1>14
  DEF IInv

LEMMA IteratorDoneKeeps ==
    ASSUME IInv, NEW t \in Reader, IteratorDone(t)
    PROVE  IInv'
<1>1. /\ TypeOK /\ RoleInv /\ LocksInv /\ SlotsInv /\ InsertsInv /\ CompactInv
      /\ TurnInv /\ RefsInv /\ ReadersInv /\ RecycleInv /\ ContentInv
  BY DEF IInv
<1>2. t \in Thread /\ t \notin Flusher /\ t \notin Writer /\ t \notin Worker
  BY ThreadRoles, MemtableAssumption DEF Flusher, Thread
<1>3. /\ "idle" \in PC
      /\ Moves(t, "idle")
      /\ pc[t] = "drop" /\ pinned[t] = {} /\ gen' = [gen EXCEPT ![t] = 0]
      /\ SamePlaces /\ SameTurns
      /\ UNCHANGED <<closing, full, refs, pinned, is_empty,
                     content>> /\ queue' = queue
      /\ UNCHANGED <<insert_lock, lookup_lock>>
  BY <1>1, <1>2
  DEF IteratorDone, Goto, Moves, PC, TypeOK, SamePlaces, SameTurns, ctxtVars,
      slotVars, dataVars, rootVars, lockVars, readVars, histVars
<1>4. TypeOK'
  BY <1>1, <1>2, <1>3
  DEF IteratorDone, Goto, TypeOK, PC, Insert!Modes, Lookup!Modes, ctxtVars,
      slotVars, dataVars, rootVars, lockVars, readVars, histVars
<1>5. RoleInv'
  BY <1>1, <1>2, <1>3, RoleFrame
  DEF RoleInv, PC, TaskPC, Turn, Compacting, Incorporating, Incorporated,
      CallPC, ReaderPC
<1>6. LocksInv'
  BY <1>1, <1>2, <1>3, LocksFrame DEF InsertMode, LookupMode
<1>7. SlotsInv'
  BY <1>1, <1>2, <1>3, SlotsFrame DEF SamePlaces, SameTurns
<1>8. InsertsInv'
  BY <1>1, <1>2, <1>3, InsertsFrame DEF SamePlaces, SameTurns
<1>9. CompactInv'
  BY <1>1, <1>2, <1>3, CompactFrame DEF SamePlaces, SameTurns
<1>10. TurnInv'
  BY <1>1, <1>2, <1>3, TurnFrame
  DEF SamePlaces, SameTurns, Turn, Incorporating, Incorporated
<1>11. RefsInv'
  BY <1>1, <1>2, <1>3, RefsFrame DEF SamePlaces, SameTurns
<1>12. ReadersInv'
  <2>1. \A u \in Thread : u # t => pc'[u] = pc[u] /\ gen'[u] = gen[u]
    BY <1>1, <1>3 DEF Moves, TypeOK
  <2>2. pc'[t] = "idle" /\ gen'[t] = 0
    BY <1>1, <1>2, <1>3 DEF Moves, TypeOK
  <2>3. \A r \in Reader : r \in Thread
    BY ThreadRoles
  <2> QED
    BY <1>1, <1>2, <1>3, <2>1, <2>2, <2>3
    DEF ReadersInv, SlotsInv, TypeOK, SamePlaces, SameTurns
<1>13. RecycleInv'
  BY <1>1, <1>2, <1>3, RecycleFrame DEF SamePlaces, SameTurns
<1>14. ContentInv'
  BY <1>1, <1>2, <1>3, ContentFrame DEF SamePlaces, SameTurns
<1> QED
  BY <1>4, <1>5, <1>6, <1>7, <1>8, <1>9, <1>10, <1>11, <1>12, <1>13, <1>14
  DEF IInv

LEMMA PassCompactedKeeps ==
    ASSUME IInv, NEW t \in Reader, Compacted(gen[t]), PinMemtable(t)
    PROVE  IInv'
<1>1. /\ TypeOK /\ RoleInv /\ LocksInv /\ SlotsInv /\ InsertsInv /\ CompactInv
      /\ TurnInv /\ RefsInv /\ ReadersInv /\ RecycleInv /\ ContentInv
  BY DEF IInv
<1>2. t \in Thread /\ t \notin Flusher /\ t \notin Writer /\ t \notin Worker
  BY ThreadRoles, MemtableAssumption DEF Flusher, Thread
<1>3. /\ "iter_init" \in PC
      /\ Moves(t, "iter_init")
      /\ pc[t] = "iter_init" /\ gen' = [gen EXCEPT ![t] = gen[t] - 1] /\ generation_retired < gen[t] /\ gen[t] <= generation
      /\ SamePlaces /\ SameTurns
      /\ UNCHANGED <<closing, full, refs, pinned, is_empty,
                     content>> /\ queue' = queue
      /\ UNCHANGED <<insert_lock, lookup_lock>>
  <2>1. pc[t] = "iter_init" /\ gen[t] # generation_retired
    BY DEF PinMemtable
  <2>2. generation_retired <= gen[t] /\ gen[t] <= generation
    BY <1>1, <1>2, <2>1 DEF ReadersInv
  <2>3. generation_retired < gen[t]
    BY <1>1, <1>2, <2>1, <2>2 DEF TypeOK
  <2> QED
    BY <1>1, <1>2, <2>1, <2>2, <2>3
    DEF PinMemtable, Moves, PC, TypeOK, SamePlaces, SameTurns, ctxtVars,
        slotVars, dataVars, rootVars, lockVars, readVars, histVars
<1>4. TypeOK'
  <2>2. gen' \in [Thread -> Nat \cup {-1}]
    <3>1. gen[t] \in Int /\ generation_retired \in Int /\ generation_retired >= -1
      BY <1>1, <1>2 DEF TypeOK
    <3>2. gen[t] - 1 \in Int /\ gen[t] - 1 >= -1
      BY <1>3, <3>1
    <3>3. gen[t] - 1 \in Nat \cup {-1}
      BY <3>2, FromMinusOne
    <3> QED BY <1>1, <1>3, <3>3 DEF TypeOK
  <2> QED
    BY <1>1, <1>2, <1>3, <2>2
    DEF PinMemtable, Goto, TypeOK, PC, Insert!Modes, Lookup!Modes, ctxtVars,
        slotVars, dataVars, rootVars, lockVars, histVars
<1>5. RoleInv'
  BY <1>1, <1>2, <1>3, RoleFrame
  DEF RoleInv, PC, TaskPC, Turn, Compacting, Incorporating, Incorporated,
      CallPC, ReaderPC
<1>6. LocksInv'
  BY <1>1, <1>2, <1>3, LocksFrame DEF InsertMode, LookupMode
<1>7. SlotsInv'
  BY <1>1, <1>2, <1>3, SlotsFrame DEF SamePlaces, SameTurns
<1>8. InsertsInv'
  BY <1>1, <1>2, <1>3, InsertsFrame DEF SamePlaces, SameTurns
<1>9. CompactInv'
  BY <1>1, <1>2, <1>3, CompactFrame DEF SamePlaces, SameTurns
<1>10. TurnInv'
  BY <1>1, <1>2, <1>3, TurnFrame
  DEF SamePlaces, SameTurns, Turn, Incorporating, Incorporated
<1>11. RefsInv'
  BY <1>1, <1>2, <1>3, RefsFrame DEF SamePlaces, SameTurns
<1>12. ReadersInv'
  <2>1. \A u \in Thread : u # t => pc'[u] = pc[u] /\ gen'[u] = gen[u]
    BY <1>1, <1>3 DEF Moves, TypeOK
  <2>2. pc'[t] = "iter_init" /\ gen'[t] = gen[t] - 1
    BY <1>1, <1>2, <1>3 DEF Moves, TypeOK
  <2>3. \A r \in Reader : r \in Thread
    BY ThreadRoles
  <2>4. \A g \in pinned[t] : g \in Nat /\ gen[t] < g
    BY <1>1, <1>2, <1>3 DEF ReadersInv, TypeOK
  <2>5. gen[t] \in Int /\ generation_retired \in Int /\ generation \in Int
    BY <1>1, <1>2 DEF TypeOK
  <2>6. generation_retired <= gen[t] - 1 /\ gen[t] - 1 <= generation /\ \A g \in pinned[t] : gen[t] - 1 < g
    BY <1>3, <2>4, <2>5
  <2> QED
    BY <1>1, <1>2, <1>3, <2>1, <2>2, <2>3, <2>6
    DEF ReadersInv, SamePlaces, SameTurns
<1>13. RecycleInv'
  BY <1>1, <1>2, <1>3, RecycleFrame DEF SamePlaces, SameTurns
<1>14. ContentInv'
  BY <1>1, <1>2, <1>3, ContentFrame DEF SamePlaces, SameTurns
<1> QED
  BY <1>4, <1>5, <1>6, <1>7, <1>8, <1>9, <1>10, <1>11, <1>12, <1>13, <1>14
  DEF IInv

LEMMA PinMemtableKeeps ==
    ASSUME IInv, NEW t \in Reader, ~Compacted(gen[t]), PinMemtable(t)
    PROVE  IInv'
<1>1. /\ TypeOK /\ RoleInv /\ LocksInv /\ SlotsInv /\ InsertsInv /\ CompactInv
      /\ TurnInv /\ RefsInv /\ ReadersInv /\ RecycleInv /\ ContentInv
  BY DEF IInv
<1>2. t \in Thread /\ t \notin Flusher /\ t \notin Writer /\ t \notin Worker
  BY ThreadRoles, MemtableAssumption DEF Flusher, Thread
<1>3. /\ "iter_init" \in PC
      /\ Moves(t, "iter_init")
      /\ pc[t] = "iter_init" /\ gen' = [gen EXCEPT ![t] = gen[t] - 1] /\ generation_retired < gen[t] /\ gen[t] <= generation
      /\ gen[t] \in Nat /\ SlotOf(gen[t]) \in Slot /\ mt_generation[SlotOf(gen[t])] = gen[t] /\ state[SlotOf(gen[t])] # "INCORPORATED" /\ gen[t] \notin pinned[t]
      /\ \A q \in Slot : refs'[q] = IF q = SlotOf(gen[t]) THEN refs[q] + 1 ELSE refs[q]
      /\ \A r \in Reader : pinned'[r] = IF r = t THEN pinned[r] \cup {gen[t]} ELSE pinned[r]
      /\ SamePlaces /\ SameTurns
      /\ UNCHANGED <<closing, full, is_empty, content, queue>>
      /\ UNCHANGED <<insert_lock, lookup_lock>>
  <2>1. pc[t] = "iter_init" /\ gen[t] # generation_retired
    BY DEF PinMemtable
  <2>2. generation_retired <= gen[t] /\ gen[t] <= generation
    BY <1>1, <1>2, <2>1 DEF ReadersInv
  <2>3. generation_retired < gen[t]
    BY <1>1, <1>2, <2>1, <2>2 DEF TypeOK
  <2>4. gen[t] \in Nat /\ SlotOf(gen[t]) \in Slot
    BY <1>1, <1>2, <2>3, SlotsTyped DEF TypeOK
  <2>5. mt_generation[SlotOf(gen[t])] = gen[t] /\ state[SlotOf(gen[t])] # "INCORPORATED"
    BY <1>1, <1>2, <2>1, <2>2, <2>3, <2>4, WalkedInPlace
  <2>6. gen[t] \notin pinned[t]
    BY <1>1, <1>2, <2>1, <2>4 DEF ReadersInv
  <2> QED
    BY <1>1, <1>2, <2>1, <2>2, <2>3, <2>4, <2>5, <2>6
    DEF PinMemtable, Moves, PC, TypeOK, SamePlaces, SameTurns, ctxtVars,
        slotVars, dataVars, rootVars, lockVars, readVars, histVars
<1>4. TypeOK'
  <2>2. gen' \in [Thread -> Nat \cup {-1}]
    <3>1. gen[t] \in Int /\ generation_retired \in Int /\ generation_retired >= -1
      BY <1>1, <1>2 DEF TypeOK
    <3>2. gen[t] - 1 \in Int /\ gen[t] - 1 >= -1
      BY <1>3, <3>1
    <3>3. gen[t] - 1 \in Nat \cup {-1}
      BY <3>2, FromMinusOne
    <3> QED BY <1>1, <1>3, <3>3 DEF TypeOK
  <2>3. refs' \in [Slot -> Nat]
    <3>1. refs' = [refs EXCEPT ![SlotOf(gen[t])] = @ + 1]
      BY DEF PinMemtable
    <3>2. refs[SlotOf(gen[t])] + 1 \in Nat /\ refs \in [Slot -> Nat]
      BY <1>1, <1>3 DEF TypeOK
    <3> QED BY <3>1, <3>2
  <2>4. pinned' \in [Reader -> SUBSET Nat]
    <3>1. pinned' = [pinned EXCEPT ![t] = @ \cup {gen[t]}]
      BY DEF PinMemtable
    <3>2. pinned[t] \cup {gen[t]} \in SUBSET Nat
      BY <1>1, <1>3 DEF TypeOK
    <3> QED BY <1>1, <3>1, <3>2 DEF TypeOK
  <2> QED
    BY <1>1, <1>2, <1>3, <2>2, <2>3, <2>4
    DEF PinMemtable, Goto, TypeOK, PC, Insert!Modes, Lookup!Modes, ctxtVars,
        slotVars, dataVars, rootVars, lockVars, histVars
<1>5. RoleInv'
  BY <1>1, <1>2, <1>3, RoleFrame
  DEF RoleInv, PC, TaskPC, Turn, Compacting, Incorporating, Incorporated,
      CallPC, ReaderPC
<1>6. LocksInv'
  BY <1>1, <1>2, <1>3, LocksFrame DEF InsertMode, LookupMode
<1>7. SlotsInv'
  BY <1>1, <1>2, <1>3, SlotsFrame DEF SamePlaces, SameTurns
<1>8. InsertsInv'
  BY <1>1, <1>2, <1>3, InsertsFrame DEF SamePlaces, SameTurns
<1>9. CompactInv'
  BY <1>1, <1>2, <1>3, CompactFrame DEF SamePlaces, SameTurns
<1>10. TurnInv'
  BY <1>1, <1>2, <1>3, TurnFrame
  DEF SamePlaces, SameTurns, Turn, Incorporating, Incorporated
<1>11. RefsInv'
  <2>1. \A u \in Thread : u # t => pc'[u] = pc[u] /\ gen'[u] = gen[u]
    BY <1>1, <1>3 DEF Moves, TypeOK
  <2>2. pc'[t] = "iter_init" /\ pc[t] = "iter_init"
    BY <1>1, <1>2, <1>3 DEF Moves, TypeOK
  <2>3. PICK s \in Slot : s = SlotOf(gen[t])
    BY <1>3
  <2>4. ASSUME NEW q \in Slot, q # s PROVE PinnedBy(q)' = PinnedBy(q)
    <3>1. mt_generation[q] # gen[t]
      BY <1>1, <1>3, <2>3, <2>4 DEF SlotsInv
    <3> QED
      BY <1>2, <1>3, <2>1, <2>2, <3>1, ThreadRoles
      DEF PinnedBy, SamePlaces
  <2>5. PinnedBy(s)' = PinnedBy(s) \cup {t} /\ t \notin PinnedBy(s)
    <3>1. mt_generation'[s] = gen[t] /\ mt_generation[s] = gen[t]
      BY <1>3, <2>3 DEF SamePlaces
    <3>2. \A r \in Reader : r # t => pc'[r] = pc[r] /\ gen'[r] = gen[r] /\ pinned'[r] = pinned[r]
      BY <1>3, <2>1, ThreadRoles
    <3>3. gen[t] \in pinned'[t] /\ gen[t] \notin pinned[t]
      BY <1>3
    <3>4. \A r : r \in PinnedBy(s)' <=> (r \in PinnedBy(s) \/ r = t)
      BY <2>2, <3>1, <3>2, <3>3 DEF PinnedBy
    <3>5. t \notin PinnedBy(s)
      BY <2>2, <3>1, <3>3 DEF PinnedBy
    <3> QED BY <3>4, <3>5
  <2>6. Cardinality(PinnedBy(s) \cup {t}) = Cardinality(PinnedBy(s)) + 1
    BY <2>5, PinnedFinite, FS_AddElement
  <2>7. ASSUME NEW q \in Slot PROVE Dropped(q)' <=> Dropped(q)
    BY <1>2, <1>3, <2>1, ThreadRoles DEF Dropped, SamePlaces, SameTurns
  <2>8. refs'[s] = Cardinality(PinnedBy(s)') + (IF Dropped(s) THEN 0 ELSE 1)
    <3>1. refs'[s] = refs[s] + 1
      BY <1>3, <2>3
    <3>2. refs[s] = Cardinality(PinnedBy(s)) + (IF Dropped(s) THEN 0 ELSE 1)
      BY <1>1 DEF RefsInv
    <3>3. Cardinality(PinnedBy(s)') = Cardinality(PinnedBy(s)) + 1
      BY <2>5, <2>6
    <3>4. Cardinality(PinnedBy(s)) \in Nat
      BY PinnedFinite
    <3> QED BY <3>1, <3>2, <3>3, <3>4
  <2>9. ASSUME NEW q \in Slot, q # s
        PROVE  refs'[q] = Cardinality(PinnedBy(q)') + (IF Dropped(q) THEN 0 ELSE 1)
    BY <1>1, <1>3, <2>3, <2>4, <2>9 DEF RefsInv
  <2> QED BY <2>7, <2>8, <2>9 DEF RefsInv
<1>12. ReadersInv'
  <2>1. \A u \in Thread : u # t => pc'[u] = pc[u] /\ gen'[u] = gen[u]
    BY <1>1, <1>3 DEF Moves, TypeOK
  <2>2. pc'[t] = "iter_init" /\ gen'[t] = gen[t] - 1
    BY <1>1, <1>2, <1>3 DEF Moves, TypeOK
  <2>3. \A r \in Reader : r \in Thread
    BY ThreadRoles
  <2>4. \A g \in pinned[t] : g \in Nat /\ gen[t] < g
    BY <1>1, <1>2, <1>3 DEF ReadersInv, TypeOK
  <2>5. gen[t] \in Int /\ generation_retired \in Int /\ generation \in Int
    BY <1>1, <1>2 DEF TypeOK
  <2>9. \A g \in pinned'[t] : g \in pinned[t] \/ g = gen[t]
    BY <1>2, <1>3
  <2>10. \A g \in pinned'[t] : gen[t] - 1 < g
    BY <2>4, <2>5, <2>9
  <2>6. generation_retired <= gen[t] - 1 /\ gen[t] - 1 <= generation /\ \A g \in pinned'[t] : gen[t] - 1 < g
    BY <1>3, <2>5, <2>10
  <2>7. \A r \in Reader : r # t => pinned'[r] = pinned[r]
    BY <1>3
  <2>8. \A g \in pinned'[t] : mt_generation[SlotOf(g)] = g
    BY <1>1, <1>2, <1>3 DEF ReadersInv
  <2> QED
    BY <1>1, <1>2, <1>3, <2>1, <2>2, <2>3, <2>6, <2>7, <2>8
    DEF ReadersInv, SamePlaces, SameTurns
<1>13. RecycleInv'
  <2>1. \A u \in Thread : u # t => pc'[u] = pc[u] /\ gen'[u] = gen[u]
    BY <1>1, <1>3 DEF Moves, TypeOK
  <2>2. pc'[t] = "iter_init"
    BY <1>1, <1>2, <1>3 DEF Moves, TypeOK
  <2>3. \A u \in Thread : SlotOf(gen[u]) \in Slot
    BY <1>1, SlotsTyped
  <2>4. \A u \in Thread : pc[u] = "recycle" => SlotOf(gen[u]) # SlotOf(gen[t])
    BY <1>1, <1>3 DEF RecycleInv, InState
  <2> QED
    BY <1>1, <1>3, <2>1, <2>2, <2>3, <2>4
    DEF RecycleInv, InState, SamePlaces, SameTurns
<1>14. ContentInv'
  BY <1>1, <1>2, <1>3, ContentFrame DEF SamePlaces, SameTurns
<1> QED
  BY <1>4, <1>5, <1>6, <1>7, <1>8, <1>9, <1>10, <1>11, <1>12, <1>13, <1>14
  DEF IInv

LEMMA IteratorDropKeeps ==
    ASSUME IInv, NEW t \in Reader, IteratorDrop(t)
    PROVE  IInv'
<1>1. /\ TypeOK /\ RoleInv /\ LocksInv /\ SlotsInv /\ InsertsInv /\ CompactInv
      /\ TurnInv /\ RefsInv /\ ReadersInv /\ RecycleInv /\ ContentInv
  BY DEF IInv
<1>2. t \in Thread /\ t \notin Flusher /\ t \notin Writer /\ t \notin Worker
  BY ThreadRoles, MemtableAssumption DEF Flusher, Thread
<1>3. /\ "dec_ref" \in PC
      /\ Moves(t, "dec_ref")
      /\ pc[t] = "drop" /\ gen'[t] \in pinned[t] /\ gen'[t] \in Nat /\ gen' = [gen EXCEPT ![t] = gen'[t]]
      /\ \A r \in Reader : pinned'[r] = IF r = t THEN pinned[r] \ {gen'[t]} ELSE pinned[r]
      /\ pinned' \in [Reader -> SUBSET Nat]
      /\ SamePlaces /\ SameTurns
      /\ UNCHANGED <<closing, full, is_empty, content, queue, refs>>
      /\ UNCHANGED <<insert_lock, lookup_lock>>
  <2>1. pc[t] = "drop" /\ pc' = [pc EXCEPT ![t] = "dec_ref"]
    BY DEF IteratorDrop, Goto
  <2>2. PICK g \in pinned[t] : gen' = [gen EXCEPT ![t] = g] /\ pinned' = [pinned EXCEPT ![t] = @ \ {g}]
    BY DEF IteratorDrop
  <2>3. gen'[t] = g /\ g \in Nat
    BY <1>1, <1>2, <2>2 DEF TypeOK
  <2>4. \A r \in Reader : pinned'[r] = IF r = t THEN pinned[r] \ {gen'[t]} ELSE pinned[r]
    BY <1>1, <1>2, <2>2, <2>3 DEF TypeOK
  <2>5. pinned' \in [Reader -> SUBSET Nat]
    <3>1. pinned[t] \ {g} \in SUBSET Nat /\ pinned \in [Reader -> SUBSET Nat]
      BY <1>1, <1>2 DEF TypeOK
    <3> QED BY <2>2, <3>1
  <2>6. /\ "dec_ref" \in PC /\ Moves(t, "dec_ref")
    BY <1>1, <1>2, <2>1, <2>2 DEF Moves, PC, TypeOK
  <2>7. /\ SamePlaces /\ SameTurns
        /\ UNCHANGED <<closing, full, is_empty, content, queue, refs>> /\ UNCHANGED <<insert_lock,
                                                                                      lookup_lock>>
    BY DEF IteratorDrop, SamePlaces, SameTurns, ctxtVars, slotVars, dataVars,
           rootVars, lockVars, readVars, histVars
  <2> QED BY <2>1, <2>2, <2>3, <2>4, <2>5, <2>6, <2>7

<1>4. TypeOK'
  <2>1. gen' \in [Thread -> Nat \cup {-1}]
    BY <1>1, <1>3 DEF TypeOK
  <2>2. pc' \in [Thread -> PC]
    BY <1>1, <1>3 DEF Moves, TypeOK
  <2> QED
    BY <1>1, <1>3, <2>1, <2>2
    DEF IteratorDrop, TypeOK, Insert!Modes, Lookup!Modes, ctxtVars, slotVars,
        dataVars, rootVars, lockVars, readVars, histVars
<1>5. RoleInv'
  BY <1>1, <1>2, <1>3, RoleFrame
  DEF RoleInv, PC, TaskPC, Turn, Compacting, Incorporating, Incorporated,
      CallPC, ReaderPC
<1>6. LocksInv'
  BY <1>1, <1>2, <1>3, LocksFrame DEF InsertMode, LookupMode
<1>7. SlotsInv'
  BY <1>1, <1>2, <1>3, SlotsFrame DEF SamePlaces, SameTurns
<1>8. InsertsInv'
  BY <1>1, <1>2, <1>3, InsertsFrame DEF SamePlaces, SameTurns
<1>9. CompactInv'
  BY <1>1, <1>2, <1>3, CompactFrame DEF SamePlaces, SameTurns
<1>10. TurnInv'
  BY <1>1, <1>2, <1>3, TurnFrame
  DEF SamePlaces, SameTurns, Turn, Incorporating, Incorporated
<1>11. RefsInv'
  <2>1. \A u \in Thread : u # t => pc'[u] = pc[u] /\ gen'[u] = gen[u]
    BY <1>1, <1>3 DEF Moves, TypeOK
  <2>2. pc'[t] = "dec_ref" /\ pc[t] = "drop"
    BY <1>1, <1>2, <1>3 DEF Moves, TypeOK
  <2>3. ASSUME NEW q \in Slot PROVE PinnedBy(q)' = PinnedBy(q)
    <3>1. mt_generation'[q] = mt_generation[q]
      BY <1>3 DEF SamePlaces
    <3>2. \A r \in Reader : r # t => pc'[r] = pc[r] /\ gen'[r] = gen[r] /\ pinned'[r] = pinned[r]
      BY <1>3, <2>1, ThreadRoles
    <3>3. (mt_generation[q] \in pinned'[t] \/ gen'[t] = mt_generation[q]) <=> mt_generation[q] \in pinned[t]
      BY <1>2, <1>3
    <3>4. \A r : r \in PinnedBy(q)' <=> r \in PinnedBy(q)
      BY <2>2, <3>1, <3>2, <3>3 DEF PinnedBy
    <3> QED BY <3>4
  <2>4. ASSUME NEW q \in Slot PROVE Dropped(q)' <=> Dropped(q)
    BY <1>2, <1>3, <2>1, ThreadRoles DEF Dropped, SamePlaces, SameTurns
  <2> QED BY <1>1, <1>3, <2>3, <2>4 DEF RefsInv
<1>12. ReadersInv'
  <2>1. \A u \in Thread : u # t => pc'[u] = pc[u] /\ gen'[u] = gen[u]
    BY <1>1, <1>3 DEF Moves, TypeOK
  <2>2. pc'[t] = "dec_ref"
    BY <1>1, <1>2, <1>3 DEF Moves, TypeOK
  <2>3. \A r \in Reader : r \in Thread
    BY ThreadRoles
  <2>4. mt_generation[SlotOf(gen'[t])] = gen'[t] /\ gen'[t] >= 0 /\ gen'[t] \notin pinned'[t]
    BY <1>1, <1>2, <1>3 DEF ReadersInv
  <2>5. \A g \in pinned'[t] : mt_generation[SlotOf(g)] = g
    BY <1>1, <1>2, <1>3 DEF ReadersInv
  <2>6. \A r \in Reader : r # t => pinned'[r] = pinned[r]
    BY <1>3
  <2>7. SlotOf(gen[t])' = SlotOf(gen'[t])
    BY DEF SlotOf
  <2> QED
    BY <1>1, <1>2, <1>3, <2>1, <2>2, <2>3, <2>4, <2>5, <2>6, <2>7
    DEF ReadersInv, SamePlaces, SameTurns
<1>13. RecycleInv'
  BY <1>1, <1>2, <1>3, RecycleFrame DEF SamePlaces, SameTurns
<1>14. ContentInv'
  BY <1>1, <1>2, <1>3, ContentFrame DEF SamePlaces, SameTurns
<1> QED
  BY <1>4, <1>5, <1>6, <1>7, <1>8, <1>9, <1>10, <1>11, <1>12, <1>13, <1>14
  DEF IInv

LEMMA RotateKeeps ==
    ASSUME IInv, NEW t \in Writer, Rotate(t)
    PROVE  IInv'
<1>1. /\ TypeOK /\ RoleInv /\ LocksInv /\ SlotsInv /\ InsertsInv /\ CompactInv
      /\ TurnInv /\ RefsInv /\ ReadersInv /\ RecycleInv /\ ContentInv
  BY DEF IInv
<1>2. t \in Thread /\ t \in Flusher /\ t \notin Reader /\ t \notin Worker
  BY ThreadRoles, MemtableAssumption DEF Flusher, Thread
<1>3. /\ "process" \in PC
      /\ Moves(t, "process")
      /\ pc[t] = "rotate" /\ gen[t] = generation /\ gen' = gen
      /\ Advances /\ Ready(generation + 1)
      /\ SlotOf(generation) \in Slot /\ state[SlotOf(generation)] = "READY" /\ full[SlotOf(generation)]
      /\ insert_lock[t] = "write" /\ lookup_lock' = lookup_lock /\ insert_lock' = [insert_lock EXCEPT ![t] = "none"]
      /\ is_empty' = TRUE
      /\ UNCHANGED <<closing, full, queue, refs, pinned, content>>
  <2>1. pc[t] = "rotate" /\ gen[t] = generation /\ Ready(generation + 1) /\ full[SlotOf(generation)]
    BY <1>1, <1>2 DEF Rotate, Goto, InsertsInv
  <2>2. ~closing
    BY <1>1, <1>2, <2>1
    DEF RoleInv, TaskPC, Turn, Compacting, Incorporating, Incorporated
  <2>3. SlotOf(generation) \in Slot /\ state[SlotOf(generation)] = "READY"
    BY <1>1, <2>2, CurrentInPlace
  <2>4. \A q \in Slot : state'[q] = IF q = SlotOf(generation) THEN "FINALIZED" ELSE state[q]
    BY <1>1, <2>1, <2>3 DEF Rotate, Transition, TypeOK
  <2> QED
    BY <1>1, <1>2, <2>1, <2>2, <2>3, <2>4
    DEF Rotate, Goto, Moves, Advances, PC, TypeOK, Insert!Get, Insert!Unget,
        Insert!Claim, Insert!Lock, Insert!Drained, Insert!FullUnlock,
        Insert!Move, Insert!Claims, ctxtVars, slotVars, dataVars, rootVars,
        lockVars, readVars, histVars
<1>4. TypeOK'
  <2>1. pc' \in [Thread -> PC]
    BY <1>1, <1>3 DEF Moves, TypeOK
  <2>2. state' \in [Slot -> States] /\ generation + 1 \in Nat
    BY <1>1, <1>3 DEF Rotate, Transition, TypeOK, States
  <2>3. insert_lock' \in [Thread -> Insert!Modes]
    BY <1>1, <1>3 DEF TypeOK, Insert!Modes
  <2> QED
    BY <1>1, <1>3, <2>1, <2>2, <2>3
    DEF Rotate, Advances, TypeOK, ctxtVars, slotVars, dataVars, rootVars,
        lockVars, readVars, histVars
<1>5. RoleInv'
  BY <1>1, <1>2, <1>3, RoleFrame
  DEF RoleInv, PC, TaskPC, Turn, Compacting, Incorporating, Incorporated,
      CallPC, ReaderPC
<1>6. LocksInv'
  BY <1>1, <1>2, <1>3
  DEF LocksInv, TypeOK, Moves, InsertMode, LookupMode, Insert!Claims,
      Lookup!Claims
<1>7. SlotsInv'
  BY <1>1, <1>3, SlotsAdvance
<1>8. InsertsInv'
  <2>1. \A w \in Writer : w \in Thread /\ (w # t => pc'[w] = pc[w] /\ insert_lock[w] = "none")
    BY <1>1, <1>2, <1>3, ThreadRoles DEF Moves, TypeOK, LocksInv
  <2>2. \A w \in Writer : w # t => pc[w] \notin {"check", "insert", "lock", "drain", "rotate"}
    BY <1>1, <2>1 DEF LocksInv, InsertMode
  <2>3. pc'[t] = "process"
    BY <1>1, <1>2, <1>3 DEF Moves, TypeOK
  <2> QED BY <2>1, <2>2, <2>3 DEF InsertsInv
<1>9. CompactInv'
  BY <1>1, <1>3, CompactAdvance
<1>10. TurnInv'
  BY <1>1, <1>2, <1>3, TurnFrame
  DEF Advances, Turn, Incorporating, Incorporated
<1>11. RefsInv'
  BY <1>1, <1>2, <1>3, RefsFrame DEF Advances
<1>12. ReadersInv'
  <2>1. \A r \in Reader : r \in Thread /\ pc'[r] = pc[r] /\ gen'[r] = gen[r]
    BY <1>1, <1>2, <1>3, ThreadRoles DEF TypeOK, Moves
  <2>2. \A r \in Reader : gen[r] \in Int
    BY <1>1, <2>1 DEF TypeOK
  <2>3. generation \in Int /\ generation' = generation + 1
    BY <1>1, <1>3 DEF TypeOK, Advances
  <2>4. \A r \in Reader : gen[r] <= generation => gen[r] <= generation'
    BY <2>2, <2>3
  <2> QED BY <1>1, <1>3, <2>1, <2>4 DEF ReadersInv, Advances
<1>13. RecycleInv'
  BY <1>1, <1>2, <1>3, RecycleAdvance
<1>14. ContentInv'
  <2>1. content[SlotOf(generation)] # <<>>
    BY <1>1, <1>3 DEF ContentInv
  <2> QED BY <1>1, <1>3, <2>1 DEF ContentInv, Advances
<1> QED
  BY <1>4, <1>5, <1>6, <1>7, <1>8, <1>9, <1>10, <1>11, <1>12, <1>13, <1>14
  DEF IInv

LEMMA CloseEmptyKeeps ==
    ASSUME IInv, NEW t \in Writer, CloseEmpty(t)
    PROVE  IInv'
<1>1. /\ TypeOK /\ RoleInv /\ LocksInv /\ SlotsInv /\ InsertsInv /\ CompactInv
      /\ TurnInv /\ RefsInv /\ ReadersInv /\ RecycleInv /\ ContentInv
  BY DEF IInv
<1>2. t \in Thread /\ t \in Flusher /\ t \notin Reader /\ t \notin Worker
  BY ThreadRoles, MemtableAssumption DEF Flusher, Thread
<1>3. /\ "quiesce" \in PC
      /\ Moves(t, "quiesce")
      /\ \A u \in Reader \cup Writer : pc[u] = "idle"
      /\ ~closing /\ closing' = TRUE /\ is_empty /\ gen' = gen
      /\ SamePlaces /\ SameTurns
      /\ UNCHANGED <<is_empty, full, queue, refs, pinned, content>>
      /\ UNCHANGED <<insert_lock, lookup_lock>>
  <2>1. \A u \in Reader \cup Writer : pc[u] = "idle"
    BY DEF CloseEmpty, CallsReturned
  <2> QED
    BY <1>1, <1>2, <2>1
    DEF CloseEmpty, Goto, Moves, PC, TypeOK, SamePlaces, SameTurns, ctxtVars,
        slotVars, dataVars, rootVars, lockVars, readVars, histVars
<1>4. TypeOK'
  BY <1>1, <1>2, <1>3
  DEF CloseEmpty, Goto, TypeOK, PC, Insert!Modes, Lookup!Modes, ctxtVars,
      slotVars, dataVars, rootVars, lockVars, readVars, histVars
<1>5. RoleInv'
  <2>1. \A u \in Reader \cup Writer : pc[u] = "idle"
    BY <1>3
  <2>2. \A u \in Thread : pc'[u] = IF u = t THEN "quiesce" ELSE pc[u]
    BY <1>1, <1>3 DEF TypeOK, Moves
  <2>3. \A u \in Reader \cup Writer \cup Worker : u \in Thread
    BY DEF Thread
  <2> QED BY <1>1, <1>2, <1>3, <2>1, <2>2, <2>3 DEF RoleInv
<1>6. LocksInv'
  BY <1>1, <1>2, <1>3, LocksFrame DEF InsertMode, LookupMode
<1>7. SlotsInv'
  BY <1>1, <1>3 DEF SlotsInv, SamePlaces, SameTurns
<1>8. InsertsInv'
  <2>1. \A u \in Writer : pc[u] = "idle" /\ u \in Thread
    BY <1>3, ThreadRoles
  <2>2. \A u \in Writer : pc'[u] \in {"idle", "quiesce"}
    BY <1>1, <1>3, <2>1 DEF TypeOK, Moves
  <2> QED BY <2>2 DEF InsertsInv
<1>9. CompactInv'
  BY <1>1, <1>2, <1>3, CompactFrame DEF SamePlaces, SameTurns
<1>10. TurnInv'
  BY <1>1, <1>2, <1>3, TurnFrame
  DEF SamePlaces, SameTurns, Turn, Incorporating, Incorporated
<1>11. RefsInv'
  BY <1>1, <1>2, <1>3, RefsFrame DEF SamePlaces, SameTurns
<1>12. ReadersInv'
  BY <1>1, <1>2, <1>3, ReadersFrame DEF SamePlaces, SameTurns
<1>13. RecycleInv'
  BY <1>1, <1>2, <1>3, RecycleFrame DEF SamePlaces, SameTurns
<1>14. ContentInv'
  BY <1>1, <1>3 DEF ContentInv, SamePlaces, SameTurns
<1> QED
  BY <1>4, <1>5, <1>6, <1>7, <1>8, <1>9, <1>10, <1>11, <1>12, <1>13, <1>14
  DEF IInv

LEMMA CloseFlushKeeps ==
    ASSUME IInv, NEW t \in Writer, CloseFlush(t)
    PROVE  IInv'
<1>1. /\ TypeOK /\ RoleInv /\ LocksInv /\ SlotsInv /\ InsertsInv /\ CompactInv
      /\ TurnInv /\ RefsInv /\ ReadersInv /\ RecycleInv /\ ContentInv
  BY DEF IInv
<1>2. t \in Thread /\ t \in Flusher /\ t \notin Reader /\ t \notin Worker
  BY ThreadRoles, MemtableAssumption DEF Flusher, Thread
<1>3. /\ "quiesce" \in PC
      /\ Moves(t, "quiesce")
      /\ \A u \in Reader \cup Writer : pc[u] = "idle"
      /\ closing' = TRUE /\ ~is_empty /\ is_empty' = TRUE /\ gen' = gen
      /\ Advances
      /\ SlotOf(generation) \in Slot /\ state[SlotOf(generation)] = "READY"
      /\ queue' = Append(queue, generation)
      /\ UNCHANGED <<full, refs, pinned, content>>
      /\ UNCHANGED <<insert_lock, lookup_lock>>
  <2>1. \A u \in Reader \cup Writer : pc[u] = "idle"
    BY DEF CloseFlush, CallsReturned
  <2>2. ~closing
    BY DEF CloseFlush
  <2>3. SlotOf(generation) \in Slot /\ state[SlotOf(generation)] = "READY"
    BY <1>1, <2>2, CurrentInPlace
  <2>4. \A q \in Slot : state'[q] = IF q = SlotOf(generation) THEN "FINALIZED" ELSE state[q]
    BY <1>1, <2>3 DEF CloseFlush, Transition, TypeOK
  <2> QED
    BY <1>1, <1>2, <2>1, <2>2, <2>3, <2>4
    DEF CloseFlush, Goto, Moves, Advances, PC, TypeOK, ctxtVars, slotVars,
        dataVars, rootVars, lockVars, readVars, histVars
<1>4. TypeOK'
  <2>1. pc' \in [Thread -> PC]
    BY <1>1, <1>3 DEF Moves, TypeOK
  <2>2. state' \in [Slot -> States] /\ generation + 1 \in Nat
    BY <1>1, <1>3 DEF CloseFlush, Transition, TypeOK, States
  <2>3. queue' \in Seq(Nat)
    BY <1>1, <1>3 DEF TypeOK
  <2>4. aborted' \in BOOLEAN
    BY DEF CloseFlush
  <2> QED
    BY <1>1, <1>3, <2>1, <2>2, <2>3, <2>4
    DEF CloseFlush, Advances, TypeOK, Insert!Modes, Lookup!Modes, ctxtVars,
        slotVars, dataVars, rootVars, lockVars, readVars, histVars
<1>5. RoleInv'
  <2>1. \A u \in Reader \cup Writer : pc[u] = "idle"
    BY <1>3
  <2>2. \A u \in Thread : pc'[u] = IF u = t THEN "quiesce" ELSE pc[u]
    BY <1>1, <1>3 DEF TypeOK, Moves
  <2>3. \A u \in Reader \cup Writer \cup Worker : u \in Thread
    BY DEF Thread
  <2> QED BY <1>1, <1>2, <1>3, <2>1, <2>2, <2>3 DEF RoleInv
<1>6. LocksInv'
  BY <1>1, <1>2, <1>3, LocksFrame DEF InsertMode, LookupMode
<1>7. SlotsInv'
  BY <1>1, <1>3, SlotsAdvance
<1>8. InsertsInv'
  <2>1. \A u \in Writer : pc[u] = "idle" /\ u \in Thread
    BY <1>3, ThreadRoles
  <2>2. \A u \in Writer : pc'[u] \in {"idle", "quiesce"}
    BY <1>1, <1>3, <2>1 DEF TypeOK, Moves
  <2> QED BY <2>2 DEF InsertsInv
<1>9. CompactInv'
  BY <1>1, <1>3, CompactAdvance
<1>10. TurnInv'
  BY <1>1, <1>2, <1>3, TurnFrame
  DEF Advances, Turn, Incorporating, Incorporated
<1>11. RefsInv'
  BY <1>1, <1>2, <1>3, RefsFrame DEF Advances
<1>12. ReadersInv'
  <2>1. \A r \in Reader : r \in Thread /\ pc'[r] = pc[r] /\ gen'[r] = gen[r] /\ pc[r] = "idle"
    BY <1>1, <1>2, <1>3, ThreadRoles DEF TypeOK, Moves
  <2> QED BY <1>1, <1>3, <2>1 DEF ReadersInv, Advances
<1>13. RecycleInv'
  BY <1>1, <1>2, <1>3, RecycleAdvance
<1>14. ContentInv'
  <2>1. content[SlotOf(generation)] # <<>>
    BY <1>1, <1>3 DEF ContentInv
  <2> QED BY <1>1, <1>3, <2>1 DEF ContentInv, Advances
<1> QED
  BY <1>4, <1>5, <1>6, <1>7, <1>8, <1>9, <1>10, <1>11, <1>12, <1>13, <1>14
  DEF IInv

-----------------------------------------------------------------------------
(* The invariant holds in every reachable state. *)

(* The initial state.                                                      *)
LEMMA InitInvariant == MemtableInit => IInv
<1> SUFFICES ASSUME MemtableInit PROVE IInv
  OBVIOUS
<1>1. NumMemtables \in Nat /\ NumMemtables >= 2
  BY MemtableAssumption
<1>2. \A t \in Thread : pc[t] = "idle" /\ gen[t] = 0 /\ insert_lock[t] = "none" /\ lookup_lock[t] = "none"
  BY DEF MemtableInit
<1>3. \A t \in Flusher \cup Reader \cup Writer \cup Worker : t \in Thread
  BY ThreadRoles
<1>4. \A s \in Slot : s \in Int /\ 0 <= s /\ s < NumMemtables /\ SlotOf(s) = s
  BY <1>1 DEF Slot, SlotOf
<1>5. \A s \in Slot : /\ state[s] = "READY" /\ mt_generation[s] = s /\ refs[s] = 1
                      /\ full[s] = FALSE /\ content[s] = <<>>
  BY DEF MemtableInit
<1>6. queue = <<>> /\ DOMAIN queue = {}
  BY DEF MemtableInit
<1>7. TypeOK
  <2>1. \A s \in Slot : s \in Nat
    BY <1>1 DEF Slot
  <2>2. [s \in Slot |-> s] \in [Slot -> Nat]
    BY <2>1
  <2>3. <<>> \in Seq(Message) /\ <<>> \in Seq(Nat)
    OBVIOUS
  <2> QED
    BY <2>2, <2>3
    DEF MemtableInit, TypeOK, States, PC, Insert!Modes, Lookup!Modes
<1>8. RoleInv
  BY <1>2, <1>3 DEF RoleInv, ReaderPC
<1>9. LocksInv
  BY <1>2 DEF LocksInv, InsertMode, LookupMode, Insert!Claims, Lookup!Claims
<1>10. SlotsInv
  <2>1. SlotOf(0) \in Slot
    BY SlotType
  <2>2. Ready(generation)
    BY <1>5, <2>1 DEF MemtableInit, Ready
  <2>3. generation_retired < generation /\ generation_to_incorporate \in {generation_retired, generation_retired + 1}
    BY DEF MemtableInit
  <2>4. \A s \in Slot : generation - NumMemtables <= s /\ s <= generation_retired + NumMemtables /\ s >= generation
    BY <1>1, <1>4 DEF MemtableInit
  <2> QED BY <1>4, <1>5, <2>2, <2>3, <2>4 DEF SlotsInv, Behind
<1>11. InsertsInv
  BY <1>2, <1>3 DEF InsertsInv
<1>12. CompactInv
  BY <1>2, <1>3, <1>6 DEF CompactInv, Compacting
<1>13. TurnInv
  BY <1>2, <1>3 DEF TurnInv, Turn, Incorporating, Incorporated
<1>14. \A r \in Reader : pinned[r] = {}
  BY DEF MemtableInit
<1>15. RefsInv
  <2> SUFFICES ASSUME NEW s \in Slot
               PROVE  refs[s] = Cardinality(PinnedBy(s)) + (IF Dropped(s) THEN 0 ELSE 1)
    BY DEF RefsInv
  <2>1. PinnedBy(s) = {}
    BY <1>2, <1>3, <1>14 DEF PinnedBy
  <2>2. ~Dropped(s)
    BY <1>5 DEF Dropped
  <2>3. Cardinality(PinnedBy(s)) = 0
    BY <2>1, PinnedFinite
  <2> QED BY <1>5, <2>2, <2>3
<1>16. ReadersInv
  BY <1>2, <1>3, <1>14 DEF ReadersInv
<1>17. RecycleInv
  BY <1>2 DEF RecycleInv
<1>18. ContentInv
  BY <1>5 DEF ContentInv, MemtableInit
<1> QED
  BY <1>7, <1>8, <1>9, <1>10, <1>11, <1>12, <1>13, <1>15, <1>16, <1>17, <1>18
  DEF IInv

(* Nothing happens.                                                        *)
LEMMA StutterKeeps == ASSUME IInv, UNCHANGED memtableVars PROVE IInv'
<1> USE DEF memtableVars, ctxtVars, slotVars, dataVars, rootVars, lockVars,
            readVars, histVars
<1>1. TypeOK'
  BY DEF IInv, TypeOK, Insert!Modes, Lookup!Modes
<1>2. RoleInv' /\ InsertsInv' /\ ContentInv' /\ SlotsInv'
  BY DEF IInv, RoleInv, InsertsInv, Ready, ContentInv, SlotsInv
<1>3. LocksInv'
  BY DEF IInv, LocksInv, Insert!Claims, Lookup!Claims
<1>4. CompactInv' /\ TurnInv' /\ ReadersInv' /\ RecycleInv'
  BY DEF IInv, CompactInv, TurnInv, ReadersInv, RecycleInv, InState
<1>5. RefsInv'
  <2>1. \A s \in Slot : PinnedBy(s)' = PinnedBy(s)
    BY DEF PinnedBy
  <2>2. \A s \in Slot : Dropped(s)' <=> Dropped(s)
    BY DEF Dropped
  <2> QED BY <2>1, <2>2 DEF IInv, RefsInv
<1> QED BY <1>1, <1>2, <1>3, <1>4, <1>5 DEF IInv

(* The steps of an insert and of a close.                                  *)
LEMMA WriterStepKeeps == ASSUME IInv, NEW w \in Writer, WriterStep(w) PROVE IInv'
<1>1. ASSUME LockRotation(w) PROVE IInv'
  <2>1. pc[w] = "lock" \/ pc[w] = "drain"
    BY <1>1 DEF LockRotation, Goto
  <2> QED BY <1>1, <2>1, LockRotationKeeps, DrainRotationKeeps
<1> QED
  BY <1>1, BeginInsertKeeps, BackOffKeeps, BusyKeeps, BusyRetryKeeps,
     ClaimRotationKeeps, RotateKeeps,
       ProcessKeeps, MayInsertKeeps, InsertMsgKeeps, EndInsertKeeps, CloseDoneKeeps DEF WriterStep

(* The steps of the flush task.                                            *)
LEMMA TaskStepKeeps == ASSUME IInv, NEW t \in Writer \cup Worker, TaskStep(t) PROVE IInv'
<1>1. t \in Flusher /\ t \in Thread
  BY DEF Flusher, Thread
<1>2. ASSUME BlockLookups(t) PROVE IInv'
  <2>1. pc[t] = "block" \/ pc[t] = "block_lock" \/ pc[t] = "block_drain"
    BY <1>2 DEF BlockLookups, Goto
  <2> QED
    BY <1>1, <1>2, <2>1, BlockLookupsKeeps, LockLookupsKeeps, DrainLookupsKeeps
<1>3. ASSUME DecRef(t) PROVE IInv'
  BY <1>1, <1>3, LastDecRefKeeps, DecRefKeeps
<1>4. ASSUME TryContinue(t) PROVE IInv'
  BY <1>1, <1>4, TryContinueKeeps, TryContinueLostKeeps
<1> QED
  BY <1>1, <1>2, <1>3, <1>4, TakeTaskKeeps, StartCompactKeeps,
     FinishCompactKeeps, TryStartKeeps,
       TryStartLostKeeps, CopyRootKeeps, RetireKeeps, SwitchRootKeeps, UnblockLookupsKeeps, RecycleKeeps,
       MakeReadyKeeps DEF TaskStep

(* The steps of lookups and iterators.                                     *)
LEMMA ReaderStepKeeps == ASSUME IInv, NEW r \in Reader, ReaderStep(r) PROVE IInv'
<1>1. r \in Thread
  BY DEF Thread
<1>2. ASSUME LookupMemtable(r) PROVE IInv'
  <2>1. pc'[r] = "found" \/ pc' = pc
    BY <1>1, <1>2 DEF LookupMemtable, Goto, IInv, TypeOK
  <2> QED BY <1>2, <2>1, LookupFoundKeeps, LookupMemtableKeeps
<1>3. ASSUME DecRef(r) PROVE IInv'
  BY <1>3, LastReaderDecRefKeeps, ReaderDecRefKeeps
<1>4. ASSUME PinMemtable(r) PROVE IInv'
  BY <1>4, PassCompactedKeeps, PinMemtableKeeps
<1> QED
  BY <1>1, <1>2, <1>3, <1>4, LookupTrunkKeeps, LookupReturnKeeps,
     IteratorReadyKeeps, IteratorDropKeeps,
       IteratorDoneKeeps, RecycleKeeps, MakeReadyKeeps DEF ReaderStep

(* Every step keeps the invariant.                                         *)
LEMMA NextKeeps == ASSUME IInv, [MemtableNext]_memtableVars PROVE IInv'
<1>1. CASE UNCHANGED memtableVars
  BY <1>1, StutterKeeps
<1>2. ASSUME NEW w \in Writer, InsertCall(w) \/ CloseEmpty(w) \/ CloseFlush(w) \/ WriterStep(w)
      PROVE  IInv'
  BY <1>2, InsertCallKeeps, CloseEmptyKeeps, CloseFlushKeeps, WriterStepKeeps
<1>3. ASSUME NEW t \in Writer \cup Worker, TaskStep(t) PROVE IInv'
  BY <1>3, TaskStepKeeps
<1>4. ASSUME NEW r \in Reader, LookupCall(r) \/ IteratorInit(r) \/ ReaderStep(r)
      PROVE  IInv'
  BY <1>4, LookupCallKeeps, IteratorInitKeeps, ReaderStepKeeps
<1> QED BY <1>1, <1>2, <1>3, <1>4 DEF MemtableNext

(* The inductive invariant of memtable.c and of the memtable part of       *)
(* trunk.c: who is where, what each thread holds of the two locks, which   *)
(* generations the slots hold and in which states, who compacts, who has   *)
(* the turn to incorporate, and which references are on each memtable.     *)
THEOREM Invariance == MemtableSpec => []IInv
<1>1. MemtableInit => IInv
  BY InitInvariant
<1>2. IInv /\ [MemtableNext]_memtableVars => IInv'
  BY NextKeeps
<1> QED BY <1>1, <1>2, PTL DEF MemtableSpec

(* Every variable keeps its type; in particular                            *)
(* memtable_dec_ref_maybe_recycle takes no reference count below zero.     *)
THEOREM TypeCorrect == MemtableSpec => []TypeOK
<1>1. IInv => TypeOK
  BY DEF IInv
<1> QED BY <1>1, Invariance, PTL

(* trunk_range_iterator_init keeps what it has pinned: the memtable is in  *)
(* its slot, with a reference, until trunk_range_iterator_deinit drops it. *)
THEOREM PinnedStay == MemtableSpec => []PinnedMemtablesStay
<1>1. ASSUME IInv PROVE PinnedMemtablesStay
  <2> SUFFICES ASSUME NEW r \in Reader, NEW g \in pinned[r]
               PROVE  mt_generation[SlotOf(g)] = g /\ refs[SlotOf(g)] > 0
    BY DEF PinnedMemtablesStay
  <2>1. mt_generation[SlotOf(g)] = g
    BY <1>1 DEF IInv, ReadersInv
  <2>2. g \in Nat
    BY <1>1 DEF IInv, TypeOK
  <2>3. SlotOf(g) \in Slot
    BY <2>2, SlotType
  <2>4. r \in PinnedBy(SlotOf(g))
    BY <2>1 DEF PinnedBy
  <2>5. Cardinality(PinnedBy(SlotOf(g))) \in Nat \ {0}
    BY <2>4, PinnedFinite
  <2>6. refs[SlotOf(g)] = Cardinality(PinnedBy(SlotOf(g))) + (IF Dropped(SlotOf(g)) THEN 0 ELSE 1)
    BY <1>1, <2>3 DEF IInv, RefsInv
  <2> QED BY <2>1, <2>5, <2>6
<1> QED BY <1>1, Invariance, PTL

(* When the next slot is ready, no generation it held is in use: the       *)
(* assertion of memtable_maybe_rotate_and_begin_insert.                    *)
LEMMA RotationHasRoom ==
    ASSUME TypeOK, SlotsInv, Ready(generation + 1), ~closing
    PROVE  generation + 1 - generation_retired <= NumMemtables
<1>1. /\ generation \in Int /\ generation_retired \in Int /\ NumMemtables \in Int
      /\ SlotOf(generation + 1) \in Slot
  BY MemtableAssumption, SlotsTyped DEF TypeOK
<1>2. PICK s \in Slot : s = SlotOf(generation + 1)
  BY <1>1
<1>3. mt_generation[s] \in Int
  BY DEF TypeOK
<1>4. /\ SlotOf(mt_generation[s]) = s /\ generation <= mt_generation[s]
      /\ mt_generation[s] <= generation_retired + NumMemtables /\ generation_retired < generation
  BY <1>2 DEF SlotsInv, Ready
<1>5. mt_generation[s] # generation
  BY <1>1, <1>2, <1>4, SlotNext
<1> QED BY <1>1, <1>3, <1>4, <1>5

(* Every thread finds the state its transition asserts.                    *)
LEMMA Expects == ASSUME IInv, NEW t \in Thread PROVE Expected(t)
<1>1. TypeOK /\ RoleInv /\ SlotsInv /\ InsertsInv /\ CompactInv /\ TurnInv /\ RecycleInv /\ ContentInv
  BY DEF IInv
<1>2. t \in Flusher \cup Reader /\ SlotOf(gen[t]) \in Slot
  BY <1>1, ThreadRoles, SlotsTyped
<1>3. t \in Reader => pc[t] \in ReaderPC
  BY <1>1 DEF RoleInv
<1>4. CASE pc[t] = "rotate"
  <2>1. t \in Writer
    BY <1>1, <1>2, <1>3, <1>4
    DEF RoleInv, ReaderPC, Flusher, TaskPC, Turn, Compacting, Incorporating,
        Incorporated
  <2>2. ~closing
    BY <1>1, <1>4, <2>1
    DEF RoleInv, TaskPC, Turn, Compacting, Incorporating, Incorporated
  <2>3. gen[t] = generation /\ Ready(generation + 1)
    BY <1>1, <1>4, <2>1 DEF InsertsInv
  <2> QED
    BY <1>1, <1>4, <2>2, <2>3, CurrentInPlace, RotationHasRoom
    DEF Expected
<1>5. CASE pc[t] = "compact"
  BY <1>1, <1>2, <1>3, <1>5 DEF Expected, CompactInv, InState, ReaderPC
<1>6. CASE pc[t] = "pack"
  BY <1>1, <1>2, <1>3, <1>6
  DEF Expected, CompactInv, InState, ReaderPC, ContentInv
<1>7. CASE pc[t] = "retire"
  BY <1>1, <1>2, <1>3, <1>7
  DEF Expected, TurnInv, InState, ReaderPC, Turn, Incorporating
<1>8. CASE pc[t] \in {"recycle", "ready"}
  BY <1>1, <1>8 DEF Expected, RecycleInv, InState
<1>9. CASE pc[t] = "continue"
  BY <1>1, <1>2, <1>3, <1>9 DEF Expected, TurnInv, ReaderPC, Turn, Incorporated
<1> QED BY <1>4, <1>5, <1>6, <1>7, <1>8, <1>9 DEF Expected

(* The platform_asserts of memtable_transition,                            *)
(* memtable_maybe_rotate_and_begin_insert, memtable_dec_ref_maybe_recycle  *)
(* and trunk_get_memtable never fail: every thread finds its memtable in   *)
(* its slot and in the state it expects.                                   *)
THEOREM StatesExpected == MemtableSpec => []ThreadsFindExpectedState
<1>1. ASSUME IInv PROVE ThreadsFindExpectedState
  <2> SUFFICES ASSUME NEW t \in Thread
               PROVE  /\ Expected(t)
                      /\ pc[t] \in {"compact", "pack", "claim_root", "block", "retire", "dec_ref", "recycle"}
                         => mt_generation[SlotOf(gen[t])] = gen[t]
                      /\ pc[t] \in {"lookup", "iter_init"} /\ gen[t] # generation_retired
                         => /\ gen[t] > generation_retired
                            /\ mt_generation[SlotOf(gen[t])] = gen[t]
                            /\ state[SlotOf(gen[t])] # "INCORPORATED"
    BY DEF ThreadsFindExpectedState
  <2>1. TypeOK /\ RoleInv /\ SlotsInv /\ CompactInv /\ TurnInv /\ ReadersInv /\ RecycleInv
    BY <1>1 DEF IInv
  <2>2. Expected(t)
    BY <1>1, Expects
  <2>3. t \in Flusher \cup Reader /\ (t \in Reader => pc[t] \in ReaderPC)
    BY <2>1, ThreadRoles DEF RoleInv
  <2>4. ASSUME pc[t] \in {"compact", "pack", "claim_root", "block", "retire", "dec_ref", "recycle"}
        PROVE  mt_generation[SlotOf(gen[t])] = gen[t]
    <3>1. CASE pc[t] = "recycle"
      BY <2>1, <3>1 DEF RecycleInv, InState
    <3>2. CASE t \in Reader
      BY <2>1, <2>3, <2>4, <3>1, <3>2 DEF ReadersInv, ReaderPC
    <3>3. CASE t \in Flusher
      BY <2>1, <2>4, <3>1, <3>3
      DEF CompactInv, TurnInv, InState, Turn, Incorporating, Incorporated
    <3> QED BY <2>3, <3>2, <3>3
  <2>5. ASSUME pc[t] \in {"lookup", "iter_init"}, gen[t] # generation_retired
        PROVE  /\ gen[t] > generation_retired
               /\ mt_generation[SlotOf(gen[t])] = gen[t]
               /\ state[SlotOf(gen[t])] # "INCORPORATED"
    <3>1. t \in Reader
      BY <2>1, <2>3, <2>5
      DEF RoleInv, Flusher, TaskPC, CallPC, Turn, Compacting, Incorporating,
          Incorporated
    <3>2. /\ generation_retired < gen[t]
          /\ mt_generation[SlotOf(gen[t])] = gen[t] /\ state[SlotOf(gen[t])] # "INCORPORATED"
      BY <2>1, <2>5, <3>1, WalkedInPlace
    <3>3. generation_retired \in Int /\ gen[t] \in Int
      BY <2>1 DEF TypeOK
    <3> QED BY <3>2, <3>3
  <2> QED BY <2>2, <2>4, <2>5
<1> QED BY <1>1, Invariance, PTL

-----------------------------------------------------------------------------
(* The messages a + 1 .. b of a history, as one tree has them: those before *)
(* the last definitive one are gone.                                        *)
Starts(h, a, b) == {i \in a + 1 .. b : h[i].definitive}
First(h, a, b) ==
    IF Starts(h, a, b) = {} THEN a + 1
    ELSE CHOOSE i \in Starts(h, a, b) : \A j \in Starts(h, a, b) : j <= i
SegmentOf(h, a, b) == SubSeq(h, First(h, a, b), b)

(* A finite set of positions has a last one.                               *)
LEMMA Latest ==
    ASSUME NEW b \in Nat, NEW S \in SUBSET (0 .. b), S # {}
    PROVE  \E i \in S : \A j \in S : j <= i
<1> DEFINE T == {b - i : i \in S}
<1>1. T \subseteq Nat /\ T # {}
  <2>1. \A i \in S : b - i \in Nat
    OBVIOUS
  <2>2. PICK i \in S : TRUE
    OBVIOUS
  <2>3. b - i \in T
    OBVIOUS
  <2> QED BY <2>1, <2>3
<1>2. PICK x \in T : \A y \in T : ~(<<y, x>> \in OpToRel(<, Nat))
  BY <1>1, NatLessThanWellFounded, WFMin
<1>3. \A y \in T : ~(y < x)
  BY <1>1, <1>2 DEF OpToRel
<1>4. PICK i \in S : x = b - i
  OBVIOUS
<1>5. ASSUME NEW j \in S PROVE j <= i
  <2>1. b - j \in T /\ ~(b - j < x)
    BY <1>3
  <2> QED BY <1>4, <2>1
<1> QED BY <1>5

(* Where a piece of the history starts to count.                           *)
LEMMA FirstShape ==
    ASSUME NEW h \in Seq(Message), NEW a \in Nat, NEW b \in a .. Len(h)
    PROVE  /\ First(h, a, b) \in a + 1 .. b + 1
           /\ Starts(h, a, b) # {} =>
                 /\ First(h, a, b) \in Starts(h, a, b)
                 /\ \A j \in Starts(h, a, b) : j <= First(h, a, b)
<1>1. CASE Starts(h, a, b) = {}
  BY <1>1 DEF First
<1>2. CASE Starts(h, a, b) # {}
  <2>1. Starts(h, a, b) \in SUBSET (0 .. b) /\ b \in Nat
    BY DEF Starts
  <2>2. \E i \in Starts(h, a, b) : \A j \in Starts(h, a, b) : j <= i
    BY <1>2, <2>1, Latest
  <2>3. /\ First(h, a, b) \in Starts(h, a, b)
        /\ \A j \in Starts(h, a, b) : j <= First(h, a, b)
    BY <1>2, <2>2 DEF First
  <2> QED BY <2>3 DEF Starts
<1> QED BY <1>1, <1>2

(* It starts to count at one place.                                        *)
LEMMA FirstUnique ==
    ASSUME NEW h \in Seq(Message), NEW a \in Nat, NEW b \in a .. Len(h),
           NEW i \in Starts(h, a, b), \A j \in Starts(h, a, b) : j <= i
    PROVE  First(h, a, b) = i
<1>1. First(h, a, b) \in Starts(h, a, b) /\ \A j \in Starts(h, a, b) : j <= First(h, a, b)
  BY FirstShape
<1>2. \A j \in Starts(h, a, b) : j \in Int
  BY DEF Starts
<1> QED BY <1>1, <1>2

(* A piece of the history is a tree, empty only if the piece is.           *)
LEMMA SegmentType ==
    ASSUME NEW h \in Seq(Message), NEW a \in Nat, NEW b \in a .. Len(h)
    PROVE  /\ SegmentOf(h, a, b) \in Seq(Message)
           /\ SegmentOf(h, a, b) = <<>> <=> a = b
           /\ a # b => SegmentOf(h, a, b)[1] = h[First(h, a, b)] /\ First(h, a, b) \in 1 .. Len(h)
<1> DEFINE f == First(h, a, b)
<1>1. f \in a + 1 .. b + 1 /\ f \in Int /\ b \in Int /\ Len(h) \in Nat
  BY FirstShape
<1>2. \A i \in f .. b : h[i] \in Message
  BY <1>1
<1>3. /\ SubSeq(h, f, b) \in Seq(Message)
      /\ Len(SubSeq(h, f, b)) = IF f <= b THEN b - f + 1 ELSE 0
      /\ \A i \in 1 .. b - f + 1 : SubSeq(h, f, b)[i] = h[f + i - 1]
  <2> HIDE DEF f
  <2> QED BY <1>1, <1>2, SubSeqProperties
<1>4. a # b => f <= b
  <2>1. Starts(h, a, b) = {} => f = a + 1
    BY DEF First
  <2>2. Starts(h, a, b) # {} => f \in a + 1 .. b
    BY FirstShape DEF Starts
  <2> QED BY <2>1, <2>2
<1>5. CASE a = b
  <2>1. Len(SubSeq(h, f, b)) = 0
    BY <1>1, <1>3, <1>5
  <2> QED BY <1>3, <1>5, <2>1 DEF SegmentOf
<1>6. CASE a # b
  <2> HIDE DEF f
  <2>1. Len(SubSeq(h, f, b)) > 0 /\ 1 \in 1 .. b - f + 1
    BY <1>1, <1>3, <1>4, <1>6
  <2>2. SubSeq(h, f, b)[1] = h[f] /\ SubSeq(h, f, b) # <<>>
    BY <1>1, <1>3, <2>1
  <2>3. f \in 1 .. Len(h)
    BY <1>1, <1>4, <1>6
  <2> QED BY <1>3, <1>6, <2>2, <2>3 DEF SegmentOf, f
<1> QED BY <1>5, <1>6

(* A tree with a definitive message starts with it.                        *)
LEMMA SegmentDefinitive ==
    ASSUME NEW h \in Seq(Message), NEW a \in Nat, NEW b \in a .. Len(h)
    PROVE  Definitive(SegmentOf(h, a, b)) <=> Starts(h, a, b) # {}
<1>1. CASE a = b
  BY <1>1, SegmentType DEF Definitive, Starts
<1>2. CASE a # b
  <2>1. SegmentOf(h, a, b) # <<>> /\ SegmentOf(h, a, b)[1] = h[First(h, a, b)]
    BY <1>2, SegmentType
  <2>2. First(h, a, b) \in a + 1 .. b + 1
    BY FirstShape
  <2>3. Starts(h, a, b) = {} => First(h, a, b) = a + 1 /\ a + 1 \in a + 1 .. b
    BY <1>2 DEF First
  <2>4. Starts(h, a, b) # {} => First(h, a, b) \in Starts(h, a, b)
    BY FirstShape
  <2> QED BY <2>1, <2>3, <2>4 DEF Definitive, Starts
<1> QED BY <1>1, <1>2

(* What is behind a definitive message is hidden. *)
LEMMA SegmentHides ==
    ASSUME NEW h \in Seq(Message), NEW a \in Nat, NEW b \in a .. Len(h), NEW c \in b .. Len(h),
           Starts(h, b, c) # {}
    PROVE  SegmentOf(h, a, c) = SegmentOf(h, b, c)
<1> DEFINE f == First(h, b, c)
<1>1. f \in Starts(h, b, c) /\ \A j \in Starts(h, b, c) : j <= f
  BY FirstShape
<1>2. f \in Starts(h, a, c)
  BY <1>1 DEF Starts
<1>3. ASSUME NEW j \in Starts(h, a, c) PROVE j <= f
  <2>1. CASE j \in Starts(h, b, c)
    BY <1>1, <2>1
  <2>2. CASE j \notin Starts(h, b, c)
    BY <1>1, <2>2 DEF Starts
  <2> QED BY <2>1, <2>2
<1>4. First(h, a, c) = f
  <2> HIDE DEF f
  <2>1. c \in a .. Len(h)
    OBVIOUS
  <2> QED BY <1>2, <1>3, <2>1, FirstUnique
<1> QED BY <1>4 DEF SegmentOf

(* Newer messages merged onto older ones are the messages of both. *)
LEMMA SegmentsMerge ==
    ASSUME NEW h \in Seq(Message), NEW a \in Nat, NEW b \in a .. Len(h), NEW c \in b .. Len(h)
    PROVE  Merge(SegmentOf(h, a, b), SegmentOf(h, b, c)) = SegmentOf(h, a, c)
<1>0. b \in Nat /\ c \in a .. Len(h) /\ Len(h) \in Nat
  OBVIOUS
<1>1. CASE Starts(h, b, c) # {}
  <2>1. Definitive(SegmentOf(h, b, c))
    BY <1>0, <1>1, SegmentDefinitive
  <2> QED BY <1>1, <2>1, SegmentHides DEF Merge, Definitive
<1>2. CASE Starts(h, b, c) = {}
  <2>1. ~Definitive(SegmentOf(h, b, c))
    BY <1>0, <1>2, SegmentDefinitive
  <2>2. Merge(SegmentOf(h, a, b), SegmentOf(h, b, c)) = SegmentOf(h, a, b) \o SegmentOf(h, b, c)
    BY <2>1 DEF Merge, Definitive
  <2>3. Starts(h, a, c) = Starts(h, a, b)
    BY <1>2 DEF Starts
  <2>4. First(h, a, c) = First(h, a, b)
    BY <2>3 DEF First
  <2>5. First(h, b, c) = b + 1
    BY <1>2 DEF First
  <2>6. First(h, a, b) \in a + 1 .. b + 1
    BY FirstShape
  <2>7. First(h, a, b) \in 1 .. Len(h) + 1 /\ b \in First(h, a, b) - 1 .. Len(h)
    BY <1>0, <2>6
  <2>8. SubSeq(h, First(h, a, b), b) \o SubSeq(h, b + 1, c) = SubSeq(h, First(h, a, b), c)
    BY <2>7, ConcatAdjacentSubSeq
  <2> QED BY <2>2, <2>4, <2>5, <2>8 DEF SegmentOf
<1> QED BY <1>1, <1>2

(* A new message leaves what was written before it. *)
LEMMA SegmentKept ==
    ASSUME NEW h \in Seq(Message), NEW m \in Message, NEW a \in Nat, NEW b \in a .. Len(h)
    PROVE  SegmentOf(Append(h, m), a, b) = SegmentOf(h, a, b)
<1> DEFINE k == Append(h, m)
<1>1. /\ Len(h) \in Nat /\ Len(k) = Len(h) + 1 /\ k \in Seq(Message)
      /\ \A i \in 1 .. Len(h) : k[i] = h[i]
  OBVIOUS
<1> HIDE DEF k
<1>2. Starts(k, a, b) = Starts(h, a, b)
  BY <1>1 DEF Starts
<1>3. First(k, a, b) = First(h, a, b)
  BY <1>2 DEF First
<1>4. PICK f \in a + 1 .. b + 1 : f = First(h, a, b)
  BY FirstShape
<1>5. /\ \A i \in f .. b : h[i] \in Message /\ k[i] = h[i] /\ k[i] \in Message
      /\ f \in Int /\ b \in Int
  BY <1>1
<1>6. /\ SubSeq(h, f, b) \in Seq(Message) /\ SubSeq(k, f, b) \in Seq(Message)
      /\ Len(SubSeq(h, f, b)) = Len(SubSeq(k, f, b))
      /\ Len(SubSeq(h, f, b)) = IF f <= b THEN b - f + 1 ELSE 0
      /\ \A i \in 1 .. b - f + 1 : SubSeq(h, f, b)[i] = h[f + i - 1]
      /\ \A i \in 1 .. b - f + 1 : SubSeq(k, f, b)[i] = k[f + i - 1]
  BY <1>5, SubSeqProperties
<1>7. \A i \in 1 .. Len(SubSeq(h, f, b)) : SubSeq(h, f, b)[i] = SubSeq(k, f, b)[i]
  BY <1>5, <1>6
<1>8. SubSeq(h, f, b) = SubSeq(k, f, b)
  BY <1>6, <1>7, SeqEqual
<1> QED BY <1>3, <1>4, <1>8 DEF SegmentOf, k

(* A message merged into the tree of a piece gives the tree of the piece   *)
(* with that message.                                                      *)
LEMMA SegmentGrows ==
    ASSUME NEW h \in Seq(Message), NEW m \in Message, NEW a \in 0 .. Len(h)
    PROVE  Merge(SegmentOf(h, a, Len(h)), <<m>>) = SegmentOf(Append(h, m), a, Len(h) + 1)
<1> DEFINE k == Append(h, m)  n == Len(h)
<1>1. /\ n \in Nat /\ Len(k) = n + 1 /\ k \in Seq(Message) /\ k[n + 1] = m
  OBVIOUS
<1>2. SegmentOf(h, a, n) = SegmentOf(k, a, n)
  BY <1>1, SegmentKept
<1>3. SegmentOf(k, n, n + 1) = <<m>>
  <2> HIDE DEF k, n
  <2>1. First(k, n, n + 1) \in n + 1 .. n + 2
    BY <1>1, FirstShape
  <2>2. First(k, n, n + 1) = n + 1
    <3>1. Starts(k, n, n + 1) \subseteq {n + 1}
      BY <1>1 DEF Starts
    <3>2. Starts(k, n, n + 1) # {} => First(k, n, n + 1) \in Starts(k, n, n + 1)
      BY <1>1, FirstShape
    <3> QED BY <3>1, <3>2 DEF First
  <2>3. SubSeq(k, n + 1, n + 1) = <<k[n + 1]>>
    <3>1. /\ SubSeq(k, n + 1, n + 1) \in Seq(Message)
          /\ Len(SubSeq(k, n + 1, n + 1)) = 1
          /\ SubSeq(k, n + 1, n + 1)[1] = k[n + 1]
      BY <1>1, SubSeqProperties
    <3>2. <<k[n + 1]>> \in Seq(Message) /\ Len(<<k[n + 1]>>) = 1 /\ <<k[n + 1]>>[1] = k[n + 1]
      BY <1>1
    <3>3. \A i \in 1 .. 1 : SubSeq(k, n + 1, n + 1)[i] = <<k[n + 1]>>[i]
      BY <3>1, <3>2
    <3> QED BY <3>1, <3>2, <3>3, SeqEqual
  <2> QED BY <1>1, <2>2, <2>3 DEF SegmentOf
<1>4. Merge(SegmentOf(k, a, n), SegmentOf(k, n, n + 1)) = SegmentOf(k, a, n + 1)
  <2> HIDE DEF k, n
  <2>1. a \in Nat /\ n \in a .. Len(k) /\ n + 1 \in n .. Len(k)
    BY <1>1 DEF n
  <2> QED BY <1>1, <2>1, SegmentsMerge
<1> QED BY <1>2, <1>3, <1>4

(* The value of the key after k messages is the tree of the first k.       *)
LEMMA ValueIsSegment == ASSUME NEW k \in Nat PROVE ValueAt(k) = SegmentOf(hist, 0, k)
BY DEF ValueAt, SegmentOf, First, Starts

-----------------------------------------------------------------------------
(* The messages: each memtable has a piece of the history, the trunk what  *)
(* is before the pieces that are not retired, and a lookup has merged the  *)
(* pieces from the newest on down to where it is.                          *)

End(cut, g) == IF g < generation THEN cut[g + 1] ELSE Len(hist)

CutInv(cut) ==
    /\ cut[0] = 0
    /\ \A g, h \in 0 .. generation : g <= h => cut[g] <= cut[h]
    /\ is_empty => cut[generation] = Len(hist)

TreesInv(cut) ==
    \A s \in Slot :
        /\ generation_retired < mt_generation[s] /\ mt_generation[s] <= generation =>
              content[s] = SegmentOf(hist, cut[mt_generation[s]], End(cut, mt_generation[s]))
        /\ generation < mt_generation[s] => content[s] = <<>>
        /\ state[s] \in {"COMPACTED", "INCORPORATION_ASSIGNED"} => branch[s] = content[s]

Copied == {"block", "block_lock", "block_drain", "retire", "switch"}

RootInv(cut) ==
    /\ (\A t \in Flusher : pc[t] # "switch") =>
          root = SegmentOf(hist, 0, End(cut, generation_retired))
    /\ \A t \in Flusher :
          pc[t] \in Copied => new_root[t] = SegmentOf(hist, 0, End(cut, gen[t]))

LookupInv(cut) ==
    \A r \in Reader :
        /\ pc[r] = "lookup" =>
              \E k \in low[r] .. Len(hist) :
                  /\ End(cut, gen[r]) <= k
                  /\ acc[r] = SegmentOf(hist, End(cut, gen[r]), k)
        /\ pc[r] = "found" =>
              \E k \in low[r] .. Len(hist) : acc[r] = SegmentOf(hist, 0, k)

AckInv ==
    /\ acked <= Len(hist)
    /\ \A w \in Writer : pc[w] = "inserted" => gen[w] <= Len(hist)
    /\ \A r \in Reader : low[r] <= Len(hist)
    /\ \A r \in Reader : pc[r] \notin {"lookup", "found"} => acc[r] = <<>>

DataInv ==
    /\ AckInv
    /\ \E cut \in [0 .. generation -> 0 .. Len(hist)] :
          CutInv(cut) /\ TreesInv(cut) /\ RootInv(cut) /\ LookupInv(cut)

(* The pieces after a step.                                                *)
LEMMA DataFrom ==
    ASSUME AckInv', NEW cut, cut \in [0 .. generation' -> 0 .. Len(hist')],
           CutInv(cut)', TreesInv(cut)', RootInv(cut)', LookupInv(cut)'
    PROVE  DataInv'
BY DEF DataInv

(* Where the pieces begin and end. *)
LEMMA Ends ==
    ASSUME TypeOK, SlotsInv, NEW cut \in [0 .. generation -> 0 .. Len(hist)], CutInv(cut)
    PROVE  /\ generation \in Nat /\ generation_retired \in Nat \cup {-1} /\ generation_retired < generation
           /\ hist \in Seq(Message) /\ Len(hist) \in Nat
           /\ \A g \in 0 .. generation : cut[g] \in 0 .. Len(hist)
           /\ \A g \in Int : -1 <= g => End(cut, g) \in 0 .. Len(hist)
           /\ \A g \in 0 .. generation : cut[g] <= End(cut, g) /\ End(cut, g - 1) = cut[g]
           /\ End(cut, generation) = Len(hist) /\ End(cut, -1) = 0
<1>1. /\ generation \in Nat /\ generation_retired \in Nat \cup {-1} /\ generation_retired < generation
      /\ hist \in Seq(Message) /\ Len(hist) \in Nat
  BY DEF TypeOK, SlotsInv
<1>2. \A g \in 0 .. generation : cut[g] \in 0 .. Len(hist)
  OBVIOUS
<1>3. ASSUME NEW g \in Int, -1 <= g PROVE End(cut, g) \in 0 .. Len(hist)
  <2>1. g < generation => g + 1 \in 0 .. generation
    BY <1>1, <1>3
  <2> QED BY <1>1, <1>2, <2>1 DEF End
<1>4. ASSUME NEW g \in 0 .. generation
      PROVE  cut[g] <= End(cut, g) /\ End(cut, g - 1) = cut[g]
  <2>1. g < generation => g + 1 \in 0 .. generation /\ g <= g + 1
    BY <1>1
  <2>2. cut[g] <= End(cut, g)
    BY <1>1, <1>2, <2>1 DEF End, CutInv
  <2>3. g - 1 < generation /\ g - 1 + 1 = g
    BY <1>1
  <2> QED BY <2>2, <2>3 DEF End
<1>5. End(cut, generation) = Len(hist) /\ End(cut, -1) = 0
  BY <1>1 DEF End, CutInv
<1> QED BY <1>1, <1>2, <1>3, <1>4, <1>5

(* The piece of a generation. *)
LEMMA Piece ==
    ASSUME TypeOK, SlotsInv, NEW cut \in [0 .. generation -> 0 .. Len(hist)], CutInv(cut),
           NEW g \in 0 .. generation
    PROVE  /\ End(cut, g) \in 0 .. Len(hist) /\ cut[g] \in 0 .. Len(hist)
           /\ cut[g] <= End(cut, g) /\ End(cut, g - 1) = cut[g]
           /\ hist \in Seq(Message) /\ Len(hist) \in Nat
<1>1. g \in Int /\ -1 <= g
  BY DEF TypeOK
<1>2. \A h \in Int : -1 <= h => End(cut, h) \in 0 .. Len(hist)
  BY Ends
<1>3. \A h \in 0 .. generation : cut[h] <= End(cut, h) /\ End(cut, h - 1) = cut[h]
  BY Ends
<1>4. hist \in Seq(Message) /\ Len(hist) \in Nat
  BY DEF TypeOK
<1> QED BY <1>1, <1>2, <1>3, <1>4

(* A step that changes no tree.                                            *)
LEMMA TreesFrame ==
    ASSUME NEW cut, CutInv(cut), TreesInv(cut),
           UNCHANGED <<hist, generation, generation_retired, is_empty,
                       mt_generation, content, branch>>,
           \A s \in Slot : state'[s] \in {"COMPACTED", "INCORPORATION_ASSIGNED"} =>
                           state[s] \in {"COMPACTED", "INCORPORATION_ASSIGNED"}
    PROVE  CutInv(cut)' /\ TreesInv(cut)'
BY DEF CutInv, TreesInv, End

(* A step that changes no root.                                            *)
LEMMA RootFrame ==
    ASSUME TypeOK, NEW cut, RootInv(cut), NEW t \in Thread, NEW to \in PC, Moves(t, to),
           UNCHANGED <<hist, generation, generation_retired, root, new_root>>,
           t \in Flusher => /\ to = "switch" <=> pc[t] = "switch"
                            /\ to \in Copied => pc[t] \in Copied /\ gen'[t] = gen[t]
    PROVE  RootInv(cut)'
<1>1. \A u \in Flusher : u \in Thread /\ pc'[u] = IF u = t THEN to ELSE pc[u]
  BY ThreadRoles DEF TypeOK, Moves
<1>2. \A u \in Flusher : pc'[u] = "switch" <=> pc[u] = "switch"
  BY <1>1
<1>3. \A u \in Flusher : pc'[u] \in Copied => pc[u] \in Copied /\ gen'[u] = gen[u]
  BY <1>1 DEF Moves
<1> QED BY <1>2, <1>3 DEF RootInv, End

(* A step that no lookup notices.                                          *)
LEMMA LookupFrame ==
    ASSUME TypeOK, NEW cut, LookupInv(cut), NEW t \in Thread, NEW to \in PC, Moves(t, to),
           UNCHANGED <<hist, generation>>,
           t \in Reader => to \notin {"lookup", "found"},
           \A r \in Reader \ {t} : acc'[r] = acc[r] /\ low'[r] = low[r]
    PROVE  LookupInv(cut)'
<1>1. \A r \in Reader : r \in Thread /\ pc'[r] = IF r = t THEN to ELSE pc[r]
  BY ThreadRoles DEF TypeOK, Moves
<1>2. ASSUME NEW r \in Reader, pc'[r] \in {"lookup", "found"}
      PROVE  pc'[r] = pc[r] /\ gen'[r] = gen[r] /\ acc'[r] = acc[r] /\ low'[r] = low[r]
  BY <1>1, <1>2 DEF Moves
<1> QED BY <1>2 DEF LookupInv, End

(* A step that acknowledges nothing.                                       *)
LEMMA AckFrame ==
    ASSUME TypeOK, AckInv, NEW t \in Thread, NEW to \in PC, Moves(t, to),
           UNCHANGED <<hist, acked, acc,
                       low>>, t \notin Reader => to # "inserted",
           t \in Reader => to \notin {"lookup", "found"} /\ pc[t] \notin {"lookup", "found"}
    PROVE  AckInv'
<1>1. \A u \in Thread : pc'[u] = IF u = t THEN to ELSE pc[u]
  BY DEF TypeOK, Moves
<1>2. \A w \in Writer : w \in Thread /\ w \notin Reader
  BY MemtableAssumption DEF Thread
<1>3. \A r \in Reader : r \in Thread
  BY ThreadRoles
<1> QED BY <1>1, <1>2, <1>3 DEF AckInv, Moves

(* A step that moves no message. *)
Quiet(t, to) ==
    /\ to \in PC /\ Moves(t, to)
    /\ UNCHANGED <<hist, generation, generation_retired, is_empty, mt_generation, content, branch,
                   root, new_root, acked, acc, low>>
    /\ \A s \in Slot : state'[s] \in {"COMPACTED", "INCORPORATION_ASSIGNED"} =>
                        state[s] \in {"COMPACTED", "INCORPORATION_ASSIGNED"}
    /\ t \notin Reader => to # "inserted"
    /\ t \in Reader => to \notin {"lookup", "found"} /\ pc[t] \notin {"lookup", "found"}
    /\ t \in Flusher => /\ to = "switch" <=> pc[t] = "switch"
                        /\ to \in Copied => pc[t] \in Copied /\ gen'[t] = gen[t]

(* A step that moves no message.                                           *)
LEMMA DataFrame ==
    ASSUME TypeOK, DataInv, NEW t \in Thread, NEW to, Quiet(t, to)
    PROVE  DataInv'
<1>1. PICK cut \in [0 .. generation -> 0 .. Len(hist)] :
         CutInv(cut) /\ TreesInv(cut) /\ RootInv(cut) /\ LookupInv(cut)
  BY DEF DataInv
<1>2. CutInv(cut)' /\ TreesInv(cut)'
  BY <1>1, TreesFrame DEF Quiet
<1>3. RootInv(cut)'
  BY <1>1, RootFrame DEF Quiet
<1>4. LookupInv(cut)'
  BY <1>1, LookupFrame DEF Quiet
<1>5. AckInv'
  BY AckFrame DEF DataInv, Quiet
<1>6. cut \in [0 .. generation' -> 0 .. Len(hist')]
  BY <1>1 DEF Quiet
<1> QED BY <1>2, <1>3, <1>4, <1>5, <1>6, DataFrom

(* The steps of a writer that move no message.                             *)
LEMMA QuietWriters ==
    ASSUME IInv, DataInv, NEW t \in Writer,
           InsertCall(t) \/ BeginInsert(t) \/ BackOff(t) \/ Busy(t) \/ BusyRetry(t) \/ ClaimRotation(t) \/ MayInsert(t) \/ Process(t) \/ CloseEmpty(t) \/ CloseDone(t) \/ LockRotation(t)
    PROVE  DataInv'
<1>1. TypeOK /\ t \in Thread /\ t \in Flusher /\ t \notin Reader /\ t \notin Worker
  BY ThreadRoles, MemtableAssumption DEF Flusher, Thread, IInv
<1>2. ASSUME InsertCall(t) PROVE Quiet(t, "retry")
  BY <1>1, <1>2
  DEF InsertCall, Quiet, Goto, Moves, Copied, PC, TypeOK, ctxtVars, slotVars,
      dataVars, rootVars, lockVars, readVars, histVars
<1>3. ASSUME BeginInsert(t) PROVE Quiet(t, "check")
  BY <1>1, <1>3
  DEF BeginInsert, Quiet, Goto, Moves, Copied, PC, TypeOK, ctxtVars, slotVars,
      dataVars, rootVars, lockVars, readVars, histVars
<1>4. ASSUME BackOff(t) PROVE Quiet(t, "retry")
  BY <1>1, <1>4
  DEF BackOff, Quiet, Goto, Moves, Copied, PC, TypeOK, ctxtVars, slotVars,
      dataVars, rootVars, lockVars, readVars, histVars
<1>5. ASSUME Busy(t) PROVE Quiet(t, "busy")
  BY <1>1, <1>5
  DEF Busy, Quiet, Goto, Moves, Copied, PC, TypeOK, ctxtVars, slotVars,
      dataVars, rootVars, lockVars, readVars, histVars
<1>6. ASSUME BusyRetry(t) PROVE Quiet(t, "retry")
  BY <1>1, <1>6
  DEF BusyRetry, Quiet, Goto, Moves, Copied, PC, TypeOK, ctxtVars, slotVars,
      dataVars, rootVars, lockVars, readVars, histVars
<1>7. ASSUME ClaimRotation(t) PROVE Quiet(t, "lock")
  BY <1>1, <1>7
  DEF ClaimRotation, Quiet, Goto, Moves, Copied, PC, TypeOK, ctxtVars,
      slotVars, dataVars, rootVars, lockVars, readVars, histVars
<1>8. ASSUME MayInsert(t) PROVE Quiet(t, "insert")
  BY <1>1, <1>8
  DEF MayInsert, Quiet, Goto, Moves, Copied, PC, TypeOK, ctxtVars, slotVars,
      dataVars, rootVars, lockVars, readVars, histVars
<1>9. ASSUME Process(t) PROVE Quiet(t, "retry")
  BY <1>1, <1>9
  DEF Process, Quiet, Goto, Moves, Copied, PC, TypeOK, ctxtVars, slotVars,
      dataVars, rootVars, lockVars, readVars, histVars
<1>10. ASSUME CloseEmpty(t) PROVE Quiet(t, "quiesce")
  BY <1>1, <1>10
  DEF CloseEmpty, Quiet, Goto, Moves, Copied, PC, TypeOK, ctxtVars, slotVars,
      dataVars, rootVars, lockVars, readVars, histVars
<1>11. ASSUME CloseDone(t) PROVE Quiet(t, "closed")
  BY <1>1, <1>11
  DEF CloseDone, Quiet, Goto, Moves, Copied, PC, TypeOK, ctxtVars, slotVars,
      dataVars, rootVars, lockVars, readVars, histVars
<1>12. ASSUME LockRotation(t), pc[t] = "lock" PROVE Quiet(t, "drain")
  BY <1>1, <1>12
  DEF LockRotation, Quiet, Goto, Moves, Copied, PC, TypeOK, ctxtVars, slotVars,
      dataVars, rootVars, lockVars, readVars, histVars
<1>13. ASSUME LockRotation(t), pc[t] = "drain" PROVE Quiet(t, "rotate")
  BY <1>1, <1>13
  DEF LockRotation, Quiet, Goto, Moves, Copied, PC, TypeOK, ctxtVars, slotVars,
      dataVars, rootVars, lockVars, readVars, histVars
<1>14. LockRotation(t) => pc[t] = "lock" \/ pc[t] = "drain"
  BY DEF LockRotation, Goto
<1> QED
  BY <1>1, <1>2, <1>3, <1>4, <1>5, <1>6, <1>7, <1>8, <1>9, <1>10, <1>11, <1>12,
     <1>13, <1>14, DataFrame

(* The steps of a flush task that move no message.                         *)
LEMMA QuietFlushers ==
    ASSUME IInv, DataInv, NEW t \in Flusher,
           TakeTask(t) \/ StartCompact(t) \/ TryStart(t) \/ TryStartLost(t) \/ BlockLookups(t) \/ UnblockLookups(t) \/ TryContinue(t)
    PROVE  DataInv'
<1>1. TypeOK /\ t \in Thread /\ t \notin Reader
  BY ThreadRoles, MemtableAssumption DEF Flusher, Thread, IInv
<1>2. ASSUME TakeTask(t) PROVE Quiet(t, "compact")
  BY <1>1, <1>2
  DEF TakeTask, Quiet, Goto, Moves, Copied, PC, TypeOK, ctxtVars, slotVars,
      dataVars, rootVars, lockVars, readVars, histVars
<1>3. ASSUME StartCompact(t) PROVE Quiet(t, "pack")
  BY <1>1, <1>3
  DEF StartCompact, Transition, TaskDone, AfterTask, Quiet, Goto, Moves,
      Copied, PC, TypeOK, ctxtVars, slotVars, dataVars, rootVars, lockVars,
      readVars, histVars
<1>4. ASSUME TryStart(t) PROVE Quiet(t, "claim_root")
  BY <1>1, <1>4
  DEF TryStart, Transition, TaskDone, AfterTask, MayStart, Quiet, Goto, Moves,
      Copied, PC, TypeOK, ctxtVars, slotVars, dataVars, rootVars, lockVars,
      readVars, histVars
<1>5. ASSUME TryStartLost(t) PROVE Quiet(t, AfterTask(t))
  BY <1>1, <1>5
  DEF TryStartLost, Transition, TaskDone, AfterTask, Quiet, Goto, Moves,
      Copied, PC, TypeOK, ctxtVars, slotVars, dataVars, rootVars, lockVars,
      readVars, histVars
<1>6. ASSUME BlockLookups(t), pc[t] = "block" PROVE Quiet(t, "block_lock")
  BY <1>1, <1>6
  DEF BlockLookups, Quiet, Goto, Moves, Copied, PC, TypeOK, ctxtVars, slotVars,
      dataVars, rootVars, lockVars, readVars, histVars
<1>7. ASSUME BlockLookups(t), pc[t] = "block_lock"
      PROVE  Quiet(t, "block_drain")
  BY <1>1, <1>7
  DEF BlockLookups, Quiet, Goto, Moves, Copied, PC, TypeOK, ctxtVars, slotVars,
      dataVars, rootVars, lockVars, readVars, histVars
<1>8. ASSUME BlockLookups(t), pc[t] = "block_drain" PROVE Quiet(t, "retire")
  BY <1>1, <1>8
  DEF BlockLookups, Quiet, Goto, Moves, Copied, PC, TypeOK, ctxtVars, slotVars,
      dataVars, rootVars, lockVars, readVars, histVars
<1>9. ASSUME UnblockLookups(t) PROVE Quiet(t, "dec_ref")
  BY <1>1, <1>9
  DEF UnblockLookups, Quiet, Goto, Moves, Copied, PC, TypeOK, ctxtVars,
      slotVars, dataVars, rootVars, lockVars, readVars, histVars
<1>10. ASSUME TryContinue(t), ~(mt_generation[SlotOf(gen[t] + 1)] = gen[t] + 1 /\ state[SlotOf(gen[t] + 1)] = "COMPACTED")
       PROVE  Quiet(t, AfterTask(t))
  BY <1>1, <1>10
  DEF TryContinue, Transition, TaskDone, AfterTask, Quiet, Goto, Moves, Copied,
      PC, TypeOK, ctxtVars, slotVars, dataVars, rootVars, lockVars, readVars,
      histVars
<1>11. ASSUME TryContinue(t), mt_generation[SlotOf(gen[t] + 1)] = gen[t] + 1 /\ state[SlotOf(gen[t] + 1)] = "COMPACTED"
       PROVE  Quiet(t, "claim_root")
  BY <1>1, <1>11
  DEF TryContinue, Transition, TaskDone, AfterTask, Quiet, Goto, Moves, Copied,
      PC, TypeOK, ctxtVars, slotVars, dataVars, rootVars, lockVars, readVars,
      histVars
<1>12. BlockLookups(t) => pc[t] \in {"block", "block_lock", "block_drain"}
  BY DEF BlockLookups, Goto
<1> QED
  BY <1>1, <1>2, <1>3, <1>4, <1>5, <1>6, <1>7, <1>8, <1>9, <1>10, <1>11, <1>12,
     DataFrame

(* References and states move no message.                                  *)
LEMMA QuietSlots ==
    ASSUME IInv, DataInv, NEW t \in Thread,
           DecRef(t) \/ MakeReady(t)
    PROVE  DataInv'
<1>1. TypeOK /\ t \in Thread /\ (t \in Flusher <=> t \notin Reader)
  BY ThreadRoles DEF IInv
<1>2. ASSUME DecRef(t), refs[SlotOf(gen[t])] = 1 PROVE Quiet(t, "recycle")
  BY <1>1, <1>2
  DEF DecRef, Quiet, Goto, Moves, Copied, PC, TypeOK, ctxtVars, slotVars,
      dataVars, rootVars, lockVars, readVars, histVars
<1>3. ASSUME DecRef(t), refs[SlotOf(gen[t])] # 1 PROVE Quiet(t, AfterDecRef(t))
  BY <1>1, <1>3
  DEF DecRef, AfterDecRef, Quiet, Goto, Moves, Copied, PC, TypeOK, ctxtVars,
      slotVars, dataVars, rootVars, lockVars, readVars, histVars
<1>4. ASSUME MakeReady(t) PROVE Quiet(t, AfterDecRef(t))
  BY <1>1, <1>4
  DEF MakeReady, AfterDecRef, Transition, Quiet, Goto, Moves, Copied, PC,
      TypeOK, ctxtVars, slotVars, dataVars, rootVars, lockVars, readVars,
      histVars
<1> QED BY <1>1, <1>2, <1>3, <1>4, DataFrame

(* The steps of an iterator.                                               *)
LEMMA QuietReaders ==
    ASSUME IInv, DataInv, NEW t \in Reader,
           PinMemtable(t) \/ IteratorDrop(t) \/ IteratorDone(t)
    PROVE  DataInv'
<1>1. TypeOK /\ t \in Thread /\ t \notin Flusher
  BY ThreadRoles, MemtableAssumption DEF Flusher, Thread, IInv
<1>2. ASSUME PinMemtable(t) PROVE Quiet(t, "iter_init")
  BY <1>1, <1>2
  DEF PinMemtable, Quiet, Goto, Moves, Copied, PC, TypeOK, ctxtVars, slotVars,
      dataVars, rootVars, lockVars, readVars, histVars
<1>3. ASSUME IteratorDrop(t) PROVE Quiet(t, "dec_ref")
  BY <1>1, <1>3
  DEF IteratorDrop, Quiet, Goto, Moves, Copied, PC, TypeOK, ctxtVars, slotVars,
      dataVars, rootVars, lockVars, readVars, histVars
<1>4. ASSUME IteratorDone(t) PROVE Quiet(t, "idle")
  BY <1>1, <1>4
  DEF IteratorDone, Quiet, Goto, Moves, Copied, PC, TypeOK, ctxtVars, slotVars,
      dataVars, rootVars, lockVars, readVars, histVars
<1> QED BY <1>1, <1>2, <1>3, <1>4, DataFrame

(* An insert is acknowledged: its message is in the history.               *)
LEMMA EndInsertData == ASSUME IInv, DataInv, NEW t \in Writer, EndInsert(t) PROVE DataInv'
<1>1. TypeOK /\ t \in Thread /\ t \notin Reader
  BY MemtableAssumption DEF Thread, IInv
<1>2. PICK cut \in [0 .. generation -> 0 .. Len(hist)] :
         CutInv(cut) /\ TreesInv(cut) /\ RootInv(cut) /\ LookupInv(cut)
  BY DEF DataInv
<1>3. /\ "idle" \in PC /\ Moves(t, "idle") /\ pc[t] = "inserted"
      /\ UNCHANGED <<hist, generation, generation_retired, is_empty, mt_generation, state, content, branch,
                     root, new_root, acc, low>>
      /\ acked' = IF gen[t] > acked THEN gen[t] ELSE acked
  BY <1>1
  DEF EndInsert, Goto, Moves, PC, TypeOK, ctxtVars, slotVars, dataVars,
      rootVars, readVars
<1>4. CutInv(cut)' /\ TreesInv(cut)'
  BY <1>2, <1>3, TreesFrame
<1>5. RootInv(cut)'
  BY <1>1, <1>2, <1>3, RootFrame DEF Copied
<1>6. LookupInv(cut)'
  BY <1>1, <1>2, <1>3, LookupFrame
<1>7. AckInv'
  <2>1. \A u \in Thread : pc'[u] = IF u = t THEN "idle" ELSE pc[u]
    BY <1>1, <1>3 DEF TypeOK, Moves
  <2>2. \A u \in Writer \cup Reader : u \in Thread
    BY DEF Thread
  <2>3. \A w \in Writer : pc'[w] = "inserted" => pc[w] = "inserted" /\ gen'[w] = gen[w]
    BY <1>3, <2>1, <2>2 DEF Moves
  <2> QED BY <1>1, <1>3, <2>1, <2>2, <2>3 DEF AckInv, DataInv
<1>8. cut \in [0 .. generation' -> 0 .. Len(hist')]
  BY <1>2, <1>3
<1> QED BY <1>4, <1>5, <1>6, <1>7, <1>8, DataFrom

(* An iterator lets go of the lookup lock.                                 *)
LEMMA IteratorReadyData == ASSUME IInv, DataInv, NEW t \in Reader, IteratorReady(t) PROVE DataInv'
<1>1. TypeOK /\ t \in Thread /\ t \notin Flusher
  BY ThreadRoles DEF IInv
<1>2. PICK cut \in [0 .. generation -> 0 .. Len(hist)] :
         CutInv(cut) /\ TreesInv(cut) /\ RootInv(cut) /\ LookupInv(cut)
  BY DEF DataInv
<1>3. /\ "drop" \in PC /\ Moves(t, "drop") /\ pc[t] = "iter_init"
      /\ UNCHANGED <<hist, generation, generation_retired, is_empty, mt_generation, state, content, branch,
                     root, new_root, acc, acked>>
      /\ \A r \in Reader : low'[r] = IF r = t THEN 0 ELSE low[r]
  BY <1>1
  DEF IteratorReady, Goto, Moves, PC, TypeOK, ctxtVars, slotVars, dataVars,
      rootVars, histVars
<1>4. CutInv(cut)' /\ TreesInv(cut)'
  BY <1>2, <1>3, TreesFrame
<1>5. RootInv(cut)'
  BY <1>1, <1>2, <1>3, RootFrame
<1>6. LookupInv(cut)'
  BY <1>1, <1>2, <1>3, LookupFrame
<1>7. AckInv'
  <2>1. \A u \in Thread : pc'[u] = IF u = t THEN "drop" ELSE pc[u]
    BY <1>1, <1>3 DEF TypeOK, Moves
  <2>2. \A u \in Writer \cup Reader : u \in Thread
    BY DEF Thread
  <2>3. \A w \in Writer : pc'[w] = "inserted" => pc[w] = "inserted" /\ gen'[w] = gen[w]
    BY <1>3, <2>1, <2>2 DEF Moves
  <2>4. Len(hist) >= 0
    BY <1>1 DEF TypeOK
  <2> QED BY <1>1, <1>3, <2>1, <2>2, <2>3, <2>4 DEF AckInv, DataInv
<1>8. cut \in [0 .. generation' -> 0 .. Len(hist')]
  BY <1>2, <1>3
<1> QED BY <1>4, <1>5, <1>6, <1>7, <1>8, DataFrom

(* A lookup starts with nothing found, at the end of the current piece.    *)
LEMMA BeginReadData ==
    ASSUME IInv, DataInv, NEW t \in Reader, NEW kind \in {"lookup", "iter_init"}, BeginRead(t, kind)
    PROVE  DataInv'
<1>1. TypeOK /\ SlotsInv /\ t \in Thread /\ t \notin Flusher
  BY ThreadRoles DEF IInv
<1>2. PICK cut \in [0 .. generation -> 0 .. Len(hist)] :
         CutInv(cut) /\ TreesInv(cut) /\ RootInv(cut) /\ LookupInv(cut)
  BY DEF DataInv
<1>3. /\ kind \in PC /\ Moves(t, kind) /\ pc[t] = "idle"
      /\ UNCHANGED <<hist, generation, generation_retired, is_empty, mt_generation, state, content, branch,
                     root, new_root, acc, acked>>
      /\ \A r \in Reader : low'[r] = IF r = t THEN acked ELSE low[r]
      /\ gen'[t] = generation
  BY <1>1
  DEF BeginRead, Goto, Moves, PC, TypeOK, ctxtVars, slotVars, dataVars,
      rootVars, histVars
<1>4. CutInv(cut)' /\ TreesInv(cut)'
  BY <1>2, <1>3, TreesFrame
<1>5. RootInv(cut)'
  BY <1>1, <1>2, <1>3, RootFrame
<1>6. \A u \in Thread : pc'[u] = IF u = t THEN kind ELSE pc[u]
  BY <1>1, <1>3 DEF TypeOK, Moves
<1>7. \A u \in Writer \cup Reader : u \in Thread
  BY DEF Thread
<1>8. acc[t] = <<>> /\ acked <= Len(hist) /\ acked \in Nat /\ Len(hist) \in Nat /\ hist \in Seq(Message)
  <2>1. acc[t] = <<>> /\ acked <= Len(hist)
    <3>1. AckInv
      BY DEF DataInv
    <3> QED BY <1>3, <3>1 DEF AckInv
  <2> QED BY <1>1, <2>1 DEF TypeOK
<1>9. LookupInv(cut)'
  <2>1. SegmentOf(hist, Len(hist), Len(hist)) = <<>>
    BY <1>8, SegmentType
  <2>2. End(cut, generation) = Len(hist)
    BY <1>1 DEF End, TypeOK
  <2> SUFFICES ASSUME NEW r \in Reader, pc'[r] \in {"lookup", "found"}
      PROVE (/\ pc[r] = "lookup" =>
                  \E k \in low[r] .. Len(hist) :
                      /\ End(cut, gen[r]) <= k
                      /\ acc[r] = SegmentOf(hist, End(cut, gen[r]), k)
             /\ pc[r] = "found" =>
                  \E k \in low[r] .. Len(hist) : acc[r] = SegmentOf(hist, 0, k))'
    BY DEF LookupInv
  <2>3. CASE r = t
    <3>1. pc'[t] # "found"
      BY <1>1, <1>6
    <3>2. Len(hist) \in low'[t] .. Len(hist) /\ End(cut, gen'[t]) <= Len(hist)
          /\ acc'[t] = SegmentOf(hist, End(cut, gen'[t]), Len(hist))
      BY <1>3, <1>8, <2>1, <2>2
    <3> QED BY <1>3, <2>3, <3>1, <3>2 DEF End
  <2>4. CASE r # t
    <3>1. pc'[r] = pc[r] /\ gen'[r] = gen[r] /\ acc'[r] = acc[r] /\ low'[r] = low[r]
      BY <1>3, <1>6, <1>7, <2>4 DEF Moves
    <3> QED BY <1>2, <1>3, <3>1 DEF LookupInv, End
  <2> QED BY <2>3, <2>4
<1>10. AckInv'
  <2>1. \A w \in Writer : pc'[w] = "inserted" => pc[w] = "inserted" /\ gen'[w] = gen[w]
    BY <1>3, <1>6, <1>7 DEF Moves
  <2> QED BY <1>1, <1>3, <1>6, <1>7, <1>8, <2>1 DEF AckInv, DataInv
<1>11. cut \in [0 .. generation' -> 0 .. Len(hist')]
  BY <1>2, <1>3
<1> QED BY <1>4, <1>5, <1>9, <1>10, <1>11, DataFrom

(* A lookup goes on, with what it has found so far. *)
LEMMA LookupMoves ==
    ASSUME TypeOK, DataInv, NEW t \in Reader, NEW cut, NEW to \in PC,
           CutInv(cut), TreesInv(cut), RootInv(cut), LookupInv(cut), cut \in [0 .. generation -> 0 .. Len(hist)],
           Moves(t, to), pc[t] \in {"lookup", "found"},
           UNCHANGED <<hist, generation, generation_retired, is_empty, mt_generation, state, content, branch,
                       root, new_root, acked>>,
           \A r \in Reader \ {t} : acc'[r] = acc[r] /\ low'[r] = low[r],
           low'[t] <= Len(hist), to \notin {"lookup", "found"} => acc'[t] = <<>>,
           to = "lookup" => \E k \in low'[t] .. Len(hist) :
                                /\ End(cut, gen'[t]) <= k
                                /\ acc'[t] = SegmentOf(hist, End(cut, gen'[t]), k),
           to = "found" => \E k \in low'[t] .. Len(hist) : acc'[t] = SegmentOf(hist, 0, k)
    PROVE  DataInv'
<1>1. t \in Thread /\ t \notin Flusher
  BY ThreadRoles
<1>2. CutInv(cut)' /\ TreesInv(cut)'
  BY TreesFrame
<1>3. RootInv(cut)'
  BY <1>1, RootFrame
<1>4. \A u \in Thread : pc'[u] = IF u = t THEN to ELSE pc[u]
  BY <1>1 DEF TypeOK, Moves
<1>5. \A u \in Writer \cup Reader : u \in Thread
  BY DEF Thread
<1>6. LookupInv(cut)'
  <2> SUFFICES ASSUME NEW r \in Reader
      PROVE (/\ pc[r] = "lookup" =>
                  \E k \in low[r] .. Len(hist) :
                      /\ End(cut, gen[r]) <= k
                      /\ acc[r] = SegmentOf(hist, End(cut, gen[r]), k)
             /\ pc[r] = "found" =>
                  \E k \in low[r] .. Len(hist) : acc[r] = SegmentOf(hist, 0, k))'
    BY DEF LookupInv
  <2>1. CASE r = t
    BY <1>1, <1>4, <2>1 DEF End
  <2>2. CASE r # t
    <3>1. pc'[r] = pc[r] /\ gen'[r] = gen[r] /\ acc'[r] = acc[r] /\ low'[r] = low[r]
      BY <1>4, <1>5, <2>2 DEF Moves
    <3> QED BY <3>1 DEF LookupInv, End
  <2> QED BY <2>1, <2>2
<1>7. AckInv'
  <2>1. \A w \in Writer : pc'[w] = "inserted" => pc[w] = "inserted" /\ gen'[w] = gen[w]
    BY <1>1, <1>4, <1>5, MemtableAssumption DEF Moves
  <2>2. \A r \in Reader : r # t => pc'[r] = pc[r]
    BY <1>4, <1>5
  <2> QED BY <1>4, <1>1, <2>1, <2>2 DEF AckInv, DataInv
<1> QED BY <1>2, <1>3, <1>6, <1>7, DataFrom

(* A lookup has returned.                                                  *)
LEMMA LookupReturnData == ASSUME IInv, DataInv, NEW t \in Reader, LookupReturn(t) PROVE DataInv'
<1>1. TypeOK /\ t \in Thread
  BY ThreadRoles DEF IInv
<1>2. PICK cut \in [0 .. generation -> 0 .. Len(hist)] :
         CutInv(cut) /\ TreesInv(cut) /\ RootInv(cut) /\ LookupInv(cut)
  BY DEF DataInv
<1>3. /\ "idle" \in PC /\ Moves(t, "idle") /\ pc[t] = "found"
      /\ UNCHANGED <<hist, generation, generation_retired, is_empty, mt_generation, state, content, branch,
                     root, new_root, acked>>
      /\ \A r \in Reader : low'[r] = IF r = t THEN 0 ELSE low[r]
      /\ \A r \in Reader : acc'[r] = IF r = t THEN <<>> ELSE acc[r]
      /\ Len(hist) >= 0
  BY <1>1
  DEF LookupReturn, Goto, Moves, PC, TypeOK, ctxtVars, slotVars, dataVars,
      rootVars, histVars
<1> QED BY <1>1, <1>2, <1>3, LookupMoves

(* A lookup puts the piece of one generation before what it has.           *)
LEMMA LookupMemtableData == ASSUME IInv, DataInv, NEW t \in Reader, LookupMemtable(t) PROVE DataInv'
<1>1. TypeOK /\ RoleInv /\ SlotsInv /\ ReadersInv /\ t \in Thread /\ pc[t] = "lookup"
  BY ThreadRoles DEF IInv, LookupMemtable, Goto
<1>2. PICK cut \in [0 .. generation -> 0 .. Len(hist)] :
         CutInv(cut) /\ TreesInv(cut) /\ RootInv(cut) /\ LookupInv(cut)
  BY DEF DataInv
<1>3. PICK s \in Slot : s = SlotOf(gen[t])
  BY <1>1, SlotsTyped
<1>4. /\ gen[t] # generation_retired /\ generation_retired < gen[t] /\ gen[t] <= generation
      /\ mt_generation[s] = gen[t]
  BY <1>1, <1>3, WalkedInPlace DEF LookupMemtable, ReadersInv
<1>5. gen[t] \in 0 .. generation
  BY <1>1, <1>4 DEF TypeOK
<1> DEFINE e == End(cut, gen[t])  c == cut[gen[t]]
           found == Merge(IF Compacted(gen[t]) THEN branch[s] ELSE content[s], acc[t])
<1>6. /\ e \in 0 .. Len(hist) /\ c \in 0 .. Len(hist) /\ c <= e /\ End(cut, gen[t] - 1) = c
      /\ hist \in Seq(Message) /\ Len(hist) \in Nat
  BY <1>1, <1>2, <1>5, Piece
<1>7. (IF Compacted(gen[t]) THEN branch[s] ELSE content[s]) = SegmentOf(hist, c, e)
  BY <1>2, <1>3, <1>4 DEF TreesInv, Compacted
<1>8. PICK k \in low[t] .. Len(hist) : e <= k /\ acc[t] = SegmentOf(hist, e, k)
  BY <1>1, <1>2 DEF LookupInv
<1>9. low[t] \in Nat /\ k \in Nat
  BY <1>1, <1>6 DEF TypeOK
<1>10. found = SegmentOf(hist, c, k)
  <2> HIDE DEF c, e
  <2> QED BY <1>6, <1>7, <1>8, <1>9, SegmentsMerge
<1>11. /\ UNCHANGED <<hist, generation, generation_retired, is_empty, mt_generation, state, content, branch,
                      root, new_root, acked, low>>
       /\ low'[t] = low[t] /\ low[t] <= Len(hist)
       /\ \A r \in Reader : acc'[r] = IF r = t THEN found ELSE acc[r]
  BY <1>1, <1>3, <1>8, <1>9, <1>6
  DEF LookupMemtable, TypeOK, ctxtVars, slotVars, dataVars, rootVars, histVars
<1>12. CASE Definitive(found)
  <2>1. "found" \in PC /\ Moves(t, "found")
    BY <1>1, <1>3, <1>12 DEF LookupMemtable, Goto, Moves, PC, TypeOK
  <2>2. Starts(hist, c, k) # {}
    <3> HIDE DEF c, e, found
    <3> QED BY <1>6, <1>8, <1>9, <1>10, <1>12, SegmentDefinitive
  <2>3. found = SegmentOf(hist, 0, k)
    <3> HIDE DEF c, e, found
    <3> QED BY <1>6, <1>8, <1>9, <1>10, <2>2, SegmentHides
  <2>4. acc'[t] = SegmentOf(hist, 0, k) /\ k \in low'[t] .. Len(hist)
    BY <1>11, <2>3
  <2> QED BY <1>1, <1>2, <1>11, <2>1, <2>4, LookupMoves
<1>13. CASE ~Definitive(found)
  <2>1. "lookup" \in PC /\ Moves(t, "lookup") /\ gen'[t] = gen[t] - 1
    BY <1>1, <1>3, <1>13 DEF LookupMemtable, Goto, Moves, PC, TypeOK
  <2>2. End(cut, gen'[t]) = c
    BY <1>6, <2>1
  <2>3. acc'[t] = SegmentOf(hist, End(cut, gen'[t]), k) /\ k \in low'[t] .. Len(hist) /\ End(cut, gen'[t]) <= k
    <3> HIDE DEF c, e, found
    <3> QED BY <1>6, <1>8, <1>9, <1>10, <1>11, <2>2
  <2> QED BY <1>1, <1>2, <1>11, <2>1, <2>3, LookupMoves
<1> QED BY <1>12, <1>13

(* A lookup puts what the trunk has before what it has.                    *)
LEMMA LookupTrunkData == ASSUME IInv, DataInv, NEW t \in Reader, LookupTrunk(t) PROVE DataInv'
<1>1. /\ TypeOK /\ SlotsInv /\ LocksInv /\ t \in Thread /\ pc[t] = "lookup"
      /\ gen[t] = generation_retired /\ t \notin Flusher
  BY ThreadRoles DEF IInv, LookupTrunk, Goto
<1>2. PICK cut \in [0 .. generation -> 0 .. Len(hist)] :
         CutInv(cut) /\ TreesInv(cut) /\ RootInv(cut) /\ LookupInv(cut)
  BY DEF DataInv
<1> DEFINE e == End(cut, gen[t])
<1>3. e \in 0 .. Len(hist) /\ hist \in Seq(Message) /\ Len(hist) \in Nat
  <2>1. gen[t] \in Int /\ -1 <= gen[t]
    BY <1>1 DEF TypeOK
  <2> QED BY <1>1, <1>2, <2>1, Ends
<1>4. \A u \in Flusher : pc[u] # "switch"
  <2>1. lookup_lock[t] = "read"
    BY <1>1 DEF LocksInv, LookupMode
  <2>2. ASSUME NEW u \in Flusher, pc[u] = "switch" PROVE FALSE
    <3>1. u \in Thread /\ u # t /\ lookup_lock[u] = "write"
      BY <1>1, <2>2, ThreadRoles DEF LocksInv, LookupMode
    <3> QED BY <1>1, <2>1, <3>1 DEF LocksInv
  <2> QED BY <2>2
<1>5. root = SegmentOf(hist, 0, e)
  BY <1>1, <1>2, <1>4 DEF RootInv
<1>6. PICK k \in low[t] .. Len(hist) : e <= k /\ acc[t] = SegmentOf(hist, e, k)
  BY <1>1, <1>2 DEF LookupInv
<1>7. low[t] \in Nat /\ k \in Nat
  BY <1>1, <1>3 DEF TypeOK
<1>8. Merge(root, acc[t]) = SegmentOf(hist, 0, k)
  <2> HIDE DEF e
  <2>1. 0 \in Nat /\ e \in 0 .. Len(hist) /\ k \in e .. Len(hist)
    BY <1>3, <1>6, <1>7
  <2>2. Merge(SegmentOf(hist, 0, e), SegmentOf(hist, e, k)) = SegmentOf(hist, 0, k)
    BY <1>3, <2>1, SegmentsMerge
  <2> QED BY <1>5, <1>6, <2>2
<1>9. /\ UNCHANGED <<hist, generation, generation_retired, is_empty, mt_generation, state, content, branch,
                     root, new_root, acked, low>>
      /\ low'[t] = low[t] /\ low[t] <= Len(hist)
      /\ \A r \in Reader : acc'[r] = IF r = t THEN Merge(root, acc[t]) ELSE acc[r]
      /\ "found" \in PC /\ Moves(t, "found")
  BY <1>1, <1>3, <1>6, <1>7
  DEF LookupTrunk, Goto, Moves, PC, TypeOK, ctxtVars, slotVars, dataVars,
      rootVars, histVars
<1>10. acc'[t] = SegmentOf(hist, 0, k) /\ k \in low'[t] .. Len(hist)
  BY <1>8, <1>9
<1> QED BY <1>1, <1>2, <1>9, <1>10, LookupMoves

(* The branch has what the tree has.                                       *)
LEMMA FinishCompactData == ASSUME IInv, DataInv, NEW t \in Flusher, FinishCompact(t) PROVE DataInv'
<1>1. TypeOK /\ t \in Thread /\ t \notin Reader
  BY ThreadRoles DEF IInv
<1>2. PICK cut \in [0 .. generation -> 0 .. Len(hist)] :
         CutInv(cut) /\ TreesInv(cut) /\ RootInv(cut) /\ LookupInv(cut)
  BY DEF DataInv
<1>3. PICK s \in Slot : s = SlotOf(gen[t])
  BY <1>1, SlotsTyped
<1>4. /\ "start" \in PC /\ Moves(t, "start") /\ pc[t] = "pack"
      /\ UNCHANGED <<hist, generation, generation_retired, is_empty, mt_generation, content,
                     root, new_root, acked, acc, low>>
      /\ \A q \in Slot : branch'[q] = IF q = s THEN content[s] ELSE branch[q]
      /\ \A q \in Slot : state'[q] = IF q = s THEN "COMPACTED" ELSE state[q]
  BY <1>1, <1>3
  DEF FinishCompact, Goto, Transition, Moves, PC, TypeOK, ctxtVars, rootVars,
      readVars, histVars
<1>5. CutInv(cut)' /\ TreesInv(cut)'
  BY <1>2, <1>4 DEF CutInv, TreesInv, End
<1>6. RootInv(cut)'
  BY <1>1, <1>2, <1>4, RootFrame DEF Copied
<1>7. LookupInv(cut)'
  BY <1>1, <1>2, <1>4, LookupFrame
<1>8. AckInv'
  BY <1>1, <1>4, AckFrame DEF DataInv
<1>9. cut \in [0 .. generation' -> 0 .. Len(hist')]
  BY <1>2, <1>4
<1> QED BY <1>5, <1>6, <1>7, <1>8, <1>9, DataFrom

(* The next root is the messages of the root and of the memtable whose     *)
(* turn it is.                                                             *)
LEMMA CopyRootData == ASSUME IInv, DataInv, NEW t \in Flusher, CopyRoot(t) PROVE DataInv'
<1>1. TypeOK /\ SlotsInv /\ TurnInv /\ t \in Thread /\ t \notin Reader /\ pc[t] = "claim_root"
  BY ThreadRoles DEF IInv, CopyRoot, Goto
<1>2. PICK cut \in [0 .. generation -> 0 .. Len(hist)] :
         CutInv(cut) /\ TreesInv(cut) /\ RootInv(cut) /\ LookupInv(cut)
  BY DEF DataInv
<1>3. PICK s \in Slot : s = SlotOf(gen[t])
  BY <1>1, SlotsTyped
<1>4. /\ "block" \in PC /\ Moves(t, "block")
      /\ UNCHANGED <<hist, generation, generation_retired, is_empty, mt_generation, state, content, branch,
                     root, acked, acc, low>>
      /\ gen'[t] = gen[t]
      /\ \A u \in Thread : new_root'[u] = IF u = t THEN Merge(root, branch[s]) ELSE new_root[u]
  BY <1>1, <1>3
  DEF CopyRoot, Goto, Moves, PC, TypeOK, ctxtVars, slotVars, dataVars,
      readVars, histVars
<1>5. /\ gen[t] = generation_retired + 1 /\ mt_generation[s] = gen[t] /\ state[s] = "INCORPORATION_ASSIGNED"
      /\ \A u \in Flusher \ {t} : pc[u] \notin Turn
  BY <1>1, <1>3 DEF TurnInv, Turn, Incorporating, InState
<1>6. generation_retired < gen[t] /\ gen[t] < generation
  BY <1>1, <1>5 DEF SlotsInv, Behind
<1>7. gen[t] \in 0 .. generation /\ generation_retired = gen[t] - 1
  BY <1>1, <1>5, <1>6 DEF TypeOK
<1> DEFINE e == End(cut, gen[t])  c == cut[gen[t]]
<1>8. /\ e \in 0 .. Len(hist) /\ c \in 0 .. Len(hist) /\ c <= e /\ End(cut, generation_retired) = c
      /\ hist \in Seq(Message) /\ Len(hist) \in Nat
  <2>1. /\ e \in 0 .. Len(hist) /\ c \in 0 .. Len(hist) /\ c <= e /\ End(cut, gen[t] - 1) = c
        /\ hist \in Seq(Message) /\ Len(hist) \in Nat
    BY <1>1, <1>2, <1>7, Piece
  <2> QED BY <1>7, <2>1
<1>9. branch[s] = SegmentOf(hist, c, e)
  BY <1>2, <1>5, <1>6, <1>7 DEF TreesInv
<1>10. \A u \in Flusher : pc[u] # "switch" /\ (pc[u] \in Copied => u = t)
  BY <1>1, <1>5 DEF Turn, Incorporating, Incorporated, Copied
<1>11. root = SegmentOf(hist, 0, c)
  BY <1>2, <1>8, <1>10 DEF RootInv
<1>12. Merge(root, branch[s]) = SegmentOf(hist, 0, e)
  <2> HIDE DEF c, e
  <2>1. 0 \in Nat /\ c \in 0 .. Len(hist) /\ e \in c .. Len(hist)
    BY <1>8
  <2>2. Merge(SegmentOf(hist, 0, c), SegmentOf(hist, c, e)) = SegmentOf(hist, 0, e)
    BY <1>8, <2>1, SegmentsMerge
  <2> QED BY <1>9, <1>11, <2>2
<1>13. RootInv(cut)'
  <2>1. \A u \in Flusher : u \in Thread /\ pc'[u] = IF u = t THEN "block" ELSE pc[u]
    BY <1>1, <1>4, ThreadRoles DEF TypeOK, Moves
  <2>2. root' = SegmentOf(hist', 0, End(cut, generation_retired)')
    BY <1>4, <1>8, <1>11 DEF End
  <2>3. \A u \in Flusher : pc'[u] \in Copied => u = t
    BY <1>10, <2>1
  <2>4. new_root'[t] = SegmentOf(hist', 0, End(cut, gen[t])')
    BY <1>1, <1>4, <1>12 DEF End
  <2> QED BY <2>2, <2>3, <2>4 DEF RootInv
<1>14. CutInv(cut)' /\ TreesInv(cut)'
  BY <1>2, <1>4, TreesFrame
<1>15. LookupInv(cut)'
  BY <1>1, <1>2, <1>4, LookupFrame
<1>16. AckInv'
  BY <1>1, <1>4, AckFrame DEF DataInv
<1>17. cut \in [0 .. generation' -> 0 .. Len(hist')]
  BY <1>2, <1>4
<1> QED BY <1>13, <1>14, <1>15, <1>16, <1>17, DataFrom

(* The piece of the retired generation is now to be found in the root that *)
(* is about to be switched in; no lookup is under way.                     *)
LEMMA RetireData == ASSUME IInv, DataInv, NEW t \in Flusher, Retire(t) PROVE DataInv'
<1>1. TypeOK /\ SlotsInv /\ TurnInv /\ t \in Thread /\ t \notin Reader /\ pc[t] = "retire"
  BY ThreadRoles DEF IInv, Retire, Goto
<1>2. PICK cut \in [0 .. generation -> 0 .. Len(hist)] :
         CutInv(cut) /\ TreesInv(cut) /\ RootInv(cut) /\ LookupInv(cut)
  BY DEF DataInv
<1>3. PICK s \in Slot : s = SlotOf(gen[t])
  BY <1>1, SlotsTyped
<1>4. /\ "switch" \in PC /\ Moves(t, "switch")
      /\ UNCHANGED <<hist, generation, is_empty, mt_generation, content,
                     branch, root, new_root, acked, acc, low>>
      /\ gen'[t] = gen[t] /\ generation_retired' = generation_retired + 1
      /\ \A q \in Slot : state'[q] = IF q = s THEN "INCORPORATED" ELSE state[q]
  BY <1>1, <1>3
  DEF Retire, Goto, Transition, Moves, PC, TypeOK, ctxtVars, dataVars,
      rootVars, readVars, histVars
<1>5. \A u \in Flusher \ {t} : pc[u] \notin Copied
  BY <1>1 DEF TurnInv, Turn, Incorporating, Incorporated, Copied
<1>6. CutInv(cut)'
  BY <1>2, <1>4 DEF CutInv
<1>7. TreesInv(cut)'
  <2>1. \A q \in Slot : mt_generation[q] \in Int /\ generation_retired \in Int
    BY <1>1 DEF TypeOK
  <2>2. \A q \in Slot : generation_retired' < mt_generation[q] => generation_retired < mt_generation[q]
    BY <1>4, <2>1
  <2> QED BY <1>2, <1>4, <2>2 DEF TreesInv, End
<1>8. RootInv(cut)'
  <2>1. \A u \in Flusher : u \in Thread /\ pc'[u] = IF u = t THEN "switch" ELSE pc[u]
    BY <1>1, <1>4, ThreadRoles DEF TypeOK, Moves
  <2>2. new_root[t] = SegmentOf(hist, 0, End(cut, gen[t]))
    BY <1>1, <1>2 DEF RootInv, Copied
  <2>3. new_root'[t] = SegmentOf(hist', 0, End(cut, gen[t])')
    BY <1>4, <2>2 DEF End
  <2> QED BY <1>5, <2>1, <2>3 DEF RootInv
<1>9. LookupInv(cut)'
  BY <1>1, <1>2, <1>4, LookupFrame
<1>10. AckInv'
  BY <1>1, <1>4, AckFrame DEF DataInv
<1>11. cut \in [0 .. generation' -> 0 .. Len(hist')]
  BY <1>2, <1>4
<1> QED BY <1>6, <1>7, <1>8, <1>9, <1>10, <1>11, DataFrom

(* The root has the piece of the retired generation.                       *)
LEMMA SwitchRootData == ASSUME IInv, DataInv, NEW t \in Flusher, SwitchRoot(t) PROVE DataInv'
<1>1. TypeOK /\ SlotsInv /\ TurnInv /\ t \in Thread /\ t \notin Reader /\ pc[t] = "switch"
  BY ThreadRoles DEF IInv, SwitchRoot, Goto
<1>2. PICK cut \in [0 .. generation -> 0 .. Len(hist)] :
         CutInv(cut) /\ TreesInv(cut) /\ RootInv(cut) /\ LookupInv(cut)
  BY DEF DataInv
<1>3. /\ "unblock" \in PC /\ Moves(t, "unblock")
      /\ UNCHANGED <<hist, generation, generation_retired, is_empty, mt_generation, state, content, branch,
                     acked, acc, low>>
      /\ root' = new_root[t]
  BY <1>1
  DEF SwitchRoot, Goto, Moves, PC, TypeOK, ctxtVars, slotVars, dataVars,
      readVars, histVars
<1>4. gen[t] = generation_retired /\ \A u \in Flusher \ {t} : pc[u] \notin Copied
  BY <1>1 DEF TurnInv, Turn, Incorporating, Incorporated, Copied
<1>5. CutInv(cut)' /\ TreesInv(cut)'
  BY <1>2, <1>3, TreesFrame
<1>6. RootInv(cut)'
  <2>1. \A u \in Flusher : u \in Thread /\ pc'[u] = IF u = t THEN "unblock" ELSE pc[u]
    BY <1>1, <1>3, ThreadRoles DEF TypeOK, Moves
  <2>2. new_root[t] = SegmentOf(hist, 0, End(cut, generation_retired))
    BY <1>1, <1>2, <1>4 DEF RootInv, Copied
  <2>3. root' = SegmentOf(hist', 0, End(cut, generation_retired)')
    BY <1>3, <2>2 DEF End
  <2> QED BY <1>4, <2>1, <2>3 DEF RootInv, Copied
<1>7. LookupInv(cut)'
  BY <1>1, <1>2, <1>3, LookupFrame
<1>8. AckInv'
  BY <1>1, <1>3, AckFrame DEF DataInv
<1>9. cut \in [0 .. generation' -> 0 .. Len(hist')]
  BY <1>2, <1>3
<1> QED BY <1>5, <1>6, <1>7, <1>8, <1>9, DataFrom

(* The slot of a retired generation gets an empty tree.                    *)
LEMMA RecycleData == ASSUME IInv, DataInv, NEW t \in Thread, Recycle(t) PROVE DataInv'
<1>1. TypeOK /\ SlotsInv /\ RecycleInv /\ ContentInv /\ pc[t] = "recycle"
  BY DEF IInv, Recycle, Goto
<1>2. PICK cut \in [0 .. generation -> 0 .. Len(hist)] :
         CutInv(cut) /\ TreesInv(cut) /\ RootInv(cut) /\ LookupInv(cut)
  BY DEF DataInv
<1>3. PICK s \in Slot : s = SlotOf(gen[t])
  BY <1>1, SlotsTyped
<1>4. /\ "ready" \in PC /\ Moves(t, "ready")
      /\ UNCHANGED <<hist, generation, generation_retired, is_empty, state,
                     branch, root, new_root, acked, acc, low>>
      /\ \A q \in Slot : mt_generation'[q] = IF q = s THEN mt_generation[s] + NumMemtables ELSE mt_generation[q]
      /\ \A q \in Slot : content'[q] = IF q = s THEN <<>> ELSE content[q]
  BY <1>1, <1>3
  DEF Recycle, Goto, Moves, PC, TypeOK, ctxtVars, rootVars, readVars, histVars
<1>5. mt_generation[s] = gen[t] /\ state[s] = "INCORPORATED"
  BY <1>1, <1>3 DEF RecycleInv, InState
<1>6. /\ generation \in Nat /\ NumMemtables \in Nat /\ gen[t] \in Int
      /\ generation - NumMemtables <= mt_generation[s]
  BY <1>1, MemtableAssumption DEF TypeOK, SlotsInv
<1>7. generation = mt_generation[s] + NumMemtables => is_empty
  <2>1. SUFFICES ASSUME generation = mt_generation[s] + NumMemtables PROVE closing
    BY <1>1 DEF ContentInv
  <2>2. SlotOf(generation) = s
    BY <1>3, <1>5, <1>6, <2>1, SlotShift
  <2> QED BY <1>1, <1>5, <2>2 DEF SlotsInv, Ready
<1>8. CutInv(cut)'
  BY <1>2, <1>4 DEF CutInv
<1>9. TreesInv(cut)'
  <2> SUFFICES ASSUME NEW q \in Slot
      PROVE (/\ generation_retired < mt_generation[q] /\ mt_generation[q] <= generation =>
                   content[q] = SegmentOf(hist, cut[mt_generation[q]], End(cut, mt_generation[q]))
             /\ generation < mt_generation[q] => content[q] = <<>>
             /\ state[q] \in {"COMPACTED", "INCORPORATION_ASSIGNED"} => branch[q] = content[q])'
    BY DEF TreesInv
  <2>1. CASE q # s
    BY <1>2, <1>4, <2>1 DEF TreesInv, End
  <2>2. CASE q = s
    <3> DEFINE m == mt_generation[s] + NumMemtables
    <3>1. mt_generation'[q] = m /\ content'[q] = <<>> /\ state'[q] = "INCORPORATED"
      BY <1>4, <1>5, <2>2
    <3>2. m <= generation => m = generation /\ is_empty
      <4>1. mt_generation[s] \in Int
        BY <1>5, <1>6
      <4>2. ASSUME NEW x \in Int, NEW g \in Int, NEW k \in Int, g - k <= x, x + k <= g
            PROVE  g = x + k
        BY <4>2
      <4>3. m <= generation => generation = m
        <5>1. generation \in Int /\ NumMemtables \in Int
          BY <1>6
        <5> QED BY <1>6, <4>1, <4>2, <5>1
      <4> QED BY <1>7, <4>3
    <3>3. is_empty => cut[generation] = Len(hist) /\ End(cut, generation) = Len(hist)
      BY <1>2, <1>6 DEF CutInv, End
    <3>4. SegmentOf(hist, Len(hist), Len(hist)) = <<>>
      <4>1. hist \in Seq(Message) /\ Len(hist) \in Nat
        BY <1>1 DEF TypeOK
      <4> QED BY <4>1, SegmentType
    <3>5. m <= generation => SegmentOf(hist, cut[m], End(cut, m)) = <<>>
      BY <3>2, <3>3, <3>4
    <3>6. (mt_generation[q] <= generation => content[q] = SegmentOf(hist, cut[mt_generation[q]], End(cut, mt_generation[q])))'
      BY <1>4, <3>1, <3>5 DEF End
    <3> QED BY <3>1, <3>6
  <2> QED BY <2>1, <2>2
<1>10. RootInv(cut)'
  BY <1>1, <1>2, <1>4, RootFrame DEF Copied
<1>11. LookupInv(cut)'
  BY <1>1, <1>2, <1>4, LookupFrame
<1>12. AckInv'
  BY <1>1, <1>4, AckFrame DEF DataInv
<1>13. cut \in [0 .. generation' -> 0 .. Len(hist')]
  BY <1>2, <1>4
<1> QED BY <1>8, <1>9, <1>10, <1>11, <1>12, <1>13, DataFrom

(* A message goes to the current memtable, and to the end of the history. *)
LEMMA InsertMsgData == ASSUME IInv, DataInv, NEW t \in Writer, InsertMsg(t) PROVE DataInv'
<1>1. /\ TypeOK /\ RoleInv /\ SlotsInv /\ InsertsInv /\ TurnInv /\ ReadersInv
      /\ t \in Thread /\ t \in Flusher /\ t \notin Reader /\ pc[t] = "insert"
  BY ThreadRoles, MemtableAssumption DEF IInv, InsertMsg, Goto, Thread, Flusher
<1>2. PICK cut \in [0 .. generation -> 0 .. Len(hist)] :
         CutInv(cut) /\ TreesInv(cut) /\ RootInv(cut) /\ LookupInv(cut)
  BY DEF DataInv
<1>3. ~closing /\ gen[t] = generation
  BY <1>1
  DEF RoleInv, InsertsInv, TaskPC, Turn, Compacting, Incorporating,
      Incorporated
<1>4. PICK s \in Slot : s = SlotOf(generation)
  BY <1>1, SlotsTyped
<1>5. mt_generation[s] = generation /\ state[s] = "READY"
  BY <1>1, <1>3, <1>4, CurrentInPlace
<1>6. PICK m \in Message :
         /\ hist' = Append(hist, m)
         /\ \A q \in Slot : content'[q] = IF q = s THEN Merge(content[s], <<m>>) ELSE content[q]
  <2>1. PICK d \in BOOLEAN :
           /\ hist' = Append(hist, [ver |-> Len(hist) + 1, definitive |-> d])
           /\ content' = [content EXCEPT ![s] = Merge(@, <<[ver |-> Len(hist) + 1, definitive |-> d]>>)]
    BY <1>3, <1>4 DEF InsertMsg
  <2>2. [ver |-> Len(hist) + 1, definitive |-> d] \in Message
    BY <1>1 DEF TypeOK, Message
  <2>3. content \in [Slot -> Seq(Message)]
    BY <1>1 DEF TypeOK
  <2> QED BY <2>1, <2>2, <2>3
<1>7. /\ "inserted" \in PC /\ pc' = [pc EXCEPT ![t] = "inserted"] /\ Moves(t, "inserted")
      /\ UNCHANGED <<generation, generation_retired, mt_generation, state,
                     branch, root, new_root, acked, acc, low>>
      /\ gen'[t] = Len(hist) + 1 /\ is_empty' = (is_empty /\ content[s] # <<>>)
  BY <1>1, <1>3, <1>4
  DEF InsertMsg, Goto, Moves, PC, TypeOK, slotVars, rootVars, readVars
<1> DEFINE n == Len(hist)
<1>8. /\ generation \in Nat /\ generation_retired < generation /\ generation_retired \in Int /\ -1 <= generation_retired
      /\ hist \in Seq(Message) /\ n \in Nat /\ Len(hist') = n + 1 /\ hist' \in Seq(Message)
  BY <1>1, <1>6 DEF TypeOK, SlotsInv
<1>9. /\ \A g \in 0 .. generation : cut[g] \in 0 .. n /\ cut[g] <= End(cut, g)
      /\ \A g \in Int : -1 <= g => End(cut, g) \in 0 .. n
      /\ End(cut, generation) = n
  BY <1>1, <1>2, Ends
<1>10. \A g \in Int : g < generation => End(cut, g)' = End(cut, g)
  BY <1>7, <1>8 DEF End
<1>11. End(cut, generation)' = n + 1
  BY <1>7, <1>8 DEF End
<1>12. \A a \in Nat : \A b \in a .. n : SegmentOf(hist', a, b) = SegmentOf(hist, a, b)
  BY <1>6, <1>8, SegmentKept
<1>a. content[s] = SegmentOf(hist, cut[generation], n)
  <2>1. generation_retired < mt_generation[s] /\ mt_generation[s] <= generation
    BY <1>5, <1>8
  <2>2. content[s] = SegmentOf(hist, cut[mt_generation[s]], End(cut, mt_generation[s]))
    BY <1>2, <2>1 DEF TreesInv
  <2> QED BY <1>5, <1>9, <2>2
<1>13. AckInv'
  <2>1. \A u \in Writer \cup Reader : u \in Thread
    BY DEF Thread
  <2>2. \A u \in Writer \cup Reader : pc'[u] = IF u = t THEN "inserted" ELSE pc[u]
    BY <1>1, <1>7, <2>1 DEF TypeOK
  <2>3. \A w \in Writer : w # t => gen'[w] = gen[w] /\ gen[w] \in Int
    BY <1>1, <1>7, <2>1 DEF Moves, TypeOK
  <2>4. acked \in Nat /\ \A r \in Reader : low[r] \in Nat
    BY <1>1 DEF TypeOK
  <2>5. AckInv
    BY DEF DataInv
  <2>6. acked' <= Len(hist') /\ \A r \in Reader : low'[r] <= Len(hist')
    BY <1>7, <1>8, <2>4, <2>5 DEF AckInv
  <2>7. \A w \in Writer : pc'[w] = "inserted" => gen'[w] <= Len(hist')
    BY <1>7, <1>8, <2>2, <2>3, <2>5 DEF AckInv
  <2>8. \A r \in Reader : pc'[r] \notin {"lookup", "found"} => acc'[r] = <<>>
    BY <1>1, <1>7, <2>2, <2>5 DEF AckInv
  <2> QED BY <2>6, <2>7, <2>8 DEF AckInv
<1>14. CutInv(cut)'
  <2>1. ~is_empty'
    <3>1. is_empty => cut[generation] = n
      BY <1>2 DEF CutInv
    <3>2. content[s] = SegmentOf(hist, cut[generation], n)
      BY <1>a
    <3>3. SegmentOf(hist, n, n) = <<>>
      BY <1>8, SegmentType
    <3> QED BY <1>7, <3>1, <3>2, <3>3
  <2> QED BY <1>2, <1>7, <2>1 DEF CutInv
<1>15. TreesInv(cut)'
  <2> SUFFICES ASSUME NEW q \in Slot
      PROVE (/\ generation_retired < mt_generation[q] /\ mt_generation[q] <= generation =>
                   content[q] = SegmentOf(hist, cut[mt_generation[q]], End(cut, mt_generation[q]))
             /\ generation < mt_generation[q] => content[q] = <<>>
             /\ state[q] \in {"COMPACTED", "INCORPORATION_ASSIGNED"} => branch[q] = content[q])'
    BY DEF TreesInv
  <2> DEFINE g == mt_generation[q]
  <2>1. g \in Nat /\ mt_generation'[q] = g
    BY <1>1, <1>7 DEF TypeOK
  <2>2. CASE q = s
    <3>1. content[s] = SegmentOf(hist, cut[generation], n)
      BY <1>a
    <3>2. cut[generation] \in 0 .. n
      BY <1>8, <1>9
    <3>3. Merge(content[s], <<m>>) = SegmentOf(hist', cut[generation], n + 1)
      BY <1>6, <1>8, <3>1, <3>2, SegmentGrows
    <3>4. (content[q] = SegmentOf(hist, cut[generation], End(cut, generation)))'
      BY <1>6, <1>7, <1>11, <2>2, <3>3
    <3>5. g = generation /\ state'[q] = "READY" /\ generation' = generation
      BY <1>5, <1>7, <2>2
    <3> QED BY <2>1, <3>4, <3>5
  <2>3. CASE q # s
    <3>1. g # generation
      BY <1>1, <1>4, <2>3 DEF SlotsInv
    <3>2. content'[q] = content[q] /\ state'[q] = state[q] /\ branch'[q] = branch[q]
      BY <1>6, <1>7, <2>3
    <3>3. ASSUME generation_retired < g, g <= generation
          PROVE  content'[q] = SegmentOf(hist', cut[g], End(cut, g)')
      <4>1. g \in 0 .. generation /\ g < generation
        BY <1>8, <2>1, <3>1, <3>3
      <4>2. content[q] = SegmentOf(hist, cut[g], End(cut, g))
        BY <1>2, <3>3 DEF TreesInv
      <4>3. cut[g] \in Nat /\ End(cut, g) \in cut[g] .. n
        <5>1. cut[g] \in 0 .. n /\ cut[g] <= End(cut, g) /\ End(cut, g) \in 0 .. n
          BY <1>9, <2>1, <4>1
        <5> QED BY <1>8, <5>1
      <4>4. End(cut, g)' = End(cut, g)
        BY <1>7, <4>1 DEF End
      <4> QED BY <1>12, <3>2, <4>2, <4>3, <4>4
    <3>4. End(cut, mt_generation[q])' = End(cut, g)'
      BY <2>1 DEF End
    <3>5. generation' = generation /\ generation_retired' = generation_retired
      BY <1>7
    <3> QED BY <1>2, <2>1, <3>2, <3>3, <3>4, <3>5 DEF TreesInv
  <2> QED BY <2>2, <2>3
<1>16. RootInv(cut)'
  <2>1. \A u \in Flusher : u \in Thread /\ pc'[u] = IF u = t THEN "inserted" ELSE pc[u]
    BY <1>1, <1>7, ThreadRoles DEF TypeOK
  <2>2. ASSUME \A u \in Flusher : pc'[u] # "switch"
        PROVE  root' = SegmentOf(hist', 0, End(cut, generation_retired)')
    <3>1. \A u \in Flusher : pc[u] # "switch"
      BY <1>1, <2>1, <2>2
    <3>2. root = SegmentOf(hist, 0, End(cut, generation_retired))
      BY <1>2, <3>1 DEF RootInv
    <3>3. End(cut, generation_retired) \in 0 .. n /\ End(cut, generation_retired)' = End(cut, generation_retired)
      BY <1>7, <1>8, <1>9 DEF End
    <3> QED BY <1>7, <1>12, <3>2, <3>3
  <2>3. ASSUME NEW u \in Flusher, pc'[u] \in Copied
        PROVE  new_root'[u] = SegmentOf(hist', 0, End(cut, gen[u])')
    <3>1. u # t /\ pc[u] \in Copied /\ u \in Thread
      BY <2>1, <2>3 DEF Copied
    <3>2. gen'[u] = gen[u] /\ gen[u] \in Int /\ new_root'[u] = new_root[u]
      BY <1>1, <1>7, <3>1 DEF Moves, TypeOK
    <3>3. gen[u] < generation /\ -1 <= gen[u]
      <4>1. CASE pc[u] = "switch"
        BY <1>1, <1>8, <4>1 DEF TurnInv, Incorporated
      <4>2. CASE pc[u] # "switch"
        <5>1. pc[u] \in Incorporating
          BY <3>1, <4>2 DEF Copied, Incorporating
        <5>2. gen[u] = generation_retired + 1 /\ InState(gen[u], "INCORPORATION_ASSIGNED")
          BY <1>1, <5>1 DEF TurnInv
        <5>3. SlotOf(gen[u]) \in Slot
          BY <1>1, <3>1, SlotsTyped
        <5>4. gen[u] < generation
          BY <1>1, <5>2, <5>3 DEF SlotsInv, InState, Behind
        <5> QED BY <1>8, <5>2, <5>4
      <4> QED BY <4>1, <4>2
    <3>4. new_root[u] = SegmentOf(hist, 0, End(cut, gen[u]))
      BY <1>2, <3>1 DEF RootInv
    <3>5. End(cut, gen[u]) \in 0 .. n
      BY <1>9, <3>2, <3>3
    <3>6. End(cut, gen[u])' = End(cut, gen[u])
      BY <1>7, <3>2, <3>3 DEF End
    <3> QED BY <1>12, <3>2, <3>4, <3>5, <3>6
  <2> QED BY <2>2, <2>3 DEF RootInv
<1>17. LookupInv(cut)'
  <2> SUFFICES ASSUME NEW r \in Reader
      PROVE (/\ pc[r] = "lookup" =>
                  \E k \in low[r] .. Len(hist) :
                      /\ End(cut, gen[r]) <= k
                      /\ acc[r] = SegmentOf(hist, End(cut, gen[r]), k)
             /\ pc[r] = "found" =>
                  \E k \in low[r] .. Len(hist) : acc[r] = SegmentOf(hist, 0, k))'
    BY DEF LookupInv
  <2>1. /\ r \in Thread /\ r # t /\ pc'[r] = pc[r] /\ gen'[r] = gen[r] /\ acc'[r] = acc[r] /\ low'[r] = low[r]
        /\ low[r] \in Nat /\ gen[r] \in Int
    BY <1>1, <1>7, ThreadRoles DEF TypeOK, Moves
  <2>2. ASSUME pc[r] = "lookup"
        PROVE  \E k \in low[r] .. n + 1 :
                   End(cut, gen[r])' <= k /\ acc[r] = SegmentOf(hist', End(cut, gen[r])', k)
    <3>1. PICK k \in low[r] .. n : End(cut, gen[r]) <= k /\ acc[r] = SegmentOf(hist, End(cut, gen[r]), k)
      BY <1>2, <2>2 DEF LookupInv
    <3>2. gen[r] <= generation /\ -1 <= gen[r]
      BY <1>1, <1>8, <2>1, <2>2 DEF ReadersInv
    <3>3. CASE gen[r] = generation
      <4>1. k = n /\ acc[r] = SegmentOf(hist, n, n)
        BY <1>8, <1>9, <2>1, <3>1, <3>3
      <4>2. SegmentOf(hist, n, n) = <<>> /\ SegmentOf(hist', n + 1, n + 1) = <<>>
        <5>1. n + 1 \in Nat /\ n + 1 \in n + 1 .. Len(hist') /\ n \in n .. Len(hist)
          BY <1>8
        <5> QED BY <1>8, <5>1, SegmentType
      <4>3. End(cut, gen[r])' = n + 1 /\ n + 1 \in low[r] .. n + 1
        BY <1>7, <1>8, <2>1, <3>1, <3>3 DEF End
      <4> QED BY <1>8, <4>1, <4>2, <4>3
    <3>4. CASE gen[r] < generation
      <4>1. End(cut, gen[r])' = End(cut, gen[r]) /\ End(cut, gen[r]) \in 0 .. n
        BY <1>7, <1>9, <2>1, <3>2, <3>4 DEF End
      <4>2. k \in low[r] .. n + 1 /\ k \in End(cut, gen[r]) .. n
        BY <1>8, <2>1, <3>1, <4>1
      <4> QED BY <1>12, <3>1, <4>1, <4>2
    <3> QED BY <1>8, <2>1, <3>2, <3>3, <3>4
  <2>3. ASSUME pc[r] = "found"
        PROVE  \E k \in low[r] .. n + 1 : acc[r] = SegmentOf(hist', 0, k)
    <3>1. PICK k \in low[r] .. n : acc[r] = SegmentOf(hist, 0, k)
      BY <1>2, <2>3 DEF LookupInv
    <3>2. k \in low[r] .. n + 1 /\ k \in 0 .. n
      BY <1>8, <2>1
    <3> QED BY <1>12, <3>1, <3>2
  <2>4. Len(hist') = n + 1
    BY <1>8
  <2> HIDE DEF n
  <2> QED BY <2>1, <2>2, <2>3, <2>4
<1>18. cut \in [0 .. generation' -> 0 .. Len(hist')]
  BY <1>2, <1>7, <1>8
<1> QED BY <1>13, <1>14, <1>15, <1>16, <1>17, <1>18, DataFrom

(* The current memtable is finalized: its piece of the history ends here,  *)
(* and the piece of the next one, still empty, begins.                     *)
LEMMA AdvanceData ==
    ASSUME IInv, DataInv, Advances, NEW t \in Writer, NEW to \in {"process", "quiesce"}, Moves(t, to), is_empty' = TRUE,
           pc[t] \notin Copied,
           UNCHANGED <<hist, content, branch, root, new_root, acked, acc, low,
                       gen>>
    PROVE  DataInv'
<1>1. /\ TypeOK /\ SlotsInv /\ ReadersInv /\ TurnInv
      /\ t \in Thread /\ t \in Flusher /\ t \notin Reader /\ to \in PC
  BY ThreadRoles, MemtableAssumption DEF IInv, Thread, Flusher, PC
<1>2. PICK old \in [0 .. generation -> 0 .. Len(hist)] :
         CutInv(old) /\ TreesInv(old) /\ RootInv(old) /\ LookupInv(old)
  BY DEF DataInv
<1>3. /\ generation \in Nat /\ generation' = generation + 1 /\ Len(hist) \in Nat /\ hist \in Seq(Message)
      /\ generation_retired \in Int /\ -1 <= generation_retired /\ generation_retired < generation
      /\ \A g \in 0 .. generation : old[g] \in 0 .. Len(hist)
  BY <1>1, <1>2 DEF Advances, TypeOK, SlotsInv
<1>4. PICK cut : cut = [g \in 0 .. generation + 1 |-> IF g <= generation THEN old[g] ELSE Len(hist)]
  OBVIOUS
<1>5. /\ cut \in [0 .. generation + 1 -> 0 .. Len(hist)]
      /\ \A g \in 0 .. generation : cut[g] = old[g]
      /\ cut[generation + 1] = Len(hist)
  BY <1>3, <1>4
<1>6. ASSUME NEW g \in Int, -1 <= g, g <= generation
      PROVE  End(cut, g)' = End(old, g)
  <2>1. g < generation + 1 /\ End(cut, g)' = cut[g + 1]
    BY <1>3, <1>6 DEF End
  <2>2. CASE g = generation
    BY <1>3, <1>5, <2>1, <2>2 DEF End
  <2>3. CASE g < generation
    <3>1. g + 1 \in 0 .. generation
      BY <1>3, <1>6, <2>3
    <3> QED BY <1>5, <2>1, <2>3, <3>1 DEF End
  <2> QED BY <1>3, <1>6, <2>2, <2>3
<1>7. CutInv(cut)'
  <2>1. cut[0] = 0 /\ cut[generation + 1] = Len(hist)
    BY <1>2, <1>3, <1>5 DEF CutInv
  <2>2. ASSUME NEW g \in 0 .. generation + 1, NEW h \in 0 .. generation + 1, g <= h
        PROVE  cut[g] <= cut[h]
    <3>1. CASE h <= generation
      <4>1. g \in 0 .. generation /\ h \in 0 .. generation
        BY <1>3, <2>2, <3>1
      <4> QED BY <1>2, <1>5, <2>2, <4>1 DEF CutInv
    <3>2. CASE ~(h <= generation)
      BY <1>3, <1>5, <2>2, <3>2
    <3> QED BY <3>1, <3>2
  <2> QED BY <1>3, <2>1, <2>2 DEF CutInv
<1>8. SegmentOf(hist, Len(hist), Len(hist)) = <<>>
  BY <1>3, SegmentType
<1>9. TreesInv(cut)'
  <2> SUFFICES ASSUME NEW q \in Slot
      PROVE (/\ generation_retired < mt_generation[q] /\ mt_generation[q] <= generation =>
                   content[q] = SegmentOf(hist, cut[mt_generation[q]], End(cut, mt_generation[q]))
             /\ generation < mt_generation[q] => content[q] = <<>>
             /\ state[q] \in {"COMPACTED", "INCORPORATION_ASSIGNED"} => branch[q] = content[q])'
    BY DEF TreesInv
  <2> DEFINE g == mt_generation[q]
  <2>1. g \in Nat /\ mt_generation' = mt_generation /\ generation_retired' = generation_retired
    BY <1>1 DEF TypeOK, Advances
  <2>2. state'[q] \in {"COMPACTED", "INCORPORATION_ASSIGNED"} => branch'[q] = content'[q]
    BY <1>2 DEF TreesInv, Advances
  <2>3. generation + 1 < g => content'[q] = <<>>
    BY <1>2, <1>3, <2>1 DEF TreesInv
  <2>4. ASSUME generation_retired < g, g <= generation + 1
        PROVE  content[q] = SegmentOf(hist, cut[g], End(cut, g)')
    <3>1. CASE g = generation + 1
      <4>1. content[q] = <<>>
        BY <1>2, <1>3, <3>1 DEF TreesInv
      <4>2. End(cut, g)' = Len(hist)
        BY <1>3, <2>1, <3>1 DEF End
      <4> QED BY <1>5, <1>8, <3>1, <4>1, <4>2
    <3>2. CASE g <= generation
      <4>1. content[q] = SegmentOf(hist, old[g], End(old, g))
        BY <1>2, <2>4, <3>2 DEF TreesInv
      <4>2. g \in 0 .. generation /\ g \in Int /\ -1 <= g
        BY <1>3, <2>1, <3>2
      <4>3. cut[g] = old[g] /\ End(cut, g)' = End(old, g)
        <5>1. ASSUME NEW x \in Int, -1 <= x, x <= generation, x = g
              PROVE  End(cut, g)' = End(old, x)
          BY <1>6, <2>1, <5>1 DEF End
        <5> QED BY <1>5, <3>2, <4>2, <5>1
      <4> QED BY <4>1, <4>3
    <3> QED BY <1>3, <2>1, <2>4, <3>1, <3>2
  <2> QED BY <1>3, <2>1, <2>2, <2>3, <2>4 DEF End
<1>10. \A u \in Thread : pc'[u] = IF u = t THEN to ELSE pc[u]
  BY <1>1 DEF TypeOK, Moves
<1>11. RootInv(cut)'
  <2>1. \A u \in Flusher : u \in Thread /\ gen[u] \in Int /\ gen'[u] = gen[u]
    BY <1>1, ThreadRoles DEF TypeOK
  <2>2. (\A u \in Flusher : pc'[u] # "switch") => \A u \in Flusher : pc[u] # "switch"
    BY <1>10, <2>1 DEF Copied
  <2>3. End(cut, generation_retired)' = End(old, generation_retired)
    <3>1. ASSUME NEW x \in Int, x = generation_retired
          PROVE  End(cut, x)' = End(old, x)
      BY <1>3, <1>6, <3>1
    <3>2. generation_retired' = generation_retired
      BY DEF Advances
    <3> QED BY <1>3, <3>1, <3>2 DEF End
  <2>4. (\A u \in Flusher : pc'[u] # "switch") => root' = SegmentOf(hist', 0, End(cut, generation_retired)')
    BY <1>2, <2>2, <2>3 DEF RootInv
  <2>5. ASSUME NEW u \in Flusher, pc'[u] \in Copied
        PROVE  new_root'[u] = SegmentOf(hist', 0, End(cut, gen[u])')
    <3>1. pc[u] \in Copied
      BY <1>10, <2>1, <2>5 DEF Copied
    <3>2. -1 <= gen[u] /\ gen[u] <= generation
      BY <1>1, <1>3, <2>1, <3>1
      DEF TurnInv, Copied, Incorporating, Incorporated
    <3>3. ASSUME NEW x \in Int, x = gen[u] PROVE End(cut, x)' = End(old, x)
      BY <1>6, <3>2, <3>3
    <3>4. End(cut, gen[u])' = End(old, gen[u])
      BY <2>1, <3>3 DEF End
    <3> QED BY <1>2, <3>1, <3>4 DEF RootInv
  <2> QED BY <2>4, <2>5 DEF RootInv
<1>12. LookupInv(cut)'
  <2> SUFFICES ASSUME NEW r \in Reader
      PROVE (/\ pc[r] = "lookup" =>
                  \E k \in low[r] .. Len(hist) :
                      /\ End(cut, gen[r]) <= k
                      /\ acc[r] = SegmentOf(hist, End(cut, gen[r]), k)
             /\ pc[r] = "found" =>
                  \E k \in low[r] .. Len(hist) : acc[r] = SegmentOf(hist, 0, k))'
    BY DEF LookupInv
  <2>0. r \in Thread /\ r # t
    BY <1>1, ThreadRoles
  <2>1. gen[r] \in Int /\ gen'[r] = gen[r] /\ pc'[r] = pc[r]
    BY <1>1, <1>10, <2>0 DEF TypeOK
  <2>2. pc[r] = "lookup" => End(cut, gen[r])' = End(old, gen[r])
    <3>1. SUFFICES ASSUME pc[r] = "lookup" PROVE End(cut, gen[r])' = End(old, gen[r])
      OBVIOUS
    <3>2. -1 <= gen[r] /\ gen[r] <= generation
      BY <1>1, <1>3, <2>1, <3>1 DEF ReadersInv
    <3>3. ASSUME NEW x \in Int, x = gen[r] PROVE End(cut, x)' = End(old, x)
      BY <1>6, <3>2, <3>3
    <3> QED BY <2>1, <3>3 DEF End
  <2> QED BY <1>2, <2>1, <2>2 DEF LookupInv
<1>13. AckInv'
  <2>1. \A u \in Writer \cup Reader : u \in Thread
    BY DEF Thread
  <2> QED BY <1>1, <1>10, <2>1 DEF AckInv, DataInv
<1>14. cut \in [0 .. generation' -> 0 .. Len(hist')]
  BY <1>3, <1>5
<1> QED BY <1>7, <1>9, <1>11, <1>12, <1>13, <1>14, DataFrom

(* Rotation starts a piece.                                                *)
LEMMA RotateData == ASSUME IInv, DataInv, NEW t \in Writer, Rotate(t) PROVE DataInv'
<1>1. /\ TypeOK /\ RoleInv /\ SlotsInv /\ InsertsInv /\ t \in Thread /\ pc[t] = "rotate"
  BY DEF IInv, Rotate, Goto, Thread
<1>2. ~closing /\ gen[t] = generation
  BY <1>1
  DEF RoleInv, InsertsInv, TaskPC, Turn, Compacting, Incorporating,
      Incorporated
<1>3. SlotOf(generation) \in Slot
  BY <1>1, SlotsTyped
<1>4. \A q \in Slot : state'[q] = IF q = SlotOf(generation) THEN "FINALIZED" ELSE state[q]
  BY <1>1, <1>2, <1>3 DEF Rotate, Transition, TypeOK
<1>5. Advances
  BY <1>2, <1>4 DEF Rotate, Advances
<1>6. /\ Moves(t, "process") /\ is_empty' = TRUE /\ pc[t] \notin Copied
      /\ UNCHANGED <<hist, content, branch, root, new_root, acked, acc, low,
                     gen>>
  BY <1>1
  DEF Rotate, Goto, Moves, Copied, dataVars, rootVars, readVars, histVars
<1> QED BY <1>5, <1>6, AdvanceData

(* The flush of close starts a piece.                                      *)
LEMMA CloseFlushData == ASSUME IInv, DataInv, NEW t \in Writer, CloseFlush(t) PROVE DataInv'
<1>1. TypeOK /\ t \in Thread /\ pc[t] = "idle" /\ ~closing
  BY DEF IInv, CloseFlush, Goto, Thread
<1>2. SlotOf(generation) \in Slot
  BY <1>1, SlotsTyped
<1>3. \A q \in Slot : state'[q] = IF q = SlotOf(generation) THEN "FINALIZED" ELSE state[q]
  BY <1>1, <1>2 DEF CloseFlush, Transition, TypeOK
<1>4. Advances
  BY <1>1, <1>3 DEF CloseFlush, Advances
<1>5. /\ Moves(t, "quiesce") /\ is_empty' = TRUE /\ pc[t] \notin Copied
      /\ UNCHANGED <<hist, content, branch, root, new_root, acked, acc, low,
                     gen>>
  BY <1>1
  DEF CloseFlush, Goto, Moves, Copied, dataVars, rootVars, readVars, histVars
<1> QED BY <1>4, <1>5, AdvanceData

(* There is one piece, and it is empty.                                    *)
LEMMA InitData == MemtableInit => DataInv
<1> SUFFICES ASSUME MemtableInit PROVE DataInv
  OBVIOUS
<1>1. TypeOK /\ generation = 0 /\ generation_retired = -1 /\ hist = <<>> /\ Len(hist) = 0
  BY InitInvariant DEF MemtableInit, IInv
<1>2. \A u \in Flusher \cup Reader \cup Writer : u \in Thread /\ pc[u] = "idle"
  BY ThreadRoles DEF MemtableInit, Thread, Flusher
<1>3. AckInv
  BY <1>1, <1>2 DEF AckInv, MemtableInit
<1>4. PICK cut : cut = [g \in 0 .. 0 |-> 0]
  OBVIOUS
<1>5. cut \in [0 .. generation -> 0 .. Len(hist)] /\ cut[0] = 0
  BY <1>1, <1>4
<1>6. SegmentOf(hist, 0, 0) = <<>>
  <2>1. hist \in Seq(Message) /\ 0 \in Nat /\ 0 \in 0 .. Len(hist)
    BY <1>1
  <2> QED BY <2>1, SegmentType
<1>7. CutInv(cut)
  BY <1>1, <1>5 DEF CutInv
<1>8. TreesInv(cut)
  <2> SUFFICES ASSUME NEW s \in Slot
      PROVE /\ generation_retired < mt_generation[s] /\ mt_generation[s] <= generation =>
                   content[s] = SegmentOf(hist, cut[mt_generation[s]], End(cut, mt_generation[s]))
            /\ generation < mt_generation[s] => content[s] = <<>>
            /\ state[s] \in {"COMPACTED", "INCORPORATION_ASSIGNED"} => branch[s] = content[s]
    BY DEF TreesInv
  <2>1. content[s] = <<>> /\ state[s] = "READY" /\ mt_generation[s] \in Nat
    BY <1>1 DEF MemtableInit, TypeOK
  <2>2. mt_generation[s] <= generation => mt_generation[s] = 0
    BY <1>1, <2>1
  <2>3. mt_generation[s] = 0 => SegmentOf(hist, cut[mt_generation[s]], End(cut, mt_generation[s])) = <<>>
    BY <1>1, <1>5, <1>6 DEF End
  <2> QED BY <2>1, <2>2, <2>3
<1>9. RootInv(cut)
  <2>1. End(cut, generation_retired) = 0 /\ root = <<>>
    BY <1>1, <1>5 DEF End, MemtableInit
  <2> QED BY <1>2, <1>6, <2>1 DEF RootInv, Copied
<1>10. LookupInv(cut)
  BY <1>2 DEF LookupInv
<1> QED BY <1>3, <1>5, <1>7, <1>8, <1>9, <1>10 DEF DataInv

(* Nothing happens.                                                        *)
LEMMA StutterData == ASSUME DataInv, UNCHANGED memtableVars PROVE DataInv'
<1> USE DEF memtableVars, ctxtVars, slotVars, dataVars, rootVars, lockVars,
            readVars, histVars
<1>1. PICK cut \in [0 .. generation -> 0 .. Len(hist)] :
         CutInv(cut) /\ TreesInv(cut) /\ RootInv(cut) /\ LookupInv(cut)
  BY DEF DataInv
<1>2. CutInv(cut)' /\ TreesInv(cut)' /\ RootInv(cut)' /\ LookupInv(cut)'
  BY <1>1 DEF CutInv, TreesInv, RootInv, LookupInv, End
<1>3. AckInv'
  BY DEF AckInv, DataInv
<1>4. cut \in [0 .. generation' -> 0 .. Len(hist')]
  BY <1>1
<1> QED BY <1>2, <1>3, <1>4, DataFrom

(* The steps of an insert and of a close.                                  *)
LEMMA WriterStepData == ASSUME IInv, DataInv, NEW w \in Writer, WriterStep(w) PROVE DataInv'
BY QuietWriters, RotateData, InsertMsgData, EndInsertData DEF WriterStep

(* The steps of the flush task.                                            *)
LEMMA TaskStepData == ASSUME IInv, DataInv, NEW t \in Writer \cup Worker, TaskStep(t) PROVE DataInv'
<1>1. t \in Flusher /\ t \in Thread
  BY DEF Flusher, Thread
<1> QED
  BY <1>1, QuietFlushers, QuietSlots, FinishCompactData, CopyRootData,
     RetireData, SwitchRootData,
       RecycleData DEF TaskStep

(* The steps of lookups and iterators.                                     *)
LEMMA ReaderStepData == ASSUME IInv, DataInv, NEW r \in Reader, ReaderStep(r) PROVE DataInv'
<1>1. r \in Thread
  BY DEF Thread
<1> QED
  BY <1>1, QuietReaders, QuietSlots, LookupMemtableData, LookupTrunkData,
     LookupReturnData, IteratorReadyData,
       RecycleData DEF ReaderStep

(* Every step keeps the pieces.                                            *)
LEMMA NextData == ASSUME IInv, DataInv, [MemtableNext]_memtableVars PROVE DataInv'
<1>1. CASE UNCHANGED memtableVars
  BY <1>1, StutterData
<1>2. ASSUME NEW w \in Writer, InsertCall(w) \/ CloseEmpty(w) \/ CloseFlush(w) \/ WriterStep(w)
      PROVE  DataInv'
  BY <1>2, QuietWriters, CloseFlushData, WriterStepData
<1>3. ASSUME NEW t \in Writer \cup Worker, TaskStep(t) PROVE DataInv'
  BY <1>3, TaskStepData
<1>4. ASSUME NEW r \in Reader, LookupCall(r) \/ IteratorInit(r) \/ ReaderStep(r)
      PROVE  DataInv'
  BY <1>4, BeginReadData, ReaderStepData DEF LookupCall, IteratorInit
<1> QED BY <1>1, <1>2, <1>3, <1>4 DEF MemtableNext

(* The invariant of the messages: cut at the rotations, the history of the *)
(* inserts is in the trunk up to the retired generation and then in the    *)
(* memtables, piece by piece.                                              *)
THEOREM DataInvariance == MemtableSpec => []DataInv
<1>1. MemtableInit => DataInv
  BY InitData
<1>2. IInv /\ DataInv /\ [MemtableNext]_memtableVars => DataInv'
  BY NextData
<1> QED BY <1>1, <1>2, Invariance, PTL DEF MemtableSpec

(* trunk_lookup is linearizable: what it returns is the value of the key   *)
(* at some moment between its call and its return, whatever rotations,     *)
(* compactions, incorporations and recyclings happen meanwhile.            *)
THEOREM FreshLookups == MemtableSpec => []LookupsAreFresh
<1>1. ASSUME IInv, DataInv PROVE LookupsAreFresh
  <2> SUFFICES ASSUME NEW r \in Reader, pc[r] = "found"
               PROVE  \E k \in low[r] .. Len(hist) : acc[r] = ValueAt(k)
    BY DEF LookupsAreFresh
  <2>1. PICK cut \in [0 .. generation -> 0 .. Len(hist)] : LookupInv(cut)
    BY <1>1 DEF DataInv
  <2>2. PICK k \in low[r] .. Len(hist) : acc[r] = SegmentOf(hist, 0, k)
    BY <2>1 DEF LookupInv
  <2>3. k \in Nat
    BY <1>1 DEF IInv, TypeOK
  <2> QED BY <2>2, <2>3, ValueIsSegment
<1> QED BY <1>1, Invariance, DataInvariance, PTL

-----------------------------------------------------------------------------
(* Whatever is to be done to a memtable, a thread or a queued task is      *)
(* there to do it.                                                         *)

Runs(places, g) == \E t \in Flusher : pc[t] \in places /\ gen[t] = g
Recycles(g) == \E t \in Thread : pc[t] = "recycle" /\ gen[t] = g
Queued(g) == \E i \in DOMAIN queue : queue[i] = g
Continues == \E t \in Flusher : pc[t] \in Incorporated

TasksInv ==
    /\ \A s \in Slot :
          /\ state[s] = "FINALIZED" =>
                Runs({"process", "compact"}, mt_generation[s]) \/ Queued(mt_generation[s])
          /\ state[s] = "COMPACTING" => Runs({"pack"}, mt_generation[s])
          /\ state[s] = "COMPACTED" /\ mt_generation[s] = generation_to_incorporate =>
                Runs({"start"}, mt_generation[s])
          /\ state[s] = "INCORPORATION_ASSIGNED" => Runs(Incorporating, mt_generation[s])
          /\ refs[s] = 0 => Recycles(mt_generation[s])
    /\ generation_to_incorporate = generation_retired =>
          \/ Continues
          \/ closing /\ generation = generation_retired + 1

ClosedInv ==
    \A w \in Writer : pc[w] = "closed" =>
        /\ queue = <<>>
        /\ \A t \in Thread \ {w} : pc[t] = "idle"

(* A thread that is not the one that moves stays where it is. *)
LEMMA RunsOn ==
    ASSUME TypeOK, NEW t \in Thread, NEW to, Moves(t, to), NEW places, NEW g, Runs(places, g)
    PROVE  Runs(places, g)' \/ (t \in Flusher /\ pc[t] \in places /\ gen[t] = g)
<1>1. PICK u \in Flusher : pc[u] \in places /\ gen[u] = g
  BY DEF Runs
<1>2. CASE u = t
  BY <1>1, <1>2
<1>3. CASE u # t
  <2>1. pc'[u] = pc[u] /\ gen'[u] = gen[u]
    BY <1>1, <1>3, ThreadRoles DEF Moves, TypeOK
  <2> QED BY <1>1, <2>1 DEF Runs
<1> QED BY <1>2, <1>3

(* The same for the thread that recycles a slot.                           *)
LEMMA RecyclesOn ==
    ASSUME TypeOK, NEW t \in Thread, NEW to, Moves(t, to), NEW g, Recycles(g)
    PROVE  Recycles(g)' \/ (pc[t] = "recycle" /\ gen[t] = g)
<1>1. PICK u \in Thread : pc[u] = "recycle" /\ gen[u] = g
  BY DEF Recycles
<1>2. CASE u = t
  BY <1>1, <1>2
<1>3. CASE u # t
  <2>1. pc'[u] = pc[u] /\ gen'[u] = gen[u]
    BY <1>1, <1>3 DEF Moves, TypeOK
  <2> QED BY <1>1, <2>1 DEF Recycles
<1> QED BY <1>2, <1>3

(* The same for the thread that has incorporated a memtable.               *)
LEMMA ContinuesOn ==
    ASSUME TypeOK, NEW t \in Thread, NEW to, Moves(t, to), Continues
    PROVE  Continues' \/ (t \in Flusher /\ pc[t] \in Incorporated)
<1>1. PICK u \in Flusher : pc[u] \in Incorporated
  BY DEF Continues
<1>2. CASE u = t
  BY <1>1, <1>2
<1>3. CASE u # t
  <2>1. pc'[u] = pc[u]
    BY <1>1, <1>3, ThreadRoles DEF Moves, TypeOK
  <2> QED BY <1>1, <2>1 DEF Continues
<1> QED BY <1>2, <1>3

(* The thread that moves is where it has moved to.                         *)
LEMMA RunsNow ==
    ASSUME TypeOK, NEW t \in Flusher, NEW to, Moves(t, to), NEW places, to \in places, NEW g, gen'[t] = g
    PROVE  Runs(places, g)'
<1>1. pc'[t] = to
  BY ThreadRoles DEF Moves, TypeOK
<1> QED BY <1>1 DEF Runs

(* Where thread t goes, and what it leaves. *)
Comes(t, to, places, g) == t \in Flusher /\ to \in places /\ gen'[t] = g
Stays(t, places, g) == ~(t \in Flusher /\ pc[t] \in places /\ gen[t] = g)

(* A step keeps TasksInv when the thread that moves takes over what it or  *)
(* another one leaves.                                                     *)
LEMMA TasksStep ==
    ASSUME TypeOK, TasksInv, NEW t \in Thread, NEW to \in PC, Moves(t, to),
           \A s \in Slot : state'[s] \in Behind \/ refs'[s] = 0 => mt_generation'[s] = mt_generation[s],
           \A s \in Slot : state'[s] = "FINALIZED" =>
                \/ Comes(t, to, {"process", "compact"}, mt_generation[s])
                \/ \E i \in DOMAIN queue' : queue'[i] = mt_generation[s]
                \/ /\ state[s] = "FINALIZED" /\ Stays(t, {"process", "compact"}, mt_generation[s])
                   /\ \A i \in DOMAIN queue : queue[i] = mt_generation[s] => \E j \in DOMAIN queue' : queue'[j] = queue[i],
           \A s \in Slot : state'[s] = "COMPACTING" =>
                \/ Comes(t, to, {"pack"}, mt_generation[s])
                \/ state[s] = "COMPACTING" /\ Stays(t, {"pack"}, mt_generation[s]),
           \A s \in Slot : state'[s] = "COMPACTED" /\ mt_generation[s] = generation_to_incorporate' =>
                \/ Comes(t, to, {"start"}, mt_generation[s])
                \/ /\ state[s] = "COMPACTED" /\ mt_generation[s] = generation_to_incorporate
                   /\ Stays(t, {"start"}, mt_generation[s]),
           \A s \in Slot : state'[s] = "INCORPORATION_ASSIGNED" =>
                \/ Comes(t, to, Incorporating, mt_generation[s])
                \/ state[s] = "INCORPORATION_ASSIGNED" /\ Stays(t, Incorporating, mt_generation[s]),
           \A s \in Slot : refs'[s] = 0 =>
                \/ to = "recycle" /\ gen'[t] = mt_generation[s]
                \/ refs[s] = 0 /\ ~(pc[t] = "recycle" /\ gen[t] = mt_generation[s]),
           generation_to_incorporate' = generation_retired' =>
                \/ closing' /\ generation' = generation_retired' + 1
                \/ t \in Flusher /\ to \in Incorporated
                \/ /\ generation_to_incorporate = generation_retired
                   /\ generation = generation_retired + 1 /\ closing =>
                          closing' /\ generation' = generation_retired' + 1
                   /\ ~(t \in Flusher /\ pc[t] \in Incorporated)
    PROVE  TasksInv'
<1>1. pc'[t] = to
  BY DEF Moves, TypeOK
<1>2. ASSUME NEW s \in Slot, NEW g, g = mt_generation[s]
      PROVE  /\ state'[s] = "FINALIZED" => Runs({"process", "compact"}, g)' \/ Queued(g)'
             /\ state'[s] = "COMPACTING" => Runs({"pack"}, g)'
             /\ state'[s] = "COMPACTED" /\ g = generation_to_incorporate' => Runs({"start"}, g)'
             /\ state'[s] = "INCORPORATION_ASSIGNED" => Runs(Incorporating, g)'
             /\ refs'[s] = 0 => Recycles(g)'
  <2>1. ASSUME state'[s] = "FINALIZED"
        PROVE  Runs({"process", "compact"}, g)' \/ Queued(g)'
    <3>1. CASE Comes(t, to, {"process", "compact"}, g)
      BY <3>1, RunsNow DEF Comes
    <3>2. CASE \E i \in DOMAIN queue' : queue'[i] = g
      BY <3>2 DEF Queued
    <3>3. CASE /\ state[s] = "FINALIZED" /\ Stays(t, {"process", "compact"}, g)
               /\ \A i \in DOMAIN queue : queue[i] = g => \E j \in DOMAIN queue' : queue'[j] = queue[i]
      <4>1. CASE Queued(g)
        BY <3>3, <4>1 DEF Queued
      <4>2. CASE Runs({"process", "compact"}, g)
        BY <3>3, <4>2, RunsOn DEF Stays
      <4> QED BY <1>2, <3>3, <4>1, <4>2 DEF TasksInv
    <3> QED BY <1>2, <2>1, <3>1, <3>2, <3>3
  <2>2. ASSUME state'[s] = "COMPACTING" PROVE Runs({"pack"}, g)'
    <3>1. CASE Comes(t, to, {"pack"}, g)
      BY <3>1, RunsNow DEF Comes
    <3>2. CASE state[s] = "COMPACTING" /\ Stays(t, {"pack"}, g)
      <4>1. Runs({"pack"}, g)
        BY <1>2, <3>2 DEF TasksInv
      <4> QED BY <3>2, <4>1, RunsOn DEF Stays
    <3> QED BY <1>2, <2>2, <3>1, <3>2
  <2>3. ASSUME state'[s] = "COMPACTED", g = generation_to_incorporate'
        PROVE  Runs({"start"}, g)'
    <3>1. CASE Comes(t, to, {"start"}, g)
      BY <3>1, RunsNow DEF Comes
    <3>2. CASE state[s] = "COMPACTED" /\ g = generation_to_incorporate /\ Stays(t, {"start"}, g)
      <4>1. Runs({"start"}, g)
        BY <1>2, <3>2 DEF TasksInv
      <4> QED BY <3>2, <4>1, RunsOn DEF Stays
    <3> QED BY <1>2, <2>3, <3>1, <3>2
  <2>4. ASSUME state'[s] = "INCORPORATION_ASSIGNED"
        PROVE  Runs(Incorporating, g)'
    <3>1. CASE Comes(t, to, Incorporating, g)
      BY <3>1, RunsNow DEF Comes
    <3>2. CASE state[s] = "INCORPORATION_ASSIGNED" /\ Stays(t, Incorporating, g)
      <4>1. Runs(Incorporating, g)
        BY <1>2, <3>2 DEF TasksInv
      <4> QED BY <3>2, <4>1, RunsOn DEF Stays
    <3> QED BY <1>2, <2>4, <3>1, <3>2
  <2>5. ASSUME refs'[s] = 0 PROVE Recycles(g)'
    <3>1. CASE to = "recycle" /\ gen'[t] = g
      BY <1>1, <3>1 DEF Recycles
    <3>2. CASE refs[s] = 0 /\ ~(pc[t] = "recycle" /\ gen[t] = g)
      <4>1. Recycles(g)
        BY <1>2, <3>2 DEF TasksInv
      <4> QED BY <3>2, <4>1, RecyclesOn
    <3> QED BY <1>2, <2>5, <3>1, <3>2
  <2> QED BY <2>1, <2>2, <2>3, <2>4, <2>5
<1>3. ASSUME generation_to_incorporate' = generation_retired'
      PROVE  Continues' \/ (closing' /\ generation' = generation_retired' + 1)
  <2>1. CASE t \in Flusher /\ to \in Incorporated
    BY <1>1, <2>1 DEF Continues
  <2>2. CASE /\ generation_to_incorporate = generation_retired
             /\ generation = generation_retired + 1 /\ closing =>
                    closing' /\ generation' = generation_retired' + 1
             /\ ~(t \in Flusher /\ pc[t] \in Incorporated)
    BY <2>2, ContinuesOn DEF TasksInv
  <2> QED BY <1>3, <2>1, <2>2
<1>4. ASSUME NEW s \in Slot
      PROVE (/\ state[s] = "FINALIZED" =>
                Runs({"process", "compact"}, mt_generation[s]) \/ Queued(mt_generation[s])
             /\ state[s] = "COMPACTING" => Runs({"pack"}, mt_generation[s])
             /\ state[s] = "COMPACTED" /\ mt_generation[s] = generation_to_incorporate =>
                Runs({"start"}, mt_generation[s])
             /\ state[s] = "INCORPORATION_ASSIGNED" => Runs(Incorporating, mt_generation[s])
             /\ refs[s] = 0 => Recycles(mt_generation[s]))'
  <2>1. CASE state'[s] \in Behind \/ refs'[s] = 0
    <3>1. PICK g : g = mt_generation[s] /\ g = mt_generation'[s]
      BY <2>1
    <3>2. state'[s] = "FINALIZED" => Runs({"process", "compact"}, g)' \/ Queued(g)'
      BY <1>2, <3>1
    <3>3. state'[s] = "COMPACTING" => Runs({"pack"}, g)'
      BY <1>2, <3>1
    <3>4. state'[s] = "COMPACTED" /\ g = generation_to_incorporate' => Runs({"start"}, g)'
      BY <1>2, <3>1
    <3>5. state'[s] = "INCORPORATION_ASSIGNED" => Runs(Incorporating, g)'
      BY <1>2, <3>1
    <3>6. refs'[s] = 0 => Recycles(g)'
      BY <1>2, <3>1
    <3> QED BY <3>1, <3>2, <3>3, <3>4, <3>5, <3>6 DEF Runs, Queued, Recycles
  <2>2. CASE ~(state'[s] \in Behind \/ refs'[s] = 0)
    BY <2>2 DEF Behind
  <2> QED BY <2>1, <2>2
<1> QED BY <1>3, <1>4 DEF TasksInv

(* A step that leaves no work behind. *)
Idles(t, to) ==
    /\ to \in PC /\ Moves(t, to) /\ pc[t] # "recycle"
    /\ t \in Flusher =>
          /\ pc[t] \notin {"process", "compact", "pack", "start"}
          /\ pc[t] \in Incorporating => to \in Incorporating /\ gen'[t] = gen[t]
          /\ pc[t] \in Incorporated => to \in Incorporated
    /\ UNCHANGED <<generation, generation_retired, generation_to_incorporate,
                   mt_generation, queue>>
    /\ closing => closing'
    /\ \A s \in Slot : state'[s] = state[s] \/ state'[s] \notin Behind
    /\ \A s \in Slot : refs'[s] = 0 => \/ refs[s] = 0
                                       \/ to = "recycle" /\ gen'[t] = mt_generation[s]

(* Such a step needs no other argument.                                    *)
LEMMA TasksFrame ==
    ASSUME TypeOK, TasksInv, NEW t \in Thread, NEW to, Idles(t, to)
    PROVE  TasksInv'
<1>1. \A s \in Slot : state'[s] \in Behind => state'[s] = state[s]
  BY DEF Idles
<1>2. \A st \in {"FINALIZED", "COMPACTING", "COMPACTED", "INCORPORATION_ASSIGNED"} : st \in Behind
  BY DEF Behind
<1>3. \A s \in Slot : state'[s] = "FINALIZED" =>
         /\ state[s] = "FINALIZED" /\ Stays(t, {"process", "compact"}, mt_generation[s])
         /\ \A i \in DOMAIN queue : queue[i] = mt_generation[s] => \E j \in DOMAIN queue' : queue'[j] = queue[i]
  BY <1>1, <1>2 DEF Idles, Stays
<1>4. \A s \in Slot : state'[s] = "COMPACTING" => state[s] = "COMPACTING" /\ Stays(t, {"pack"}, mt_generation[s])
  BY <1>1, <1>2 DEF Idles, Stays
<1>5. \A s \in Slot : state'[s] = "COMPACTED" /\ mt_generation[s] = generation_to_incorporate' =>
         /\ state[s] = "COMPACTED" /\ mt_generation[s] = generation_to_incorporate
         /\ Stays(t, {"start"}, mt_generation[s])
  BY <1>1, <1>2 DEF Idles, Stays
<1>6. \A s \in Slot : state'[s] = "INCORPORATION_ASSIGNED" =>
         \/ Comes(t, to, Incorporating, mt_generation[s])
         \/ state[s] = "INCORPORATION_ASSIGNED" /\ Stays(t, Incorporating, mt_generation[s])
  BY <1>1, <1>2 DEF Idles, Stays, Comes
<1>7. generation_to_incorporate' = generation_retired' =>
         \/ t \in Flusher /\ to \in Incorporated
         \/ /\ generation_to_incorporate = generation_retired
            /\ generation = generation_retired + 1 /\ closing =>
                   closing' /\ generation' = generation_retired' + 1
            /\ ~(t \in Flusher /\ pc[t] \in Incorporated)
  BY DEF Idles
<1>8. /\ to \in PC /\ Moves(t, to)
      /\ \A s \in Slot : state'[s] \in Behind \/ refs'[s] = 0 => mt_generation'[s] = mt_generation[s]
      /\ \A s \in Slot : refs'[s] = 0 =>
            \/ to = "recycle" /\ gen'[t] = mt_generation[s]
            \/ refs[s] = 0 /\ ~(pc[t] = "recycle" /\ gen[t] = mt_generation[s])
  BY DEF Idles
<1> QED BY <1>3, <1>4, <1>5, <1>6, <1>7, <1>8, TasksStep

(* The steps of a writer that leave no work behind.                        *)
LEMMA IdleWriters ==
    ASSUME IInv, TasksInv, NEW t \in Writer,
           \/ InsertCall(t) \/ BeginInsert(t) \/ BackOff(t) \/ Busy(t) \/ BusyRetry(t) \/ ClaimRotation(t)
           \/ MayInsert(t) \/ InsertMsg(t) \/ EndInsert(t) \/ CloseEmpty(t) \/ CloseDone(t) \/ LockRotation(t)
    PROVE  TasksInv'
<1> USE DEF Idles, Goto, Moves, PC, Incorporating, Incorporated, ctxtVars,
            slotVars, dataVars, rootVars, lockVars, readVars, histVars
<1>1. TypeOK /\ t \in Thread
  BY ThreadRoles DEF IInv
<1>2. \A u \in Thread \ {t} : gen' = gen \/ (\E g : gen' = [gen EXCEPT ![t] = g]) => gen'[u] = gen[u]
  BY <1>1 DEF TypeOK
<1>3. ASSUME InsertCall(t) PROVE Idles(t, "retry")
  BY <1>1, <1>2, <1>3 DEF InsertCall
<1>4. ASSUME BeginInsert(t) PROVE Idles(t, "check")
  BY <1>1, <1>2, <1>4 DEF BeginInsert
<1>5. ASSUME BackOff(t) PROVE Idles(t, "retry")
  BY <1>1, <1>2, <1>5 DEF BackOff
<1>6. ASSUME Busy(t) PROVE Idles(t, "busy")
  BY <1>1, <1>2, <1>6 DEF Busy
<1>7. ASSUME BusyRetry(t) PROVE Idles(t, "retry")
  BY <1>1, <1>2, <1>7 DEF BusyRetry
<1>8. ASSUME ClaimRotation(t) PROVE Idles(t, "lock")
  BY <1>1, <1>2, <1>8 DEF ClaimRotation
<1>9. ASSUME MayInsert(t) PROVE Idles(t, "insert")
  BY <1>1, <1>2, <1>9 DEF MayInsert
<1>10. ASSUME InsertMsg(t) PROVE Idles(t, "inserted")
  BY <1>1, <1>2, <1>10 DEF InsertMsg
<1>11. ASSUME EndInsert(t) PROVE Idles(t, "idle")
  BY <1>1, <1>2, <1>11 DEF EndInsert
<1>12. ASSUME CloseEmpty(t) PROVE Idles(t, "quiesce")
  BY <1>1, <1>2, <1>12 DEF CloseEmpty
<1>13. ASSUME CloseDone(t) PROVE Idles(t, "closed")
  BY <1>1, <1>2, <1>13 DEF CloseDone
<1>14. ASSUME LockRotation(t) PROVE Idles(t, "drain") \/ Idles(t, "rotate")
  BY <1>1, <1>2, <1>14 DEF LockRotation
<1> HIDE DEF Idles, Moves
<1> QED
  BY <1>1, <1>3, <1>4, <1>5, <1>6, <1>7, <1>8, <1>9, <1>10, <1>11, <1>12,
     <1>13, <1>14, TasksFrame
  DEF IInv

(* The steps of an incorporation.                                          *)
LEMMA IdleFlushers ==
    ASSUME IInv, TasksInv, NEW t \in Flusher,
           CopyRoot(t) \/ BlockLookups(t) \/ SwitchRoot(t) \/ UnblockLookups(t)
    PROVE  TasksInv'
<1> USE DEF Idles, Goto, Moves, PC, Incorporating, Incorporated, ctxtVars,
            slotVars, dataVars, rootVars, lockVars, readVars, histVars
<1>1. TypeOK /\ t \in Thread
  BY ThreadRoles DEF IInv
<1>2. ASSUME CopyRoot(t) PROVE Idles(t, "block")
  BY <1>1, <1>2 DEF CopyRoot
<1>3. ASSUME BlockLookups(t)
      PROVE  Idles(t, "block_lock") \/ Idles(t, "block_drain") \/ Idles(t, "retire")
  BY <1>1, <1>3 DEF BlockLookups
<1>4. ASSUME SwitchRoot(t) PROVE Idles(t, "unblock")
  BY <1>1, <1>4 DEF SwitchRoot
<1>5. ASSUME UnblockLookups(t) PROVE Idles(t, "dec_ref")
  BY <1>1, <1>5 DEF UnblockLookups
<1> HIDE DEF Idles, Moves
<1> QED BY <1>1, <1>2, <1>3, <1>4, <1>5, TasksFrame DEF IInv

(* The steps of lookups and iterators.                                     *)
LEMMA IdleReaders ==
    ASSUME IInv, TasksInv, NEW t \in Reader,
           \/ LookupCall(t) \/ IteratorInit(t) \/ LookupMemtable(t) \/ LookupTrunk(t) \/ LookupReturn(t)
           \/ PinMemtable(t) \/ IteratorReady(t) \/ IteratorDrop(t) \/ IteratorDone(t)
    PROVE  TasksInv'
<1> USE DEF Idles, Goto, Moves, PC, ctxtVars, slotVars, dataVars, rootVars,
            lockVars, readVars, histVars
<1>1. TypeOK /\ t \in Thread /\ t \notin Flusher
  BY ThreadRoles DEF IInv
<1>2. \A u \in Thread \ {t} : gen' = gen \/ (\E g : gen' = [gen EXCEPT ![t] = g]) => gen'[u] = gen[u]
  BY <1>1 DEF TypeOK
<1>3. ASSUME LookupCall(t) PROVE Idles(t, "lookup")
  BY <1>1, <1>2, <1>3 DEF LookupCall, BeginRead
<1>4. ASSUME IteratorInit(t) PROVE Idles(t, "iter_init")
  BY <1>1, <1>2, <1>4 DEF IteratorInit, BeginRead
<1>5. ASSUME LookupMemtable(t) PROVE Idles(t, "found") \/ Idles(t, "lookup")
  <2>1. CASE Goto(t, "lookup", "found")
    <3>1. pc'[t] = "found" /\ pc[t] = "lookup"
      BY <1>1, <2>1 DEF TypeOK
    <3>2. gen' = gen
      BY <1>5, <3>1 DEF LookupMemtable
    <3>3. Idles(t, "found")
      BY <1>1, <1>5, <2>1, <3>2 DEF LookupMemtable
    <3> QED BY <3>3
  <2>2. CASE ~Goto(t, "lookup", "found")
    <3>1. pc[t] = "lookup" /\ pc' = pc
      BY <1>5, <2>2 DEF LookupMemtable
    <3>2. pc' = [pc EXCEPT ![t] = "lookup"]
      BY <1>1, <3>1 DEF TypeOK
    <3>3. gen' = gen \/ (\E g : gen' = [gen EXCEPT ![t] = g])
      BY <1>5 DEF LookupMemtable
    <3> QED BY <1>1, <1>2, <1>5, <3>1, <3>2, <3>3 DEF LookupMemtable
  <2> QED BY <2>1, <2>2
<1>6. ASSUME LookupTrunk(t) PROVE Idles(t, "found")
  BY <1>1, <1>2, <1>6 DEF LookupTrunk
<1>7. ASSUME LookupReturn(t) PROVE Idles(t, "idle")
  BY <1>1, <1>2, <1>7 DEF LookupReturn
<1>8. ASSUME PinMemtable(t) PROVE Idles(t, "iter_init")
  <2>1. \A s \in Slot : refs'[s] = 0 => refs[s] = 0
    BY <1>8 DEF PinMemtable, TypeOK, IInv
  <2>2. pc[t] = "iter_init" /\ pc' = pc
    BY <1>8 DEF PinMemtable
  <2>3. pc' = [pc EXCEPT ![t] = "iter_init"]
    BY <1>1, <2>2 DEF TypeOK
  <2> QED BY <1>1, <1>2, <1>8, <2>1, <2>2, <2>3 DEF PinMemtable
<1>9. ASSUME IteratorReady(t) PROVE Idles(t, "drop")
  BY <1>1, <1>2, <1>9 DEF IteratorReady
<1>10. ASSUME IteratorDrop(t) PROVE Idles(t, "dec_ref")
  BY <1>1, <1>2, <1>10 DEF IteratorDrop
<1>11. ASSUME IteratorDone(t) PROVE Idles(t, "idle")
  BY <1>1, <1>2, <1>11 DEF IteratorDone
<1> HIDE DEF Idles, Moves
<1> QED
  BY <1>1, <1>3, <1>4, <1>5, <1>6, <1>7, <1>8, <1>9, <1>10, <1>11, TasksFrame
  DEF IInv

(* The last reference is dropped by the thread that then recycles.         *)
LEMMA IdleDecRef == ASSUME IInv, TasksInv, NEW t \in Thread, DecRef(t) PROVE TasksInv'
<1> USE DEF Goto, ctxtVars, slotVars, dataVars, rootVars, lockVars, readVars,
            histVars
<1>1. TypeOK /\ t \in Flusher \cup Reader /\ SlotOf(gen[t]) \in Slot /\ pc[t] = "dec_ref" /\ gen' = gen
  BY ThreadRoles, SlotsTyped DEF IInv, DecRef
<1>2. mt_generation[SlotOf(gen[t])] = gen[t]
  BY <1>1 DEF IInv, TurnInv, ReadersInv, InState
<1>3. PICK to : to = IF refs[SlotOf(gen[t])] = 1 THEN "recycle" ELSE AfterDecRef(t)
  OBVIOUS
<1>4. to \in PC /\ Moves(t, to) /\ (t \in Flusher => to \in Incorporated)
  BY <1>1, <1>3, ThreadRoles DEF DecRef, Moves, AfterDecRef, Incorporated, PC
<1>5. \A s \in Slot : refs'[s] = IF s = SlotOf(gen[t]) THEN refs[s] - 1 ELSE refs[s]
  BY <1>1 DEF DecRef, TypeOK
<1>6. ASSUME NEW s \in Slot, refs'[s] = 0
      PROVE  refs[s] = 0 \/ (to = "recycle" /\ gen'[t] = mt_generation[s])
  <2>1. CASE s = SlotOf(gen[t])
    <3>1. refs[s] \in Nat /\ refs[s] - 1 = 0
      BY <1>1, <1>5, <1>6, <2>1 DEF TypeOK
    <3> QED BY <1>1, <1>2, <1>3, <2>1, <3>1
  <2>2. CASE s # SlotOf(gen[t])
    BY <1>5, <1>6, <2>2
  <2> QED BY <2>1, <2>2
<1>7. Idles(t, to)
  BY <1>1, <1>4, <1>6 DEF Idles, DecRef, Incorporating
<1> QED BY <1>1, <1>7, TasksFrame, ThreadRoles

(* A recycled slot becomes ready.                                          *)
LEMMA IdleMakeReady == ASSUME IInv, TasksInv, NEW t \in Thread, MakeReady(t) PROVE TasksInv'
<1> USE DEF Goto, ctxtVars, slotVars, dataVars, rootVars, lockVars, readVars,
            histVars
<1>1. TypeOK /\ t \in Flusher \cup Reader /\ SlotOf(gen[t]) \in Slot /\ pc[t] = "ready" /\ gen' = gen
  BY ThreadRoles, SlotsTyped DEF IInv, MakeReady
<1>2. \A s \in Slot : state'[s] = IF s = SlotOf(gen[t]) THEN "READY" ELSE state[s]
  BY <1>1 DEF MakeReady, Transition, TypeOK
<1>3. Idles(t, AfterDecRef(t))
  BY <1>1, <1>2, ThreadRoles
  DEF Idles, MakeReady, Moves, AfterDecRef, Incorporated, Incorporating, PC,
      Behind
<1> QED BY <1>1, <1>3, TasksFrame, ThreadRoles

(* The finalized memtable passes from the writer to the queue.             *)
LEMMA ProcessTasks == ASSUME IInv, TasksInv, NEW t \in Writer, Process(t) PROVE TasksInv'
<1> USE DEF ctxtVars, slotVars, dataVars, rootVars, lockVars, readVars,
            histVars
<1>1. /\ TypeOK /\ t \in Thread /\ t \in Flusher /\ pc[t] = "process" /\ gen' = gen /\ Moves(t, "retry")
      /\ SlotOf(gen[t]) \in Slot /\ "retry" \in PC
  BY ThreadRoles, SlotsTyped DEF IInv, Process, Goto, Moves, PC
<1>2. gen[t] \in Nat
  BY <1>1 DEF IInv, CompactInv, TypeOK
<1>3. /\ Len(queue) \in Nat /\ DOMAIN queue = 1 .. Len(queue)
      /\ DOMAIN queue' = 1 .. Len(queue) + 1
      /\ \A j \in DOMAIN queue : queue'[j] = queue[j]
      /\ queue'[Len(queue) + 1] = gen[t]
  BY <1>1, <1>2 DEF Process, TypeOK
<1>4. \A i \in DOMAIN queue : i \in DOMAIN queue' /\ queue'[i] = queue[i]
  BY <1>3
<1>5. UNCHANGED <<generation, generation_retired, generation_to_incorporate,
                  mt_generation, state, refs, closing>>
  BY DEF Process
<1>6. \A s \in Slot : state'[s] = "FINALIZED" =>
         \/ \E i \in DOMAIN queue' : queue'[i] = mt_generation[s]
         \/ /\ state[s] = "FINALIZED" /\ Stays(t, {"process", "compact"}, mt_generation[s])
            /\ \A i \in DOMAIN queue : queue[i] = mt_generation[s] => \E j \in DOMAIN queue' : queue'[j] = queue[i]
  <2> SUFFICES ASSUME NEW s \in Slot, state'[s] = "FINALIZED"
      PROVE  \/ \E i \in DOMAIN queue' : queue'[i] = mt_generation[s]
             \/ /\ state[s] = "FINALIZED" /\ Stays(t, {"process", "compact"}, mt_generation[s])
                /\ \A i \in DOMAIN queue : queue[i] = mt_generation[s] => \E j \in DOMAIN queue' : queue'[j] = queue[i]
    OBVIOUS
  <2>1. CASE gen[t] = mt_generation[s]
    <3>1. Len(queue) + 1 \in DOMAIN queue'
      BY <1>3
    <3> QED BY <1>3, <2>1, <3>1
  <2>2. CASE gen[t] # mt_generation[s]
    BY <1>4, <1>5, <2>2 DEF Stays
  <2> QED BY <2>1, <2>2
<1>7. \A s \in Slot : /\ Stays(t, {"pack"}, mt_generation[s]) /\ Stays(t, {"start"}, mt_generation[s])
                      /\ Stays(t, Incorporating, mt_generation[s])
  BY <1>1 DEF Stays, Incorporating
<1>8. pc[t] \notin Incorporated
  BY <1>1 DEF Incorporated
<1> QED BY <1>1, <1>5, <1>6, <1>7, <1>8, TasksStep

(* The finalized memtable passes from the queue to a thread.               *)
LEMMA TakeTaskTasks == ASSUME IInv, TasksInv, NEW t \in Flusher, TakeTask(t) PROVE TasksInv'
<1> USE DEF ctxtVars, slotVars, dataVars, rootVars, lockVars, readVars,
            histVars
<1>1. /\ TypeOK /\ t \in Thread /\ pc[t] \in {"idle", "busy", "quiesce"} /\ Moves(t, "compact") /\ "compact" \in PC
      /\ queue # <<>> /\ gen'[t] = queue[1] /\ queue' = Tail(queue)
  BY ThreadRoles DEF IInv, TakeTask, Moves, PC, TypeOK
<1>2. /\ Len(queue) \in Nat /\ Len(queue) >= 1 /\ DOMAIN queue = 1 .. Len(queue)
      /\ DOMAIN queue' = 1 .. Len(queue) - 1
      /\ \A j \in 1 .. Len(queue) - 1 : queue'[j] = queue[j + 1]
  BY <1>1 DEF TypeOK
<1>3. \A i \in DOMAIN queue : i = 1 \/ (i - 1 \in DOMAIN queue' /\ queue'[i - 1] = queue[i])
  BY <1>2
<1>4. UNCHANGED <<generation, generation_retired, generation_to_incorporate,
                  mt_generation, state, refs, closing>>
  BY DEF TakeTask
<1>5. \A s \in Slot : state'[s] = "FINALIZED" =>
         \/ Comes(t, "compact", {"process", "compact"}, mt_generation[s])
         \/ /\ state[s] = "FINALIZED" /\ Stays(t, {"process", "compact"}, mt_generation[s])
            /\ \A i \in DOMAIN queue : queue[i] = mt_generation[s] => \E j \in DOMAIN queue' : queue'[j] = queue[i]
  <2> SUFFICES ASSUME NEW s \in Slot, state'[s] = "FINALIZED"
      PROVE  \/ Comes(t, "compact", {"process", "compact"}, mt_generation[s])
             \/ /\ state[s] = "FINALIZED" /\ Stays(t, {"process", "compact"}, mt_generation[s])
                /\ \A i \in DOMAIN queue : queue[i] = mt_generation[s] => \E j \in DOMAIN queue' : queue'[j] = queue[i]
    OBVIOUS
  <2>1. CASE queue[1] = mt_generation[s]
    BY <1>1, <2>1 DEF Comes
  <2>2. CASE queue[1] # mt_generation[s]
    <3>1. state[s] = "FINALIZED" /\ Stays(t, {"process", "compact"}, mt_generation[s])
      BY <1>1, <1>4 DEF Stays
    <3> QED BY <1>3, <2>2, <3>1
  <2> QED BY <2>1, <2>2
<1>6. \A s \in Slot : /\ Stays(t, {"pack"}, mt_generation[s]) /\ Stays(t, {"start"}, mt_generation[s])
                      /\ Stays(t, Incorporating, mt_generation[s])
  BY <1>1 DEF Stays, Incorporating
<1>7. pc[t] \notin Incorporated /\ pc[t] # "recycle"
  BY <1>1 DEF Incorporated
<1> QED BY <1>1, <1>4, <1>5, <1>6, <1>7, TasksStep

(* A flush task takes its memtable one state further.                      *)
LEMMA OwnSlotStep ==
    ASSUME IInv, TasksInv, NEW t \in Flusher, NEW new, NEW to \in PC, Moves(t, to), gen' = gen,
           mt_generation[SlotOf(gen[t])] = gen[t],
           \A q \in Slot : state'[q] = IF q = SlotOf(gen[t]) THEN new ELSE state[q],
           <<new, to>> \in {<<"COMPACTING", "pack">>, <<"COMPACTED", "start">>,
                            <<"INCORPORATION_ASSIGNED", "claim_root">>, <<"INCORPORATED", "switch">>},
           pc[t] # "recycle",
           to = "switch" \/ (pc[t] \notin Incorporated /\ generation_retired' = generation_retired),
           UNCHANGED <<generation, generation_to_incorporate, mt_generation,
                       refs, queue, closing>>
    PROVE  TasksInv'
<1>1. TypeOK /\ t \in Thread /\ SlotOf(gen[t]) \in Slot /\ \A s \in Slot : SlotOf(mt_generation[s]) = s
  BY ThreadRoles, SlotsTyped DEF IInv, SlotsInv
<1>2. ASSUME NEW s \in Slot, s # SlotOf(gen[t])
      PROVE  state'[s] = state[s] /\ \A places : Stays(t, places, mt_generation[s])
  BY <1>1, <1>2 DEF Stays
<1>3. state'[SlotOf(gen[t])] = new /\ gen'[t] = mt_generation[SlotOf(gen[t])]
  BY <1>1
<1>4. \/ new = "COMPACTING" /\ to = "pack"
      \/ new = "COMPACTED" /\ to = "start"
      \/ new = "INCORPORATION_ASSIGNED" /\ to = "claim_root"
      \/ new = "INCORPORATED" /\ to = "switch"
  OBVIOUS
<1>5. \A s \in Slot : state'[s] = "FINALIZED" =>
         /\ state[s] = "FINALIZED" /\ Stays(t, {"process", "compact"}, mt_generation[s])
         /\ \A i \in DOMAIN queue : queue[i] = mt_generation[s] => \E j \in DOMAIN queue' : queue'[j] = queue[i]
  BY <1>2, <1>3, <1>4
<1>6. \A s \in Slot : state'[s] = "COMPACTING" =>
         \/ Comes(t, to, {"pack"}, mt_generation[s])
         \/ state[s] = "COMPACTING" /\ Stays(t, {"pack"}, mt_generation[s])
  BY <1>2, <1>3, <1>4 DEF Comes
<1>7. \A s \in Slot : state'[s] = "COMPACTED" /\ mt_generation[s] = generation_to_incorporate' =>
         \/ Comes(t, to, {"start"}, mt_generation[s])
         \/ /\ state[s] = "COMPACTED" /\ mt_generation[s] = generation_to_incorporate
            /\ Stays(t, {"start"}, mt_generation[s])
  BY <1>2, <1>3, <1>4 DEF Comes
<1>8. \A s \in Slot : state'[s] = "INCORPORATION_ASSIGNED" =>
         \/ Comes(t, to, Incorporating, mt_generation[s])
         \/ state[s] = "INCORPORATION_ASSIGNED" /\ Stays(t, Incorporating, mt_generation[s])
  BY <1>2, <1>3, <1>4 DEF Comes, Incorporating
<1>9. generation_to_incorporate' = generation_retired' =>
         \/ t \in Flusher /\ to \in Incorporated
         \/ /\ generation_to_incorporate = generation_retired
            /\ generation = generation_retired + 1 /\ closing =>
                   closing' /\ generation' = generation_retired' + 1
            /\ ~(t \in Flusher /\ pc[t] \in Incorporated)
  BY DEF Incorporated
<1> QED BY <1>1, <1>5, <1>6, <1>7, <1>8, <1>9, TasksStep

(* The task of a memtable takes it from state to state.                    *)
LEMMA CompactTasks ==
    ASSUME IInv, TasksInv, NEW t \in Flusher, StartCompact(t) \/ FinishCompact(t) \/ TryStart(t)
    PROVE  TasksInv'
<1> USE DEF Goto, Transition, ctxtVars, slotVars, dataVars, rootVars, lockVars,
            readVars, histVars
<1>1. TypeOK /\ t \in Thread /\ SlotOf(gen[t]) \in Slot
  BY ThreadRoles, SlotsTyped DEF IInv
<1>2. pc[t] \in {"compact", "pack"} => mt_generation[SlotOf(gen[t])] = gen[t]
  BY DEF IInv, CompactInv, InState
<1>3. ASSUME StartCompact(t) PROVE TasksInv'
  <2>1. /\ Moves(t, "pack") /\ "pack" \in PC /\ gen' = gen /\ pc[t] = "compact"
        /\ \A q \in Slot : state'[q] = IF q = SlotOf(gen[t]) THEN "COMPACTING" ELSE state[q]
    BY <1>1, <1>3 DEF StartCompact, Moves, PC, TypeOK
  <2>2. /\ UNCHANGED <<generation, generation_to_incorporate, mt_generation,
                       refs, queue, closing>>
        /\ generation_retired' = generation_retired /\ pc[t] \notin Incorporated
    BY <1>3, <2>1 DEF StartCompact, Incorporated
  <2> QED BY <1>2, <2>1, <2>2, OwnSlotStep
<1>4. ASSUME FinishCompact(t) PROVE TasksInv'
  <2>1. /\ Moves(t, "start") /\ "start" \in PC /\ gen' = gen /\ pc[t] = "pack"
        /\ \A q \in Slot : state'[q] = IF q = SlotOf(gen[t]) THEN "COMPACTED" ELSE state[q]
    BY <1>1, <1>4 DEF FinishCompact, Moves, PC, TypeOK
  <2>2. /\ UNCHANGED <<generation, generation_to_incorporate, mt_generation,
                       refs, queue, closing>>
        /\ generation_retired' = generation_retired /\ pc[t] \notin Incorporated
    BY <1>4, <2>1 DEF FinishCompact, Incorporated
  <2> QED BY <1>2, <2>1, <2>2, OwnSlotStep
<1>5. ASSUME TryStart(t) PROVE TasksInv'
  <2>1. /\ Moves(t, "claim_root") /\ "claim_root" \in PC /\ gen' = gen /\ pc[t] = "start"
        /\ \A q \in Slot : state'[q] = IF q = SlotOf(gen[t]) THEN "INCORPORATION_ASSIGNED" ELSE state[q]
        /\ mt_generation[SlotOf(gen[t])] = gen[t]
    BY <1>1, <1>5 DEF TryStart, MayStart, Moves, PC, TypeOK
  <2>2. /\ UNCHANGED <<generation, generation_to_incorporate, mt_generation,
                       refs, queue, closing>>
        /\ generation_retired' = generation_retired /\ pc[t] \notin Incorporated
    BY <1>5, <2>1 DEF TryStart, Incorporated
  <2> QED BY <2>1, <2>2, OwnSlotStep
<1> QED BY <1>3, <1>4, <1>5

(* The thread that retires a memtable has the turn.                        *)
LEMMA RetireTasks == ASSUME IInv, TasksInv, NEW t \in Flusher, Retire(t) PROVE TasksInv'
<1> USE DEF Goto, Transition, ctxtVars, slotVars, dataVars, rootVars, lockVars,
            readVars, histVars
<1>1. TypeOK /\ t \in Thread /\ SlotOf(gen[t]) \in Slot /\ pc[t] = "retire"
  BY ThreadRoles, SlotsTyped DEF IInv, Retire
<1>2. mt_generation[SlotOf(gen[t])] = gen[t]
  BY <1>1 DEF IInv, TurnInv, InState, Incorporating
<1>3. /\ Moves(t, "switch") /\ "switch" \in PC /\ gen' = gen
      /\ \A q \in Slot : state'[q] = IF q = SlotOf(gen[t]) THEN "INCORPORATED" ELSE state[q]
  BY <1>1 DEF Retire, Moves, PC, TypeOK
<1>4. UNCHANGED <<generation, generation_to_incorporate, mt_generation, refs,
                  queue, closing>>
  BY DEF Retire
<1> QED BY <1>1, <1>2, <1>3, <1>4, OwnSlotStep

(* The thread that does not start leaves nothing: its memtable has been    *)
(* taken, or it is not its turn yet.                                       *)
LEMMA TryStartLostTasks == ASSUME IInv, TasksInv, NEW t \in Flusher, TryStartLost(t) PROVE TasksInv'
<1> USE DEF ctxtVars, slotVars, dataVars, rootVars, lockVars, readVars,
            histVars
<1>1. /\ TypeOK /\ t \in Thread /\ SlotOf(gen[t]) \in Slot /\ pc[t] = "start"
      /\ \A s \in Slot : SlotOf(mt_generation[s]) = s
  BY ThreadRoles, SlotsTyped DEF IInv, SlotsInv, TryStartLost
<1>2. Moves(t, AfterTask(t)) /\ AfterTask(t) \in PC
  BY <1>1 DEF TryStartLost, TaskDone, AfterTask, Moves, PC, TypeOK
<1>3. UNCHANGED <<generation, generation_retired, generation_to_incorporate,
                  mt_generation, state, refs, queue, closing>>
  BY DEF TryStartLost
<1>4. \A s \in Slot : state[s] = "COMPACTED" /\ mt_generation[s] = generation_to_incorporate =>
         Stays(t, {"start"}, mt_generation[s])
  BY <1>1 DEF Stays, TryStartLost, MayStart
<1>5. \A s \in Slot : /\ Stays(t, {"process", "compact"}, mt_generation[s])
                      /\ Stays(t, {"pack"}, mt_generation[s]) /\ Stays(t, Incorporating, mt_generation[s])
  BY <1>1 DEF Stays, Incorporating
<1>6. pc[t] \notin Incorporated
  BY <1>1 DEF Incorporated
<1> QED BY <1>1, <1>2, <1>3, <1>4, <1>5, <1>6, TasksStep

(* The slot has its own reference again.                                   *)
LEMMA RecycleTasks == ASSUME IInv, TasksInv, NEW t \in Thread, Recycle(t) PROVE TasksInv'
<1> USE DEF Goto, ctxtVars, slotVars, dataVars, rootVars, lockVars, readVars,
            histVars
<1>1. /\ TypeOK /\ SlotOf(gen[t]) \in Slot /\ pc[t] = "recycle" /\ Moves(t, "ready") /\ "ready" \in PC
      /\ \A s \in Slot : SlotOf(mt_generation[s]) = s
  BY SlotsTyped DEF IInv, SlotsInv, Recycle, Moves, PC
<1>2. state[SlotOf(gen[t])] = "INCORPORATED"
  BY <1>1 DEF IInv, RecycleInv, InState
<1>3. \A s \in Slot : /\ mt_generation'[s] = IF s = SlotOf(gen[t]) THEN mt_generation[s] + NumMemtables ELSE mt_generation[s]
                      /\ refs'[s] = IF s = SlotOf(gen[t]) THEN 1 ELSE refs[s]
  BY <1>1 DEF Recycle, TypeOK
<1>4. UNCHANGED <<generation, generation_retired, generation_to_incorporate,
                  state, queue, closing>> /\ gen' = gen
  BY DEF Recycle
<1>5. \A s \in Slot : state'[s] \in Behind \/ refs'[s] = 0 =>
         s # SlotOf(gen[t]) /\ mt_generation'[s] = mt_generation[s]
  BY <1>2, <1>3, <1>4 DEF Behind
<1>6. \A s \in Slot : /\ Stays(t, {"process", "compact"}, mt_generation[s]) /\ Stays(t, {"start"}, mt_generation[s])
                      /\ Stays(t, {"pack"}, mt_generation[s]) /\ Stays(t, Incorporating, mt_generation[s])
  BY <1>1 DEF Stays, Incorporating
<1>7. \A s \in Slot : refs'[s] = 0 => refs[s] = 0 /\ ~(pc[t] = "recycle" /\ gen[t] = mt_generation[s])
  BY <1>1, <1>3
<1>8. t \in Flusher => "ready" \in Incorporated
  BY DEF Incorporated
<1>9. generation_to_incorporate' = generation_retired' =>
         \/ t \in Flusher /\ "ready" \in Incorporated
         \/ /\ generation_to_incorporate = generation_retired
            /\ generation = generation_retired + 1 /\ closing =>
                   closing' /\ generation' = generation_retired' + 1
            /\ ~(t \in Flusher /\ pc[t] \in Incorporated)
  BY <1>4, <1>8
<1> QED BY <1>1, <1>4, <1>5, <1>6, <1>7, <1>9, TasksStep

(* The turn passes to the next generation.  It stays with the retired one  *)
(* only when the next memtable is not in its slot, which happens only when *)
(* close has finalized the last one before its slot was free.              *)
LEMMA TryContinueTasks == ASSUME IInv, TasksInv, NEW t \in Flusher, TryContinue(t) PROVE TasksInv'
<1> USE DEF ctxtVars, slotVars, dataVars, rootVars, lockVars, readVars,
            histVars
<1>1. /\ TypeOK /\ SlotsInv /\ t \in Thread /\ pc[t] = "continue" /\ gen[t] \in Int
      /\ \A s \in Slot : SlotOf(mt_generation[s]) = s
  BY ThreadRoles, SlotsTyped DEF IInv, SlotsInv, TryContinue, Goto
<1>2. gen[t] = generation_retired /\ gen[t] = generation_to_incorporate
  BY <1>1 DEF IInv, TurnInv, Turn, Incorporated
<1>3. PICK next \in Int : next = gen[t] + 1
  BY <1>1
<1>4. SlotOf(next) \in Slot
  BY SlotType
<1>5. /\ UNCHANGED <<generation, generation_retired, mt_generation, refs,
                     queue, closing>>
      /\ generation_to_incorporate' = IF mt_generation[SlotOf(next)] = next THEN next ELSE gen[t]
      /\ generation_retired \in Int /\ generation \in Int
  BY <1>1, <1>2, <1>3 DEF TryContinue, TypeOK
<1>10. next = generation_retired + 1 /\ next # generation_retired /\ next # gen[t]
  <2>1. ASSUME NEW g \in Int, g = gen[t], next = g + 1, generation_retired = g
        PROVE  next = generation_retired + 1 /\ next # generation_retired /\ next # g
    BY <2>1
  <2> QED BY <1>1, <1>2, <1>3, <2>1
<1>6. \A s \in Slot : /\ Stays(t, {"process", "compact"}, mt_generation[s]) /\ Stays(t, {"start"}, mt_generation[s])
                      /\ Stays(t, {"pack"}, mt_generation[s]) /\ Stays(t, Incorporating, mt_generation[s])
  BY <1>1 DEF Stays, Incorporating
<1>7. \A s \in Slot : state[s] = "COMPACTED" => mt_generation[s] # gen[t]
  BY <1>1, <1>2, <1>5 DEF SlotsInv, Behind, TypeOK
<1>8. CASE mt_generation[SlotOf(next)] = next /\ state[SlotOf(next)] = "COMPACTED"
  <2>1. /\ Moves(t, "claim_root") /\ "claim_root" \in PC /\ gen'[t] = next
        /\ \A s \in Slot : state'[s] = IF s = SlotOf(next) THEN "INCORPORATION_ASSIGNED" ELSE state[s]
    BY <1>1, <1>3, <1>4, <1>8
    DEF TryContinue, Goto, Transition, Moves, PC, TypeOK
  <2>2. \A s \in Slot : state'[s] = "COMPACTED" => mt_generation[s] # next
    BY <1>1, <2>1
  <2>3. \A s \in Slot : state'[s] = "INCORPORATION_ASSIGNED" =>
           \/ Comes(t, "claim_root", Incorporating, mt_generation[s])
           \/ state[s] = "INCORPORATION_ASSIGNED" /\ Stays(t, Incorporating, mt_generation[s])
    BY <1>6, <1>8, <2>1 DEF Comes, Incorporating
  <2>4. generation_to_incorporate' # generation_retired' /\ generation_to_incorporate' = next
    BY <1>5, <1>8, <1>10
  <2>5. \A s \in Slot : /\ state'[s] = "FINALIZED" => state[s] = "FINALIZED"
                        /\ state'[s] = "COMPACTING" => state[s] = "COMPACTING"
    BY <2>1
  <2> QED BY <1>1, <1>5, <1>6, <2>1, <2>2, <2>3, <2>4, <2>5, TasksStep
<1>9. CASE ~(mt_generation[SlotOf(next)] = next /\ state[SlotOf(next)] = "COMPACTED")
  <2>1. Moves(t, AfterTask(t)) /\ AfterTask(t) \in PC /\ state' = state
    BY <1>1, <1>3, <1>9 DEF TryContinue, TaskDone, AfterTask, Moves, PC, TypeOK
  <2>2. \A s \in Slot : state[s] = "COMPACTED" => mt_generation[s] # generation_to_incorporate'
    BY <1>1, <1>5, <1>7, <1>9
  <2>3. generation_to_incorporate' = generation_retired' => closing' /\ generation' = generation_retired' + 1
    <3>1. SUFFICES ASSUME mt_generation[SlotOf(next)] # next
                   PROVE  closing /\ generation = generation_retired + 1
      BY <1>5, <1>10
    <3>2. generation_retired < generation /\ next = generation_retired + 1
      BY <1>1, <1>10 DEF SlotsInv
    <3>3. ~(next < generation)
      BY <1>1, <1>5, <3>1, <3>2, InPlace
    <3>4. next = generation
      BY <1>5, <3>2, <3>3
    <3>5. closing
      BY <1>1, <3>1, <3>4, CurrentInPlace
    <3> QED BY <3>2, <3>4, <3>5
  <2> QED BY <1>1, <1>5, <1>6, <2>1, <2>2, <2>3, TasksStep
<1> QED BY <1>8, <1>9

(* A memtable is finalized by the thread that then processes or enqueues   *)
(* it.                                                                     *)
LEMMA AdvanceTasks ==
    ASSUME IInv, TasksInv, Advances, NEW t \in Writer, NEW to \in PC, Moves(t, to), gen' = gen, refs' = refs,
           pc[t] \in {"rotate", "idle"},
           \/ to = "process" /\ gen[t] = generation /\ queue' = queue
           \/ to = "quiesce" /\ queue' = Append(queue, generation)
    PROVE  TasksInv'
<1>1. /\ TypeOK /\ SlotsInv /\ t \in Thread /\ t \in Flusher /\ generation \in Nat
      /\ \A s \in Slot : SlotOf(mt_generation[s]) = s
  BY ThreadRoles DEF IInv, SlotsInv, TypeOK
<1>2. SlotOf(generation) \in Slot /\ mt_generation[SlotOf(generation)] = generation
  BY <1>1, CurrentInPlace DEF Advances
<1>3. /\ Len(queue) \in Nat /\ DOMAIN queue = 1 .. Len(queue)
      /\ to = "quiesce" => /\ DOMAIN queue' = 1 .. Len(queue) + 1
                           /\ \A j \in DOMAIN queue : queue'[j] = queue[j]
                           /\ queue'[Len(queue) + 1] = generation
  <2>1. queue \in Seq(Nat)
    BY <1>1 DEF TypeOK
  <2>2. ASSUME to = "quiesce" PROVE queue' = Append(queue, generation)
    BY <2>2
  <2> QED BY <1>1, <2>1, <2>2
<1>4. \A i \in DOMAIN queue : i \in DOMAIN queue' /\ queue'[i] = queue[i]
  BY <1>3
<1>5. /\ UNCHANGED <<mt_generation, generation_retired,
                     generation_to_incorporate>> /\ ~closing
      /\ \A q \in Slot : state'[q] = IF q = SlotOf(generation) THEN "FINALIZED" ELSE state[q]
  BY DEF Advances
<1>6. \A s \in Slot : /\ Stays(t, {"process", "compact"}, mt_generation[s]) /\ Stays(t, {"start"}, mt_generation[s])
                      /\ Stays(t, {"pack"}, mt_generation[s]) /\ Stays(t, Incorporating, mt_generation[s])
  BY DEF Stays, Incorporating
<1>7. \A s \in Slot : state'[s] = "FINALIZED" =>
         \/ Comes(t, to, {"process", "compact"}, mt_generation[s])
         \/ \E i \in DOMAIN queue' : queue'[i] = mt_generation[s]
         \/ /\ state[s] = "FINALIZED" /\ Stays(t, {"process", "compact"}, mt_generation[s])
            /\ \A i \in DOMAIN queue : queue[i] = mt_generation[s] => \E j \in DOMAIN queue' : queue'[j] = queue[i]
  <2> SUFFICES ASSUME NEW s \in Slot, state'[s] = "FINALIZED"
      PROVE  \/ Comes(t, to, {"process", "compact"}, mt_generation[s])
             \/ \E i \in DOMAIN queue' : queue'[i] = mt_generation[s]
             \/ /\ state[s] = "FINALIZED" /\ Stays(t, {"process", "compact"}, mt_generation[s])
                /\ \A i \in DOMAIN queue : queue[i] = mt_generation[s] => \E j \in DOMAIN queue' : queue'[j] = queue[i]
    OBVIOUS
  <2>1. CASE s # SlotOf(generation)
    BY <1>4, <1>5, <1>6, <2>1
  <2>2. CASE s = SlotOf(generation) /\ to = "process"
    BY <1>1, <1>2, <2>2 DEF Comes
  <2>3. CASE s = SlotOf(generation) /\ to = "quiesce"
    <3>1. Len(queue) + 1 \in DOMAIN queue' /\ queue'[Len(queue) + 1] = mt_generation[s]
      BY <1>2, <1>3, <2>3
    <3> QED BY <3>1
  <2> QED BY <2>1, <2>2, <2>3
<1>8. \A s \in Slot : /\ state'[s] = "COMPACTING" => state[s] = "COMPACTING"
                      /\ state'[s] = "COMPACTED" => state[s] = "COMPACTED"
                      /\ state'[s] = "INCORPORATION_ASSIGNED" => state[s] = "INCORPORATION_ASSIGNED"
  BY <1>5
<1>9. pc[t] \notin Incorporated /\ pc[t] # "recycle"
  BY DEF Incorporated
<1> QED BY <1>1, <1>5, <1>6, <1>7, <1>8, <1>9, TasksStep

(* Rotation.                                                               *)
LEMMA RotateTasks == ASSUME IInv, TasksInv, NEW t \in Writer, Rotate(t) PROVE TasksInv'
<1>1. /\ TypeOK /\ RoleInv /\ SlotsInv /\ InsertsInv /\ t \in Thread /\ pc[t] = "rotate"
  BY DEF IInv, Rotate, Goto, Thread
<1>2. ~closing /\ gen[t] = generation
  BY <1>1
  DEF RoleInv, InsertsInv, TaskPC, Turn, Compacting, Incorporating,
      Incorporated
<1>3. SlotOf(generation) \in Slot
  BY <1>1, SlotsTyped
<1>4. \A q \in Slot : state'[q] = IF q = SlotOf(generation) THEN "FINALIZED" ELSE state[q]
  BY <1>1, <1>2, <1>3 DEF Rotate, Transition, TypeOK
<1>5. Advances
  BY <1>2, <1>4 DEF Rotate, Advances
<1>6. Moves(t, "process") /\ "process" \in PC /\ gen' = gen /\ refs' = refs /\ queue' = queue
  BY DEF Rotate, Goto, Moves, PC
<1> QED BY <1>1, <1>2, <1>5, <1>6, AdvanceTasks

(* The flush of close.                                                     *)
LEMMA CloseFlushTasks == ASSUME IInv, TasksInv, NEW t \in Writer, CloseFlush(t) PROVE TasksInv'
<1>1. /\ TypeOK /\ SlotsInv /\ t \in Thread /\ pc[t] = "idle" /\ ~closing
  BY DEF IInv, CloseFlush, Goto, Thread
<1>2. SlotOf(generation) \in Slot
  BY <1>1, SlotsTyped
<1>3. \A q \in Slot : state'[q] = IF q = SlotOf(generation) THEN "FINALIZED" ELSE state[q]
  BY <1>1, <1>2 DEF CloseFlush, Transition, TypeOK
<1>4. Advances
  BY <1>1, <1>3 DEF CloseFlush, Advances
<1>5. Moves(t, "quiesce") /\ "quiesce" \in PC /\ gen' = gen /\ refs' = refs /\ queue' = Append(queue, generation)
  BY DEF CloseFlush, Goto, Moves, PC
<1> QED BY <1>1, <1>4, <1>5, AdvanceTasks

(* There is nothing to be done.                                            *)
LEMMA InitTasks == MemtableInit => TasksInv
<1> SUFFICES ASSUME MemtableInit PROVE TasksInv
  OBVIOUS
<1>1. \A s \in Slot : state[s] = "READY" /\ refs[s] = 1
  BY DEF MemtableInit
<1>2. generation_to_incorporate # generation_retired
  BY DEF MemtableInit
<1> QED BY <1>1, <1>2 DEF TasksInv

(* Nothing happens.                                                        *)
LEMMA StutterTasks == ASSUME TasksInv, UNCHANGED memtableVars PROVE TasksInv'
BY DEF TasksInv, Runs, Queued, Recycles, Continues, memtableVars, ctxtVars,
       slotVars

(* Every step keeps TasksInv.                                              *)
LEMMA NextTasks == ASSUME IInv, TasksInv, [MemtableNext]_memtableVars PROVE TasksInv'
<1>1. CASE UNCHANGED memtableVars
  BY <1>1, StutterTasks
<1>2. ASSUME NEW w \in Writer, InsertCall(w) \/ CloseEmpty(w) \/ CloseFlush(w) \/ WriterStep(w)
      PROVE  TasksInv'
  BY <1>2, IdleWriters, RotateTasks, ProcessTasks, CloseFlushTasks
  DEF WriterStep
<1>3. ASSUME NEW t \in Writer \cup Worker, TaskStep(t) PROVE TasksInv'
  <2>1. t \in Flusher /\ t \in Thread
    BY DEF Flusher, Thread
  <2> QED
    BY <1>3, <2>1, TakeTaskTasks, CompactTasks, TryStartLostTasks,
       IdleFlushers, RetireTasks, IdleDecRef,
            RecycleTasks, IdleMakeReady, TryContinueTasks DEF TaskStep
<1>4. ASSUME NEW r \in Reader, LookupCall(r) \/ IteratorInit(r) \/ ReaderStep(r)
      PROVE  TasksInv'
  <2>1. r \in Thread
    BY DEF Thread
  <2> QED
    BY <1>4, <2>1, IdleReaders, IdleDecRef, RecycleTasks, IdleMakeReady
    DEF ReaderStep
<1> QED BY <1>1, <1>2, <1>3, <1>4 DEF MemtableNext

-----------------------------------------------------------------------------
(* The end of splinterdb_close.                                            *)

NoneCloses == \A u \in Thread : pc'[u] = "closed" => pc[u] = "closed"

(* A move to another place.                                                *)
LEMMA NoneClosesFrom ==
    ASSUME TypeOK, NEW t, NEW to, to # "closed", pc' = [pc EXCEPT ![t] = to]
    PROVE  NoneCloses
BY DEF NoneCloses, TypeOK

(* Only CloseDone ends a close.                                            *)
LEMMA WritersClose ==
    ASSUME TypeOK, NEW w \in Writer,
           InsertCall(w) \/ CloseEmpty(w) \/ CloseFlush(w) \/ (WriterStep(w) /\ ~CloseDone(w))
    PROVE  NoneCloses
<1>1. ASSUME InsertCall(w) \/ CloseEmpty(w) \/ CloseFlush(w) PROVE NoneCloses
  BY <1>1, NoneClosesFrom DEF InsertCall, CloseEmpty, CloseFlush, Goto
<1>2. ASSUME BeginInsert(w) \/ BackOff(w) \/ Busy(w) \/ BusyRetry(w) \/ ClaimRotation(w)
      PROVE  NoneCloses
  BY <1>2, NoneClosesFrom
  DEF BeginInsert, BackOff, Busy, BusyRetry, ClaimRotation, Goto
<1>3. ASSUME LockRotation(w) \/ Rotate(w) \/ Process(w) \/ MayInsert(w)
      PROVE  NoneCloses
  BY <1>3, NoneClosesFrom DEF LockRotation, Rotate, Process, MayInsert, Goto
<1>4. ASSUME InsertMsg(w) \/ EndInsert(w) PROVE NoneCloses
  BY <1>4, NoneClosesFrom DEF InsertMsg, EndInsert, Goto
<1> QED BY <1>1, <1>2, <1>3, <1>4 DEF WriterStep

(* No task ends a close.                                                   *)
LEMMA FlushersClose == ASSUME TypeOK, NEW t, TaskStep(t) PROVE NoneCloses
<1>1. ASSUME TakeTask(t) \/ StartCompact(t) \/ FinishCompact(t) \/ TryStart(t)
      PROVE  NoneCloses
  BY <1>1, NoneClosesFrom
  DEF TakeTask, StartCompact, FinishCompact, TryStart, Goto
<1>2. ASSUME TryStartLost(t) \/ TryContinue(t) PROVE NoneCloses
  <2>1. ASSUME TaskDone(t) PROVE NoneCloses
    BY <2>1 DEF TaskDone, NoneCloses, TypeOK
  <2>2. ASSUME Goto(t, "continue", "claim_root") PROVE NoneCloses
    BY <2>2, NoneClosesFrom DEF Goto
  <2> QED BY <1>2, <2>1, <2>2 DEF TryStartLost, TryContinue
<1>3. ASSUME CopyRoot(t) \/ BlockLookups(t) \/ Retire(t) \/ SwitchRoot(t) \/ UnblockLookups(t)
      PROVE  NoneCloses
  BY <1>3, NoneClosesFrom
  DEF CopyRoot, BlockLookups, Retire, SwitchRoot, UnblockLookups, Goto
<1>4. ASSUME DecRef(t) \/ Recycle(t) \/ MakeReady(t) PROVE NoneCloses
  BY <1>4, NoneClosesFrom DEF DecRef, Recycle, MakeReady, AfterDecRef, Goto
<1> QED BY <1>1, <1>2, <1>3, <1>4 DEF TaskStep

(* No reader ends a close.                                                 *)
LEMMA ReadersClose == ASSUME TypeOK, NEW r, LookupCall(r) \/ IteratorInit(r) \/ ReaderStep(r) PROVE NoneCloses
<1>1. ASSUME LookupCall(r) \/ IteratorInit(r) PROVE NoneCloses
  BY <1>1, NoneClosesFrom DEF LookupCall, IteratorInit, BeginRead, Goto
<1>2. ASSUME LookupMemtable(r) PROVE NoneCloses
  BY <1>2, NoneClosesFrom DEF LookupMemtable, Goto, NoneCloses
<1>3. ASSUME LookupTrunk(r) \/ LookupReturn(r) \/ IteratorReady(r) \/ IteratorDrop(r) \/ IteratorDone(r)
      PROVE  NoneCloses
  BY <1>3, NoneClosesFrom
  DEF LookupTrunk, LookupReturn, IteratorReady, IteratorDrop, IteratorDone,
      Goto
<1>4. ASSUME PinMemtable(r) PROVE NoneCloses
  BY <1>4 DEF PinMemtable, NoneCloses
<1>5. ASSUME DecRef(r) \/ Recycle(r) \/ MakeReady(r) PROVE NoneCloses
  BY <1>5, NoneClosesFrom DEF DecRef, Recycle, MakeReady, AfterDecRef, Goto
<1> QED BY <1>1, <1>2, <1>3, <1>4, <1>5 DEF ReaderStep

(* Once close has returned, nothing moves. *)
LEMMA ClosedStops ==
    ASSUME IInv, ClosedInv, NEW w \in Writer, pc[w] = "closed", MemtableNext
    PROVE  UNCHANGED memtableVars
<1>1. TypeOK /\ closing
  <2>1. "closed" \notin {"idle"} \cup TaskPC \cup CallPC
    BY DEF TaskPC, CallPC, Compacting, Turn, Incorporating, Incorporated
  <2> QED BY <2>1 DEF IInv, RoleInv
<1>2. queue = <<>> /\ \A t \in Thread : pc[t] \in {"idle", "closed"}
  BY DEF ClosedInv
<1>3. \A t \in Reader : t \in Thread /\ pc[t] = "idle"
  BY <1>1, ThreadRoles DEF IInv, RoleInv
<1>4. ASSUME NEW t \in Writer
      PROVE  ~(InsertCall(t) \/ CloseEmpty(t) \/ CloseFlush(t) \/ WriterStep(t))
  <2>1. t \in Thread
    BY DEF Thread
  <2>2. ~(InsertCall(t) \/ CloseEmpty(t) \/ CloseFlush(t))
    BY <1>1 DEF InsertCall, CloseEmpty, CloseFlush
  <2>3. ~WriterStep(t)
    BY <1>2, <2>1
    DEF WriterStep, BeginInsert, BackOff, Busy, BusyRetry, ClaimRotation,
        LockRotation, Rotate, Process,
          MayInsert, InsertMsg, EndInsert, CloseDone, Goto
  <2> QED BY <2>2, <2>3
<1>5. ASSUME NEW t \in Thread PROVE ~TaskStep(t)
  BY <1>2
  DEF TaskStep, TakeTask, StartCompact, FinishCompact, TryStart, TryStartLost,
      CopyRoot, BlockLookups, Retire,
        SwitchRoot, UnblockLookups, DecRef, Recycle, MakeReady, TryContinue, Goto
<1>6. ASSUME NEW r \in Reader
      PROVE  ~(LookupCall(r) \/ IteratorInit(r) \/ ReaderStep(r))
  <2>1. ~(LookupCall(r) \/ IteratorInit(r))
    BY <1>1 DEF LookupCall, IteratorInit
  <2>2. ~(LookupMemtable(r) \/ LookupTrunk(r) \/ PinMemtable(r) \/ IteratorReady(r) \/ IteratorDrop(r) \/ IteratorDone(r))
    BY <1>1, <1>3
    DEF LookupMemtable, LookupTrunk, PinMemtable, IteratorReady, IteratorDrop,
        IteratorDone, Goto
  <2>3. ~(LookupReturn(r) \/ DecRef(r) \/ Recycle(r) \/ MakeReady(r))
    BY <1>3 DEF LookupReturn, DecRef, Recycle, MakeReady, Goto
  <2> QED BY <2>1, <2>2, <2>3 DEF ReaderStep
<1> QED BY <1>4, <1>5, <1>6 DEF MemtableNext, Thread

(* Every step keeps ClosedInv.                                             *)
LEMMA NextClosed == ASSUME IInv, ClosedInv, [MemtableNext]_memtableVars PROVE ClosedInv'
<1>1. TypeOK
  BY DEF IInv
<1>2. CASE UNCHANGED memtableVars
  BY <1>2 DEF ClosedInv, memtableVars
<1>3. CASE \E w \in Writer : pc[w] = "closed"
  BY <1>2, <1>3, ClosedStops
<1>4. CASE \E w \in Writer : CloseDone(w)
  <2>1. PICK w \in Writer : CloseDone(w)
    BY <1>4
  <2>2. w \in Thread /\ queue' = <<>> /\ \A t \in Thread \ {w} : pc[t] = "idle" /\ pc'[t] = "idle"
    BY <1>1, <2>1 DEF CloseDone, Goto, Thread, TypeOK
  <2>3. \A x \in Writer : x \in Thread
    BY DEF Thread
  <2> QED BY <2>2, <2>3 DEF ClosedInv
<1>5. CASE (\A w \in Writer : pc[w] # "closed" /\ ~CloseDone(w)) /\ MemtableNext /\ ~UNCHANGED memtableVars
  <2>1. NoneCloses
    BY <1>1, <1>5, WritersClose, FlushersClose, ReadersClose DEF MemtableNext
  <2>2. \A w \in Writer : pc'[w] # "closed"
    BY <1>5, <2>1 DEF NoneCloses, Thread
  <2> QED BY <2>2 DEF ClosedInv
<1> QED BY <1>2, <1>3, <1>4, <1>5

(* No memtable is forgotten: whatever is to be done to one, a task in the  *)
(* queue or a thread is there to do it, and nothing runs when close has    *)
(* returned.                                                               *)
THEOREM CloseInvariance == MemtableSpec => [](TasksInv /\ ClosedInv)
<1>1. MemtableInit => TasksInv /\ ClosedInv
  <2>1. MemtableInit => ClosedInv
    BY ThreadRoles DEF MemtableInit, ClosedInv
  <2> QED BY <2>1, InitTasks
<1>2. IInv /\ (TasksInv /\ ClosedInv) /\ [MemtableNext]_memtableVars => (TasksInv /\ ClosedInv)'
  BY NextTasks, NextClosed
<1> QED BY <1>1, <1>2, Invariance, PTL DEF MemtableSpec

(* When close has returned, every generation but the current one is in the *)
(* trunk: a memtable on its way to it would have a thread working on it.   *)
LEMMA ClosedIsRetired ==
    ASSUME IInv, TasksInv, ClosedInv, NEW w \in Writer, pc[w] = "closed"
    PROVE  generation = generation_retired + 1
<1>1. /\ TypeOK /\ SlotsInv
      /\ generation \in Int /\ generation_retired \in Int
      /\ generation_retired < generation
      /\ generation_to_incorporate \in {generation_retired, generation_retired + 1}
  BY DEF IInv, TypeOK, SlotsInv
<1>2. queue = <<>> /\ \A t \in Flusher : pc[t] \in {"idle", "closed"}
  BY ThreadRoles DEF ClosedInv
<1>3. \A g : /\ ~Runs({"process", "compact"}, g) /\ ~Runs({"pack"}, g) /\ ~Runs({"start"}, g)
             /\ ~Runs(Incorporating, g) /\ ~Queued(g)
  BY <1>2 DEF Runs, Queued, Incorporating
<1>4. ~Continues
  BY <1>2 DEF Continues, Incorporated
<1>5. CASE generation_to_incorporate = generation_retired
  BY <1>4, <1>5 DEF TasksInv
<1>6. CASE generation_to_incorporate = generation_retired + 1
  <2>1. SUFFICES ASSUME generation_retired + 1 < generation PROVE FALSE
    BY <1>1
  <2>2. PICK g \in Int : g = generation_retired + 1
    BY <1>1
  <2>3. generation_retired < g /\ g < generation
    BY <1>1, <2>1, <2>2
  <2>4. /\ SlotOf(g) \in Slot /\ mt_generation[SlotOf(g)] = g /\ state[SlotOf(g)] \in Behind
    BY <1>1, <2>3, InPlace
  <2>5. g = generation_to_incorporate
    BY <1>6, <2>2
  <2> QED BY <1>3, <2>4, <2>5 DEF TasksInv, Behind
<1> QED BY <1>1, <1>5, <1>6

(* splinterdb_close loses nothing: when trunk_prepare_for_shutdown has     *)
(* returned, the trunk holds every message that was ever inserted, no      *)
(* ready memtable holds one, and no reference is left over.                *)
THEOREM CloseKeeps == MemtableSpec => []CloseKeepsEverything
<1>1. ASSUME IInv, DataInv, TasksInv, ClosedInv PROVE CloseKeepsEverything
  <2> SUFFICES ASSUME NEW w \in Writer, pc[w] = "closed"
               PROVE  /\ root = ValueAt(Len(hist))
                      /\ \A s \in Slot : state[s] = "READY" => content[s] = <<>>
                      /\ \A s \in Slot : refs[s] = 1
    BY DEF CloseKeepsEverything
  <2>1. TypeOK /\ SlotsInv /\ RefsInv /\ closing /\ is_empty /\ \A r \in Reader : pc[r] = "idle"
    <3>1. "closed" \notin {"idle"} \cup TaskPC \cup CallPC
      BY DEF TaskPC, CallPC, Compacting, Turn, Incorporating, Incorporated
    <3>2. closing
      BY <1>1, <3>1 DEF IInv, RoleInv
    <3> QED BY <1>1, <3>2 DEF IInv, RoleInv, ContentInv
  <2>2. generation = generation_retired + 1 /\ generation_retired \in Int /\ generation \in Nat
        /\ generation_retired < generation
    BY <1>1, <2>1, ClosedIsRetired DEF TypeOK
  <2>3. \A t \in Thread : pc[t] \in {"idle", "closed"}
    BY <1>1 DEF ClosedInv
  <2>4. PICK cut \in [0 .. generation -> 0 .. Len(hist)] : CutInv(cut) /\ TreesInv(cut) /\ RootInv(cut)
    BY <1>1 DEF DataInv
  <2>5. cut[generation] = Len(hist) /\ Len(hist) \in Nat
    BY <2>1, <2>4 DEF CutInv, TypeOK
  <2>6. root = ValueAt(Len(hist))
    <3>1. \A t \in Flusher : pc[t] # "switch"
      BY <2>3, ThreadRoles
    <3>2. root = SegmentOf(hist, 0, End(cut, generation_retired))
      BY <2>4, <3>1 DEF RootInv
    <3>3. End(cut, generation_retired) = cut[generation]
      BY <2>2 DEF End
    <3> QED BY <2>5, <3>2, <3>3, ValueIsSegment
  <2>7. ASSUME NEW s \in Slot, state[s] = "READY" PROVE content[s] = <<>>
    <3>1. mt_generation[s] >= generation /\ mt_generation[s] \in Nat
      BY <2>1, <2>7 DEF SlotsInv, TypeOK
    <3>2. CASE mt_generation[s] = generation
      <4>1. content[s] = SegmentOf(hist, cut[generation], End(cut, generation))
        BY <2>2, <2>4, <3>2 DEF TreesInv
      <4>2. End(cut, generation) = Len(hist)
        BY <2>2 DEF End
      <4> QED BY <2>1, <2>5, <4>1, <4>2, SegmentType DEF TypeOK
    <3>3. CASE mt_generation[s] > generation
      BY <2>4, <3>3 DEF TreesInv
    <3> QED BY <2>2, <3>1, <3>2, <3>3
  <2>8. ASSUME NEW s \in Slot PROVE refs[s] = 1
    <3>1. PinnedBy(s) = {}
      <4>1. \A r \in Reader : pinned[r] = {}
        BY <1>1, <2>1 DEF IInv, ReadersInv
      <4> QED BY <2>1, <4>1 DEF PinnedBy
    <3>2. Cardinality(PinnedBy(s)) = 0
      BY <3>1, PinnedFinite
    <3>3. refs[s] = IF Dropped(s) THEN 0 ELSE 1
      BY <2>1, <3>2 DEF RefsInv
    <3>4. refs[s] # 0
      BY <1>1, <2>3 DEF TasksInv, Recycles
    <3> QED BY <3>3, <3>4
  <2> QED BY <2>6, <2>7, <2>8
<1> QED BY <1>1, Invariance, DataInvariance, CloseInvariance, PTL
=============================================================================
