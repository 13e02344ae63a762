------------------------------- MODULE Merge -------------------------------
(***************************************************************************)
(* The merge iterator, merge.c.  It reads several sorted inputs and emits  *)
(* their keys in order, in both directions; messages for one key are       *)
(* merged, the input with the highest number is the newest.                *)
(*                                                                         *)
(* An input is a sequence of tuples [key, msg] in key order (a B-tree      *)
(* iterator over a range).  Its iterator has a position 0 .. n + 1, where  *)
(* 0 is before the first and n + 1 behind the last tuple.  A merge         *)
(* iterator is a record with the fields of the C structure:                *)
(*   ord   ordered_iterators: numbers of the inputs, the live ones first   *)
(*   it    for each input its position, the cached tuple, next_key_equal   *)
(*   rem   num_remaining                                                   *)
(*   fell  resolve_equal_keys went past the live iterators                 *)
(***************************************************************************)
EXTENDS Integers, Sequences, SequencesExt

NULL_KEY == 0
NULL_MESSAGE == [class |-> "NONE", by |-> <<>>]
Modes == {"RAW", "INTERMEDIATE", "FULL"}

(* data_merge_tuples and data_merge_tuples_final.  A message lists the     *)
(* inputs whose messages it combines, newest first.  An application turns  *)
(* an update without older message into an insert.                         *)
merge_tuples_final(msg) == [msg EXCEPT !.class = "INSERT"]
data_merge_tuples(older, newer) ==
    IF newer.class # "UPDATE" THEN newer
    ELSE IF older.class = "DELETE" THEN merge_tuples_final(newer)
    ELSE [class |-> older.class, by |-> newer.by \o older.by]
data_merge_tuples_final(msg) == IF msg.class # "UPDATE" THEN msg ELSE merge_tuples_final(msg)

-----------------------------------------------------------------------------
(* An input iterator. *)

can_prev(input, pos) == input # <<>> /\ pos >= 1
can_next(input, pos) == input # <<>> /\ pos <= Len(input)
can_curr(input, pos) == can_prev(input, pos) /\ can_next(input, pos)

Live(m) == SubSeq(m.ord, 1, m.rem)
set_curr(in, m, s) ==
    LET tuple == in[s][m.it[s].pos]
    IN  [m EXCEPT !.it[s].key = tuple.key, !.it[s].data = tuple.msg]
Forget(m, s, d) ==
    [m EXCEPT !.it[s] = [pos |-> m.it[s].pos + d, key |-> NULL_KEY, data |-> NULL_MESSAGE, equal |-> FALSE]]

-----------------------------------------------------------------------------
(* bsearch_comp: iterator s comes before iterator r. *)
Before(m, s, r) ==
    LET a == m.it[s].key
        b == m.it[r].key
    IN  IF a = b THEN s > r ELSE IF m.fwd THEN a < b ELSE a > b

(* bsearch_insert: where iterator ord[1] belongs among ord[2 .. rem], and  *)
(* whether a comparison on the way met an equal key before or behind it.   *)
RECURSIVE Probe(_, _, _, _)
Probe(m, base, lim, found) ==
    IF lim = 0 THEN found
    ELSE LET p == base + lim \div 2
             s == m.ord[1]
             r == m.ord[p + 2]
             after == Before(m, r, s)
             same == m.it[s].key = m.it[r].key
             next == [index |-> IF after THEN p + 1 ELSE p,
                      prev_equal |-> found.prev_equal \/ (after /\ same),
                      next_equal |-> found.next_equal \/ (~after /\ same)]
         IN  IF after THEN Probe(m, p + 1, (lim - 1) \div 2, next)
                      ELSE Probe(m, base, lim \div 2, next)
bsearch_insert(m) == Probe(m, 0, m.rem - 1, [index |-> 0, prev_equal |-> FALSE, next_equal |-> FALSE])

\* The first iterator goes to place i, from 0.
Reordered(m, i) == SubSeq(m.ord, 2, i + 1) \o <<m.ord[1]>> \o SubSeq(m.ord, i + 2, Len(m.ord))

\* A plausible slip: the iterator now in front keeps its bit.
ResortedKeepsBit(m) ==
    LET placed(found, ord) == [m EXCEPT !.ord = ord, !.it[ord[found.index + 1]].equal = found.next_equal]
        at(found) == placed(found, Reordered(m, found.index))
    IN  at(bsearch_insert(m))

(* advance_and_resort_min_ritor: the first iterator steps and moves to its *)
(* place, or behind the live ones when it is exhausted.                    *)
Resorted(m) ==
    LET before(n, ord, found) ==
            IF found.index = 0 THEN n ELSE [n EXCEPT !.it[ord[found.index]].equal = found.prev_equal]
        placed(found, ord) ==
            before([m EXCEPT !.ord = ord, !.it[ord[found.index + 1]].equal = found.next_equal], ord, found)
        at(found) == placed(found, Reordered(m, found.index))
    IN  at(bsearch_insert(m))
Killed(m) ==
    [m EXCEPT !.rem = m.rem - 1,
              !.ord = SubSeq(m.ord, 2, m.rem) \o <<m.ord[1]>> \o SubSeq(m.ord, m.rem + 1, Len(m.ord))]
advance_and_resort(in, m) ==
    LET s == m.ord[1]
        stepped == Forget(m, s, IF m.fwd THEN 1 ELSE -1)
    IN  IF ~can_curr(in[s], stepped.it[s].pos) THEN Killed(stepped)
        ELSE IF m.rem = 1 THEN set_curr(in, stepped, s)
        ELSE Resorted(set_curr(in, stepped, s))

-----------------------------------------------------------------------------
(* resolve_equal_keys: merges the messages for the first key and advances  *)
(* all its iterators but the last.                                         *)
RECURSIVE resolve_equal_keys(_, _)
resolve_equal_keys(in, m) ==
    IF ~m.it[m.ord[1]].equal THEN m
    ELSE IF m.rem < 2 THEN [m EXCEPT !.fell = TRUE]
    ELSE LET s == m.ord[2]
             merged == [m EXCEPT !.data = data_merge_tuples(m.it[s].data, m.data), !.key = m.it[s].key]
         IN  resolve_equal_keys(in, advance_and_resort(in, merged))

(* finalize_updates_and_discard_deletes *)
finalize_updates(m) == IF m.mode = "FULL" THEN [m EXCEPT !.data = data_merge_tuples_final(m.data)] ELSE m
discard_delete(m) == m.mode = "FULL" /\ m.data.class = "DELETE"

(* merge_advance_helper around advance_one_loop: a discarded delete        *)
(* repeats the loop with the next key.                                     *)
Exhausted(m) == IF m.fwd THEN [m EXCEPT !.can_next = FALSE] ELSE [m EXCEPT !.can_prev = FALSE]
Taken(m) == [m EXCEPT !.key = m.it[m.ord[1]].key, !.data = m.it[m.ord[1]].data]
RECURSIVE advance_one_loop(_, _)
advance_helper(in, m) ==
    advance_one_loop(in, advance_and_resort(in, [m EXCEPT !.key = NULL_KEY, !.data = NULL_MESSAGE]))
advance_one_loop(in, m) ==
    LET kept(r) == IF r.fell \/ ~discard_delete(r) THEN r ELSE advance_helper(in, r)
    IN  IF m.rem = 0 THEN Exhausted(m)
        ELSE IF m.mode = "RAW" THEN Taken(m)
        ELSE kept(finalize_updates(resolve_equal_keys(in, Taken(m))))

-----------------------------------------------------------------------------
(* setup_ordered_iterators: live iterators to the front, in order, with    *)
(* their bits; the bit of the last live iterator and the cached tuples of  *)
(* dead ones are left as they were.                                        *)
ItorInputs(m) == DOMAIN m.it
LiveSet(in, m) == {s \in ItorInputs(m) : can_curr(in[s], m.it[s].pos)}
Read(in, m) ==
    [m EXCEPT !.it = [s \in ItorInputs(m) |-> IF s \in LiveSet(in, m) THEN set_curr(in, m, s).it[s] ELSE m.it[s]]]
Sorted(in, m) ==
    LET live == SetToSortSeq(LiveSet(in, m), LAMBDA s, r : Before(m, s, r))
    IN  [m EXCEPT !.ord = live \o SetToSeq(ItorInputs(m) \ LiveSet(in, m)), !.rem = Len(live),
                  !.can_prev = \E s \in ItorInputs(m) : can_prev(in[s], m.it[s].pos),
                  !.can_next = \E s \in ItorInputs(m) : can_next(in[s], m.it[s].pos)]
SetBits(m) ==
    [m EXCEPT !.it = [s \in ItorInputs(m) |->
        IF \E i \in 1 .. m.rem - 1 : m.ord[i] = s
        THEN LET i == CHOOSE j \in 1 .. m.rem - 1 : m.ord[j] = s
             IN  [m.it[s] EXCEPT !.equal = (m.it[s].key = m.it[m.ord[i + 1]].key)]
        ELSE m.it[s]]]
setup_ordered_iterators(in, m) == advance_one_loop(in, SetBits(Sorted(in, Read(in, m))))

(* merge_iterator_create, over inputs standing at pos. *)
merge_iterator_create(in, pos, mode) ==
    setup_ordered_iterators(in,
        [mode |-> mode, fwd |-> TRUE, ord |-> <<>>, rem |-> 0, can_prev |-> FALSE, can_next |-> FALSE,
         key |-> NULL_KEY, data |-> NULL_MESSAGE, fell |-> FALSE,
         it |-> [s \in DOMAIN in |-> [pos |-> pos[s], key |-> NULL_KEY, data |-> NULL_MESSAGE, equal |-> FALSE]]])

(* merge_iterator_set_direction: every iterator takes a step back. *)
set_direction(in, m, forwards) ==
    LET Stepped(s) == IF forwards THEN IF can_next(in[s], m.it[s].pos) THEN 1 ELSE 0
                                  ELSE IF can_prev(in[s], m.it[s].pos) THEN -1 ELSE 0
        turned == [m EXCEPT !.fwd = forwards,
                            !.it = [s \in ItorInputs(m) |-> [m.it[s] EXCEPT !.pos = m.it[s].pos + Stepped(s)]]]
    IN  setup_ordered_iterators(in, turned)

merge_next(in, m) == IF m.fwd THEN advance_helper(in, m) ELSE set_direction(in, m, TRUE)
merge_prev(in, m) == IF m.fwd THEN set_direction(in, m, FALSE) ELSE advance_helper(in, m)
=============================================================================
