------------------------- MODULE MiniAllocatorProofs -------------------------
(***************************************************************************)
(* Proofs about the mini allocator, for every number of threads, extents,  *)
(* pages and entries to a page, and every set of ranges.  The proof of a   *)
(* step names the next list, places and owners of the invariant            *)
(* (MiniAllocatorInvariant).                                               *)
(***************************************************************************)
EXTENDS MiniAllocatorInvariant, FiniteSetTheorems, WellFoundedInduction, TLAPS

-----------------------------------------------------------------------------
(* Addresses.                                                              *)

(* A number has one quotient and one remainder.                            *)
LEMMA Quotient ==
    ASSUME NEW a \in Nat, NEW q \in Int, NEW r \in Int, a = PagesPerExtent * q + r, 0 <= r, r < PagesPerExtent
    PROVE  ExtentOf(a) = q /\ a % PagesPerExtent = r
<1> DEFINE N == PagesPerExtent  b == a \div N
<1>1. N \in Int /\ N > 0 /\ b \in Int
  BY MiniSizeAssumption
<1>2. a = N * b + (a % N) /\ a % N \in 0 .. N - 1
  BY MiniSizeAssumption
<1>3. PICK c \in Int : c = b - q
  BY <1>1
<1>4. r - (a % N) = N * c
  BY <1>1, <1>2, <1>3
<1>5. ~(c >= 1)
  <2>1. c >= 1 => N * c >= N BY <1>1, <1>3
  <2> QED BY <2>1, <1>1, <1>2, <1>4
<1>6. ~(c <= -1)
  <2>1. c <= -1 => N * c <= -N BY <1>1, <1>3
  <2> QED BY <2>1, <1>1, <1>2, <1>4
<1>7. c = 0 BY <1>3, <1>5, <1>6
<1> QED BY <1>1, <1>2, <1>3, <1>4, <1>7 DEF ExtentOf

(* The extent of an address, and the page in it.                           *)
LEMMA ExtentPart ==
    ASSUME NEW a \in Nat
    PROVE  /\ ExtentOf(a) \in Nat /\ a % PagesPerExtent \in 0 .. PagesPerExtent - 1
           /\ a = PagesPerExtent * ExtentOf(a) + (a % PagesPerExtent)
<1> DEFINE N == PagesPerExtent  b == a \div N
<1>1. N \in Int /\ N > 0 /\ b \in Int
  BY MiniSizeAssumption
<1>2. a = N * b + (a % N) /\ a % N \in 0 .. N - 1
  BY MiniSizeAssumption
<1>3. b >= 0
  <2>1. b <= -1 => N * b <= -N BY <1>1
  <2> QED BY <2>1, <1>1, <1>2
<1> QED BY <1>1, <1>2, <1>3 DEF ExtentOf

(* The first page of an extent.                                            *)
LEMMA ExtentBase ==
    ASSUME NEW e \in Nat
    PROVE  /\ e * PagesPerExtent \in Nat /\ ExtentOf(e * PagesPerExtent) = e
           /\ (e * PagesPerExtent) % PagesPerExtent = 0
<1> DEFINE N == PagesPerExtent
<1>1. N \in Nat /\ N > 0 /\ e * N \in Nat /\ e * N = N * e + 0
  BY MiniSizeAssumption
<1> QED BY <1>1, Quotient

(* The page behind the last one of an extent is the first of the next.     *)
LEMMA ExtentNext ==
    ASSUME NEW a \in Nat
    PROVE  IF (a + 1) % PagesPerExtent = 0
           THEN \A c \in Nat : ExtentOf(c) = ExtentOf(a) => c <= a
           ELSE ExtentOf(a + 1) = ExtentOf(a)
<1> DEFINE N == PagesPerExtent
<1>1. N \in Nat /\ N > 0 /\ a + 1 \in Nat
  BY MiniSizeAssumption
<1>2. PICK e \in Nat : e = ExtentOf(a) BY ExtentPart
<1>3. PICK f \in Nat : f = ExtentOf(a + 1) BY ExtentPart, <1>1
<1>4. PICK r \in 0 .. N - 1 : r = a % N BY ExtentPart
<1>5. PICK s \in 0 .. N - 1 : s = (a + 1) % N BY ExtentPart, <1>1
<1>6. a = N * e + r /\ a + 1 = N * f + s
  BY ExtentPart, <1>1, <1>2, <1>3, <1>4, <1>5
<1>7. CASE r + 1 < N
  <2>1. f = e /\ s = r + 1
    <3>1. a + 1 = N * e + (r + 1) /\ r + 1 \in Int /\ 0 <= r + 1 BY <1>6, <1>4, <1>1
    <3> HIDE DEF N
    <3> QED BY <3>1, <1>1, <1>7, Quotient, <1>3, <1>5 DEF N
  <2> QED BY <2>1, <1>2, <1>3, <1>5, <1>4
<1>8. CASE r + 1 = N
  <2>1. N * (e + 1) = N * e + N BY <1>1, <1>2
  <2>2. a + 1 = N * (e + 1) + 0
    <3>1. PICK p \in Int : p = N * e BY <1>1, <1>2
    <3> QED BY <1>6, <1>8, <2>1, <1>1, <1>4, <3>1
  <2>3. s = 0 BY <2>2, Quotient, <1>1, <1>2, <1>5
  <2>4. ASSUME NEW c \in Nat, ExtentOf(c) = e PROVE c <= a
    <3>1. PICK x \in 0 .. N - 1 : x = c % N BY ExtentPart
    <3>2. c = N * e + x BY ExtentPart, <2>4, <3>1
    <3>3. N * e \in Int BY <1>1, <1>2
    <3> QED BY <3>2, <3>1, <1>6, <1>8, <3>3, <1>1, <1>4
  <2> QED BY <2>3, <2>4, <1>2, <1>5
<1> QED BY <1>7, <1>8, <1>4, <1>1

(* The pages of extents have addresses that no flag has.                   *)
LEMMA AddrLarge ==
    ASSUME NEW a \in Nat, ExtentOf(a) \in Ext
    PROVE  a >= PagesPerExtent /\ a # NoPage /\ a # MINI_WAIT
<1>1. PICK e \in Nat : e = ExtentOf(a) /\ e >= 1
  BY MiniSizeAssumption DEF Ext
<1>2. a = PagesPerExtent * e + (a % PagesPerExtent) /\ a % PagesPerExtent \in 0 .. PagesPerExtent - 1
  BY ExtentPart, <1>1
<1>3. PagesPerExtent * e >= PagesPerExtent
  BY <1>1, MiniSizeAssumption
<1> QED BY <1>2, <1>3, <1>1, MiniSizeAssumption DEF NoPage, MINI_WAIT

(* The first meta page is in the first extent, and there is no page 0.     *)
LEMMA HeadExtent ==
    /\ meta_head \in Nat /\ ExtentOf(meta_head) = 1 /\ meta_head # NoPage
    /\ NoPage \in Nat /\ ExtentOf(NoPage) = 0 /\ 1 \in Ext
<1>1. meta_head \in Nat /\ meta_head = PagesPerExtent * 1 + 1 /\ NoPage = PagesPerExtent * 0 + 0 /\ NoPage \in Nat
  BY MiniSizeAssumption DEF meta_head, NoPage
<1>2. 1 < PagesPerExtent BY MiniSizeAssumption
<1>3. ExtentOf(meta_head) = 1
  BY <1>1, <1>2, Quotient
<1>4. ExtentOf(NoPage) = 0
  <2>1. 0 \in Int /\ 0 <= 0 /\ 0 < PagesPerExtent BY <1>2, MiniSizeAssumption
  <2> QED BY <1>1, <2>1, Quotient
<1> QED BY <1>1, <1>3, <1>4, MiniSizeAssumption DEF Ext, meta_head, NoPage

(* The lowest extent of a set is in it.                                    *)
LEMMA LowestIsMember ==
    ASSUME NEW S \in SUBSET Nat, S # {}
    PROVE  Min(S) \in S /\ \A y \in S : Min(S) <= y
<1> DEFINE R == {p \in Nat \X Nat : p[1] < p[2]}
<1>1. OpToRel(<, Nat) = R
  BY Zenon DEF OpToRel
<1>2. IsWellFoundedOn(R, Nat)
  BY <1>1, NatLessThanWellFounded
<1>3. PICK x \in S : \A y \in S : ~(<<y, x>> \in R)
  BY <1>2, WFMin
<1>4. ASSUME NEW y \in S PROVE x <= y
  <2>1. x \in Nat /\ y \in Nat
    OBVIOUS
  <2>2. y < x => <<y, x>> \in R
    BY <2>1
  <2> QED BY <1>3, <2>1, <2>2
<1> QED BY <1>4 DEF Min

(* So is the highest of a set of numbers up to a bound.                    *)
LEMMA HighestIsMember ==
    ASSUME NEW n \in Nat, NEW S \in SUBSET (0 .. n), S # {}
    PROVE  Max(S) \in S /\ \A y \in S : y <= Max(S)
<1> DEFINE D == {n - y : y \in S}
<1>1. D \in SUBSET Nat /\ D # {}
  <2>1. \A y \in S : y \in Nat /\ n - y \in Nat OBVIOUS
  <2> QED BY <2>1
<1>2. Min(D) \in D /\ \A y \in D : Min(D) <= y BY <1>1, LowestIsMember
<1>4. PICK m \in S : \A y \in S : y <= m
  <2>1. PICK m \in S : Min(D) = n - m BY <1>2
  <2>2. ASSUME NEW y \in S PROVE y <= m
    <3>1. n - y \in D OBVIOUS
    <3>2. n - m <= n - y BY <3>1, <1>2, <2>1
    <3>3. y \in Nat /\ m \in Nat OBVIOUS
    <3> QED BY <3>2, <3>3
  <2> QED BY <2>2
<1> QED BY <1>4 DEF Max

-----------------------------------------------------------------------------
(* What the invariant says of a single thread.                             *)

(* The next step of a thread tells its operation.                          *)
LEMMA OpOfStep ==
    ASSUME TypeOK, NEW t \in MiniThread
    PROVE  /\ mpc[t] = "idle" <=> lv[t].op = "none"
           /\ mpc[t] \in {"extent", "finish"} => lv[t].op = "alloc"
           /\ mpc[t] \in AppendPCs => lv[t].op \in {"alloc", "release"}
           /\ mpc[t] = "release" => lv[t].op = "release"
           /\ mpc[t] = "walk" => lv[t].op \in {"inc", "prefetch", "dec", "dealloc"}
           /\ mpc[t] = "deinit" <=> lv[t].op = "deinit"
           /\ lv[t].op = "alloc" => mpc[t] \in AllocPCs /\ lv[t] \in AllocRec
           /\ lv[t].op = "release" => mpc[t] \in ReleasePCs /\ lv[t] \in ReleaseRec
           /\ lv[t].op \in {"inc", "prefetch", "dec", "dealloc"} =>
                mpc[t] \in WaitPCs \cup {"walk"} /\ lv[t] \in WalkRec
           /\ lv[t].op = "deinit" => lv[t] \in DeinitRec
           /\ lv[t].op = "none" => lv[t] = NoLocals
<1>1. LocalsAt(mpc[t], lv[t]) BY DEF TypeOK
<1> QED BY <1>1 DEF LocalsAt, AllocRec, ReleaseRec, WalkRec, DeinitRec, NoLocals, AppendPCs, AllocPCs, ReleasePCs, WaitPCs

\* While the list of extents grows nobody walks over it.
Calm ==
    \/ life = "open"
    \/ keyed /\ Role("release") # {}
    \/ ~keyed /\ life = "released" /\ Walkers = {}

(* Then the counts are those of a fresh allocator.                         *)
LEMMA CalmState ==
    ASSUME TypeOK, RoleInv, Calm
    PROVE  /\ Walkers = {} /\ Role("deinit") = {} /\ NoBlocks /\ life # "gone"
           /\ \A t \in MiniThread : lv[t].op \in {"none", "alloc", "release"}
           /\ keyed => Building /\ NoneHeld
<1>1. life = "open" => \A t \in MiniThread : lv[t].op \in {"none", "alloc"} BY DEF RoleInv
<1>2. CASE life = "open" BY <1>1, <1>2 DEF RoleInv, Walkers, Role, Building
<1>3. CASE keyed /\ Role("release") # {} BY <1>3 DEF RoleInv, Walkers, Role, Building
<1>4. CASE ~keyed /\ life = "released" /\ Walkers = {}
  <2>1. Role("alloc") = {} /\ Role("deinit") = {} /\ NoBlocks BY <1>4 DEF RoleInv
  <2>2. \A t \in MiniThread : lv[t].op \in {"none", "alloc", "release", "inc", "prefetch", "dec", "dealloc", "deinit"}
    <3> SUFFICES ASSUME NEW t \in MiniThread PROVE lv[t].op \in {"none", "alloc", "release", "inc", "prefetch", "dec", "dealloc", "deinit"}
      OBVIOUS
    <3>1. LocalsAt(mpc[t], lv[t]) BY DEF TypeOK
    <3> QED BY <3>1 DEF LocalsAt, AllocRec, ReleaseRec, WalkRec, DeinitRec, NoLocals
  <2> QED BY <1>4, <2>1, <2>2 DEF Walkers, Role
<1> QED BY <1>2, <1>3, <1>4 DEF Calm

(* The counts of the invariant are simple in such a state: nothing is      *)
(* taken back.                                                             *)
LEMMA CalmCounts ==
    ASSUME TypeOK, RoleInv, Calm, NEW log, NEW start
    PROVE  /\ \A i : DataRefs(log, start, i) <=> refc[log[i].extent] = AL_ONE_REF
           /\ \A e : MetaRefs(start, e) <=> refc[e] = IF e = 1 THEN FirstCount ELSE AL_ONE_REF
           /\ FirstCount = MINI_NO_REFS + IF keyed THEN 0 ELSE held[Whole]
<1>1. /\ Walkers = {} /\ NoBlocks /\ life # "gone"
      /\ keyed => Building
  BY CalmState
<1>2. Role("dealloc") = {} /\ Role("prefetch") = {} BY <1>1 DEF Walkers
<1>3. ASSUME NEW i PROVE ~Freed(start, i) BY <1>1, <1>2 DEF Freed
<1>4. {t \in MiniThread : blocked[t] # {}} = {} BY <1>1 DEF NoBlocks
<1>5. Cardinality({}) = 0 BY FS_EmptySet
<1>6. held[Whole] \in Nat BY DEF TypeOK, Rs
<1>7. FirstCount = MINI_NO_REFS + IF keyed THEN 0 ELSE held[Whole] BY <1>2, <1>4, <1>5, <1>6 DEF FirstCount
<1> QED BY <1>1, <1>3, <1>7 DEF DataRefs, MetaRefs, Building

(* The entries of the list.                                                *)
LEMMA LogEntries ==
    ASSUME NEW log \in Seq(EntryRec)
    PROVE  /\ Len(log) \in Nat /\ DOMAIN log = 1 .. Len(log)
           /\ \A i \in DOMAIN log :
                /\ log[i] \in EntryRec
                /\ log[i].batch \in Batch /\ log[i].key \in Nat
                /\ Data(log, i) => log[i].extent \in Ext
                /\ ~Data(log, i) => log[i].extent = TERMINAL_EXTENT_ADDR
<1>1. Len(log) \in Nat /\ DOMAIN log = 1 .. Len(log) OBVIOUS
<1>2. ASSUME NEW i \in DOMAIN log PROVE log[i] \in EntryRec OBVIOUS
<1> QED BY <1>1, <1>2 DEF EntryRec, Data

CalmCount(own, e) ==
    IF own[e] = Free THEN AL_FREE
    ELSE IF e # 1 THEN AL_ONE_REF
    ELSE MINI_NO_REFS + IF keyed THEN 0 ELSE held[Whole]
CalmRefs(own) == \A e \in Ext : refc[e] = CalmCount(own, e)

(* The count of an extent follows from its owner alone.                    *)
LEMMA CalmRefsBefore ==
    ASSUME TypeOK, RoleInv, Calm, NEW log, NEW start, NEW own, ListInv(log, start), OwnInv(log, own), RefInv(log, start, own)
    PROVE  CalmRefs(own) /\ \A e \in Ext : refc[e] = AL_FREE <=> own[e] = Free
<1>1. ASSUME NEW e \in Ext PROVE refc[e] = CalmCount(own, e)
  <2>1. ExtentOf(meta_head) = 1 /\ 1 \in Ext /\ meta_head \in DOMAIN meta /\ own[1] = Meta
    BY HeadExtent DEF ListInv, OwnInv
  <2>2. CASE own[e] = Free BY <2>2 DEF RefInv, CalmCount
  <2>3. CASE \E i \in DOMAIN log : own[e] = <<"data", i>> /\ log[i].extent = e
    <3>1. PICK i \in DOMAIN log : own[e] = <<"data", i>> /\ log[i].extent = e BY <2>3
    <3>2. Data(log, i) BY <3>1 DEF Data, TERMINAL_EXTENT_ADDR, Ext
    <3> QED BY <3>1, <3>2, <2>1, CalmCounts DEF RefInv, CalmCount, Free, Meta
  <2>4. CASE own[e] = Meta /\ \E a \in DOMAIN meta : ExtentOf(a) = e
    BY <2>4, CalmCounts DEF RefInv, CalmCount, Free, Meta
  <2>5. CASE \E b \in Batch : own[e] = <<"adv", b>> /\ Pending(b) /\ next_extent[b] = e
    BY <2>5, <2>1 DEF RefInv, CalmCount, Free, Meta
  <2>6. CASE \E t \in MiniThread : own[e] = <<"fly", t>> /\ Flying(t) /\ ExtentOf(lv[t].addr) = e
    BY <2>6, <2>1 DEF RefInv, CalmCount, Free, Meta
  <2> QED BY <2>2, <2>3, <2>4, <2>5, <2>6 DEF OwnInv
<1>2. held[Whole] \in Nat BY DEF TypeOK, Rs
<1> QED BY <1>1, <1>2 DEF CalmRefs, CalmCount, AL_FREE, AL_ONE_REF, MINI_NO_REFS

(* CalmState of the state after a step.                                    *)
LEMMA CalmNext ==
    ASSUME TypeOK', RoleInv', Calm'
    PROVE  /\ (Walkers = {})' /\ (Role("deinit") = {})' /\ NoBlocks' /\ life' # "gone"
           /\ \A t \in MiniThread : lv'[t].op \in {"none", "alloc", "release"}
           /\ keyed' => Building' /\ NoneHeld'
<1>1. life' = "open" => \A t \in MiniThread : lv'[t].op \in {"none", "alloc"} BY DEF RoleInv
<1>2. CASE life' = "open" BY <1>1, <1>2 DEF RoleInv, Walkers, Role, Building
<1>3. CASE keyed' /\ (Role("release") # {})' BY <1>3 DEF RoleInv, Walkers, Role, Building
<1>4. CASE ~keyed' /\ life' = "released" /\ (Walkers = {})'
  <2>1. (Role("alloc") = {})' /\ (Role("deinit") = {})' /\ NoBlocks' BY <1>4 DEF RoleInv
  <2>2. \A t \in MiniThread : lv'[t].op \in {"none", "alloc", "release", "inc", "prefetch", "dec", "dealloc", "deinit"}
    <3> SUFFICES ASSUME NEW t \in MiniThread PROVE lv'[t].op \in {"none", "alloc", "release", "inc", "prefetch", "dec", "dealloc", "deinit"}
      OBVIOUS
    <3>1. LocalsAt(mpc'[t], lv'[t]) BY DEF TypeOK
    <3> QED BY <3>1 DEF LocalsAt, AllocRec, ReleaseRec, WalkRec, DeinitRec, NoLocals
  <2> QED BY <1>4, <2>1, <2>2 DEF Walkers, Role
<1> QED BY <1>2, <1>3, <1>4 DEF Calm

(* CalmCounts of the state after a step.                                   *)
LEMMA CalmCountsNext ==
    ASSUME TypeOK', RoleInv', Calm', NEW log, NEW start
    PROVE  /\ \A i : refc'[log[i].extent] = AL_ONE_REF => DataRefs(log, start, i)'
           /\ \A e : refc'[e] = (IF e = 1 THEN FirstCount' ELSE AL_ONE_REF) => MetaRefs(start, e)'
           /\ FirstCount' = MINI_NO_REFS + IF keyed' THEN 0 ELSE held'[Whole]
<1>1. /\ (Walkers = {})' /\ NoBlocks' /\ life' # "gone"
      /\ keyed' => Building'
  BY CalmNext
<1>2. (Role("dealloc") = {})' /\ (Role("prefetch") = {})' BY <1>1 DEF Walkers
<1>3. ASSUME NEW i PROVE ~Freed(start, i)' BY <1>1, <1>2 DEF Freed
<1>4. ({t \in MiniThread : blocked[t] # {}} = {})' BY <1>1 DEF NoBlocks
<1>5. Cardinality({}) = 0 BY FS_EmptySet
<1>6. held'[Whole] \in Nat BY DEF TypeOK, Rs
<1>7. FirstCount' = MINI_NO_REFS + IF keyed' THEN 0 ELSE held'[Whole] BY <1>2, <1>4, <1>5, <1>6 DEF FirstCount
<1> QED BY <1>1, <1>3, <1>7 DEF DataRefs, MetaRefs, Building

(* Counts that follow from the owners are those of the invariant.          *)
LEMMA CalmRefsAfter ==
    ASSUME TypeOK', RoleInv', Calm', NEW log, NEW start, NEW own, ListInv(log, start)', OwnInv(log, own)', CalmRefs(own)'
    PROVE  RefInv(log, start, own)'
<1>1. ExtentOf(meta_head) = 1 /\ 1 \in Ext /\ meta_head \in DOMAIN meta' /\ own[1] = Meta
  BY HeadExtent DEF ListInv, OwnInv
<1>2. \A e \in Ext : own[e] = Free => refc'[e] = AL_FREE
  BY DEF CalmRefs, CalmCount
<1>3. \A e \in Ext : own[e] # Free /\ own[e] # Meta => refc'[e] = AL_ONE_REF
  BY <1>1 DEF CalmRefs, CalmCount
<1>4. \A b \in Batch : Pending(b)' => refc'[next_extent'[b]] = AL_ONE_REF
  BY <1>3 DEF OwnInv, Free, Meta, TypeOK
<1>5. \A t \in MiniThread : Flying(t)' => refc'[ExtentOf(lv'[t].addr)] = AL_ONE_REF
  BY <1>3 DEF OwnInv, Free, Meta
<1>6. \A a \in DOMAIN meta' : MetaRefs(start, ExtentOf(a))'
  <2> SUFFICES ASSUME NEW a \in DOMAIN meta' PROVE MetaRefs(start, ExtentOf(a))' OBVIOUS
  <2>1. PICK e : e = ExtentOf(a) OBVIOUS
  <2>2. e \in Ext /\ own[e] = Meta BY <2>1 DEF OwnInv
  <2>3. refc'[e] = IF e = 1 THEN FirstCount' ELSE AL_ONE_REF
    BY <2>2, CalmCountsNext DEF CalmRefs, CalmCount, Free, Meta
  <2>4. MetaRefs(start, e)' BY <2>3, CalmCountsNext
  <2> QED BY <2>4, <2>1 DEF MetaRefs, Unreached
<1>7. \A i \in DOMAIN log : Data(log, i) => DataRefs(log, start, i)'
  <2> SUFFICES ASSUME NEW i \in DOMAIN log, Data(log, i) PROVE DataRefs(log, start, i)' OBVIOUS
  <2>0. log \in Seq(EntryRec) BY DEF ListInv
  <2>3. log[i].extent \in Ext BY <2>0, LogEntries
  <2>1. log[i].extent \in Ext /\ own[log[i].extent] = <<"data", i>>
    BY <2>3 DEF OwnInv, Data
  <2>2. refc'[log[i].extent] = AL_ONE_REF BY <2>1, <1>3 DEF Free, Meta
  <2> QED BY <2>2, CalmCountsNext
<1> QED BY <1>2, <1>4, <1>5, <1>6, <1>7 DEF RefInv

(* The parts about walks say nothing then.                                 *)
LEMMA CalmWalks ==
    ASSUME TypeOK', RoleInv', Calm', NEW log, NEW start
    PROVE  WalkInv(log, start)' /\ BlockInv' /\ OrderInv(log, start)'
<1>1. (Walkers = {})' /\ NoBlocks' BY CalmNext
<1>2. (Role("inc") = {})' /\ (Role("dec") = {})' BY <1>1 DEF Walkers
<1> QED BY <1>1, <1>2 DEF WalkInv, BlockInv, OrderInv, NoBlocks

(* A reference that keeps the allocator alive stays.                       *)
LEMMA CalmLive ==
    ASSUME TypeOK, RoleInv, Calm, LiveInv, TypeOK', RoleInv', Calm', keyed' = keyed, held' = held
    PROVE  LiveInv'
<1>1. Walkers = {} /\ life # "gone" BY CalmState
<1>2. keyed' => Building' BY CalmNext
<1>3. CASE keyed BY <1>2, <1>3 DEF LiveInv
<1>4. CASE ~keyed
  <2>1. \E r \in Rs : held[r] > 0 BY <1>1, <1>4 DEF LiveInv, Building
  <2> QED BY <2>1 DEF LiveInv
<1> QED BY <1>3, <1>4 DEF TypeOK

(* A step between such states keeps the invariant if it keeps the list,    *)
(* the owners, the addresses and the keys.                                 *)
LEMMA CalmInv ==
    ASSUME NEW log, NEW start, NEW own, Inv(log, start, own), Calm, NEW log2, NEW start2, NEW own2,
           TypeOK', RoleInv', Calm', keyed' = keyed, held' = held,
           ListInv(log2, start2)', ClaimInv', BatchInv(log2)', OwnInv(log2, own2)', AddrInv(log2)', KeyInv(log2)',
           CalmRefs(own2)', failed' = {}
    PROVE  Inv(log2, start2, own2)'
BY CalmLive, CalmWalks, CalmRefsAfter DEF Inv

-----------------------------------------------------------------------------
(* Frames: what a step may change and leave a part of the invariant as it  *)
(* was.                                                                    *)

(* A step of one thread.                                                   *)
LEMMA Moved ==
    ASSUME TypeOK, NEW t \in MiniThread, NEW from, NEW to, NEW loc, Move(t, from, to, loc), LocalsAt(to, loc)
    PROVE  /\ mpc' \in [MiniThread -> PCs] /\ DOMAIN lv' = MiniThread
           /\ \A u \in MiniThread : LocalsAt(mpc'[u], lv'[u])
           /\ mpc[t] = from /\ mpc'[t] = to /\ lv'[t] = loc
           /\ \A u \in MiniThread \ {t} : mpc'[u] = mpc[u] /\ lv'[u] = lv[u]
<1>1. mpc[t] = from /\ mpc'[t] = to /\ lv'[t] = loc /\ DOMAIN lv' = MiniThread
      /\ \A u \in MiniThread \ {t} : mpc'[u] = mpc[u] /\ lv'[u] = lv[u]
  BY DEF Move, TypeOK
<1>2. to \in PCs BY DEF LocalsAt, PCs
<1>3. mpc' \in [MiniThread -> PCs] BY <1>2 DEF Move, TypeOK
<1>4. \A u \in MiniThread : LocalsAt(mpc'[u], lv'[u]) BY <1>1 DEF TypeOK
<1> QED BY <1>1, <1>3, <1>4

(* The list stays when the meta pages do and who walks is at a page of it. *)
LEMMA ListFrame ==
    ASSUME NEW log, NEW start, ListInv(log, start), meta' = meta, meta_tail' = meta_tail,
           \A u \in Walkers' : lv'[u].page \in DOMAIN meta /\ lv'[u].i \in 1 .. Len(meta[lv'[u].page].entries) + 1,
           \A u \in Role("deinit")' : lv'[u].page \in DOMAIN meta
    PROVE  ListInv(log, start)'
BY DEF ListInv, PageInv, PageOrder

(* It stays in a calm state, where nobody walks.                           *)
LEMMA CalmList ==
    ASSUME NEW log, NEW start, ListInv(log, start), meta' = meta, meta_tail' = meta_tail, TypeOK', RoleInv', Calm'
    PROVE  ListInv(log, start)'
<1>1. Walkers' = {} /\ Role("deinit")' = {} BY CalmNext
<1> QED BY <1>1, ListFrame

(* The owners stay when the pages, the extents in advance and those in     *)
(* flight do.                                                              *)
LEMMA OwnFrame ==
    ASSUME NEW log, NEW own, OwnInv(log, own), DOMAIN meta' = DOMAIN meta, next_extent' = next_extent,
           \A b \in Batch : Pending(b)' <=> Pending(b),
           \A u \in MiniThread : (Flying(u)' <=> Flying(u)) /\ (Flying(u) => lv'[u].addr = lv[u].addr)
    PROVE  OwnInv(log, own)'
BY DEF OwnInv, Data

(* The batches stay when they are ended as before.                         *)
LEMMA BatchFrame ==
    ASSUME NEW log, BatchInv(log), keyed' = keyed, life' = "released" => life = "released",
           \A b \in Batch : Ended(b)' <=> Ended(b), log \in Seq(EntryRec)
    PROVE  BatchInv(log)'
<1>1. \A i \in DOMAIN log : log[i].batch \in Batch BY LogEntries
<1> QED BY <1>1 DEF BatchInv, FirstOf, LastOf, Pair, Data

\* The calls of mini_alloc that have a page already, and what the others want.
SameAllocs ==
    \A u \in MiniThread :
        /\ lv'[u].op = "alloc" => lv[u].op = "alloc" /\ lv'[u].key = lv[u].key /\ lv'[u].batch = lv[u].batch
        /\ mpc'[u] = "finish" <=> mpc[u] = "finish"
        /\ mpc[u] = "finish" => lv'[u] = lv[u]

(* The addresses stay when nobody begins or ends a call of mini_alloc.     *)
LEMMA AddrFrame ==
    ASSUME NEW log, AddrInv(log), TypeOK, next_addr' = next_addr, given' = given, life' = "open" => life = "open", SameAllocs
    PROVE  AddrInv(log)'
<1>1. Role("alloc")' \subseteq Role("alloc") BY DEF Role, SameAllocs
<1>2. \A u \in Role("alloc")' : u \in MiniThread /\ lv'[u].batch = lv[u].batch BY DEF Role, SameAllocs
<1>5. \A u \in Role("alloc")' : mpc'[u] = "finish" => NextAddrOK(log, lv[u].batch, lv[u].addr) /\ lv'[u] = lv[u]
  BY <1>1, <1>2 DEF AddrInv, SameAllocs
<1>6. \A u \in Role("alloc")' : mpc'[u] = "finish" => NextAddrOK(log, lv[u].batch, lv[u].addr)'
  <2> SUFFICES ASSUME NEW u \in Role("alloc")', mpc'[u] = "finish" PROVE NextAddrOK(log, lv[u].batch, lv[u].addr)' OBVIOUS
  <2>1. NextAddrOK(log, lv[u].batch, lv[u].addr) /\ lv'[u] = lv[u] BY <1>5
  <2> QED BY <2>1 DEF NextAddrOK, GivenIn, Data, LastOf
<1>7. life' = "open" => \A b \in Batch : next_addr'[b] # MINI_WAIT /\ next_addr'[b] % PagesPerExtent # 0 => NextAddrOK(log, b, next_addr[b])'
  <2> SUFFICES ASSUME life' = "open", NEW b \in Batch, next_addr'[b] # MINI_WAIT, next_addr'[b] % PagesPerExtent # 0
               PROVE NextAddrOK(log, b, next_addr[b])' OBVIOUS
  <2>1. NextAddrOK(log, b, next_addr[b]) BY DEF AddrInv
  <2> QED BY <2>1 DEF NextAddrOK, GivenIn, Data, LastOf
<1> QED BY <1>1, <1>2, <1>6, <1>7 DEF AddrInv, Data

(* So do the keys.                                                         *)
LEMMA KeyFrame ==
    ASSUME NEW log, KeyInv(log), TypeOK, keyed' = keyed, given' = given, life' = "released" => life = "released", SameAllocs
    PROVE  KeyInv(log)'
<1> SUFFICES ASSUME keyed PROVE KeyInv(log)' BY DEF KeyInv
<1>1. Role("alloc")' \subseteq Role("alloc") BY DEF Role, SameAllocs
<1>2. \A u \in Role("alloc")' : u \in MiniThread /\ lv'[u].key = lv[u].key /\ lv'[u].batch = lv[u].batch BY DEF Role, SameAllocs
<1>3. \A u \in Role("alloc") : mpc[u] = "finish" => u \in Role("alloc")' /\ mpc'[u] = "finish" /\ lv'[u] = lv[u]
  BY DEF Role, SameAllocs
<1>4. Leaves' = Leaves BY DEF Leaves
<1> QED BY <1>1, <1>2, <1>3, <1>4 DEF KeyInv, Data

(* The claims stay when those who need them stay where they are.           *)
LEMMA ClaimFrame ==
    ASSUME ClaimInv, claim' = claim, meta' = meta, meta_tail' = meta_tail,
           \A u \in MiniThread : mpc'[u] \in {"append", "append_new"} => mpc[u] = mpc'[u] /\ lv'[u] = lv[u],
           \A u \in Role("dec")' : mpc'[u] = "walk" => u \in Role("dec") /\ mpc[u] = "walk" /\ lv'[u].page = lv[u].page
    PROVE  ClaimInv'
BY DEF ClaimInv

(* In such states nobody walks that would have a claim.                    *)
LEMMA CalmClaims ==
    ASSUME ClaimInv, claim' = claim, meta' = meta, meta_tail' = meta_tail, TypeOK', RoleInv', Calm',
           \A u \in MiniThread : mpc'[u] \in {"append", "append_new"} => mpc[u] = mpc'[u] /\ lv'[u] = lv[u]
    PROVE  ClaimInv'
<1>1. Role("dec")' = {} BY CalmNext DEF Walkers
<1> QED BY <1>1, ClaimFrame

(* The leaves of a branch can be counted.                                  *)
LEMMA LeavesCount ==
    ASSUME TypeOK
    PROVE  IsFiniteSet(Leaves) /\ Cardinality(Leaves) \in Nat /\ (Cardinality(Leaves) = 0 <=> Leaves = {})
<1>1. Leaves \in SUBSET given /\ IsFiniteSet(given) BY DEF Leaves, TypeOK
<1>2. IsFiniteSet(Leaves) BY <1>1, FS_Subset
<1> QED BY <1>2, FS_CardinalityType, FS_EmptySet

(* The operations under way stay when no thread begins or ends one.        *)
LEMMA RoleFrame ==
    ASSUME TypeOK, RoleInv, keyed' = keyed, life' = life, held' = held, blocked' = blocked, allocs' = allocs, given' = given,
           num_extents' = num_extents \/ Role("alloc") \cup Role("release") # {},
           \A u \in MiniThread : lv'[u].op = lv[u].op,
           \A u \in Role("release") : mpc'[u] # "release" => keyed /\ lv'[u].batch \in Batch,
           \A u \in MiniThread : mpc'[u] \in WaitPCs => mpc[u] \in WaitPCs /\ lv'[u] = lv[u],
           \A u \in Role("inc") \cup Role("prefetch") : lv'[u].range = lv[u].range /\ lv'[u].mine = lv[u].mine
    PROVE  RoleInv'
<1>1. \A op : Role(op)' = Role(op) BY DEF Role
<1>2. NoneHeld' <=> NoneHeld BY DEF NoneHeld
<1>3. NoBlocks' <=> NoBlocks BY DEF NoBlocks
<1>4. keyed /\ life = "open" /\ (\A u \in MiniThread : allocs[u] = 0) => num_extents' = num_extents
  <2> SUFFICES ASSUME keyed, life = "open", \A u \in MiniThread : allocs[u] = 0, Role("alloc") \cup Role("release") # {} PROVE FALSE
    OBVIOUS
  <2>1. Role("release") = {} BY DEF RoleInv, Role
  <2>2. PICK u \in Role("alloc") : TRUE BY <2>1
  <2>3. allocs[u] > 0 /\ u \in MiniThread BY <2>2 DEF RoleInv, Role
  <2> QED BY <2>3
<1> QED BY <1>1, <1>2, <1>3, <1>4 DEF RoleInv, Role

(* Who appends an entry does so while the list may grow.                   *)
LEMMA AppendsAreCalm ==
    ASSUME TypeOK, RoleInv, NEW t \in MiniThread, mpc[t] \in AllocPCs
    PROVE  /\ Calm
           /\ lv[t].op \in {"alloc", "release"}
           /\ lv[t].op = "alloc" => life = "open" /\ t \in Role("alloc") /\ lv[t] \in AllocRec
           /\ lv[t].op = "release" => keyed /\ life = "released" /\ t \in Role("release") /\ lv[t] \in ReleaseRec /\ lv[t].batch \in Batch
<1>1. lv[t].op \in {"alloc", "release"} BY OpOfStep DEF AllocPCs
<1>2. CASE lv[t].op = "alloc"
  <2>1. t \in Role("alloc") /\ lv[t] \in AllocRec BY <1>2, OpOfStep DEF Role
  <2>2. life = "open" BY <2>1, <1>2 DEF RoleInv, TypeOK
  <2> QED BY <1>2, <2>1, <2>2 DEF Calm
<1>3. CASE lv[t].op = "release"
  <2>1. t \in Role("release") /\ lv[t] \in ReleaseRec BY <1>3, OpOfStep DEF Role
  <2>2. mpc[t] # "release" BY DEF AllocPCs, AppendPCs
  <2>3. keyed /\ life = "released" /\ lv[t].batch \in Batch BY <2>1, <2>2 DEF RoleInv
  <2> QED BY <1>3, <2>1, <2>3 DEF Calm
<1> QED BY <1>1, <1>2, <1>3

(* The extent that the extent allocator hands out is free.                 *)
LEMMA NewExtent ==
    ASSUME FreeExts # {}
    PROVE  Min(FreeExts) \in Ext /\ refc[Min(FreeExts)] = AL_FREE
<1>1. FreeExts \in SUBSET Nat BY MiniSizeAssumption DEF FreeExts, Ext
<1>2. Min(FreeExts) \in FreeExts BY <1>1, LowestIsMember
<1> QED BY <1>2 DEF FreeExts

-----------------------------------------------------------------------------
(* mini_alloc                                                              *)

(* mini_lock_batch_get_next_addr keeps the invariant: the address it has   *)
(* read is that of a page not handed out, in the last extent of the batch. *)
LEMMA LockBatchInv ==
    ASSUME NEW log, NEW start, NEW own, Inv(log, start, own), NEW t \in MiniThread, NEW b \in Batch, LockBatch(t, b)
    PROVE  Inv(log, start, own)'
<1> DEFINE to == IF next_addr[b] % PagesPerExtent = 0 THEN "extent" ELSE "finish"
           loc == [op |-> "alloc", batch |-> b, key |-> Cardinality(Leaves) + 1, addr |-> next_addr[b], tail |-> NoPage]
<1> USE DEF Inv
<1>1. LocalsAt(to, loc)
  <2>1. loc \in AllocRec BY LeavesCount DEF TypeOK, AllocRec, NoPage
  <2>2. to \in AllocPCs BY DEF AllocPCs
  <2> QED BY <2>1, <2>2 DEF LocalsAt
<1>2. Move(t, "idle", to, loc) BY DEF LockBatch
<1>3. /\ mpc' \in [MiniThread -> PCs] /\ DOMAIN lv' = MiniThread
      /\ \A u \in MiniThread : LocalsAt(mpc'[u], lv'[u])
      /\ mpc[t] = "idle" /\ mpc'[t] = to /\ lv'[t] = loc
      /\ \A u \in MiniThread \ {t} : mpc'[u] = mpc[u] /\ lv'[u] = lv[u]
  BY <1>1, <1>2, Moved
<1> HIDE DEF to, loc
<1>4. loc.op = "alloc" /\ loc.batch = b /\ loc.key = Cardinality(Leaves) + 1 /\ loc.addr = next_addr[b] BY DEF loc
<1>5. lv[t].op = "none" BY <1>3, OpOfStep
<1>6. TypeOK'
  <2>1. next_addr' \in [Batch -> Nat] /\ allocs' \in [MiniThread -> Nat] BY DEF LockBatch, TypeOK, MINI_WAIT
  <2> QED BY <1>3, <2>1 DEF LockBatch, TypeOK
<1>7. RoleInv'
  <2>1. life = "open" /\ allocs' = [allocs EXCEPT ![t] = @ + 1] /\ allocs \in [MiniThread -> Nat] BY DEF LockBatch, TypeOK
  <2>2. keyed => \A u \in MiniThread \ {t} : allocs[u] = 0 BY DEF LockBatch, MayAlloc
  <2>3. \A u \in MiniThread : mpc'[u] \notin WaitPCs
    <3>1. to \notin WaitPCs BY DEF to, WaitPCs
    <3>2. \A u \in MiniThread : mpc[u] \notin WaitPCs BY <2>1 DEF RoleInv
    <3> QED BY <3>1, <3>2, <1>3
  <2> QED BY <2>1, <2>2, <2>3, <1>3, <1>4 DEF RoleInv, LockBatch, Role, NoneHeld, NoBlocks
<1>8. Calm /\ Calm' /\ life = "open" /\ life' = "open" BY DEF LockBatch, Calm
<1>9. ListInv(log, start)' BY <1>6, <1>7, <1>8, CalmList DEF LockBatch
<1>10. ClaimInv'
  <2>1. to \notin {"append", "append_new"} BY DEF to
  <2> QED BY <2>1, <1>3, <1>6, <1>7, <1>8, CalmClaims DEF LockBatch
<1>11. BatchInv(log)'
  <2>1. \A x \in Batch : Ended(x)' <=> Ended(x) BY <1>8 DEF Ended
  <2> QED BY <2>1, <1>8, BatchFrame DEF LockBatch, ListInv
<1>12. OwnInv(log, own)'
  <2>1. \A x \in Batch : Pending(x)' <=> Pending(x) BY <1>8 DEF Pending
  <2>2. \A u \in MiniThread : (Flying(u)' <=> Flying(u)) /\ (Flying(u) => lv'[u].addr = lv[u].addr)
    BY <1>3, <1>5 DEF Flying, to, AppendPCs
  <2> QED BY <2>1, <2>2, OwnFrame DEF LockBatch
<1>13. AddrInv(log)'
  <2>1. next_addr[b] # MINI_WAIT /\ next_addr' = [next_addr EXCEPT ![b] = MINI_WAIT] /\ given' = given BY DEF LockBatch
  <2>2. Role("alloc")' = Role("alloc") \cup {t} BY <1>3, <1>4 DEF Role
  <2>3. \A u \in Role("alloc") : u # t /\ lv'[u] = lv[u] /\ mpc'[u] = mpc[u] /\ lv[u].batch # b /\ lv[u].batch \in Batch
    <3>1. \A u \in Role("alloc") : u \in MiniThread /\ u # t BY <1>5 DEF Role
    <3>2. \A u \in Role("alloc") : lv[u].batch # b BY <2>1 DEF AddrInv
    <3>3. \A u \in Role("alloc") : lv[u] \in AllocRec BY OpOfStep DEF Role
    <3> QED BY <3>1, <3>2, <3>3, <1>3 DEF AllocRec
  <2>4. \A u \in Role("alloc")' : next_addr'[lv'[u].batch] = MINI_WAIT
    BY <2>1, <2>2, <2>3, <1>3, <1>4 DEF AddrInv, TypeOK
  <2>5. \A u, v \in Role("alloc")' : lv'[u].batch = lv'[v].batch => u = v
    BY <2>2, <2>3, <1>3, <1>4 DEF AddrInv
  <2>6. \A x \in Batch : next_addr'[x] # MINI_WAIT /\ next_addr'[x] % PagesPerExtent # 0 => NextAddrOK(log, x, next_addr[x])'
    <3> SUFFICES ASSUME NEW x \in Batch, next_addr'[x] # MINI_WAIT, next_addr'[x] % PagesPerExtent # 0
                 PROVE NextAddrOK(log, x, next_addr[x])' OBVIOUS
    <3>1. next_addr'[x] = next_addr[x] BY <2>1 DEF TypeOK
    <3>2. NextAddrOK(log, x, next_addr[x]) BY <3>1, <1>8 DEF AddrInv
    <3> QED BY <3>1, <3>2, <2>1 DEF NextAddrOK, GivenIn, Data, LastOf
  <2>7. \A u \in Role("alloc")' : mpc'[u] = "finish" => NextAddrOK(log, lv[u].batch, lv[u].addr)'
    <3> SUFFICES ASSUME NEW u \in Role("alloc")', mpc'[u] = "finish" PROVE NextAddrOK(log, lv[u].batch, lv[u].addr)' OBVIOUS
    <3>1. CASE u = t
      <4>1. NextAddrOK(log, b, next_addr[b]) BY <3>1, <1>3, <1>8, <2>1 DEF AddrInv, to
      <4> QED BY <4>1, <3>1, <1>3, <1>4, <2>1 DEF NextAddrOK, GivenIn, Data, LastOf
    <3>2. CASE u # t
      <4>1. NextAddrOK(log, lv[u].batch, lv[u].addr) /\ lv'[u] = lv[u] BY <3>2, <2>2, <2>3 DEF AddrInv
      <4> QED BY <4>1, <2>1 DEF NextAddrOK, GivenIn, Data, LastOf
    <3> QED BY <3>1, <3>2
  <2> QED BY <2>1, <2>4, <2>5, <2>6, <2>7 DEF AddrInv, Data
<1>14. KeyInv(log)'
  <2> SUFFICES ASSUME keyed PROVE KeyInv(log)' BY DEF KeyInv, LockBatch
  <2>1. given' = given /\ Leaves' = Leaves /\ keyed' = keyed BY DEF LockBatch, Leaves
  <2>2. Role("alloc")' = Role("alloc") \cup {t} BY <1>3, <1>4 DEF Role
  <2>3. \A u \in Role("alloc") : u # t /\ lv'[u] = lv[u] /\ mpc'[u] = mpc[u]
    BY <1>3, <1>5 DEF Role
  <2>4. /\ b = 0 => Cardinality(Leaves) + 1 <= LastKey
        /\ b > 0 => \A g \in given : g.batch # b
    <3>1. PackedLeaves \in SUBSET (0 .. LastKey) /\ PackedLeaves # {} /\ LastKey \in Nat BY MiniKeyAssumption
    <3>2. Max(PackedLeaves) \in 0 .. LastKey BY <3>1, HighestIsMember
    <3>3. b = 0 => Cardinality(Leaves) < Max(PackedLeaves) BY DEF LockBatch, MayAlloc
    <3>4. b > 0 => \A g \in given : g.batch # b BY DEF LockBatch, MayAlloc
    <3>5. PICK m \in Nat : m = Max(PackedLeaves) /\ m <= LastKey BY <3>1, <3>2
    <3>6. PICK n \in Nat : n = Cardinality(Leaves) BY LeavesCount
    <3>7. b = 0 => n + 1 <= LastKey BY <3>1, <3>3, <3>5, <3>6
    <3> QED BY <3>4, <3>6, <3>7
  <2>5. \A u \in Role("alloc")' : /\ lv'[u].key = Cardinality(Leaves') + 1
                                  /\ lv'[u].batch = 0 => lv'[u].key <= LastKey
                                  /\ lv'[u].batch > 0 => \A g \in given' : g.batch # lv'[u].batch
    BY <2>1, <2>2, <2>3, <2>4, <1>3, <1>4 DEF KeyInv
  <2> QED BY <2>1, <2>2, <2>3, <2>5, <1>8 DEF KeyInv, Data
<1>15. CalmRefs(own)' BY <1>8, CalmRefsBefore DEF CalmRefs, CalmCount, LockBatch
<1> QED BY <1>6, <1>7, <1>8, <1>9, <1>10, <1>11, <1>12, <1>13, <1>14, <1>15, CalmInv DEF LockBatch

(* mini_allocator_get_new_extent keeps the invariant: the extent in        *)
(* advance is in the hands of the thread, a free one takes its place.      *)
LEMMA NextExtentInv ==
    ASSUME NEW log, NEW start, NEW own, Inv(log, start, own), NEW t \in MiniThread, NextExtent(t)
    PROVE  \E own2 : Inv(log, start, own2)'
<1> USE DEF Inv
<1>1. PICK e \in Ext : e = Min(FreeExts) /\ refc[e] = AL_FREE BY NewExtent DEF NextExtent
<1>2. mpc[t] = "extent" /\ lv[t].op = "alloc" /\ Calm /\ life = "open" /\ t \in Role("alloc") /\ lv[t] \in AllocRec
  <2>1. mpc[t] = "extent" /\ mpc[t] \in AllocPCs BY DEF NextExtent, AllocPCs
  <2> QED BY <2>1, OpOfStep, AppendsAreCalm
<1>3. PICK b \in Batch : b = lv[t].batch BY <1>2 DEF AllocRec
<1>4. PICK o \in Ext : o = next_extent[b] BY DEF TypeOK
<1>5. PICK a \in Nat : a = o * PagesPerExtent /\ ExtentOf(a) = o BY ExtentBase, MiniSizeAssumption DEF Ext
<1> DEFINE loc == [lv[t] EXCEPT !.addr = a]
<1>6. /\ Move(t, "extent", "tail", loc)
      /\ next_extent' = [next_extent EXCEPT ![b] = e] /\ refc' = [refc EXCEPT ![e] = AL_ONE_REF] /\ num_extents' = num_extents + 1
  BY <1>1, <1>3, <1>4, <1>5 DEF NextExtent
<1>7. loc \in AllocRec /\ loc.addr = a /\ loc.op = "alloc" /\ loc.batch = b /\ loc.key = lv[t].key
  BY <1>2, <1>3 DEF AllocRec
<1> HIDE DEF loc
<1>8. LocalsAt("tail", loc) BY <1>7 DEF LocalsAt, AllocPCs, AppendPCs
<1>9. /\ mpc' \in [MiniThread -> PCs] /\ DOMAIN lv' = MiniThread
      /\ \A u \in MiniThread : LocalsAt(mpc'[u], lv'[u])
      /\ mpc'[t] = "tail" /\ lv'[t] = loc
      /\ \A u \in MiniThread \ {t} : mpc'[u] = mpc[u] /\ lv'[u] = lv[u]
  BY <1>6, <1>8, Moved
<1>10. TypeOK'
  <2>1. next_extent' \in [Batch -> Ext] /\ refc' \in [Ext -> Int] BY <1>6 DEF TypeOK, AL_ONE_REF
  <2> QED BY <1>9, <2>1 DEF NextExtent, TypeOK
<1>11. RoleInv'
  <2>1. \A u \in MiniThread : lv'[u].op = lv[u].op BY <1>2, <1>7, <1>9
  <2>2. \A u \in Role("release") : mpc'[u] # "release" => keyed /\ lv'[u].batch \in Batch
    BY <1>2, <1>9 DEF RoleInv, Role
  <2>3. \A u \in MiniThread : mpc'[u] \in WaitPCs => mpc[u] \in WaitPCs /\ lv'[u] = lv[u] BY <1>9 DEF WaitPCs
  <2>4. \A u \in Role("inc") \cup Role("prefetch") : lv'[u].range = lv[u].range /\ lv'[u].mine = lv[u].mine BY <1>2, <1>9 DEF Role
  <2> QED BY <1>2, <2>1, <2>2, <2>3, <2>4, RoleFrame DEF NextExtent
<1>12. Calm' /\ life' = "open" BY <1>2 DEF Calm, NextExtent
<1>13. ListInv(log, start)' BY <1>2, <1>10, <1>11, <1>12, CalmList DEF NextExtent
<1>14. ClaimInv'
  BY <1>9, <1>10, <1>11, <1>12, CalmClaims DEF NextExtent
<1>15. BatchInv(log)'
  <2>1. \A x \in Batch : Ended(x)' <=> Ended(x) BY <1>2, <1>12 DEF Ended
  <2> QED BY <2>1, <1>12, BatchFrame DEF NextExtent, ListInv
<1> DEFINE own2 == [own EXCEPT ![o] = <<"fly", t>>, ![e] = <<"adv", b>>]
<1>16. /\ own[o] = <<"adv", b>> /\ own[e] = Free /\ o # e /\ own[1] = Meta /\ e # 1 /\ DOMAIN own = Ext
  <2>1. own[o] = <<"adv", b>> BY <1>4, <1>2 DEF OwnInv, Pending
  <2>2. own[e] = Free BY <1>1, <1>2, CalmRefsBefore
  <2>3. own[1] = Meta BY HeadExtent DEF OwnInv, ListInv
  <2> QED BY <2>1, <2>2, <2>3 DEF Free, Meta, OwnInv
<1>17. /\ own2[o] = <<"fly", t>> /\ own2[e] = <<"adv", b>> /\ \A x \in Ext : x # o /\ x # e => own2[x] = own[x]
       /\ DOMAIN own2 = Ext
  BY <1>16
<1> HIDE DEF own2
<1>18. \A x \in Batch : Pending(x) /\ Pending(x)' BY <1>2, <1>12 DEF Pending
<1>19. \A u \in MiniThread \ {t} : (Flying(u)' <=> Flying(u)) /\ lv'[u] = lv[u] BY <1>9 DEF Flying
<1>20. Flying(t)' /\ ~Flying(t) /\ lv'[t].addr = a BY <1>2, <1>7, <1>9 DEF Flying, AppendPCs
<1>21. OwnInv(log, own2)'
  <2>1. ASSUME NEW i \in DOMAIN log, Data(log, i) PROVE own2[log[i].extent] = <<"data", i>>
    <3>1. own[log[i].extent] = <<"data", i>> /\ log[i].extent \in Ext
      BY <2>1, LogEntries DEF OwnInv, ListInv
    <3>2. log[i].extent # o /\ log[i].extent # e BY <3>1, <1>16 DEF Free
    <3> QED BY <3>1, <3>2, <1>17
  <2>2. ASSUME NEW x \in DOMAIN meta PROVE ExtentOf(x) \in Ext /\ own2[ExtentOf(x)] = Meta
    <3>1. ExtentOf(x) \in Ext /\ own[ExtentOf(x)] = Meta BY DEF OwnInv
    <3>2. ExtentOf(x) # o /\ ExtentOf(x) # e BY <3>1, <1>16 DEF Free, Meta
    <3> QED BY <3>1, <3>2, <1>17
  <2>3. ASSUME NEW x \in Batch PROVE own2[next_extent'[x]] = <<"adv", x>>
    <3>1. CASE x = b BY <3>1, <1>6, <1>17 DEF TypeOK
    <3>2. CASE x # b
      <4>1. next_extent'[x] = next_extent[x] /\ own[next_extent[x]] = <<"adv", x>> /\ next_extent[x] \in Ext
        BY <3>2, <1>6, <1>18 DEF TypeOK, OwnInv
      <4>2. next_extent[x] # o /\ next_extent[x] # e BY <4>1, <1>16, <3>2 DEF Free
      <4> QED BY <4>1, <4>2, <1>17
    <3> QED BY <3>1, <3>2
  <2>4. ASSUME NEW u \in MiniThread, Flying(u)'
        PROVE  /\ ExtentOf(lv'[u].addr) \in Ext /\ own2[ExtentOf(lv'[u].addr)] = <<"fly", u>>
               /\ lv'[u].addr = ExtentOf(lv'[u].addr) * PagesPerExtent
    <3>1. CASE u = t BY <3>1, <1>20, <1>5, <1>17
    <3>2. CASE u # t
      <4>1. /\ ExtentOf(lv[u].addr) \in Ext /\ own[ExtentOf(lv[u].addr)] = <<"fly", u>>
            /\ lv[u].addr = ExtentOf(lv[u].addr) * PagesPerExtent
        BY <3>2, <2>4, <1>19 DEF OwnInv
      <4>2. ExtentOf(lv[u].addr) # o /\ ExtentOf(lv[u].addr) # e BY <4>1, <1>16 DEF Free
      <4> QED BY <4>1, <4>2, <1>17, <1>19, <3>2
    <3> QED BY <3>1, <3>2
  <2>5. ASSUME NEW x \in Ext
        PROVE  \/ own2[x] = Free
               \/ \E i \in DOMAIN log : own2[x] = <<"data", i>> /\ log[i].extent = x
               \/ own2[x] = Meta /\ \E y \in DOMAIN meta : ExtentOf(y) = x
               \/ \E y \in Batch : own2[x] = <<"adv", y>> /\ next_extent'[y] = x
               \/ \E u \in MiniThread : own2[x] = <<"fly", u>> /\ Flying(u)' /\ ExtentOf(lv'[u].addr) = x
    <3>1. CASE x = o BY <3>1, <1>17, <1>20, <1>5
    <3>2. CASE x = e BY <3>2, <1>17, <1>6 DEF TypeOK
    <3>3. CASE x # o /\ x # e
      <4>1. own2[x] = own[x] BY <3>3, <1>17
      <4>2. \A y \in Batch : next_extent[y] = x => next_extent'[y] = x BY <3>3, <1>4, <1>6 DEF TypeOK
      <4>3. \A u \in MiniThread : Flying(u) => Flying(u)' /\ lv'[u] = lv[u] BY <1>19, <1>20
      <4> QED BY <4>1, <4>2, <4>3 DEF OwnInv
    <3> QED BY <3>1, <3>2, <3>3
  <2>6. meta' = meta BY DEF NextExtent
  <2> QED BY <2>1, <2>2, <2>3, <2>4, <2>5, <2>6, <1>17, <1>18 DEF OwnInv, Data
<1>22. SameAllocs
  <2>1. \A u \in MiniThread \ {t} : lv'[u] = lv[u] /\ mpc'[u] = mpc[u] BY <1>9
  <2>2. lv'[t].key = lv[t].key /\ lv'[t].batch = lv[t].batch /\ lv[t].op = "alloc" /\ mpc[t] # "finish" /\ mpc'[t] # "finish"
    BY <1>2, <1>3, <1>7, <1>9
  <2> QED BY <2>1, <2>2 DEF SameAllocs
<1>23. AddrInv(log)' BY <1>22, <1>2, AddrFrame DEF NextExtent
<1>24. KeyInv(log)' BY <1>22, <1>12, KeyFrame DEF NextExtent
<1>25. CalmRefs(own2)'
  <2>1. \A x \in Ext : refc[x] = CalmCount(own, x) BY <1>2, CalmRefsBefore DEF CalmRefs
  <2>2. \A x \in Ext : x # e => (own2[x] = Free <=> own[x] = Free) BY <1>16, <1>17 DEF Free
  <2>3. own2[e] # Free BY <1>17 DEF Free
  <2> QED BY <2>1, <2>2, <2>3, <1>6, <1>16 DEF CalmRefs, CalmCount, NextExtent, TypeOK
<1>26. Inv(log, start, own2)'
  BY <1>2, <1>10, <1>11, <1>12, <1>13, <1>14, <1>15, <1>21, <1>23, <1>24, <1>25, CalmInv DEF NextExtent
<1> QED BY <1>26

(* A step that only looks for the tail, or claims it.                      *)
LEMMA TailStep ==
    ASSUME NEW log, NEW start, NEW own, Inv(log, start, own), NEW t \in MiniThread,
           mpc[t] \in {"tail", "claim_tail"}, NEW to \in {"tail", "claim_tail", "append"}, NEW loc, Move(t, mpc[t], to, loc),
           lv[t].op = "alloc" => loc \in AllocRec /\ loc.addr = lv[t].addr,
           lv[t].op = "release" => loc \in ReleaseRec,
           loc.op = lv[t].op, loc.batch = lv[t].batch, loc.key = lv[t].key,
           claim' \in [DOMAIN claim' -> MiniThread],
           UNCHANGED <<keyed, refc, meta, meta_tail, next_addr, next_extent, num_extents, held, blocked, given, life, allocs, reloads, failed>>
    PROVE  /\ mpc'[t] = to /\ lv'[t] = loc /\ \A u \in MiniThread \ {t} : mpc'[u] = mpc[u] /\ lv'[u] = lv[u]
           /\ Calm' /\ TypeOK' /\ RoleInv' /\ (ClaimInv' => Inv(log, start, own)')
<1> USE DEF Inv
<1>1. to \in AppendPCs /\ mpc[t] \in AllocPCs BY DEF AllocPCs, AppendPCs
<1>2. Calm /\ lv[t].op \in {"alloc", "release"} BY <1>1, AppendsAreCalm
<1>5. LocalsAt(to, loc) BY <1>1, <1>2 DEF LocalsAt, AllocPCs, ReleasePCs
<1>6. /\ mpc' \in [MiniThread -> PCs] /\ DOMAIN lv' = MiniThread
      /\ \A u \in MiniThread : LocalsAt(mpc'[u], lv'[u])
      /\ mpc'[t] = to /\ lv'[t] = loc
      /\ \A u \in MiniThread \ {t} : mpc'[u] = mpc[u] /\ lv'[u] = lv[u]
  BY <1>5, Moved
<1>8. TypeOK' BY <1>6 DEF TypeOK
<1>9. RoleInv'
  <2>1. \A u \in MiniThread : lv'[u].op = lv[u].op BY <1>6
  <2>2. \A u \in Role("release") : mpc'[u] # "release" => keyed /\ lv'[u].batch \in Batch
    BY <1>1, <1>6 DEF RoleInv, Role
  <2>3. \A u \in MiniThread : mpc'[u] \in WaitPCs => mpc[u] \in WaitPCs /\ lv'[u] = lv[u] BY <1>1, <1>6 DEF WaitPCs, AppendPCs
  <2>4. \A u \in Role("inc") \cup Role("prefetch") : lv'[u].range = lv[u].range /\ lv'[u].mine = lv[u].mine BY <1>2, <1>6 DEF Role
  <2> QED BY <2>1, <2>2, <2>3, <2>4, RoleFrame
<1>10. \A op : Role(op)' = Role(op) BY <1>6 DEF Role
<1>11. Calm'
  <2>1. life = "open" \/ (keyed /\ t \in Role("release")) BY <1>1, <1>2, AppendsAreCalm
  <2> QED BY <2>1, <1>10 DEF Calm
<1>12. ListInv(log, start)' BY <1>8, <1>9, <1>11, CalmList
<1>14. \A u \in Role("release") : lv'[u].batch = lv[u].batch /\ (mpc'[u] = "release" <=> mpc[u] = "release")
  BY <1>1, <1>6 DEF Role, AppendPCs
<1>15. BatchInv(log)'
  <2>1. \A x \in Batch : Ended(x)' <=> Ended(x) BY <1>10, <1>14 DEF Ended
  <2> QED BY <2>1, BatchFrame DEF ListInv
<1>16. OwnInv(log, own)'
  <2>1. \A x \in Batch : Pending(x)' <=> Pending(x) BY <1>10, <1>14 DEF Pending
  <2>2. \A u \in MiniThread : (Flying(u)' <=> Flying(u)) /\ (Flying(u) => lv'[u].addr = lv[u].addr)
    BY <1>1, <1>6 DEF Flying, AppendPCs
  <2> QED BY <2>1, <2>2, OwnFrame
<1>17. SameAllocs BY <1>1, <1>6 DEF SameAllocs, AppendPCs
<1>18. AddrInv(log)' BY <1>17, AddrFrame
<1>19. KeyInv(log)' BY <1>17, KeyFrame
<1>20. CalmRefs(own)' BY <1>2, CalmRefsBefore DEF CalmRefs, CalmCount
<1>21. ASSUME ClaimInv' PROVE Inv(log, start, own)'
  BY <1>2, <1>8, <1>9, <1>11, <1>12, <1>15, <1>16, <1>18, <1>19, <1>20, <1>21, CalmInv
<1> QED BY <1>6, <1>8, <1>9, <1>11, <1>21

(* Reading meta_tail keeps the invariant.                                  *)
LEMMA ReadTailInv ==
    ASSUME NEW log, NEW start, NEW own, Inv(log, start, own), NEW t \in MiniThread, ReadTail(t)
    PROVE  Inv(log, start, own)'
<1> USE DEF Inv
<1>1. mpc[t] = "tail" /\ mpc[t] \in AllocPCs BY DEF ReadTail, Move, AllocPCs, AppendPCs
<1>2. /\ lv[t].op \in {"alloc", "release"}
      /\ lv[t].op = "alloc" => lv[t] \in AllocRec
      /\ lv[t].op = "release" => lv[t] \in ReleaseRec
  BY <1>1, AppendsAreCalm
<1>3. PICK a \in Nat : a = meta_tail /\ a \in DOMAIN meta BY DEF ListInv, TypeOK
<1> DEFINE loc == [lv[t] EXCEPT !.tail = a]
<1>4. Move(t, "tail", "claim_tail", loc) BY <1>3 DEF ReadTail
<1>5. /\ loc.op = lv[t].op /\ loc.batch = lv[t].batch /\ loc.key = lv[t].key
      /\ lv[t].op = "alloc" => loc \in AllocRec /\ loc.addr = lv[t].addr
      /\ lv[t].op = "release" => loc \in ReleaseRec
  BY <1>2 DEF AllocRec, ReleaseRec
<1> HIDE DEF loc
<1>6. UNCHANGED <<refc, failed, otherVars>> BY DEF ReadTail
<1>7. claim' \in [DOMAIN claim' -> MiniThread] BY <1>6 DEF otherVars, TypeOK
<1>8. /\ mpc'[t] = "claim_tail" /\ \A u \in MiniThread \ {t} : mpc'[u] = mpc[u] /\ lv'[u] = lv[u]
      /\ Calm' /\ TypeOK' /\ RoleInv' /\ (ClaimInv' => Inv(log, start, own)')
  BY <1>1, <1>4, <1>5, <1>6, <1>7, TailStep DEF otherVars
<1>9. ClaimInv' BY <1>6, <1>8, CalmClaims DEF otherVars
<1> QED BY <1>8, <1>9

(* mini_full_lock_meta_tail keeps it: the page claimed is the tail, or the *)
(* thread looks again.                                                     *)
LEMMA LockTailInv ==
    ASSUME NEW log, NEW start, NEW own, Inv(log, start, own), NEW t \in MiniThread, LockTail(t)
    PROVE  Inv(log, start, own)'
<1> USE DEF Inv
<1>1. mpc[t] = "claim_tail" /\ mpc[t] \in AllocPCs BY DEF LockTail, AllocPCs, AppendPCs
<1>2. /\ lv[t].op \in {"alloc", "release"}
      /\ lv[t].op = "alloc" => lv[t] \in AllocRec
      /\ lv[t].op = "release" => lv[t] \in ReleaseRec
  BY <1>1, AppendsAreCalm
<1>3. PICK a : a = lv[t].tail OBVIOUS
<1>4. PICK to \in {"tail", "append"} : to = IF a = meta_tail THEN "append" ELSE "tail" OBVIOUS
<1>5. Move(t, mpc[t], to, lv[t]) BY <1>1, <1>3, <1>4 DEF LockTail
<1>6. claim' = IF a = meta_tail THEN Put(claim, a, t) ELSE claim BY <1>3 DEF LockTail
<1>7. a \notin DOMAIN claim BY <1>3 DEF LockTail, Claimed
<1>8. a = meta_tail => /\ DOMAIN claim' = DOMAIN claim \cup {a} /\ claim'[a] = t
                       /\ \A x \in DOMAIN claim : claim'[x] = claim[x]
                       /\ claim' = [x \in DOMAIN claim' |-> claim'[x]]
  BY <1>6, <1>7 DEF Put
<1>9. claim' \in [DOMAIN claim' -> MiniThread]
  BY <1>6, <1>8 DEF TypeOK
<1>10. /\ mpc'[t] = to /\ lv'[t] = lv[t] /\ \A u \in MiniThread \ {t} : mpc'[u] = mpc[u] /\ lv'[u] = lv[u]
       /\ Calm' /\ TypeOK' /\ RoleInv' /\ (ClaimInv' => Inv(log, start, own)')
  BY <1>1, <1>2, <1>4, <1>5, <1>9, TailStep DEF LockTail
<1>11. ClaimInv'
  <2>1. Role("dec")' = {} BY <1>10, CalmNext DEF Walkers
  <2>2. meta' = meta /\ meta_tail' = meta_tail /\ meta_tail \in DOMAIN meta BY DEF LockTail, ListInv
  <2>3. DOMAIN claim' \subseteq DOMAIN meta' BY <1>6, <1>8, <2>2 DEF ClaimInv
  <2>4. ASSUME NEW u \in MiniThread, mpc'[u] \in {"append", "append_new"}
        PROVE lv'[u].tail = meta_tail /\ meta_tail \in DOMAIN claim' /\ claim'[meta_tail] = u
    <3>1. CASE u = t BY <3>1, <2>4, <1>3, <1>4, <1>8, <1>10
    <3>2. CASE u # t
      <4>1. lv[u].tail = meta_tail /\ meta_tail \in DOMAIN claim /\ claim[meta_tail] = u
        BY <3>2, <2>4, <1>10 DEF ClaimInv
      <4>2. a # meta_tail BY <4>1, <1>7
      <4> QED BY <4>1, <4>2, <1>6, <1>10, <3>2
    <3> QED BY <3>1, <3>2
  <2> QED BY <2>1, <2>2, <2>3, <2>4 DEF ClaimInv
<1> QED BY <1>10, <1>11

(* A list with one entry more.                                             *)
LEMMA AppendedLog ==
    ASSUME NEW log \in Seq(EntryRec), NEW x \in EntryRec
    PROVE  /\ Append(log, x) \in Seq(EntryRec) /\ Len(Append(log, x)) = Len(log) + 1
           /\ Len(log) \in Nat /\ DOMAIN log = 1 .. Len(log)
           /\ DOMAIN Append(log, x) = DOMAIN log \cup {Len(log) + 1} /\ Len(log) + 1 \notin DOMAIN log
           /\ Append(log, x)[Len(log) + 1] = x
           /\ \A i \in DOMAIN log : Append(log, x)[i] = log[i] /\ i < Len(log) + 1
OBVIOUS

(* An entry is appended to the last page, and so to the list.              *)
LEMMA ListAppend ==
    ASSUME NEW log, NEW start, ListInv(log, start), TypeOK, NEW x \in EntryRec,
           meta' = AppendEntry(meta, meta_tail, x), meta_tail' = meta_tail, TypeOK', RoleInv', Calm'
    PROVE  ListInv(Append(log, x), start)'
<1>1. PICK a \in Nat : a = meta_tail /\ a \in DOMAIN meta BY DEF ListInv, TypeOK
<1>2. log \in Seq(EntryRec) /\ start \in [DOMAIN meta -> Nat] BY DEF ListInv
<1> DEFINE log2 == Append(log, x)
<1>3. /\ log2 \in Seq(EntryRec) /\ Len(log2) = Len(log) + 1
      /\ DOMAIN log = 1 .. Len(log) /\ log2[Len(log) + 1] = x
      /\ \A i \in DOMAIN log : log2[i] = log[i]
  BY <1>2, AppendedLog
<1> HIDE DEF log2
<1>4. PICK n \in Nat : n = Len(log) BY <1>2
<1>5. \A c \in DOMAIN meta : meta[c] \in PageRec /\ meta[c].entries \in Seq(EntryRec) /\ Len(meta[c].entries) \in Nat /\ start[c] \in Nat
  BY <1>2 DEF TypeOK, PageRec
<1>6. /\ DOMAIN meta' = DOMAIN meta
      /\ \A c \in DOMAIN meta : c # a => meta'[c] = meta[c]
      /\ meta'[a].next = meta[a].next /\ meta'[a].entries = Append(meta[a].entries, x)
  BY <1>1, <1>5 DEF AppendEntry, PageRec
<1>70. PICK s \in Nat : s = start[a] BY <1>1, <1>5
<1>7. PICK l \in Nat : l = Len(meta[a].entries) /\ s + l = n
  BY <1>1, <1>4, <1>5, <1>70 DEF ListInv, PageInv
<1>8. Len(meta'[a].entries) = l + 1 /\ meta'[a].entries[l + 1] = x /\ \A k \in 1 .. l : meta'[a].entries[k] = meta[a].entries[k]
  BY <1>1, <1>5, <1>6, <1>7
<1>9. ASSUME NEW c \in DOMAIN meta PROVE PageInv(log2, start, c)'
  <2>1. PageInv(log, start, c) BY DEF ListInv
  <2>2. CASE c = a
    <3>1. PageInv(log, start, a) BY <2>1, <2>2
    <3>2. s + (l + 1) = Len(log2)
      <4>1. n + 1 = Len(log2) BY <1>3, <1>4
      <4>2. s + (l + 1) = n + 1 BY <1>7
      <4> QED BY <4>1, <4>2
    <3>3. \A k \in 1 .. l + 1 : meta'[a].entries[k] = log2[start[a] + k]
      <4> SUFFICES ASSUME NEW k \in 1 .. l + 1 PROVE meta'[a].entries[k] = log2[start[a] + k] OBVIOUS
      <4>1. CASE k = l + 1
        <5>1. s + k = Len(log) + 1 BY <4>1, <1>7, <1>4
        <5> QED BY <5>1, <4>1, <1>8, <1>3, <1>70
      <4>2. CASE k \in 1 .. l
        <5>1. meta[a].entries[k] = log[start[a] + k] BY <3>1, <4>2, <1>7 DEF PageInv
        <5>2. start[a] + k \in DOMAIN log
          <6>1. DOMAIN log = 1 .. n BY <1>3, <1>4
          <6>2. s + k \in 1 .. n BY <4>2, <1>7
          <6> QED BY <6>1, <6>2, <1>70
        <5> QED BY <5>1, <5>2, <1>3, <1>8, <4>2
      <4> QED BY <4>1, <4>2
    <3>4. meta'[a].next = NoPage BY <3>1, <1>1, <1>6 DEF PageInv
    <3>5. PICK m \in Nat : m = Len(log2) BY <1>3, <1>4
    <3>6. PageInv(log2, start, a)' BY <3>2, <3>3, <3>4, <3>5, <1>8, <1>1, <1>70 DEF PageInv
    <3> QED BY <2>2, <3>6
  <2>3. CASE c # a
    <3>1. meta'[c] = meta[c] BY <2>3, <1>6
    <3>2. start[c] + Len(meta[c].entries) <= n BY <2>1, <1>4 DEF PageInv
    <3>3. \A k \in 1 .. Len(meta[c].entries) : meta[c].entries[k] = log2[start[c] + k]
      <4> SUFFICES ASSUME NEW k \in 1 .. Len(meta[c].entries) PROVE meta[c].entries[k] = log2[start[c] + k] OBVIOUS
      <4>1. meta[c].entries[k] = log[start[c] + k] BY <2>1 DEF PageInv
      <4>2. start[c] + k \in DOMAIN log BY <3>2, <1>3, <1>4, <1>5
      <4> QED BY <4>1, <4>2, <1>3
    <3>4. start[c] + Len(meta[c].entries) <= Len(log2) BY <3>2, <1>3, <1>4, <1>5
    <3> QED BY <2>1, <3>1, <3>3, <3>4, <2>3, <1>1, <1>6 DEF PageInv
  <2> QED BY <2>2, <2>3
<1>10. ASSUME NEW c \in DOMAIN meta, NEW d \in DOMAIN meta PROVE PageOrder(start, c, d)'
  <2>1. PageOrder(start, c, d) /\ PageInv(log, start, d) BY DEF ListInv
  <2>2. CASE c # a BY <2>1, <2>2, <1>6 DEF PageOrder
  <2>3. CASE c = a
    <3>1. ~(start[a] < start[d])
      <4> SUFFICES ASSUME start[a] < start[d] PROVE FALSE OBVIOUS
      <4>1. n <= start[d] BY <2>1, <2>3, <1>7, <1>70 DEF PageOrder
      <4>2. start[d] + Len(meta[d].entries) <= n BY <2>1, <1>4 DEF PageInv
      <4>3. d # a BY <1>5
      <4>4. Len(meta[d].entries) > 0 BY <2>1, <4>3, <1>1 DEF PageInv
      <4> QED BY <4>1, <4>2, <4>4, <1>5
    <3> QED BY <3>1, <2>3 DEF PageOrder
  <2> QED BY <2>2, <2>3
<1>11. ASSUME NEW p \in 1 .. Len(log2)
       PROVE \E c \in DOMAIN meta : start[c] < p /\ p <= start[c] + Len(meta'[c].entries)
  <2>1. CASE p = n + 1 BY <2>1, <1>7, <1>8, <1>1, <1>5, <1>70
  <2>2. CASE p \in 1 .. n
    <3>1. PICK c \in DOMAIN meta : start[c] < p /\ p <= start[c] + Len(meta[c].entries) BY <2>2, <1>4 DEF ListInv
    <3>2. Len(meta[c].entries) <= Len(meta'[c].entries) /\ Len(meta'[c].entries) \in Nat
      <4>1. CASE c = a BY <4>1, <1>7, <1>8
      <4>2. CASE c # a BY <4>2, <1>6, <1>5
      <4> QED BY <4>1, <4>2
    <3> QED BY <3>1, <3>2, <1>5, <2>2
  <2> QED BY <2>1, <2>2, <1>3, <1>4
<1>12. Walkers' = {} /\ Role("deinit")' = {} BY CalmNext
<1>13. meta_head \in DOMAIN meta /\ start[meta_head] = 0 /\ \A c, d \in DOMAIN meta : start[c] = start[d] => c = d
  BY DEF ListInv
<1>14. ListInv(log2, start)'
  BY <1>1, <1>2, <1>3, <1>6, <1>9, <1>10, <1>11, <1>12, <1>13 DEF ListInv
<1> QED BY <1>14 DEF log2

(* The entry continues its batch.                                          *)
LEMMA BatchAppend ==
    ASSUME NEW log \in Seq(EntryRec), BatchInv(log), NEW x \in EntryRec, keyed' = keyed,
           ~Ended(x.batch), \A b \in Batch : Ended(b) => Ended(b)',
           life' = "released" => life = "released",
           x.extent = TERMINAL_EXTENT_ADDR => keyed /\ Ended(x.batch)',
           \A b \in Batch : Ended(b)' => Ended(b) \/ (b = x.batch /\ x.extent = TERMINAL_EXTENT_ADDR)
    PROVE  BatchInv(Append(log, x))'
<1> DEFINE log2 == Append(log, x)  n == Len(log) + 1
<1>1. /\ n \in Nat /\ log2 \in Seq(EntryRec)
      /\ DOMAIN log2 = DOMAIN log \cup {n} /\ n \notin DOMAIN log /\ DOMAIN log \subseteq Nat
      /\ log2[n] = x /\ \A i \in DOMAIN log : log2[i] = log[i] /\ i < n
  BY AppendedLog
<1> HIDE DEF log2, n
<1>2. PICK b \in Batch : b = x.batch BY DEF EntryRec
<1>3. \A i \in DOMAIN log : log[i].batch \in Batch BY LogEntries
<1>4. ASSUME NEW k \in DOMAIN log2 PROVE FirstOf(log2, k) \/ \E i \in DOMAIN log2 : Pair(log2, i, k)
  <2>1. CASE k \in DOMAIN log
    <3>1. FirstOf(log, k) => FirstOf(log2, k) BY <2>1, <1>1 DEF FirstOf
    <3>2. ASSUME NEW i \in DOMAIN log, Pair(log, i, k) PROVE Pair(log2, i, k) BY <3>2, <2>1, <1>1 DEF Pair, Data
    <3> QED BY <3>1, <3>2, <2>1, <1>1 DEF BatchInv
  <2>2. CASE k = n
    <3>1. CASE \A i \in DOMAIN log : log[i].batch # b BY <3>1, <2>2, <1>1, <1>2 DEF FirstOf
    <3>2. CASE \E i \in DOMAIN log : LastOf(log, i) /\ log[i].batch = b
      <4>1. PICK i \in DOMAIN log : LastOf(log, i) /\ log[i].batch = b BY <3>2
      <4>2. Data(log, i) BY <4>1, <1>2 DEF BatchInv
      <4>3. Pair(log2, i, n) BY <4>1, <4>2, <1>1, <1>2 DEF Pair, LastOf, Data
      <4> QED BY <4>3, <2>2, <1>1
    <3> QED BY <3>1, <3>2 DEF BatchInv
  <2> QED BY <2>1, <2>2, <1>1
<1>5. ASSUME NEW c \in Batch
      PROVE (\A i \in DOMAIN log2 : log2[i].batch # c) \/ \E i \in DOMAIN log2 : LastOf(log2, i) /\ log2[i].batch = c
  <2>1. CASE c = b
    <3>1. LastOf(log2, n) BY <1>1 DEF LastOf
    <3> QED BY <3>1, <2>1, <1>1, <1>2
  <2>2. CASE c # b
    <3>1. ASSUME NEW i \in DOMAIN log, LastOf(log, i), log[i].batch = c PROVE LastOf(log2, i)
      BY <3>1, <2>2, <1>1, <1>2 DEF LastOf
    <3> QED BY <3>1, <2>2, <1>1, <1>2 DEF BatchInv
  <2> QED BY <2>1, <2>2
<1>6. ASSUME NEW i \in DOMAIN log2, ~Data(log2, i) PROVE keyed' /\ LastOf(log2, i) /\ Ended(log2[i].batch)'
  <2>1. CASE i = n
    <3>1. LastOf(log2, n) BY <1>1 DEF LastOf
    <3> QED BY <3>1, <2>1, <1>1, <1>6 DEF Data
  <2>2. CASE i \in DOMAIN log
    <3>1. keyed /\ LastOf(log, i) /\ Ended(log[i].batch) BY <2>2, <1>1, <1>6 DEF BatchInv, Data
    <3>2. log[i].batch # b BY <3>1, <1>2
    <3>3. LastOf(log2, i) BY <3>1, <3>2, <2>2, <1>1, <1>2 DEF LastOf
    <3>4. Ended(log[i].batch)'
      <4>1. PICK c \in Batch : c = log[i].batch BY <1>3, <2>2
      <4> QED BY <4>1, <3>1 DEF Ended
    <3> QED BY <3>1, <3>3, <3>4, <2>2, <1>1 DEF Ended
  <2> QED BY <2>1, <2>2, <1>1
<1>7. ASSUME keyed', life' = "released", NEW c \in Batch, Ended(c)'
      PROVE \E i \in DOMAIN log2 : log2[i].batch = c /\ ~Data(log2, i)
  <2>1. CASE Ended(c)
    <3>1. PICK i \in DOMAIN log : log[i].batch = c /\ ~Data(log, i) BY <2>1, <1>7 DEF BatchInv
    <3> QED BY <3>1, <1>1 DEF Data
  <2>2. CASE c = b /\ x.extent = TERMINAL_EXTENT_ADDR BY <2>2, <1>1, <1>2 DEF Data
  <2> QED BY <2>1, <2>2, <1>2, <1>7
<1>8. BatchInv(log2)'
  BY <1>4, <1>5, <1>6, <1>7 DEF BatchInv, FirstOf, LastOf, Pair, Data
<1> QED BY <1>8 DEF log2

(* The same entry keeps the keys in order.                                 *)
LEMMA KeyAppend ==
    ASSUME NEW log \in Seq(EntryRec), TypeOK, RoleInv, BatchInv(log), AddrInv(log), KeyInv(log), NEW x \in EntryRec, NEW t \in MiniThread,
           keyed' = keyed, given' = given, life' = life, mpc[t] # "finish",
           \A u \in MiniThread \ {t} : lv'[u] = lv[u] /\ mpc'[u] = mpc[u],
           lv'[t].op = lv[t].op, x.batch = lv[t].batch, x.key = lv[t].key,
           \/ lv[t].op # "alloc" /\ x.extent = TERMINAL_EXTENT_ADDR
           \/ /\ lv[t].op = "alloc" /\ mpc'[t] = "finish" /\ lv'[t] = lv[t] /\ life = "open"
              /\ x.extent = ExtentOf(lv[t].addr) /\ x.extent # TERMINAL_EXTENT_ADDR
              /\ GivenIn(ExtentOf(lv[t].addr)) = {}
    PROVE  KeyInv(Append(log, x))'
<1> DEFINE log2 == Append(log, x)  n == Len(log) + 1
<1>1. /\ n \in Nat /\ log2 \in Seq(EntryRec)
      /\ DOMAIN log2 = DOMAIN log \cup {n} /\ n \notin DOMAIN log /\ DOMAIN log \subseteq Nat
      /\ log2[n] = x /\ \A i \in DOMAIN log : log2[i] = log[i] /\ i < n
  BY AppendedLog
<1> HIDE DEF log2, n
<1> SUFFICES ASSUME keyed PROVE KeyInv(log2)' BY DEF KeyInv, log2
<1>2. Leaves' = Leaves BY DEF Leaves
<1>3. Role("alloc")' = Role("alloc") BY DEF Role
<1>4. \A u \in Role("alloc") : u \in MiniThread /\ lv'[u] = lv[u] /\ (mpc[u] = "finish" => mpc'[u] = "finish")
  BY DEF Role
<1>5. ASSUME NEW i \in DOMAIN log2, Data(log2, i)
      PROVE  \/ \E g \in given : ExtentOf(g.addr) = log2[i].extent /\ g.batch = log2[i].batch /\ g.key = log2[i].key
             \/ \E u \in Role("alloc") : /\ mpc'[u] = "finish" /\ ExtentOf(lv'[u].addr) = log2[i].extent
                                         /\ lv'[u].batch = log2[i].batch /\ lv'[u].key = log2[i].key
  <2>1. CASE i = n
    <3>1. lv[t].op = "alloc" BY <2>1, <1>1, <1>5 DEF Data
    <3>2. t \in Role("alloc") BY <3>1 DEF Role
    <3> QED BY <2>1, <3>1, <3>2, <1>1
  <2>2. CASE i \in DOMAIN log
    <3>1. log2[i] = log[i] /\ Data(log, i) BY <2>2, <1>1, <1>5 DEF Data
    <3> QED BY <3>1, <2>2, <1>4 DEF KeyInv
  <2> QED BY <2>1, <2>2, <1>1
<1>6. ASSUME NEW g \in given, Data(log2, n), g.batch = x.batch PROVE x.batch = 0 /\ g.key < x.key
  <2>1. lv[t].op = "alloc" /\ t \in Role("alloc") BY <1>6, <1>1 DEF Data, Role
  <2>2. lv[t].key = Cardinality(Leaves) + 1 /\ ~(lv[t].batch > 0) BY <2>1, <1>6 DEF KeyInv
  <2>3. x.batch \in Nat BY MiniSizeAssumption DEF EntryRec, Batch
  <2>4. x.batch = 0 BY <2>2, <2>3
  <2>5. g \in Leaves BY <2>4, <1>6 DEF Leaves
  <2>6. g.key <= Cardinality(Leaves) /\ g.key \in Nat BY <2>5 DEF KeyInv, Leaves, TypeOK, GivenRec
  <2>7. PICK c \in Nat : c = Cardinality(Leaves) BY LeavesCount
  <2> QED BY <2>2, <2>4, <2>6, <2>7
<1>7. ASSUME NEW i \in DOMAIN log2, NEW g \in given, Data(log2, i), log2[i].extent = ExtentOf(g.addr)
      PROVE  /\ log2[i].key <= g.key
             /\ \A k \in DOMAIN log2 : k > i /\ log2[k].batch = g.batch /\ Data(log2, k) => g.key < log2[k].key
  <2>1. CASE i = n
    BY <2>1, <1>1, <1>7 DEF GivenIn, Data
  <2>2. CASE i \in DOMAIN log
    <3>1. log2[i] = log[i] /\ Data(log, i) BY <2>2, <1>1, <1>7 DEF Data
    <3>2. /\ log[i].key <= g.key
          /\ \A k \in DOMAIN log : k > i /\ log[k].batch = g.batch /\ Data(log, k) => g.key < log[k].key
      BY <3>1, <2>2, <1>7 DEF KeyInv
    <3>3. ASSUME NEW k \in DOMAIN log2, k > i, log2[k].batch = g.batch, Data(log2, k) PROVE g.key < log2[k].key
      <4>1. CASE k = n BY <4>1, <3>3, <1>6, <1>1
      <4>2. CASE k \in DOMAIN log BY <4>2, <3>2, <3>3, <1>1 DEF Data
      <4> QED BY <4>1, <4>2, <1>1
    <3> QED BY <3>1, <3>2, <3>3
  <2> QED BY <2>1, <2>2, <1>1
<1>8. ASSUME NEW i \in DOMAIN log2, NEW k \in DOMAIN log2, i < k, log2[i].batch = log2[k].batch, Data(log2, k)
      PROVE log2[i].batch = 0 /\ log2[i].key < log2[k].key
  <2>0. i \in DOMAIN log
    <3>1. CASE i = n
      <4>1. k < n \/ k = n BY <1>1
      <4> QED BY <4>1, <3>1, <1>8, <1>1
    <3> QED BY <3>1, <1>1
  <2>1. CASE k = n
    <3>1. lv[t].op = "alloc" /\ t \in Role("alloc") /\ life = "open" BY <1>8, <1>1, <2>1 DEF Data, Role
    <3>2. Data(log, i) BY <2>0, <3>1 DEF BatchInv, Ended
    <3>3. log2[i] = log[i] /\ log[i].batch = x.batch BY <2>0, <1>1, <1>8, <2>1
    <3>4. ASSUME NEW u \in Role("alloc"), mpc[u] = "finish", lv[u].batch = log[i].batch PROVE FALSE
      <4>1. u = t BY <3>4, <3>3, <3>1 DEF AddrInv
      <4> QED BY <4>1, <3>4
    <3>5. PICK g \in given : g.batch = log[i].batch /\ g.key = log[i].key BY <3>2, <3>4, <2>0 DEF KeyInv
    <3> QED BY <3>5, <3>3, <1>6, <1>8, <2>1, <1>1
  <2>2. CASE k \in DOMAIN log
    BY <2>0, <2>2, <1>8, <1>1 DEF KeyInv, Data
  <2> QED BY <2>1, <2>2, <1>1
<1>9. \A u \in Role("alloc")' : /\ lv'[u].key = Cardinality(Leaves') + 1
                                /\ lv'[u].batch = 0 => lv'[u].key <= LastKey
                                /\ lv'[u].batch > 0 => \A g \in given' : g.batch # lv'[u].batch
  <2>1. \A u \in Role("alloc") : u = t => lv'[u].key = lv[u].key /\ lv'[u].batch = lv[u].batch
    BY DEF Role
  <2>2. \A u \in Role("alloc") : lv'[u].key = lv[u].key /\ lv'[u].batch = lv[u].batch
    BY <2>1, <1>4
  <2> QED BY <2>2, <1>2, <1>3 DEF KeyInv
<1>10. (life' = "released" => given # {} /\ (Cardinality(Leaves) > 1 => \E g \in given : g.batch > 0))
       /\ Cardinality(Leaves) <= LastKey /\ \A g \in Leaves : g.key <= Cardinality(Leaves) /\ g.key > 0
  BY DEF KeyInv
<1> QED BY <1>2, <1>3, <1>5, <1>7, <1>8, <1>9, <1>10 DEF KeyInv, Data

(* An entry is appended.                                                   *)
LEMMA AppendStep ==
    ASSUME NEW log, NEW start, NEW own, Inv(log, start, own), NEW t \in MiniThread,
           mpc[t] \in {"append", "append_new"},
           Move(t, mpc[t], AfterAppend(t), NextBatch(t)),
           meta' = AppendEntry(meta, lv[t].tail, Entry(t)), claim' = Release(lv[t].tail),
           UNCHANGED <<keyed, refc, meta_tail, next_addr, next_extent, num_extents, held, blocked, given, life, allocs, reloads, failed>>
    PROVE  \E log2, own2 : Inv(log2, start, own2)'
<1> USE DEF Inv
<1>0. mpc[t] \in AllocPCs BY DEF AllocPCs, AppendPCs
<1>1. Calm /\ lv[t].op \in {"alloc", "release"} BY <1>0, AppendsAreCalm
<1>2. lv[t].op = "alloc" => life = "open" /\ t \in Role("alloc") /\ lv[t] \in AllocRec BY <1>0, AppendsAreCalm
<1>3. lv[t].op = "release" =>
        keyed /\ life = "released" /\ t \in Role("release") /\ lv[t] \in ReleaseRec /\ lv[t].batch \in Batch
  BY <1>0, AppendsAreCalm
<1>4. PICK b \in Batch : b = lv[t].batch BY <1>1, <1>2, <1>3 DEF AllocRec
<1>5. lv[t].tail = meta_tail /\ claim[meta_tail] = t /\ meta_tail \in DOMAIN claim BY DEF ClaimInv
<1>6. lv[t].op = "alloc" => Flying(t) BY <1>0 DEF Flying, AppendPCs
<1>7. PICK x : x = Entry(t) OBVIOUS
<1>8. /\ x.batch = b /\ x.key = lv[t].key /\ x \in EntryRec
      /\ lv[t].op = "alloc" => x.extent = ExtentOf(lv[t].addr) /\ x.extent \in Ext
      /\ lv[t].op # "alloc" => x.extent = TERMINAL_EXTENT_ADDR
  <2>1. CASE lv[t].op = "alloc"
    <3>1. ExtentOf(lv[t].addr) \in Ext BY <2>1, <1>6 DEF OwnInv
    <3>2. lv[t].key \in Nat BY <2>1, <1>2 DEF AllocRec
    <3> QED BY <3>1, <3>2, <2>1, <1>7, <1>4 DEF Entry, EntryRec
  <2>2. CASE lv[t].op = "release"
    <3>2. lv[t].key \in Nat BY <2>2, <1>3 DEF ReleaseRec
    <3> QED BY <3>2, <2>2, <1>7, <1>4 DEF Entry, EntryRec
  <2> QED BY <2>1, <2>2, <1>1
<1>9. PICK to : to = AfterAppend(t) OBVIOUS
<1>10. PICK loc : loc = NextBatch(t) OBVIOUS
<1>11. /\ lv[t].op = "alloc" => to = "finish" /\ loc = lv[t]
       /\ lv[t].op = "release" => to = "release" /\ loc.op = "release" /\ loc.batch = b + 1 /\ loc \in ReleaseRec
  <2>1. CASE lv[t].op = "alloc" BY <2>1, <1>9, <1>10 DEF AfterAppend, NextBatch
  <2>2. CASE lv[t].op = "release"
    <3>1. b + 1 \in 0 .. NumBatches BY MiniSizeAssumption DEF Batch
    <3>2. loc = [lv[t] EXCEPT !.batch = b + 1] BY <2>2, <1>10, <1>4 DEF NextBatch
    <3> QED BY <3>1, <3>2, <2>2, <1>3, <1>9 DEF AfterAppend, ReleaseRec
  <2> QED BY <2>1, <2>2, <1>1
<1>12. LocalsAt(to, loc)
  BY <1>1, <1>2, <1>11 DEF LocalsAt, AllocPCs, ReleasePCs
<1>13. /\ mpc' \in [MiniThread -> PCs] /\ DOMAIN lv' = MiniThread
       /\ \A u \in MiniThread : LocalsAt(mpc'[u], lv'[u])
       /\ mpc'[t] = to /\ lv'[t] = loc
       /\ \A u \in MiniThread \ {t} : mpc'[u] = mpc[u] /\ lv'[u] = lv[u]
  BY <1>9, <1>10, <1>12, Moved
<1>14. DOMAIN meta' = DOMAIN meta /\ meta' \in [DOMAIN meta -> PageRec]
  <2>1. meta_tail \in DOMAIN meta /\ meta[meta_tail] \in PageRec BY DEF ListInv, TypeOK
  <2>2. PICK es \in Seq(EntryRec) : es = meta[meta_tail].entries BY <2>1 DEF PageRec
  <2>3. Append(es, x) \in Seq(EntryRec) BY <2>2, <1>8
  <2>4. PICK es2 \in Seq(EntryRec) : es2 = Append(es, x) BY <2>3
  <2>5. meta' = [meta EXCEPT ![meta_tail].entries = es2] BY <2>2, <2>4, <1>5, <1>7 DEF AppendEntry
  <2>6. [meta[meta_tail] EXCEPT !.entries = es2] \in PageRec BY <2>1 DEF PageRec
  <2>7. meta \in [DOMAIN meta -> PageRec] BY DEF TypeOK
  <2> QED BY <2>1, <2>5, <2>6, <2>7
<1>15. DOMAIN claim' = DOMAIN claim \ {meta_tail} /\ claim' \in [DOMAIN claim' -> MiniThread] /\ \A c \in DOMAIN claim' : claim'[c] = claim[c]
  BY <1>5 DEF Release, TypeOK
<1>16. TypeOK' BY <1>13, <1>14, <1>15 DEF TypeOK
<1>17. \A u \in MiniThread : lv'[u].op = lv[u].op BY <1>1, <1>11, <1>13
<1>18. \A op : Role(op)' = Role(op) BY <1>17 DEF Role
<1>19. RoleInv'
  <2>2. \A u \in Role("release") : mpc'[u] # "release" => keyed /\ lv'[u].batch \in Batch
    BY <1>3, <1>11, <1>13 DEF RoleInv, Role
  <2>3. \A u \in MiniThread : mpc'[u] \in WaitPCs => mpc[u] \in WaitPCs /\ lv'[u] = lv[u] BY <1>1, <1>11, <1>13 DEF WaitPCs
  <2>4. \A u \in Role("inc") \cup Role("prefetch") : lv'[u].range = lv[u].range /\ lv'[u].mine = lv[u].mine BY <1>1, <1>13 DEF Role
  <2> QED BY <1>17, <2>2, <2>3, <2>4, RoleFrame
<1>20. Calm'
  <2>1. life = "open" \/ (keyed /\ t \in Role("release")) BY <1>1, <1>2, <1>3
  <2> QED BY <2>1, <1>18 DEF Calm
<1>21. log \in Seq(EntryRec) /\ Len(log) \in Nat /\ DOMAIN log = 1 .. Len(log) BY LogEntries DEF ListInv
<1> DEFINE log2 == Append(log, x)  n == Len(log) + 1
<1>22. /\ n \in Nat /\ log2 \in Seq(EntryRec)
       /\ DOMAIN log2 = DOMAIN log \cup {n} /\ n \notin DOMAIN log /\ DOMAIN log \subseteq Nat
       /\ log2[n] = x /\ \A i \in DOMAIN log : log2[i] = log[i] /\ i < n
  BY <1>8, <1>21, AppendedLog
<1>23. ListInv(log2, start)' BY <1>5, <1>7, <1>8, <1>16, <1>19, <1>20, ListAppend
<1>24. ClaimInv'
  <2>1. Role("dec")' = {} BY <1>16, <1>19, <1>20, CalmNext DEF Walkers
  <2>2. \A u \in MiniThread : mpc'[u] \notin {"append", "append_new"}
    <3> SUFFICES ASSUME NEW u \in MiniThread, mpc'[u] \in {"append", "append_new"} PROVE FALSE OBVIOUS
    <3>1. u # t BY <1>1, <1>11, <1>13
    <3>2. claim[meta_tail] = u BY <3>1, <1>13 DEF ClaimInv
    <3> QED BY <3>1, <3>2, <1>5
  <2> QED BY <2>1, <2>2, <1>14, <1>15 DEF ClaimInv
<1>25. ASSUME lv[t].op = "release", NEW c \in Batch
       PROVE  /\ Ended(c) <=> c < b
              /\ Ended(c)' <=> c < b + 1
              /\ Pending(c)' <=> Pending(c)
  <2>1. Role("release") = {t} /\ life # "open" BY <1>3, <1>25 DEF RoleInv
  <2>2. Role("release")' = {t} /\ life' # "open" BY <2>1, <1>18
  <2>3. lv[t].batch = b /\ lv'[t].batch = b + 1 /\ mpc[t] # "release" /\ mpc'[t] = "release" BY <1>25, <1>4, <1>11, <1>13
  <2>4. b \in Nat /\ c \in Nat BY MiniSizeAssumption DEF Batch
  <2>5. Pending(c) <=> b < c BY <2>1, <2>3 DEF Pending
  <2>6. Pending(c)' <=> (b + 1 < c \/ b + 1 = c) BY <2>2, <2>3 DEF Pending
  <2> QED BY <2>1, <2>2, <2>3, <2>4, <2>5, <2>6 DEF Ended
<1>26. ASSUME lv[t].op = "alloc", NEW c \in Batch PROVE ~Ended(c) /\ ~Ended(c)' /\ Pending(c) /\ Pending(c)'
  BY <1>2, <1>26 DEF Ended, Pending
<1>27. BatchInv(log2)'
  <2>0. b \in Nat /\ \A c \in Batch : c \in Nat BY MiniSizeAssumption DEF Batch
  <2>1. ~Ended(x.batch)
    <3>1. ~Ended(b) BY <2>0, <1>1, <1>25, <1>26
    <3> QED BY <3>1, <1>8
  <2>2. \A c \in Batch : Ended(c) => Ended(c)' BY <2>0, <1>1, <1>25, <1>26
  <2>3. x.extent = TERMINAL_EXTENT_ADDR => keyed /\ Ended(x.batch)'
    <3>1. x.extent = TERMINAL_EXTENT_ADDR => lv[t].op = "release" BY <1>1, <1>8 DEF TERMINAL_EXTENT_ADDR, Ext
    <3>2. x.extent = TERMINAL_EXTENT_ADDR => Ended(b)' BY <2>0, <3>1, <1>25
    <3> QED BY <3>1, <3>2, <1>3, <1>8 DEF Ended
  <2>4. \A c \in Batch : Ended(c)' => Ended(c) \/ (c = x.batch /\ x.extent = TERMINAL_EXTENT_ADDR)
    BY <2>0, <1>1, <1>8, <1>25, <1>26
  <2> QED BY <2>1, <2>2, <2>3, <2>4, <1>8, <1>21, BatchAppend
<1>280. PICK own2 : own2 = IF lv[t].op = "alloc" THEN [own EXCEPT ![x.extent] = <<"data", n>>] ELSE own OBVIOUS
<1>28. /\ DOMAIN own2 = Ext /\ DOMAIN own = Ext
       /\ lv[t].op = "alloc" => own2[x.extent] = <<"data", n>> /\ own[x.extent] = <<"fly", t>>
       /\ \A e \in Ext : (lv[t].op = "alloc" /\ e = x.extent) \/ own2[e] = own[e]
  BY <1>6, <1>8, <1>280 DEF OwnInv
<1> HIDE DEF log2, n
<1>29. /\ \A u \in MiniThread \ {t} : (Flying(u)' <=> Flying(u)) /\ lv'[u] = lv[u]
       /\ ~Flying(t)' /\ (Flying(t) <=> lv[t].op = "alloc")
  BY <1>1, <1>6, <1>11, <1>13 DEF Flying, AppendPCs
<1>30. \A c \in Batch : Pending(c)' <=> Pending(c) BY <1>1, <1>25, <1>26
<1>31. OwnInv(log2, own2)'
  <2>1. ASSUME NEW i \in DOMAIN log2, Data(log2, i) PROVE own2[log2[i].extent] = <<"data", i>>
    <3>1. CASE i = n BY <3>1, <2>1, <1>1, <1>8, <1>22, <1>28 DEF Data
    <3>2. CASE i \in DOMAIN log
      <4>1. Data(log, i) /\ log2[i] = log[i] BY <3>2, <2>1, <1>22 DEF Data
      <4>2. own[log[i].extent] = <<"data", i>> /\ log[i].extent \in Ext BY <4>1, <3>2, <1>21, LogEntries DEF OwnInv
      <4> QED BY <4>1, <4>2, <1>28
    <3> QED BY <3>1, <3>2, <1>22
  <2>2. ASSUME NEW c \in DOMAIN meta PROVE ExtentOf(c) \in Ext /\ own2[ExtentOf(c)] = Meta
    <3>1. ExtentOf(c) \in Ext /\ own[ExtentOf(c)] = Meta BY DEF OwnInv
    <3> QED BY <3>1, <1>28 DEF Meta
  <2>3. ASSUME NEW c \in Batch, Pending(c)' PROVE own2[next_extent'[c]] = <<"adv", c>>
    <3>1. own[next_extent[c]] = <<"adv", c>> /\ next_extent[c] \in Ext BY <2>3, <1>30 DEF OwnInv, TypeOK
    <3> QED BY <3>1, <1>28
  <2>4. ASSUME NEW u \in MiniThread, Flying(u)'
        PROVE  /\ ExtentOf(lv'[u].addr) \in Ext /\ own2[ExtentOf(lv'[u].addr)] = <<"fly", u>>
               /\ lv'[u].addr = ExtentOf(lv'[u].addr) * PagesPerExtent
    <3>1. u # t /\ Flying(u) /\ lv'[u] = lv[u] BY <2>4, <1>29
    <3>2. /\ ExtentOf(lv[u].addr) \in Ext /\ own[ExtentOf(lv[u].addr)] = <<"fly", u>>
          /\ lv[u].addr = ExtentOf(lv[u].addr) * PagesPerExtent
      BY <3>1 DEF OwnInv
    <3> QED BY <3>1, <3>2, <1>28
  <2>5. ASSUME NEW e \in Ext
        PROVE  \/ own2[e] = Free
               \/ \E i \in DOMAIN log2 : own2[e] = <<"data", i>> /\ log2[i].extent = e
               \/ own2[e] = Meta /\ \E c \in DOMAIN meta : ExtentOf(c) = e
               \/ \E c \in Batch : own2[e] = <<"adv", c>> /\ Pending(c)' /\ next_extent'[c] = e
               \/ \E u \in MiniThread : own2[e] = <<"fly", u>> /\ Flying(u)' /\ ExtentOf(lv'[u].addr) = e
    <3>1. CASE lv[t].op = "alloc" /\ e = x.extent BY <3>1, <1>22, <1>28
    <3>2. CASE own2[e] = own[e] /\ ~(lv[t].op = "alloc" /\ e = x.extent)
      <4>1. CASE own[e] = Free BY <4>1, <3>2
      <4>2. CASE \E i \in DOMAIN log : own[e] = <<"data", i>> /\ log[i].extent = e BY <4>2, <3>2, <1>22
      <4>3. CASE own[e] = Meta /\ \E c \in DOMAIN meta : ExtentOf(c) = e BY <4>3, <3>2
      <4>4. CASE \E c \in Batch : own[e] = <<"adv", c>> /\ Pending(c) /\ next_extent[c] = e BY <4>4, <3>2, <1>30
      <4>5. CASE \E u \in MiniThread : own[e] = <<"fly", u>> /\ Flying(u) /\ ExtentOf(lv[u].addr) = e
        BY <4>5, <3>2, <1>8, <1>29
      <4> QED BY <4>1, <4>2, <4>3, <4>4, <4>5 DEF OwnInv
    <3> QED BY <3>1, <3>2, <1>28
  <2>6. \A i \in DOMAIN log2 : Data(log2, i)' <=> Data(log2, i) BY DEF Data
  <2>7. DOMAIN meta' = DOMAIN meta /\ DOMAIN own2 = Ext BY <1>14, <1>28
  <2> HIDE DEF Inv
  <2> QED BY ONLY <2>1, <2>2, <2>3, <2>4, <2>5, <2>6, <2>7 DEF OwnInv
<1>32. ASSUME lv[t].op = "alloc" PROVE GivenIn(ExtentOf(lv[t].addr)) = {}
  <2> SUFFICES ASSUME NEW g \in given, ExtentOf(g.addr) = x.extent PROVE FALSE BY <1>8, <1>32 DEF GivenIn
  <2>1. PICK i \in DOMAIN log : Data(log, i) /\ log[i].extent = x.extent BY DEF AddrInv
  <2> QED BY <2>1, <1>28, <1>32 DEF OwnInv
<1>33. AddrInv(log2)'
  <2>1. \A u \in Role("alloc") : u \in MiniThread /\ lv'[u] = lv[u] BY <1>1, <1>11, <1>13 DEF Role
  <2>2. ASSUME NEW c \in Batch, NEW a, NextAddrOK(log, c, a), c # b PROVE NextAddrOK(log2, c, a)'
    <3>1. PICK i \in DOMAIN log : log[i].extent = ExtentOf(a) /\ Data(log, i) /\ log[i].batch = c /\ LastOf(log, i)
      BY <2>2 DEF NextAddrOK
    <3>2. i \in DOMAIN log2 /\ log2[i] = log[i] /\ LastOf(log2, i) BY <3>1, <2>2, <1>8, <1>22 DEF LastOf
    <3> QED BY <2>2, <3>1, <3>2 DEF NextAddrOK, GivenIn, Data, LastOf
  <2>3. CASE lv[t].op = "alloc"
    <3>1. \A u \in Role("alloc") : lv[u].batch = b => u = t BY <2>3, <1>2, <1>4 DEF AddrInv
    <3>2. \A u \in Role("alloc") : lv[u].batch \in Batch
      <4>1. \A u \in Role("alloc") : lv[u] \in AllocRec BY OpOfStep DEF Role
      <4> QED BY <4>1 DEF AllocRec
    <3>3. \A c \in Batch : next_addr'[c] # MINI_WAIT /\ next_addr'[c] % PagesPerExtent # 0 => NextAddrOK(log2, c, next_addr[c])'
      <4> SUFFICES ASSUME NEW c \in Batch, next_addr[c] # MINI_WAIT, next_addr[c] % PagesPerExtent # 0
                   PROVE NextAddrOK(log2, c, next_addr[c])' OBVIOUS
      <4>1. c # b BY <2>3, <1>2, <1>4 DEF AddrInv
      <4>2. NextAddrOK(log, c, next_addr[c]) BY <2>3, <1>2 DEF AddrInv
      <4>3. PICK a : a = next_addr[c] OBVIOUS
      <4>4. NextAddrOK(log2, c, a)' BY <4>1, <4>2, <4>3, <2>2
      <4> QED BY <4>3, <4>4 DEF NextAddrOK, GivenIn, Data, LastOf
    <3>4. \A u \in Role("alloc")' : mpc'[u] = "finish" => NextAddrOK(log2, lv[u].batch, lv[u].addr)'
      <4> SUFFICES ASSUME NEW u \in Role("alloc"), mpc'[u] = "finish" PROVE NextAddrOK(log2, lv[u].batch, lv[u].addr)'
        BY <1>18
      <4>0. PICK a : a = lv[u].addr OBVIOUS
      <4>1. CASE u = t
        <5>1. LastOf(log2, n) /\ Data(log2, n) BY <4>1, <2>3, <1>8, <1>22 DEF LastOf, Data, TERMINAL_EXTENT_ADDR, Ext
        <5>2. log2[n].extent = ExtentOf(a) /\ log2[n].batch = b /\ lv[u].batch = b BY <4>0, <4>1, <2>3, <1>4, <1>8, <1>22
        <5>3. GivenIn(ExtentOf(a)) = {} BY <4>0, <4>1, <2>3, <1>32
        <5>4. n \in DOMAIN log2 BY <1>22
        <5>5. lv'[u] = lv[u] BY <2>1
        <5> QED BY <4>0, <5>1, <5>2, <5>3, <5>4, <5>5 DEF NextAddrOK, GivenIn, Data, LastOf
      <4>2. CASE u # t
        <5>0. u \in MiniThread BY DEF Role
        <5>1. mpc[u] = "finish" BY <4>2, <5>0, <1>13
        <5>2. NextAddrOK(log, lv[u].batch, lv[u].addr) BY <5>1 DEF AddrInv
        <5>3. PICK c \in Batch : c = lv[u].batch /\ c # b BY <3>1, <3>2, <4>2
        <5>4. NextAddrOK(log2, c, a)' BY <4>0, <5>2, <5>3, <2>2
        <5>5. lv'[u] = lv[u] BY <2>1
        <5> QED BY <4>0, <5>3, <5>4, <5>5 DEF NextAddrOK, GivenIn, Data, LastOf
      <4> QED BY <4>1, <4>2
    <3>5. \A g \in given' : \E i \in DOMAIN log2 : Data(log2, i) /\ log2[i].extent = ExtentOf(g.addr) /\ log2[i].batch = g.batch
      BY <1>22 DEF AddrInv, Data
    <3> QED BY <3>3, <3>4, <3>5, <2>1, <1>18 DEF AddrInv, Data
  <2>4. CASE lv[t].op = "release"
    <3>1. Role("alloc")' = {} /\ life' # "open" BY <2>4, <1>3, <1>18 DEF RoleInv
    <3>5. \A g \in given' : \E i \in DOMAIN log2 : Data(log2, i) /\ log2[i].extent = ExtentOf(g.addr) /\ log2[i].batch = g.batch
      BY <1>22 DEF AddrInv, Data
    <3> QED BY <3>1, <3>5 DEF AddrInv, Data
  <2> QED BY <2>3, <2>4, <1>1
<1>34. KeyInv(log2)'
  <2>1. mpc[t] # "finish" /\ lv'[t].op = lv[t].op BY <1>13, <1>17
  <2>2. \/ lv[t].op # "alloc" /\ x.extent = TERMINAL_EXTENT_ADDR
        \/ /\ lv[t].op = "alloc" /\ mpc'[t] = "finish" /\ lv'[t] = lv[t] /\ life = "open"
           /\ x.extent = ExtentOf(lv[t].addr) /\ x.extent # TERMINAL_EXTENT_ADDR
           /\ GivenIn(ExtentOf(lv[t].addr)) = {}
    BY <1>1, <1>2, <1>8, <1>11, <1>13, <1>32 DEF TERMINAL_EXTENT_ADDR, Ext
  <2>3. x.batch = lv[t].batch /\ x.key = lv[t].key BY <1>4, <1>8
  <2>4. KeyInv(Append(log, x))' BY <2>1, <2>2, <2>3, <1>8, <1>13, <1>21, KeyAppend
  <2> QED BY <2>4 DEF log2
<1>35. CalmRefs(own2)'
  <2>1. \A e \in Ext : refc[e] = CalmCount(own, e) BY <1>1, CalmRefsBefore DEF CalmRefs
  <2>2. own[1] = Meta BY HeadExtent DEF OwnInv, ListInv
  <2>3. \A e \in Ext : own2[e] = Free <=> own[e] = Free BY <1>28 DEF Free
  <2>4. \A e \in Ext : CalmCount(own2, e)' = CalmCount(own, e) BY <2>3 DEF CalmCount
  <2> QED BY <2>1, <2>4 DEF CalmRefs
<1>36. Inv(log2, start, own2)'
  BY <1>1, <1>16, <1>19, <1>20, <1>23, <1>24, <1>27, <1>31, <1>33, <1>34, <1>35, CalmInv
<1> QED BY <1>36

(* mini_append_entry keeps the invariant when the entry fits in the tail.  *)
LEMMA AppendFitsInv ==
    ASSUME NEW log, NEW start, NEW own, Inv(log, start, own), NEW t \in MiniThread, AppendFits(t)
    PROVE  \E log2, own2 : Inv(log2, start, own2)'
BY AppendStep DEF AppendFits, Inv

(* mini_append_entry keeps it in the new tail.                             *)
LEMMA AppendInNewInv ==
    ASSUME NEW log, NEW start, NEW own, Inv(log, start, own), NEW t \in MiniThread, AppendInNew(t)
    PROVE  \E log2, own2 : Inv(log2, start, own2)'
<1>1. mpc[t] = "append_new" BY DEF AppendInNew, Move
<1> QED BY <1>1, AppendStep DEF AppendInNew

(* The tail begins behind all other pages.                                 *)
LEMMA TailIsLast ==
    ASSUME NEW log, NEW start, ListInv(log, start), TypeOK, NEW c \in DOMAIN meta, c # meta_tail
    PROVE  /\ start[c] < start[meta_tail] /\ start[c] + Len(meta[c].entries) <= start[meta_tail]
           /\ start[c] + Len(meta[c].entries) <= Len(log) /\ Len(meta[c].entries) > 0
           /\ ExtentOf(c) = ExtentOf(meta_tail) => c < meta_tail
<1>1. log \in Seq(EntryRec) /\ start \in [DOMAIN meta -> Nat] /\ meta_tail \in DOMAIN meta BY DEF ListInv
<1>2. \A d \in DOMAIN meta : meta[d].entries \in Seq(EntryRec) BY DEF TypeOK, PageRec
<1>3. PICK s \in Nat : s = start[c] BY <1>1
<1>4. PICK r \in Nat : r = start[meta_tail] BY <1>1
<1>5. PICK l \in Nat : l = Len(meta[c].entries) BY <1>2
<1>6. PICK k \in Nat : k = Len(meta[meta_tail].entries) BY <1>1, <1>2
<1>7. PICK n \in Nat : n = Len(log) BY <1>1
<1>8. PageInv(log, start, c) /\ PageInv(log, start, meta_tail) BY <1>1 DEF ListInv
<1>9. s + l <= n /\ l > 0 /\ r + k = n BY <1>3, <1>4, <1>5, <1>6, <1>7, <1>8 DEF PageInv
<1>10. PageOrder(start, c, meta_tail) /\ PageOrder(start, meta_tail, c) /\ s # r BY <1>1, <1>3, <1>4 DEF ListInv
<1>11. ~(r < s)
  <2>1. r < s => r + k <= s BY <1>10, <1>3, <1>4, <1>6 DEF PageOrder
  <2> QED BY <2>1, <1>9
<1>12. s < r BY <1>10, <1>11
<1>13. s + l <= r /\ (ExtentOf(c) = ExtentOf(meta_tail) => c < meta_tail) BY <1>12, <1>10, <1>3, <1>4, <1>5 DEF PageOrder
<1> QED BY <1>3, <1>4, <1>5, <1>7, <1>9, <1>12, <1>13

(* A new page becomes the tail.                                            *)
LEMMA ListGrow ==
    ASSUME NEW log, NEW start, ListInv(log, start), TypeOK, NEW new \in Nat, new \notin DOMAIN meta,
           Len(meta[meta_tail].entries) > 0,
           meta' = Put([meta EXCEPT ![meta_tail].next = new], new, NewPage), meta_tail' = new,
           new = meta_tail + 1 \/ (meta_tail + 1) % PagesPerExtent = 0,
           \A c \in DOMAIN meta : ExtentOf(c) = ExtentOf(new) => c < new,
           TypeOK', RoleInv', Calm',
           NEW start2, start2 = [c \in DOMAIN meta \cup {new} |-> IF c = new THEN Len(log) ELSE start[c]]
    PROVE  ListInv(log, start2)'
<1>1. PICK a \in Nat : a = meta_tail /\ a \in DOMAIN meta BY DEF ListInv, TypeOK
<1>2. log \in Seq(EntryRec) /\ start \in [DOMAIN meta -> Nat] BY DEF ListInv
<1>4. PICK n \in Nat : n = Len(log) BY <1>2
<1>3. start2 = [c \in DOMAIN meta \cup {new} |-> IF c = new THEN n ELSE start[c]] BY <1>4
<1>5. \A c \in DOMAIN meta : meta[c] \in PageRec /\ meta[c].entries \in Seq(EntryRec) /\ Len(meta[c].entries) \in Nat /\ start[c] \in Nat
  BY <1>2 DEF TypeOK, PageRec
<1>6. /\ DOMAIN meta' = DOMAIN meta \cup {new}
      /\ \A c \in DOMAIN meta : c # a => meta'[c] = meta[c]
      /\ meta'[a].next = new /\ meta'[a].entries = meta[a].entries
      /\ meta'[new] = NewPage
  <2>1. PICK f : f = [meta EXCEPT ![meta_tail].next = new] OBVIOUS
  <2>2. DOMAIN f = DOMAIN meta /\ f[a].next = new /\ f[a].entries = meta[a].entries /\ \A c \in DOMAIN meta : c # a => f[c] = meta[c]
    BY <2>1, <1>1, <1>5 DEF PageRec
  <2> QED BY <2>1, <2>2, <1>1 DEF Put
<1>7. start2[new] = n /\ \A c \in DOMAIN meta : start2[c] = start[c] BY <1>3
<1>8. meta'[new].next = NoPage /\ meta'[new].entries = <<>> /\ Len(meta'[new].entries) = 0
  BY <1>6 DEF NewPage
<1>70. PICK s \in Nat : s = start[a] BY <1>1, <1>5
<1>71. PICK l \in Nat : l = Len(meta[a].entries) /\ s + l = n /\ l > 0
  BY <1>1, <1>4, <1>5, <1>70 DEF ListInv, PageInv
<1>9. ASSUME NEW c \in DOMAIN meta' PROVE PageInv(log, start2, c)'
  <2>1. CASE c = new
    <3>1. start2[new] + Len(meta'[new].entries) = Len(log) /\ Len(log) <= Len(log) BY <1>4, <1>7, <1>8
    <3>2. \A k : k \notin 1 .. Len(meta'[new].entries) BY <1>8
    <3>3. PageInv(log, start2, new)' BY <3>1, <3>2, <1>8 DEF PageInv
    <3> QED BY <2>1, <3>3
  <2>2. CASE c = a
    <3>1. PageInv(log, start, a) BY <1>1 DEF ListInv
    <3>2. start2[a] = s /\ s + l <= n /\ Len(meta'[a].entries) = l /\ start2[new] = s + l BY <1>1, <1>6, <1>7, <1>70, <1>71
    <3>3. \A k \in 1 .. l : meta'[a].entries[k] = log[start2[a] + k]
      <4>1. \A k \in 1 .. l : meta[a].entries[k] = log[start[a] + k] BY <3>1, <1>71 DEF PageInv
      <4>2. start2[a] = start[a] /\ meta'[a].entries = meta[a].entries BY <1>1, <1>6, <1>7
      <4> QED BY <4>1, <4>2
    <3>4. new = a + 1 \/ (a + 1) % PagesPerExtent = 0 BY <1>1
    <3>5. a # new BY <1>1
    <3>6. PageInv(log, start2, a)' BY <3>2, <3>3, <3>4, <3>5, <1>4, <1>6, <1>71 DEF PageInv
    <3> QED BY <2>2, <3>6
  <2>3. CASE c \in DOMAIN meta /\ c # a
    <3>1. PageInv(log, start, c) BY <2>3 DEF ListInv
    <3>2. meta'[c] = meta[c] /\ c # new BY <2>3, <1>6
    <3>3. meta[c].next \in DOMAIN meta BY <3>1, <2>3, <1>1 DEF PageInv
    <3>4. start2[c] = start[c] /\ start2[meta[c].next] = start[meta[c].next] /\ meta[c].next \in DOMAIN meta' BY <2>3, <3>3, <1>6, <1>7
    <3> QED BY <3>1, <3>2, <3>4, <2>3, <1>1 DEF PageInv
  <2> QED BY <2>1, <2>2, <2>3, <1>6
<1>10. ASSUME NEW c \in DOMAIN meta PROVE start[c] < n /\ start[c] + Len(meta[c].entries) <= n
  <2>1. CASE c = a BY <2>1, <1>70, <1>71
  <2>2. CASE c # a BY <2>2, <1>1, <1>4, <1>5, TailIsLast
  <2> QED BY <2>1, <2>2
<1>11. ASSUME NEW c \in DOMAIN meta', NEW d \in DOMAIN meta' PROVE PageOrder(start2, c, d)' /\ (start2[c] = start2[d] => c = d)
  <2>1. CASE c \in DOMAIN meta /\ d \in DOMAIN meta
    <3>1. PageOrder(start, c, d) /\ (start[c] = start[d] => c = d) BY <2>1 DEF ListInv
    <3>2. meta'[c].entries = meta[c].entries BY <2>1, <1>6
    <3> QED BY <3>1, <3>2, <2>1, <1>7 DEF PageOrder
  <2>2. CASE c = new /\ d \in DOMAIN meta
    <3>1. start2[c] = n /\ start2[d] < n /\ start2[d] \in Nat BY <2>2, <1>5, <1>7, <1>10
    <3> QED BY <3>1 DEF PageOrder
  <2>3. CASE c \in DOMAIN meta /\ d = new
    <3>1. start2[d] = n /\ start2[c] < n /\ start2[c] \in Nat BY <2>3, <1>5, <1>7, <1>10
    <3>2. meta'[c].entries = meta[c].entries /\ start2[c] + Len(meta[c].entries) <= n BY <2>3, <1>6, <1>7, <1>10
    <3> QED BY <3>1, <3>2, <2>3 DEF PageOrder
  <2>4. CASE c = new /\ d = new BY <2>4, <1>7 DEF PageOrder
  <2> QED BY <2>1, <2>2, <2>3, <2>4, <1>6
<1>12. \A p \in 1 .. Len(log) : \E c \in DOMAIN meta' : start2[c] < p /\ p <= start2[c] + Len(meta'[c].entries)
  <2> SUFFICES ASSUME NEW p \in 1 .. Len(log) PROVE \E c \in DOMAIN meta' : start2[c] < p /\ p <= start2[c] + Len(meta'[c].entries)
    OBVIOUS
  <2>1. PICK c \in DOMAIN meta : start[c] < p /\ p <= start[c] + Len(meta[c].entries) BY DEF ListInv
  <2>2. meta'[c].entries = meta[c].entries BY <1>6
  <2> QED BY <2>1, <2>2, <1>6, <1>7
<1>13. Walkers' = {} /\ Role("deinit")' = {} BY CalmNext
<1>14. meta_head \in DOMAIN meta' /\ start2[meta_head] = 0 /\ start2 \in [DOMAIN meta' -> Nat]
  BY <1>3, <1>5, <1>6, <1>7 DEF ListInv
<1>15. new \in DOMAIN meta' BY <1>6
<1> QED BY <1>2, <1>9, <1>11, <1>12, <1>13, <1>14, <1>15 DEF ListInv

(* mini_append_entry keeps the invariant when it begins a new page, in a   *)
(* new extent if the old one is full.                                      *)
LEMMA AppendPageInv ==
    ASSUME NEW log, NEW start, NEW own, Inv(log, start, own), NEW t \in MiniThread, AppendPage(t)
    PROVE  \E start2, own2 : Inv(log, start2, own2)'
<1> USE DEF Inv
<1>0. mpc[t] = "append" /\ mpc[t] \in AllocPCs BY DEF AppendPage, AllocPCs, AppendPCs
<1>1. Calm /\ lv[t].op \in {"alloc", "release"} BY <1>0, AppendsAreCalm
<1>2. /\ lv[t].op = "alloc" => t \in Role("alloc") /\ lv[t] \in AllocRec
      /\ lv[t].op = "release" => t \in Role("release") /\ lv[t] \in ReleaseRec
  BY <1>0, AppendsAreCalm
<1>3. PICK a \in Nat : a = meta_tail /\ a \in DOMAIN meta BY DEF ListInv, TypeOK
<1>4. lv[t].tail = a /\ claim[a] = t /\ a \in DOMAIN claim BY <1>0, <1>3 DEF ClaimInv
<1>5. PICK e \in Ext : e = Min(FreeExts) /\ refc[e] = AL_FREE BY NewExtent DEF AppendPage
<1>6. own[e] = Free /\ own[1] = Meta /\ e # 1 /\ e \in Nat
  <2>1. own[e] = Free BY <1>1, <1>5, CalmRefsBefore
  <2>2. own[1] = Meta BY HeadExtent DEF OwnInv, ListInv
  <2> QED BY <2>1, <2>2, MiniSizeAssumption DEF Free, Meta, Ext
<1>7. PICK wraps \in BOOLEAN : wraps <=> (a + 1) % PagesPerExtent = 0 OBVIOUS
<1>8. PICK new \in Nat : new = IF wraps THEN e * PagesPerExtent ELSE a + 1 BY <1>6, ExtentBase
<1>9. wraps => ExtentOf(new) = e BY <1>6, <1>8, ExtentBase
<1>10. ~wraps => new = a + 1 /\ ExtentOf(new) = ExtentOf(a) BY <1>7, <1>8, ExtentNext
<1>11. ASSUME NEW c \in DOMAIN meta, ExtentOf(c) = ExtentOf(new) PROVE c < new
  <2>1. ~wraps
    <3> SUFFICES ASSUME wraps PROVE FALSE OBVIOUS
    <3>1. own[e] = Meta BY <1>9, <1>11 DEF OwnInv
    <3> QED BY <3>1, <1>6 DEF Free, Meta
  <2>2. CASE c = a BY <2>1, <2>2, <1>10
  <2>3. CASE c # a
    <3>1. c < a BY <2>1, <2>3, <1>3, <1>10, <1>11, TailIsLast
    <3> QED BY <3>1, <2>1, <1>10, <1>3 DEF TypeOK
  <2> QED BY <2>2, <2>3
<1>12. new \notin DOMAIN meta
  <2> SUFFICES ASSUME new \in DOMAIN meta PROVE FALSE OBVIOUS
  <2>1. new < new BY <1>11
  <2> QED BY <2>1
<1>13. PICK loc : loc = [lv[t] EXCEPT !.tail = new] OBVIOUS
<1>14. /\ Move(t, "append", "append_new", loc)
       /\ meta' = Put([meta EXCEPT ![meta_tail].next = new], new, NewPage)
       /\ meta_tail' = new
       /\ refc' = IF wraps THEN [refc EXCEPT ![e] = AL_ONE_REF] ELSE refc
       /\ claim' = Put(Release(a), new, t)
  BY <1>3, <1>4, <1>5, <1>7, <1>8, <1>13 DEF AppendPage
<1>15. /\ loc.op = lv[t].op /\ loc.batch = lv[t].batch /\ loc.key = lv[t].key /\ loc.tail = new
       /\ lv[t].op = "alloc" => loc \in AllocRec /\ loc.addr = lv[t].addr
       /\ lv[t].op = "release" => loc \in ReleaseRec
  BY <1>1, <1>2, <1>13 DEF AllocRec, ReleaseRec
<1>16. LocalsAt("append_new", loc) BY <1>1, <1>15 DEF LocalsAt, AllocPCs, ReleasePCs, AppendPCs
<1>17. /\ mpc' \in [MiniThread -> PCs] /\ DOMAIN lv' = MiniThread
       /\ \A u \in MiniThread : LocalsAt(mpc'[u], lv'[u])
       /\ mpc'[t] = "append_new" /\ lv'[t] = loc
       /\ \A u \in MiniThread \ {t} : mpc'[u] = mpc[u] /\ lv'[u] = lv[u]
  BY <1>14, <1>16, Moved
<1>18. DOMAIN meta' = DOMAIN meta \cup {new} /\ meta' \in [DOMAIN meta' -> PageRec]
  <2>1. NewPage \in PageRec BY DEF NewPage, PageRec, NoPage
  <2>2. meta \in [DOMAIN meta -> PageRec] BY DEF TypeOK
  <2>3. [meta[a] EXCEPT !.next = new] \in PageRec BY <2>2, <1>3 DEF PageRec
  <2>4. PICK p \in PageRec : p = [meta[a] EXCEPT !.next = new] BY <2>3
  <2>5. PICK f \in [DOMAIN meta -> PageRec] : f = [meta EXCEPT ![meta_tail].next = new]
    <3>1. [meta EXCEPT ![meta_tail].next = new] = [meta EXCEPT ![a] = p] BY <2>4, <1>3
    <3> QED BY <3>1, <2>2, <1>3
  <2>6. meta' = [x \in DOMAIN meta \cup {new} |-> IF x = new THEN NewPage ELSE f[x]] BY <2>5, <1>14 DEF Put
  <2> QED BY <2>1, <2>5, <2>6
<1>19. DOMAIN claim' = (DOMAIN claim \ {a}) \cup {new} /\ claim'[new] = t /\ claim' \in [DOMAIN claim' -> MiniThread]
  BY <1>14 DEF Put, Release, TypeOK
<1>20. TypeOK'
  <2>1. refc' \in [Ext -> Int] BY <1>14 DEF TypeOK, AL_ONE_REF
  <2>2. DOMAIN meta' \subseteq Nat BY <1>18 DEF TypeOK
  <2> QED BY <2>1, <2>2, <1>17, <1>18, <1>19 DEF TypeOK, AppendPage
<1>21. \A u \in MiniThread : lv'[u].op = lv[u].op BY <1>15, <1>17
<1>22. \A op : Role(op)' = Role(op) BY <1>21 DEF Role
<1>23. RoleInv'
  <2>1. Role("alloc") \cup Role("release") # {} BY <1>1, <1>2
  <2>2. \A u \in Role("release") : mpc'[u] # "release" => keyed /\ lv'[u].batch \in Batch
    BY <1>0, <1>15, <1>17 DEF RoleInv, Role
  <2>3. \A u \in MiniThread : mpc'[u] \in WaitPCs => mpc[u] \in WaitPCs /\ lv'[u] = lv[u] BY <1>17 DEF WaitPCs
  <2>4. \A u \in Role("inc") \cup Role("prefetch") : lv'[u].range = lv[u].range /\ lv'[u].mine = lv[u].mine BY <1>1, <1>17 DEF Role
  <2> QED BY <1>21, <2>1, <2>2, <2>3, <2>4, RoleFrame DEF AppendPage
<1>24. Calm'
  <2>1. life = "open" \/ (keyed /\ t \in Role("release")) BY <1>0, <1>1, AppendsAreCalm
  <2> QED BY <2>1, <1>22 DEF Calm, AppendPage
<1>25. Len(meta[meta_tail].entries) > 0
  <2>1. meta[meta_tail].entries \in Seq(EntryRec) BY <1>3 DEF TypeOK, PageRec
  <2>2. ~(Len(meta[meta_tail].entries) < EntriesPerPage) BY <1>3, <1>4 DEF AppendPage, Fits
  <2> QED BY <2>1, <2>2, MiniSizeAssumption
<1>26. PICK start2 : start2 = [c \in DOMAIN meta \cup {new} |-> IF c = new THEN Len(log) ELSE start[c]] OBVIOUS
<1>27. ListInv(log, start2)'
  <2>1. new = meta_tail + 1 \/ (meta_tail + 1) % PagesPerExtent = 0 BY <1>3, <1>7, <1>8
  <2> QED BY <2>1, <1>11, <1>12, <1>14, <1>20, <1>23, <1>24, <1>25, <1>26, ListGrow
<1>28. ClaimInv'
  <2>1. Role("dec")' = {} BY <1>20, <1>23, <1>24, CalmNext DEF Walkers
  <2>2. ASSUME NEW u \in MiniThread, mpc'[u] \in {"append", "append_new"}, u # t PROVE FALSE
    <3>1. claim[meta_tail] = u BY <2>2, <1>17 DEF ClaimInv
    <3> QED BY <3>1, <2>2, <1>3, <1>4
  <2>3. DOMAIN claim' \subseteq DOMAIN meta' BY <1>18, <1>19 DEF ClaimInv
  <2>4. lv'[t].tail = meta_tail' /\ meta_tail' \in DOMAIN claim' /\ claim'[meta_tail'] = t BY <1>14, <1>15, <1>17, <1>19
  <2> QED BY <2>1, <2>2, <2>3, <2>4 DEF ClaimInv
<1>29. \A u \in Role("release") : lv'[u].batch = lv[u].batch /\ (mpc'[u] = "release" <=> mpc[u] = "release")
  BY <1>0, <1>15, <1>17 DEF Role
<1>30. BatchInv(log)'
  <2>1. \A x \in Batch : Ended(x)' <=> Ended(x) BY <1>22, <1>29 DEF Ended, AppendPage
  <2> QED BY <2>1, BatchFrame DEF ListInv, AppendPage
<1>31. PICK own2 : own2 = IF wraps THEN [own EXCEPT ![e] = Meta] ELSE own OBVIOUS
<1>32. /\ DOMAIN own2 = Ext /\ DOMAIN own = Ext
       /\ wraps => own2[e] = Meta
       /\ \A x \in Ext : (wraps /\ x = e) \/ own2[x] = own[x]
  BY <1>31 DEF OwnInv
<1>33. OwnInv(log, own2)'
  <2>0. \A c \in Batch : Pending(c)' <=> Pending(c) BY <1>22, <1>29 DEF Pending, AppendPage
  <2>00. next_extent' = next_extent BY DEF AppendPage
  <2>1. ASSUME NEW i \in DOMAIN log, Data(log, i) PROVE own2[log[i].extent] = <<"data", i>>
    <3>1. own[log[i].extent] = <<"data", i>> /\ log[i].extent \in Ext
      BY <2>1, LogEntries DEF OwnInv, ListInv
    <3>2. log[i].extent # e BY <3>1, <1>6 DEF Free
    <3> QED BY <3>1, <3>2, <1>32
  <2>2. ASSUME NEW c \in DOMAIN meta' PROVE ExtentOf(c) \in Ext /\ own2[ExtentOf(c)] = Meta
    <3>1. CASE c \in DOMAIN meta
      <4>1. ExtentOf(c) \in Ext /\ own[ExtentOf(c)] = Meta BY <3>1 DEF OwnInv
      <4> QED BY <4>1, <1>32
    <3>2. CASE c = new /\ wraps BY <3>2, <1>9, <1>32
    <3>3. CASE c = new /\ ~wraps
      <4>1. ExtentOf(a) \in Ext /\ own[ExtentOf(a)] = Meta BY <1>3 DEF OwnInv
      <4> QED BY <4>1, <3>3, <1>10, <1>32
    <3> QED BY <3>1, <3>2, <3>3, <1>18
  <2>3. ASSUME NEW c \in Batch, Pending(c) PROVE own2[next_extent[c]] = <<"adv", c>>
    <3>1. own[next_extent[c]] = <<"adv", c>> /\ next_extent[c] \in Ext BY <2>3 DEF OwnInv, TypeOK
    <3>2. next_extent[c] # e BY <3>1, <1>6 DEF Free
    <3> QED BY <3>1, <3>2, <1>32
  <2>4. \A u \in MiniThread : (Flying(u)' <=> Flying(u)) /\ (Flying(u) => lv'[u].addr = lv[u].addr)
    BY <1>0, <1>15, <1>17 DEF Flying, AppendPCs
  <2>5. ASSUME NEW u \in MiniThread, Flying(u)
        PROVE  /\ ExtentOf(lv[u].addr) \in Ext /\ own2[ExtentOf(lv[u].addr)] = <<"fly", u>>
               /\ lv[u].addr = ExtentOf(lv[u].addr) * PagesPerExtent
    <3>1. /\ ExtentOf(lv[u].addr) \in Ext /\ own[ExtentOf(lv[u].addr)] = <<"fly", u>>
          /\ lv[u].addr = ExtentOf(lv[u].addr) * PagesPerExtent
      BY <2>5 DEF OwnInv
    <3>2. ExtentOf(lv[u].addr) # e BY <3>1, <1>6 DEF Free
    <3> QED BY <3>1, <3>2, <1>32
  <2>6. ASSUME NEW x \in Ext
        PROVE  \/ own2[x] = Free
               \/ \E i \in DOMAIN log : own2[x] = <<"data", i>> /\ log[i].extent = x
               \/ own2[x] = Meta /\ \E c \in DOMAIN meta' : ExtentOf(c) = x
               \/ \E c \in Batch : own2[x] = <<"adv", c>> /\ Pending(c) /\ next_extent[c] = x
               \/ \E u \in MiniThread : own2[x] = <<"fly", u>> /\ Flying(u) /\ ExtentOf(lv[u].addr) = x
    <3>1. CASE wraps /\ x = e BY <3>1, <1>9, <1>18, <1>32
    <3>2. CASE own2[x] = own[x] BY <3>2, <1>18 DEF OwnInv
    <3> QED BY <3>1, <3>2, <1>32
  <2>7. \A i : Data(log, i)' <=> Data(log, i) BY DEF Data
  <2> HIDE DEF Inv
  <2> QED BY <2>0, <2>00, <2>1, <2>2, <2>3, <2>4, <2>5, <2>6, <2>7, <1>32 DEF OwnInv
<1>34. SameAllocs
  <2>1. \A u \in MiniThread \ {t} : lv'[u] = lv[u] /\ mpc'[u] = mpc[u] BY <1>17
  <2>2. lv'[t].op = lv[t].op /\ lv'[t].key = lv[t].key /\ lv'[t].batch = lv[t].batch /\ mpc[t] # "finish" /\ mpc'[t] # "finish"
    BY <1>0, <1>15, <1>17
  <2> QED BY <2>1, <2>2 DEF SameAllocs
<1>35. AddrInv(log)' BY <1>34, AddrFrame DEF AppendPage
<1>36. KeyInv(log)' BY <1>34, KeyFrame DEF AppendPage
<1>37. CalmRefs(own2)'
  <2>1. \A x \in Ext : refc[x] = CalmCount(own, x) BY <1>1, CalmRefsBefore DEF CalmRefs
  <2>2. ASSUME NEW x \in Ext PROVE refc'[x] = CalmCount(own2, x)'
    <3>1. CASE wraps /\ x = e BY <3>1, <1>6, <1>14, <1>32 DEF CalmCount, TypeOK, Free, Meta
    <3>2. CASE own2[x] = own[x] /\ ~(wraps /\ x = e)
      <4>1. refc'[x] = refc[x] BY <3>2, <1>14 DEF TypeOK
      <4>2. CalmCount(own2, x)' = CalmCount(own, x) BY <3>2 DEF CalmCount, AppendPage
      <4> QED BY <4>1, <4>2, <2>1
    <3> QED BY <3>1, <3>2, <1>32
  <2> QED BY <2>2 DEF CalmRefs
<1>38. Inv(log, start2, own2)'
  BY <1>1, <1>20, <1>23, <1>24, <1>27, <1>28, <1>30, <1>33, <1>35, <1>36, <1>37, CalmInv DEF AppendPage
<1> QED BY <1>38

(* An extent is entered once.                                              *)
LEMMA OneEntry ==
    ASSUME NEW log, NEW own, OwnInv(log, own), NEW i \in DOMAIN log, NEW k \in DOMAIN log, Data(log, i), log[i].extent = log[k].extent
    PROVE  i = k
<1>1. Data(log, k) BY DEF Data
<1>2. own[log[i].extent] = <<"data", i>> /\ own[log[k].extent] = <<"data", k>> BY <1>1 DEF OwnInv
<1> QED BY <1>2

(* The page is handed out, and the next one is the next address.           *)
LEMMA AddrFinish ==
    ASSUME NEW log, NEW own, TypeOK, AddrInv(log), OwnInv(log, own), NEW t \in MiniThread, lv[t].op = "alloc", mpc[t] = "finish", life = "open",
           NEW a \in Nat, a = lv[t].addr, NEW b \in Batch, b = lv[t].batch, NEW g0, g0.addr = a, g0.batch = b,
           next_addr' = [next_addr EXCEPT ![b] = a + 1], given' = given \cup {g0},
           lv'[t].op = "none", \A u \in MiniThread \ {t} : lv'[u] = lv[u] /\ mpc'[u] = mpc[u]
    PROVE  AddrInv(log)'
<1>1. t \in Role("alloc") /\ Role("alloc")' = Role("alloc") \ {t} BY DEF Role
<1>2. \A u \in Role("alloc")' : u \in Role("alloc") /\ u # t /\ lv'[u] = lv[u] /\ mpc'[u] = mpc[u] /\ lv[u].batch # b
  BY <1>1 DEF AddrInv, Role
<1>3. PICK i \in DOMAIN log : log[i].extent = ExtentOf(a) /\ Data(log, i) /\ log[i].batch = b /\ LastOf(log, i)
  BY <1>1 DEF AddrInv, NextAddrOK
<1>4. \A g \in GivenIn(ExtentOf(a)) : g.addr < a BY <1>1 DEF AddrInv, NextAddrOK
<1>5. ASSUME NEW c \in Batch, NEW y, NextAddrOK(log, c, y), c # b PROVE NextAddrOK(log, c, y)'
  <2>1. PICK k \in DOMAIN log : log[k].extent = ExtentOf(y) /\ Data(log, k) /\ log[k].batch = c /\ LastOf(log, k)
    BY <1>5 DEF NextAddrOK
  <2>2. ExtentOf(a) # ExtentOf(y) BY <2>1, <1>3, <1>5, OneEntry
  <2>3. GivenIn(ExtentOf(y))' = GivenIn(ExtentOf(y)) BY <2>2 DEF GivenIn
  <2> QED BY <2>1, <2>3, <1>5 DEF NextAddrOK, Data, LastOf
<1>6. \A u \in Role("alloc")' : lv[u].batch \in Batch
  <2>1. \A u \in Role("alloc") : lv[u] \in AllocRec BY OpOfStep DEF Role
  <2> QED BY <2>1, <1>1 DEF AllocRec
<1>7. ASSUME NEW c \in Batch, next_addr'[c] # MINI_WAIT, next_addr'[c] % PagesPerExtent # 0 PROVE NextAddrOK(log, c, next_addr[c])'
  <2>1. CASE c = b
    <3>1. next_addr'[c] = a + 1 BY <2>1 DEF TypeOK
    <3>2. ExtentOf(a + 1) = ExtentOf(a) BY <3>1, <1>7, ExtentNext
    <3>3. ASSUME NEW g \in given', ExtentOf(g.addr) = ExtentOf(a) PROVE g.addr < a + 1
      <4>1. CASE g = g0 BY <4>1
      <4>2. CASE g \in given
        <5>1. g.addr < a /\ g.addr \in Nat BY <4>2, <3>3, <1>4 DEF GivenIn, TypeOK, GivenRec
        <5> QED BY <5>1
      <4> QED BY <4>1, <4>2
    <3> QED BY <3>1, <3>2, <3>3, <1>3, <2>1 DEF NextAddrOK, GivenIn, Data, LastOf
  <2>2. CASE c # b
    <3>1. next_addr'[c] = next_addr[c] BY <2>2 DEF TypeOK
    <3>2. NextAddrOK(log, c, next_addr[c]) BY <3>1, <1>7 DEF AddrInv
    <3>3. PICK y : y = next_addr[c] OBVIOUS
    <3>4. NextAddrOK(log, c, y)' BY <3>2, <3>3, <2>2, <1>5
    <3> QED BY <3>1, <3>3, <3>4 DEF NextAddrOK, GivenIn, Data, LastOf
  <2> QED BY <2>1, <2>2
<1>8. ASSUME NEW u \in Role("alloc")', mpc'[u] = "finish" PROVE NextAddrOK(log, lv[u].batch, lv[u].addr)'
  <2>1. NextAddrOK(log, lv[u].batch, lv[u].addr) BY <1>2, <1>8 DEF AddrInv
  <2>2. PICK y : y = lv[u].addr OBVIOUS
  <2>3. PICK c \in Batch : c = lv[u].batch /\ c # b BY <1>2, <1>6
  <2>4. NextAddrOK(log, c, y)' BY <2>1, <2>2, <2>3, <1>5
  <2>5. lv'[u] = lv[u] BY <1>2
  <2> QED BY <2>2, <2>3, <2>4, <2>5 DEF NextAddrOK, GivenIn, Data, LastOf
<1>9. \A u \in Role("alloc")' : next_addr'[lv'[u].batch] = MINI_WAIT BY <1>2, <1>6 DEF AddrInv, TypeOK
<1>10. \A g \in given' : \E k \in DOMAIN log : Data(log, k) /\ log[k].extent = ExtentOf(g.addr) /\ log[k].batch = g.batch
  BY <1>3 DEF AddrInv
<1>11. \A u, v \in Role("alloc")' : lv'[u].batch = lv'[v].batch => u = v BY <1>2 DEF AddrInv
<1> QED BY <1>7, <1>8, <1>9, <1>10, <1>11 DEF AddrInv, Data

(* The page handed out has the key of its entry or a higher one of the     *)
(* same extent.                                                            *)
LEMMA KeyFinish ==
    ASSUME NEW log \in Seq(EntryRec), NEW own, TypeOK, RoleInv, AddrInv(log), KeyInv(log), OwnInv(log, own), BatchInv(log),
           NEW t \in MiniThread, lv[t].op = "alloc", mpc[t] = "finish", life = "open", life' = "open", keyed' = keyed,
           NEW g0 \in GivenRec, g0.addr = lv[t].addr, g0.batch = lv[t].batch, g0.key = lv[t].key, g0 \notin given,
           given' = given \cup {g0},
           lv'[t].op = "none", \A u \in MiniThread \ {t} : lv'[u] = lv[u] /\ mpc'[u] = mpc[u]
    PROVE  KeyInv(log)'
<1> SUFFICES ASSUME keyed PROVE KeyInv(log)' BY DEF KeyInv
<1>1. Role("alloc") = {t}
  <2>1. t \in Role("alloc") BY DEF Role
  <2>2. \A u \in Role("alloc") : allocs[u] > 0 /\ u \in MiniThread BY DEF RoleInv, Role
  <2> QED BY <2>1, <2>2 DEF RoleInv
<1>2. Role("alloc")' = {} BY <1>1 DEF Role
<1>3. PICK c \in Nat : c = Cardinality(Leaves) BY LeavesCount
<1>4. PICK b \in Batch : b = g0.batch BY DEF GivenRec
<1>5. g0.key = c + 1 /\ (b = 0 => c + 1 <= LastKey) /\ (b > 0 => \A g \in given : g.batch # b)
  BY <1>1, <1>3, <1>4 DEF KeyInv
<1>6. PICK i0 \in DOMAIN log : log[i0].extent = ExtentOf(g0.addr) /\ Data(log, i0) /\ log[i0].batch = b /\ LastOf(log, i0)
  BY <1>1, <1>4 DEF AddrInv, NextAddrOK
<1>7. PICK d \in Nat : d = Cardinality(Leaves') /\ c <= d /\ (b = 0 => d = c + 1) /\ (b # 0 => d = c)
  <2>1. IsFiniteSet(Leaves) BY LeavesCount
  <2>2. CASE b = 0
    <3>1. Leaves' = Leaves \cup {g0} /\ g0 \notin Leaves BY <2>2, <1>4 DEF Leaves
    <3>2. Cardinality(Leaves') = c + 1 BY <3>1, <2>1, <1>3, FS_AddElement
    <3> QED BY <3>2, <2>2
  <2>3. CASE b # 0
    <3>1. Leaves' = Leaves BY <2>3, <1>4 DEF Leaves
    <3> QED BY <3>1, <1>3, <2>3
  <2> QED BY <2>2, <2>3
<1>8. \A g \in Leaves' : g.key <= d /\ g.key > 0
  <2> SUFFICES ASSUME NEW g \in Leaves' PROVE g.key <= d /\ g.key > 0 OBVIOUS
  <2>1. CASE g \in Leaves
    <3>1. g.key <= c /\ g.key > 0 /\ g.key \in Nat BY <2>1, <1>3 DEF KeyInv, Leaves, TypeOK, GivenRec
    <3> QED BY <3>1, <1>7
  <2>2. CASE g = g0 /\ b = 0 BY <2>2, <1>5, <1>7
  <2> QED BY <2>1, <2>2, <1>4 DEF Leaves
<1>9. d <= LastKey
  <2>1. c <= LastKey BY <1>3 DEF KeyInv
  <2> QED BY <2>1, <1>5, <1>7
<1>10. \A i \in DOMAIN log : Data(log, i) => \E g \in given' : ExtentOf(g.addr) = log[i].extent /\ g.batch = log[i].batch /\ g.key = log[i].key
  <2> SUFFICES ASSUME NEW i \in DOMAIN log, Data(log, i)
               PROVE \E g \in given' : ExtentOf(g.addr) = log[i].extent /\ g.batch = log[i].batch /\ g.key = log[i].key
    OBVIOUS
  <2>1. CASE \E g \in given : ExtentOf(g.addr) = log[i].extent /\ g.batch = log[i].batch /\ g.key = log[i].key BY <2>1
  <2>2. CASE \E u \in Role("alloc") : /\ mpc[u] = "finish" /\ ExtentOf(lv[u].addr) = log[i].extent
                                      /\ lv[u].batch = log[i].batch /\ lv[u].key = log[i].key
    BY <2>2, <1>1
  <2> QED BY <2>1, <2>2 DEF KeyInv
<1>11. ASSUME NEW i \in DOMAIN log, NEW g \in given', Data(log, i), log[i].extent = ExtentOf(g.addr)
       PROVE  /\ log[i].key <= g.key
              /\ \A k \in DOMAIN log : k > i /\ log[k].batch = g.batch /\ Data(log, k) => g.key < log[k].key
  <2>1. CASE g \in given BY <2>1, <1>11 DEF KeyInv
  <2>2. CASE g = g0
    <3>1. i = i0 BY <2>2, <1>6, <1>11, OneEntry
    <3>2. log[i].key <= c + 1
      <4>1. CASE \E h \in given : ExtentOf(h.addr) = log[i].extent /\ h.batch = log[i].batch /\ h.key = log[i].key
        <5>1. PICK h \in given : h.batch = b /\ h.key = log[i].key BY <4>1, <3>1, <1>6
        <5>2. b = 0 BY <5>1, <1>5, MiniSizeAssumption DEF Batch
        <5>3. h \in Leaves /\ h.key \in Nat BY <5>1, <5>2 DEF Leaves, TypeOK, GivenRec
        <5>4. h.key <= c BY <5>3, <1>3 DEF KeyInv
        <5> QED BY <5>1, <5>3, <5>4
      <4>2. CASE \E u \in Role("alloc") : /\ mpc[u] = "finish" /\ ExtentOf(lv[u].addr) = log[i].extent
                                          /\ lv[u].batch = log[i].batch /\ lv[u].key = log[i].key
        <5>1. log[i].key = lv[t].key BY <4>2, <1>1
        <5>2. log[i].key = c + 1 BY <5>1, <1>5
        <5> QED BY <5>2
      <4>3. \/ \E h \in given : ExtentOf(h.addr) = log[i].extent /\ h.batch = log[i].batch /\ h.key = log[i].key
            \/ \E u \in Role("alloc") : /\ mpc[u] = "finish" /\ ExtentOf(lv[u].addr) = log[i].extent
                                        /\ lv[u].batch = log[i].batch /\ lv[u].key = log[i].key
        BY <1>11 DEF KeyInv
      <4> QED BY <4>1, <4>2, <4>3
    <3>3. \A k \in DOMAIN log : k > i => log[k].batch # g.batch BY <3>1, <2>2, <1>4, <1>6 DEF LastOf
    <3> QED BY <3>2, <3>3, <2>2, <1>5
  <2> QED BY <2>1, <2>2
<1>12. \A i, k \in DOMAIN log : i < k /\ log[i].batch = log[k].batch /\ Data(log, k) =>
         log[i].batch = 0 /\ log[i].key < log[k].key
  BY DEF KeyInv
<1> QED BY <1>2, <1>7, <1>8, <1>9, <1>10, <1>11, <1>12 DEF KeyInv, Data

(* mini_unlock_batch_set_next_addr keeps the invariant, and its assertion  *)
(* holds: the page was never handed out.                                   *)
LEMMA FinishAllocInv ==
    ASSUME NEW log, NEW start, NEW own, Inv(log, start, own), NEW t \in MiniThread, FinishAlloc(t)
    PROVE  Inv(log, start, own)'
<1> USE DEF Inv
<1>0. mpc[t] = "finish" /\ mpc[t] \in AllocPCs BY DEF FinishAlloc, Return, Move, AllocPCs
<1>1. Calm /\ lv[t].op = "alloc" /\ life = "open" /\ t \in Role("alloc") /\ lv[t] \in AllocRec BY <1>0, OpOfStep, AppendsAreCalm
<1>2. PICK a \in Nat : a = lv[t].addr BY <1>1 DEF AllocRec
<1>3. PICK b \in Batch : b = lv[t].batch BY <1>1 DEF AllocRec
<1>4. PICK g0 \in GivenRec : g0 = [addr |-> a, batch |-> b, key |-> lv[t].key] BY <1>1 DEF AllocRec, GivenRec
<1>5. \A g \in given : g.addr # a
  <2> SUFFICES ASSUME NEW g \in given, g.addr = a PROVE FALSE OBVIOUS
  <2>1. g \in GivenIn(ExtentOf(a)) BY DEF GivenIn
  <2>2. g.addr < a BY <2>1, <1>0, <1>1, <1>2 DEF AddrInv, NextAddrOK
  <2> QED BY <2>2
<1>6. failed' = {} /\ given' = given \cup {g0} /\ g0 \notin given /\ next_addr' = [next_addr EXCEPT ![b] = a + 1] /\ Move(t, "finish", "idle", NoLocals)
  <2>1. next_addr[b] = MINI_WAIT BY <1>1, <1>3 DEF AddrInv
  <2> QED BY <2>1, <1>2, <1>3, <1>4, <1>5 DEF FinishAlloc, Check, Return
<1>7. LocalsAt("idle", NoLocals) BY DEF LocalsAt
<1>8. /\ mpc' \in [MiniThread -> PCs] /\ DOMAIN lv' = MiniThread
      /\ \A u \in MiniThread : LocalsAt(mpc'[u], lv'[u])
      /\ mpc'[t] = "idle" /\ lv'[t] = NoLocals
      /\ \A u \in MiniThread \ {t} : mpc'[u] = mpc[u] /\ lv'[u] = lv[u]
  BY <1>6, <1>7, Moved
<1>9. lv'[t].op = "none" BY <1>8 DEF NoLocals
<1>10. TypeOK'
  <2>1. next_addr' \in [Batch -> Nat] BY <1>6 DEF TypeOK
  <2>2. given' \in SUBSET GivenRec /\ IsFiniteSet(given') BY <1>6, FS_AddElement DEF TypeOK
  <2> QED BY <2>1, <2>2, <1>8 DEF TypeOK, FinishAlloc
<1>11. RoleInv'
  <2>1. life' = life /\ held' = held /\ blocked' = blocked /\ allocs' = allocs /\ keyed' = keyed BY DEF FinishAlloc
  <2>2. Role("alloc")' = Role("alloc") \ {t} BY <1>8, <1>9 DEF Role
  <2>3. keyed => allocs[t] > 0 BY <1>1 DEF RoleInv
  <2>4. \A u \in MiniThread : mpc'[u] \notin WaitPCs
    <3>2. \A u \in MiniThread : mpc[u] \notin WaitPCs BY <1>1 DEF RoleInv
    <3> QED BY <3>2, <1>8 DEF WaitPCs
  <2>5. \A u \in MiniThread : lv'[u].op \in {"none", "alloc"} BY <1>1, <1>8, <1>9 DEF RoleInv
  <2>6. NoneHeld' <=> NoneHeld BY <2>1 DEF NoneHeld
  <2>7. NoBlocks' <=> NoBlocks BY <2>1 DEF NoBlocks
  <2> QED BY <2>1, <2>2, <2>3, <2>4, <2>5, <2>6, <2>7, <1>1 DEF RoleInv, Role
<1>12. Calm' /\ life' = "open" BY <1>1 DEF Calm, FinishAlloc
<1>13. ListInv(log, start)' BY <1>10, <1>11, <1>12, CalmList DEF FinishAlloc
<1>14. ClaimInv' BY <1>8, <1>10, <1>11, <1>12, CalmClaims DEF FinishAlloc
<1>15. BatchInv(log)'
  <2>1. \A x \in Batch : Ended(x)' <=> Ended(x) BY <1>1, <1>12 DEF Ended
  <2> QED BY <2>1, <1>12, BatchFrame DEF FinishAlloc, ListInv
<1>16. OwnInv(log, own)'
  <2>1. \A x \in Batch : Pending(x)' <=> Pending(x) BY <1>1, <1>12 DEF Pending
  <2>2. \A u \in MiniThread : (Flying(u)' <=> Flying(u)) /\ (Flying(u) => lv'[u].addr = lv[u].addr)
    BY <1>0, <1>8, <1>9 DEF Flying, AppendPCs
  <2> QED BY <2>1, <2>2, OwnFrame DEF FinishAlloc
<1>17. g0.addr = lv[t].addr /\ g0.addr = a /\ g0.batch = lv[t].batch /\ g0.batch = b /\ g0.key = lv[t].key BY <1>2, <1>3, <1>4
<1>18. AddrInv(log)' BY <1>0, <1>1, <1>2, <1>3, <1>6, <1>8, <1>9, <1>17, AddrFinish
<1>19. KeyInv(log)'
  <2>1. log \in Seq(EntryRec) /\ keyed' = keyed BY DEF ListInv, FinishAlloc
  <2> QED BY <2>1, <1>0, <1>1, <1>6, <1>8, <1>9, <1>12, <1>17, KeyFinish
<1>20. CalmRefs(own)' BY <1>1, CalmRefsBefore DEF CalmRefs, CalmCount, FinishAlloc
<1> QED BY <1>1, <1>6, <1>10, <1>11, <1>12, <1>13, <1>14, <1>15, <1>16, <1>18, <1>19, <1>20, CalmInv DEF FinishAlloc

-----------------------------------------------------------------------------
(* mini_release                                                            *)

(* Between the calls no thread is in an operation.                         *)
LEMMA IdleThreads ==
    ASSUME TypeOK, AllIdle
    PROVE  \A u \in MiniThread : lv[u].op = "none"
BY OpOfStep DEF AllIdle

(* The begin of mini_release keeps the invariant.                          *)
LEMMA ReleaseCallInv ==
    ASSUME NEW log, NEW start, NEW own, Inv(log, start, own), NEW t \in MiniThread, ReleaseCall(t)
    PROVE  Inv(log, start, own)'
<1> DEFINE loc == [op |-> "release", batch |-> 0, key |-> Cardinality(Leaves) + 1, tail |-> NoPage]
<1> USE DEF Inv
<1>1. loc \in ReleaseRec /\ loc.op = "release" /\ loc.batch = 0
  BY LeavesCount, MiniSizeAssumption DEF ReleaseRec, NoPage
<1>2. LocalsAt("release", loc) BY <1>1 DEF LocalsAt, ReleasePCs
<1>3. /\ mpc' \in [MiniThread -> PCs] /\ DOMAIN lv' = MiniThread
      /\ \A u \in MiniThread : LocalsAt(mpc'[u], lv'[u])
      /\ mpc'[t] = "release" /\ lv'[t] = loc
      /\ \A u \in MiniThread \ {t} : mpc'[u] = mpc[u] /\ lv'[u] = lv[u]
  BY <1>2, Moved DEF ReleaseCall
<1> HIDE DEF loc
<1>4. life = "open" /\ life' = "released" /\ given # {} /\ \A u \in MiniThread : lv[u].op = "none"
  BY IdleThreads DEF ReleaseCall
<1>5. \A u \in MiniThread : lv'[u].op = IF u = t THEN "release" ELSE "none" BY <1>1, <1>3, <1>4
<1>6. /\ Role("release")' = {t}
      /\ \A op : op \notin {"release", "none"} => Role(op)' = {}
      /\ \A op : op # "none" => Role(op) = {}
  BY <1>4, <1>5 DEF Role
<1>7. TypeOK' BY <1>3, <1>4 DEF TypeOK, ReleaseCall
<1>8. RoleInv'
  <2>1. NoneHeld' <=> NoneHeld BY DEF NoneHeld, ReleaseCall
  <2>2. NoBlocks' <=> NoBlocks BY DEF NoBlocks, ReleaseCall
  <2>3. \A u \in MiniThread : mpc'[u] \notin WaitPCs BY <1>3, <1>4 DEF WaitPCs, ReleaseCall, AllIdle
  <2>4. ~keyed => \A r \in Rs : r # Whole => held'[r] = 0 BY DEF RoleInv, ReleaseCall
  <2>5. keyed => NoneHeld /\ NoBlocks /\ \A u, v \in MiniThread : allocs'[u] > 0 /\ allocs'[v] > 0 => u = v
    BY <1>4 DEF RoleInv, ReleaseCall
  <2>6. ~keyed => NoBlocks BY DEF RoleInv
  <2> QED BY <1>3, <1>4, <1>5, <1>6, <2>1, <2>2, <2>3, <2>4, <2>5, <2>6 DEF RoleInv, ReleaseCall
<1>9. Calm BY <1>4 DEF Calm
<1>10. Calm'
  <2>1. Walkers' = {} BY <1>6 DEF Walkers
  <2> QED BY <2>1, <1>4, <1>6 DEF Calm
<1>11. ListInv(log, start)' BY <1>7, <1>8, <1>10, CalmList DEF ReleaseCall
<1>12. ClaimInv' BY <1>3, <1>7, <1>8, <1>10, CalmClaims DEF ReleaseCall
<1>13. \A b \in Batch : ~Ended(b) /\ ~Ended(b)' /\ Pending(b) /\ Pending(b)'
  <2>1. \A b \in Batch : b \in Nat /\ ~(b < 0) /\ (b = 0 \/ 0 < b) BY MiniSizeAssumption DEF Batch
  <2> QED BY <2>1, <1>1, <1>3, <1>4, <1>6 DEF Ended, Pending
<1>14. BatchInv(log)'
  <2>1. \A i \in DOMAIN log : log[i].batch \in Batch BY LogEntries DEF ListInv
  <2>2. \A i \in DOMAIN log : Data(log, i) BY <2>1, <1>13 DEF BatchInv
  <2> QED BY <2>2, <1>13 DEF BatchInv, FirstOf, LastOf, Pair, Data
<1>15. OwnInv(log, own)'
  <2>2. \A u \in MiniThread : (Flying(u)' <=> Flying(u)) /\ (Flying(u) => lv'[u].addr = lv[u].addr)
    BY <1>4, <1>5 DEF Flying
  <2> QED BY <2>2, <1>13, OwnFrame DEF ReleaseCall
<1>16. SameAllocs BY <1>3, <1>4, <1>5 DEF SameAllocs, ReleaseCall, AllIdle
<1>17. AddrInv(log)' BY <1>4, <1>16, AddrFrame DEF ReleaseCall
<1>18. KeyInv(log)'
  <2> SUFFICES ASSUME keyed PROVE KeyInv(log)' BY DEF KeyInv, ReleaseCall
  <2>1. Role("alloc")' = {} /\ Role("alloc") = {} BY <1>6
  <2>2. given' = given /\ Leaves' = Leaves /\ (Cardinality(Leaves) > 1 => \E g \in given : g.batch > 0) BY DEF ReleaseCall, Leaves
  <2> QED BY <2>1, <2>2, <1>4 DEF KeyInv, Data
<1>19. CalmRefs(own)' BY <1>9, CalmRefsBefore DEF CalmRefs, CalmCount, ReleaseCall
<1> QED BY <1>4, <1>7, <1>8, <1>9, <1>10, <1>11, <1>12, <1>14, <1>15, <1>17, <1>18, <1>19, CalmInv DEF ReleaseCall

(* An extent in advance goes back.                                         *)
LEMMA OwnRelease ==
    ASSUME NEW log, NEW own, OwnInv(log, own), NEW b \in Batch, Pending(b), NEW o \in Ext, o = next_extent[b],
           log \in Seq(EntryRec),
           DOMAIN meta' = DOMAIN meta, next_extent' = next_extent, next_extent \in [Batch -> Ext],
           \A c \in Batch : Pending(c)' <=> Pending(c) /\ c # b,
           \A u \in MiniThread : (Flying(u)' <=> Flying(u)) /\ (Flying(u) => lv'[u].addr = lv[u].addr),
           NEW own2, own2 = [own EXCEPT ![o] = Free]
    PROVE  OwnInv(log, own2)'
<1>1. own[o] = <<"adv", b>> BY DEF OwnInv
<1>2. DOMAIN own2 = Ext /\ DOMAIN own = Ext /\ own2[o] = Free /\ \A x \in Ext : x # o => own2[x] = own[x] BY DEF OwnInv
<1>3. ASSUME NEW i \in DOMAIN log, Data(log, i) PROVE own2[log[i].extent] = <<"data", i>>
  <2>1. own[log[i].extent] = <<"data", i>> /\ log[i].extent \in Ext BY <1>3, LogEntries DEF OwnInv
  <2>2. log[i].extent # o BY <2>1, <1>1
  <2> QED BY <2>1, <2>2, <1>2
<1>4. ASSUME NEW c \in DOMAIN meta PROVE ExtentOf(c) \in Ext /\ own2[ExtentOf(c)] = Meta
  <2>1. ExtentOf(c) \in Ext /\ own[ExtentOf(c)] = Meta BY DEF OwnInv
  <2>2. ExtentOf(c) # o BY <2>1, <1>1 DEF Meta
  <2> QED BY <2>1, <2>2, <1>2
<1>5. ASSUME NEW c \in Batch, Pending(c)' PROVE own2[next_extent[c]] = <<"adv", c>>
  <2>1. Pending(c) /\ c # b /\ next_extent[c] \in Ext BY <1>5
  <2>2. own[next_extent[c]] = <<"adv", c>> BY <2>1 DEF OwnInv
  <2>3. next_extent[c] # o BY <2>1, <2>2, <1>1
  <2> QED BY <2>1, <2>2, <2>3, <1>2
<1>6. ASSUME NEW u \in MiniThread, Flying(u)
      PROVE  /\ ExtentOf(lv[u].addr) \in Ext /\ own2[ExtentOf(lv[u].addr)] = <<"fly", u>>
             /\ lv[u].addr = ExtentOf(lv[u].addr) * PagesPerExtent
  <2>1. /\ ExtentOf(lv[u].addr) \in Ext /\ own[ExtentOf(lv[u].addr)] = <<"fly", u>>
        /\ lv[u].addr = ExtentOf(lv[u].addr) * PagesPerExtent
    BY <1>6 DEF OwnInv
  <2>2. ExtentOf(lv[u].addr) # o BY <2>1, <1>1
  <2> QED BY <2>1, <2>2, <1>2
<1>7. ASSUME NEW x \in Ext
      PROVE  \/ own2[x] = Free
             \/ \E i \in DOMAIN log : own2[x] = <<"data", i>> /\ log[i].extent = x
             \/ own2[x] = Meta /\ \E c \in DOMAIN meta : ExtentOf(c) = x
             \/ \E c \in Batch : own2[x] = <<"adv", c>> /\ Pending(c)' /\ next_extent[c] = x
             \/ \E u \in MiniThread : own2[x] = <<"fly", u>> /\ Flying(u) /\ ExtentOf(lv[u].addr) = x
  <2>1. CASE x = o BY <2>1, <1>2
  <2>2. CASE x # o
    <3>1. own2[x] = own[x] BY <2>2, <1>2
    <3>2. CASE own[x] = Free BY <3>1, <3>2
    <3>3. CASE \E i \in DOMAIN log : own[x] = <<"data", i>> /\ log[i].extent = x BY <3>1, <3>3
    <3>4. CASE own[x] = Meta /\ \E c \in DOMAIN meta : ExtentOf(c) = x BY <3>1, <3>4
    <3>5. CASE \E c \in Batch : own[x] = <<"adv", c>> /\ Pending(c) /\ next_extent[c] = x
      <4>1. PICK c \in Batch : own[x] = <<"adv", c>> /\ Pending(c) /\ next_extent[c] = x BY <3>5
      <4>2. c # b BY <4>1, <2>2
      <4> QED BY <4>1, <4>2, <3>1
    <3>6. CASE \E u \in MiniThread : own[x] = <<"fly", u>> /\ Flying(u) /\ ExtentOf(lv[u].addr) = x BY <3>1, <3>6
    <3> QED BY <3>2, <3>3, <3>4, <3>5, <3>6 DEF OwnInv
  <2> QED BY <2>1, <2>2
<1>8. \A i : Data(log, i)' <=> Data(log, i) BY DEF Data
<1> QED BY <1>2, <1>3, <1>4, <1>5, <1>6, <1>7, <1>8 DEF OwnInv

(* An unkeyed allocator has no ranges.                                     *)
LEMMA UnkeyedRest ==
    ASSUME RoleInv', ~keyed', NEW log, NEW start
    PROVE  KeyInv(log)' /\ WalkInv(log, start)' /\ BlockInv' /\ OrderInv(log, start)'
<1>1. NoBlocks' /\ Role("inc")' = {} /\ Role("dec")' = {} BY DEF RoleInv
<1> QED BY <1>1 DEF KeyInv, WalkInv, BlockInv, OrderInv, NoBlocks

(* An unkeyed allocator has no ends of batches.                            *)
LEMMA UnkeyedBatch ==
    ASSUME NEW log, BatchInv(log), ~keyed, ~keyed'
    PROVE  BatchInv(log)'
BY DEF BatchInv, FirstOf, LastOf, Pair, Data

(* mini_release keeps the invariant with each batch, and its assertion     *)
(* holds: the extent in advance has the one reference.                     *)
LEMMA ReleaseBatchInv ==
    ASSUME NEW log, NEW start, NEW own, Inv(log, start, own), NEW t \in MiniThread, ReleaseBatch(t)
    PROVE  \E own2 : Inv(log, start, own2)'
<1> USE DEF Inv
<1>1. mpc[t] = "release" /\ lv[t].op = "release" /\ lv[t] \in ReleaseRec /\ Role("release") = {t} /\ life # "open"
  <2>1. mpc[t] = "release" BY DEF ReleaseBatch
  <2>2. lv[t].op = "release" /\ lv[t] \in ReleaseRec BY <2>1, OpOfStep
  <2> QED BY <2>1, <2>2 DEF RoleInv, Role
<1>2. PICK b \in Batch : b = lv[t].batch BY <1>1, MiniSizeAssumption DEF ReleaseBatch, ReleaseRec, Batch
<1>3. PICK o \in Ext : o = next_extent[b] BY DEF TypeOK
<1>4. Pending(b) BY <1>1, <1>2 DEF Pending
<1>5. own[o] = <<"adv", b>> /\ refc[o] = AL_ONE_REF BY <1>3, <1>4 DEF OwnInv, RefInv
<1>6. PICK to \in {"tail", "release"} : to = IF keyed THEN "tail" ELSE "release" OBVIOUS
<1>7. PICK loc : loc = IF keyed THEN lv[t] ELSE [lv[t] EXCEPT !.batch = b + 1] OBVIOUS
<1>8. Move(t, "release", to, loc) /\ refc' = [refc EXCEPT ![o] = AL_FREE] /\ failed' = {} /\ UNCHANGED otherVars
  BY <1>2, <1>3, <1>5, <1>6, <1>7 DEF ReleaseBatch, Check
<1>9. loc \in ReleaseRec /\ loc.op = "release" /\ (keyed => loc.batch = b) /\ (~keyed => loc.batch = b + 1)
  <2>1. b + 1 \in 0 .. NumBatches BY MiniSizeAssumption DEF Batch
  <2> QED BY <2>1, <1>1, <1>2, <1>7 DEF ReleaseRec
<1>10. LocalsAt(to, loc) BY <1>9 DEF LocalsAt, ReleasePCs, AppendPCs
<1>11. /\ mpc' \in [MiniThread -> PCs] /\ DOMAIN lv' = MiniThread
       /\ \A u \in MiniThread : LocalsAt(mpc'[u], lv'[u])
       /\ mpc'[t] = to /\ lv'[t] = loc
       /\ \A u \in MiniThread \ {t} : mpc'[u] = mpc[u] /\ lv'[u] = lv[u]
  BY <1>8, <1>10, Moved
<1>12. TypeOK'
  <2>1. refc' \in [Ext -> Int] BY <1>8 DEF TypeOK, AL_FREE
  <2> QED BY <2>1, <1>8, <1>11 DEF TypeOK, otherVars
<1>13. \A u \in MiniThread : lv'[u].op = lv[u].op BY <1>1, <1>9, <1>11
<1>14. \A op : Role(op)' = Role(op) BY <1>13 DEF Role
<1>15. RoleInv'
  <2>2. \A u \in Role("release") : mpc'[u] # "release" => keyed /\ lv'[u].batch \in Batch
    BY <1>1, <1>6, <1>9, <1>11
  <2>3. \A u \in MiniThread : mpc'[u] \in WaitPCs => mpc[u] \in WaitPCs /\ lv'[u] = lv[u] BY <1>11 DEF WaitPCs
  <2>4. \A u \in Role("inc") \cup Role("prefetch") : lv'[u].range = lv[u].range /\ lv'[u].mine = lv[u].mine BY <1>1, <1>11 DEF Role
  <2> QED BY <1>8, <1>13, <2>2, <2>3, <2>4, RoleFrame DEF otherVars
<1>16. PICK own2 : own2 = [own EXCEPT ![o] = Free] OBVIOUS
<1>17. /\ DOMAIN own2 = Ext /\ own2[o] = Free /\ \A x \in Ext : x # o => own2[x] = own[x] BY <1>16 DEF OwnInv
<1>18. \A c \in Batch : Pending(c)' <=> Pending(c) /\ c # b
  <2> SUFFICES ASSUME NEW c \in Batch PROVE Pending(c)' <=> Pending(c) /\ c # b OBVIOUS
  <2>1. b \in Nat /\ c \in Nat BY MiniSizeAssumption DEF Batch
  <2>2. Pending(c) <=> (b < c \/ b = c) BY <1>1, <1>2 DEF Pending
  <2>3. life' # "open" /\ Role("release")' = {t} BY <1>1, <1>8, <1>14 DEF otherVars
  <2>4. CASE keyed
    <3>1. Pending(c)' <=> b < c BY <2>3, <2>4, <1>6, <1>9, <1>11 DEF Pending
    <3> QED BY <3>1, <2>1, <2>2
  <2>5. CASE ~keyed
    <3>1. Pending(c)' <=> (b + 1 < c \/ b + 1 = c) BY <2>3, <2>5, <1>6, <1>9, <1>11 DEF Pending
    <3> QED BY <3>1, <2>1, <2>2
  <2> QED BY <2>4, <2>5
<1>19. \A u \in MiniThread : (Flying(u)' <=> Flying(u)) /\ (Flying(u) => lv'[u].addr = lv[u].addr)
  BY <1>1, <1>9, <1>11 DEF Flying
<1>20. log \in Seq(EntryRec) BY DEF ListInv
<1>21. OwnInv(log, own2)'
  BY <1>3, <1>4, <1>8, <1>16, <1>18, <1>19, <1>20, OwnRelease DEF TypeOK, otherVars
<1>22. SameAllocs
  <2>1. \A u \in MiniThread \ {t} : lv'[u] = lv[u] /\ mpc'[u] = mpc[u] BY <1>11
  <2>2. lv'[t].op # "alloc" /\ mpc[t] # "finish" /\ mpc'[t] # "finish" BY <1>1, <1>9, <1>11
  <2> QED BY <2>1, <2>2 DEF SameAllocs
<1>23. AddrInv(log)' BY <1>8, <1>22, AddrFrame DEF otherVars
<1>24. CASE keyed
  <2>1. Calm /\ Calm' BY <1>1, <1>8, <1>14, <1>24 DEF Calm, otherVars
  <2>2. ListInv(log, start)' BY <2>1, <1>8, <1>12, <1>15, CalmList DEF otherVars
  <2>3. ClaimInv' BY <2>1, <1>8, <1>11, <1>12, <1>15, CalmClaims DEF otherVars
  <2>4. BatchInv(log)'
    <3>1. \A x \in Batch : Ended(x)' <=> Ended(x) BY <1>1, <1>2, <1>8, <1>9, <1>11, <1>14, <1>24 DEF Ended, otherVars
    <3> QED BY <3>1, <1>8, <1>20, BatchFrame DEF otherVars
  <2>5. KeyInv(log)' BY <1>8, <1>22, KeyFrame DEF otherVars
  <2>6. CalmRefs(own2)'
    <3>1. \A x \in Ext : refc[x] = CalmCount(own, x) BY <2>1, CalmRefsBefore DEF CalmRefs
    <3>2. ASSUME NEW x \in Ext PROVE refc'[x] = CalmCount(own2, x)'
      <4>1. CASE x = o BY <4>1, <1>8, <1>17 DEF CalmCount, TypeOK
      <4>2. CASE x # o
        <5>1. refc'[x] = refc[x] BY <4>2, <1>8 DEF TypeOK
        <5>2. CalmCount(own2, x)' = CalmCount(own, x) BY <4>2, <1>8, <1>17 DEF CalmCount, otherVars
        <5> QED BY <5>1, <5>2, <3>1
      <4> QED BY <4>1, <4>2
    <3> QED BY <3>2 DEF CalmRefs
  <2>7. Inv(log, start, own2)'
    BY <2>1, <2>2, <2>3, <2>4, <2>5, <2>6, <1>8, <1>12, <1>15, <1>21, <1>23, CalmInv DEF otherVars
  <2> QED BY <2>7
<1>25. CASE ~keyed
  <2>0. ~keyed' /\ held' = held /\ life' = life /\ meta' = meta /\ next_extent' = next_extent /\ blocked' = blocked BY <1>8, <1>25 DEF otherVars
  <2>1. ListInv(log, start)'
    <3>1. \A u \in Walkers \cup Role("deinit") : lv'[u] = lv[u] BY <1>1, <1>11 DEF Walkers, Role
    <3>2. Walkers' = Walkers /\ Role("deinit")' = Role("deinit") BY <1>14 DEF Walkers
    <3>3. \A u \in Walkers' : lv'[u].page \in DOMAIN meta /\ lv'[u].i \in 1 .. Len(meta[lv'[u].page].entries) + 1 BY <3>1, <3>2 DEF ListInv
    <3>4. \A u \in Role("deinit")' : lv'[u].page \in DOMAIN meta BY <3>1, <3>2 DEF ListInv
    <3> QED BY <3>3, <3>4, <1>8, ListFrame DEF otherVars
  <2>2. ClaimInv'
    <3>1. to \notin {"append", "append_new", "walk"} BY <1>6
    <3>2. \A u \in Role("dec")' : mpc'[u] = "walk" => u \in Role("dec") /\ mpc[u] = "walk" /\ lv'[u].page = lv[u].page
      BY <3>1, <1>11, <1>14 DEF Role
    <3> QED BY <3>1, <3>2, <1>8, <1>11, ClaimFrame DEF otherVars
  <2>3. BatchInv(log)' BY <2>0, <1>25, UnkeyedBatch
  <2>4. KeyInv(log)' /\ WalkInv(log, start)' /\ BlockInv' /\ OrderInv(log, start)' BY <2>0, <1>15, UnkeyedRest
  <2>5. LiveInv'
    <3>1. Walkers' = Walkers BY <1>14 DEF Walkers
    <3>2. ~Building /\ ~Building' BY <2>0, <1>25 DEF Building
    <3> QED BY <3>1, <3>2, <2>0 DEF LiveInv
  <2>6. RefInv(log, start, own2)'
    <3>1. \A x \in Ext : x # o => refc'[x] = refc[x] BY <1>8 DEF TypeOK
    <3>2. refc'[o] = AL_FREE BY <1>8 DEF TypeOK
    <3>3. FirstCount' = FirstCount BY <2>0, <1>14, <1>25 DEF FirstCount
    <3>4. \A x : Unreached(start, x)' <=> Unreached(start, x)
      <4>1. \A u \in Role("deinit") : lv'[u] = lv[u] BY <1>1, <1>11 DEF Role
      <4> QED BY <4>1, <2>0, <1>14 DEF Unreached
    <3>5. \A i : Freed(start, i)' <=> Freed(start, i)
      <4>1. \A u \in Role("dealloc") : lv'[u] = lv[u] BY <1>1, <1>11 DEF Role
      <4>2. \A u \in Role("dealloc") : Pos(start, u)' = Pos(start, u) BY <4>1 DEF Pos
      <4> QED BY <4>2, <2>0, <1>14 DEF Freed
    <3>6. ASSUME NEW x \in Ext, own2[x] = Free PROVE refc'[x] = AL_FREE
      BY <3>1, <3>2, <3>6, <1>17 DEF RefInv
    <3>7. ASSUME NEW c \in Batch, Pending(c)' PROVE refc'[next_extent'[c]] = AL_ONE_REF
      <4>1. Pending(c) /\ c # b /\ next_extent[c] \in Ext BY <3>7, <1>18 DEF TypeOK
      <4>2. own[next_extent[c]] = <<"adv", c>> /\ refc[next_extent[c]] = AL_ONE_REF BY <4>1 DEF OwnInv, RefInv
      <4>3. next_extent[c] # o BY <4>1, <4>2, <1>5
      <4> QED BY <4>1, <4>2, <4>3, <3>1, <2>0
    <3>8. ASSUME NEW u \in MiniThread, Flying(u)' PROVE FALSE
      <4>1. Role("alloc") = {}
        <5>1. CASE life = "released" BY <5>1 DEF RoleInv
        <5>2. CASE life = "gone"
          <6>1. \A v \in MiniThread : lv[v].op # "alloc" BY <5>2 DEF RoleInv
          <6> QED BY <6>1 DEF Role
        <5> QED BY <5>1, <5>2, <1>1 DEF TypeOK
      <4> QED BY <4>1, <3>8, <1>14 DEF Flying, Role
    <3>9. ASSUME NEW c \in DOMAIN meta' PROVE MetaRefs(start, ExtentOf(c))'
      <4>1. PICK x \in Ext : x = ExtentOf(c) /\ own[x] = Meta BY <3>9, <2>0 DEF OwnInv
      <4>2. x # o BY <4>1, <1>5 DEF Meta
      <4>3. MetaRefs(start, x) BY <4>1, <3>9, <2>0 DEF RefInv
      <4>4. MetaRefs(start, x)' BY <4>2, <4>3, <3>1, <3>3, <3>4, <2>0 DEF MetaRefs
      <4> QED BY <4>1, <4>4 DEF MetaRefs, Unreached
    <3>10. ASSUME NEW i \in DOMAIN log, Data(log, i) PROVE DataRefs(log, start, i)'
      <4>1. PICK x \in Ext : x = log[i].extent /\ own[x] = <<"data", i>> BY <3>10, <1>20, LogEntries DEF OwnInv
      <4>2. x # o BY <4>1, <1>5
      <4>3. DataRefs(log, start, i) BY <3>10 DEF RefInv
      <4>4. refc'[x] = refc[x] BY <4>2, <3>1
      <4> QED BY <4>1, <4>3, <4>4, <3>5, <2>0, <1>25 DEF DataRefs, Building
    <3> QED BY <3>6, <3>7, <3>8, <3>9, <3>10 DEF RefInv, Data
  <2>7. Inv(log, start, own2)'
    BY <2>1, <2>2, <2>3, <2>4, <2>5, <2>6, <1>8, <1>12, <1>15, <1>21, <1>23
  <2> QED BY <2>7
<1> QED BY <1>24, <1>25

(* An extent has a next one in its batch, unless it is the last.           *)
LEMMA NextEntry ==
    ASSUME NEW log \in Seq(EntryRec), NEW i \in DOMAIN log, Data(log, i), ~LastOf(log, i)
    PROVE  \E j \in DOMAIN log : Pair(log, i, j)
<1> DEFINE S == {k \in DOMAIN log : k > i /\ log[k].batch = log[i].batch}
<1>1. S \in SUBSET Nat /\ S # {} BY DEF LastOf
<1>2. PICK j \in S : \A y \in S : j <= y
  <2>1. Min(S) \in S /\ \A y \in S : Min(S) <= y BY <1>1, LowestIsMember
  <2> QED BY <2>1
<1>3. \A k \in DOMAIN log : i < k /\ k < j => k \notin S
  <2>1. \A k \in DOMAIN log : k \in Nat /\ j \in Nat BY <1>1, <1>2
  <2>2. \A k \in S : j <= k BY <1>2
  <2> QED BY <2>1, <2>2
<1>4. Pair(log, i, j) BY <1>2, <1>3 DEF Pair
<1> QED BY <1>4, <1>2

(* Only the leaves have several extents, and their keys are those of the   *)
(* whole range.                                                            *)
LEMMA LaterKey ==
    ASSUME TypeOK, NEW log \in Seq(EntryRec), KeyInv(log), keyed, Role("alloc") = {},
           NEW i \in DOMAIN log, NEW j \in DOMAIN log, i < j, log[i].batch = log[j].batch, Data(log, j)
    PROVE  log[j].batch = 0 /\ log[j].key > 0 /\ log[j].key <= LastKey /\ log[j].key \in Nat /\ log[i].key < log[j].key
<1>1. log[i].batch = 0 /\ log[i].key < log[j].key BY DEF KeyInv
<1>2. PICK g \in given : g.batch = log[j].batch /\ g.key = log[j].key BY DEF KeyInv
<1>3. g \in Leaves /\ g.key \in Nat BY <1>1, <1>2 DEF Leaves, TypeOK, GivenRec
<1>4. PICK c \in Nat : c = Cardinality(Leaves) BY LeavesCount
<1>5. g.key <= c /\ g.key > 0 /\ c <= LastKey BY <1>3, <1>4 DEF KeyInv
<1> QED BY <1>1, <1>2, <1>3, <1>5, MiniKeyAssumption

(* The whole range hits every extent.                                      *)
LEMMA WholeHits ==
    ASSUME TypeOK, NEW log \in Seq(EntryRec), KeyInv(log), BatchInv(log), keyed, life = "released", Role("alloc") = {},
           \A b \in Batch : Ended(b), NEW i \in DOMAIN log, Data(log, i)
    PROVE  Hit(log, Whole, i)
<1>1. PICK b \in Batch : b = log[i].batch BY LogEntries
<1>2. PICK k \in DOMAIN log : log[k].batch = b /\ ~Data(log, k) BY <1>1 DEF BatchInv
<1>3. i # k /\ LastOf(log, k) BY <1>2 DEF BatchInv
<1>4. i < k
  <2>1. i \in Nat /\ k \in Nat OBVIOUS
  <2>2. ~(k < i) BY <1>1, <1>2, <1>3 DEF LastOf
  <2> QED BY <1>3, <2>1, <2>2
<1>5. PICK j \in DOMAIN log : Pair(log, i, j)
  <2>1. ~LastOf(log, i) BY <1>1, <1>2, <1>4 DEF LastOf
  <2> QED BY <2>1, NextEntry
<1>6. i < j /\ log[i].batch = log[j].batch BY <1>5 DEF Pair
<1>7. ~FirstOf(log, j) BY <1>6 DEF FirstOf
<1>8. Whole[1] = 1 /\ Whole[2] = LastKey BY DEF Whole
<1>9. Hits(log, Whole, i, j)
  <2>1. CASE Data(log, j)
    <3>1. log[j].key \in Nat /\ ~(log[j].key < 1) /\ log[j].key <= LastKey BY <2>1, <1>6, LaterKey
    <3>2. StateAt(log, Whole, j) = "in_range" BY <3>1, <2>1, <1>7, <1>8 DEF StateAt, StateOf
    <3> QED BY <3>2 DEF Hits, Intersects
  <2>2. CASE ~Data(log, j)
    <3>1. StateAt(log, Whole, j) = "after_end" BY <2>2, <1>7 DEF StateAt
    <3>2. CASE FirstOf(log, i)
      <4>1. StateAt(log, Whole, i) = "before_start" BY <3>2 DEF StateAt
      <4> QED BY <3>1, <4>1 DEF Hits, Intersects
    <3>3. CASE ~FirstOf(log, i)
      <4>1. PICK m \in DOMAIN log : m < i /\ log[m].batch = log[i].batch BY <3>3 DEF FirstOf
      <4>2. log[i].key \in Nat /\ ~(log[i].key < 1) /\ log[i].key <= LastKey BY <4>1, LaterKey
      <4>3. StateAt(log, Whole, i) = "in_range" BY <4>2, <3>3, <1>8 DEF StateAt, StateOf
      <4> QED BY <4>3 DEF Hits, Intersects
    <3> QED BY <3>2, <3>3
  <2> QED BY <2>1, <2>2
<1> QED BY <1>5, <1>9 DEF Hit

(* The end of mini_release keeps the invariant: the one reference each     *)
(* extent has is the one to the whole range that the caller has now.       *)
LEMMA ReleaseDoneInv ==
    ASSUME NEW log, NEW start, NEW own, Inv(log, start, own), NEW t \in MiniThread, ReleaseDone(t)
    PROVE  Inv(log, start, own)'
<1> USE DEF Inv
<1>1. mpc[t] = "release" /\ lv[t].op = "release" /\ lv[t].batch = NumBatches /\ Role("release") = {t} /\ life # "open"
  <2>1. mpc[t] = "release" BY DEF ReleaseDone
  <2>2. lv[t].op = "release" BY <2>1, OpOfStep
  <2> QED BY <2>1, <2>2 DEF RoleInv, Role, ReleaseDone
<1>2. LocalsAt("idle", NoLocals) BY DEF LocalsAt
<1>3. /\ mpc' \in [MiniThread -> PCs] /\ DOMAIN lv' = MiniThread
      /\ \A u \in MiniThread : LocalsAt(mpc'[u], lv'[u])
      /\ mpc'[t] = "idle" /\ lv'[t] = NoLocals
      /\ \A u \in MiniThread \ {t} : mpc'[u] = mpc[u] /\ lv'[u] = lv[u]
  BY <1>2, Moved DEF ReleaseDone, Return
<1>4. lv'[t].op = "none" BY <1>3 DEF NoLocals
<1>5. /\ Role("release")' = {}
      /\ \A op : op # "release" /\ op # "none" => Role(op)' = Role(op)
      /\ \A op : \A u \in Role(op) : op # "release" => u # t /\ u \in MiniThread /\ lv'[u] = lv[u] /\ mpc'[u] = mpc[u]
  BY <1>1, <1>3, <1>4 DEF Role
<1>6. TypeOK'
  <2>1. held' \in [Rs -> Nat] BY DEF TypeOK, ReleaseDone
  <2> QED BY <2>1, <1>3 DEF TypeOK, ReleaseDone
<1>7. UNCHANGED <<keyed, refc, meta, meta_tail, next_addr, next_extent, num_extents, claim, blocked, given, life, allocs, reloads, failed>>
  BY DEF ReleaseDone
<1>8. held' = IF keyed THEN [held EXCEPT ![Whole] = 1] ELSE held BY DEF ReleaseDone
<1>9. keyed => life = "released" /\ NoneHeld /\ NoBlocks /\ (\A u \in MiniThread \ {t} : lv[u].op = "none") /\ Walkers = {} /\ Role("deinit") = {}
  <2> SUFFICES ASSUME keyed PROVE life = "released" /\ NoneHeld /\ NoBlocks /\ (\A u \in MiniThread \ {t} : lv[u].op = "none") /\ Walkers = {} /\ Role("deinit") = {}
    OBVIOUS
  <2>1. life = "released" /\ NoneHeld /\ NoBlocks /\ (\A u \in MiniThread \ {t} : lv[u].op = "none") BY <1>1 DEF RoleInv
  <2> QED BY <2>1, <1>1 DEF Walkers, Role
<1>10. RoleInv'
  <2>1. NoBlocks' <=> NoBlocks BY <1>7 DEF NoBlocks
  <2>2. ~keyed => (NoneHeld' <=> NoneHeld) BY <1>8 DEF NoneHeld
  <2>3. \A u \in MiniThread : mpc'[u] \in WaitPCs => mpc[u] \in WaitPCs /\ lv'[u] = lv[u] BY <1>3 DEF WaitPCs
  <2>4. \A u \in MiniThread : lv'[u].op = lv[u].op \/ lv'[u].op = "none" BY <1>3, <1>4
  <2>5. life # "open" BY <1>1
  <2> QED BY <1>5, <1>7, <1>8, <1>9, <2>1, <2>2, <2>3, <2>4, <2>5 DEF RoleInv, Role
<1>11. \A b \in Batch : ~Pending(b) /\ ~Pending(b)' /\ Ended(b) /\ Ended(b)'
  <2>1. \A b \in Batch : b \in Nat /\ b < NumBatches BY MiniSizeAssumption DEF Batch
  <2>2. \A b \in Batch : ~(NumBatches < b) /\ NumBatches # b BY <2>1, MiniSizeAssumption
  <2> QED BY <2>1, <2>2, <1>1, <1>5, <1>7 DEF Ended, Pending
<1>12. \A u \in Walkers \cup Role("deinit") : lv'[u] = lv[u] /\ mpc'[u] = mpc[u]
  BY <1>5 DEF Walkers
<1>13. Walkers' = Walkers BY <1>5 DEF Walkers
<1>14. log \in Seq(EntryRec) BY DEF ListInv
<1>15. ListInv(log, start)'
  <2>1. \A u \in Walkers' : lv'[u].page \in DOMAIN meta /\ lv'[u].i \in 1 .. Len(meta[lv'[u].page].entries) + 1
    BY <1>12, <1>13 DEF ListInv
  <2>2. \A u \in Role("deinit")' : lv'[u].page \in DOMAIN meta BY <1>5, <1>12 DEF ListInv
  <2> QED BY <2>1, <2>2, <1>7, ListFrame
<1>16. ClaimInv'
  <2>1. \A u \in Role("dec")' : mpc'[u] = "walk" => u \in Role("dec") /\ mpc[u] = "walk" /\ lv'[u].page = lv[u].page
    BY <1>5
  <2> QED BY <2>1, <1>3, <1>7, ClaimFrame
<1>17. BatchInv(log)' BY <1>7, <1>11, <1>14, BatchFrame
<1>18. OwnInv(log, own)'
  <2>1. \A u \in MiniThread : (Flying(u)' <=> Flying(u)) /\ (Flying(u) => lv'[u].addr = lv[u].addr)
    BY <1>1, <1>3, <1>4 DEF Flying
  <2> QED BY <2>1, <1>7, <1>11, OwnFrame
<1>19. SameAllocs
  <2>1. \A u \in MiniThread \ {t} : lv'[u] = lv[u] /\ mpc'[u] = mpc[u] BY <1>3
  <2>2. lv'[t].op # "alloc" /\ mpc[t] # "finish" /\ mpc'[t] # "finish" BY <1>1, <1>3, <1>4
  <2> QED BY <2>1, <2>2 DEF SameAllocs
<1>20. AddrInv(log)' BY <1>7, <1>19, AddrFrame
<1>21. KeyInv(log)' BY <1>7, <1>19, KeyFrame
<1>22. /\ \A e \in Ext : own[e] = Free => refc'[e] = AL_FREE
       /\ \A u \in MiniThread : ~Flying(u)'
  <2>1. Role("alloc") = {}
    <3>1. CASE life = "released" BY <3>1 DEF RoleInv
    <3>2. CASE life = "gone"
      <4>1. \A v \in MiniThread : lv[v].op # "alloc" BY <3>2 DEF RoleInv
      <4> QED BY <4>1 DEF Role
    <3> QED BY <3>1, <3>2, <1>1 DEF TypeOK
  <2>2. \A u \in MiniThread : ~Flying(u)' BY <2>1, <1>5 DEF Flying, Role
  <2> QED BY <2>2, <1>7 DEF RefInv
<1>23. Whole \in Rs BY DEF Rs
<1>24. CASE keyed
  <2>0. keyed' /\ life' = "released" /\ held'[Whole] = 1 /\ (\A r \in Rs : r # Whole => held'[r] = 0) /\ Role("alloc") = {}
    <3>1. life = "released" /\ NoneHeld BY <1>9, <1>24
    <3>2. Role("alloc") = {} BY <3>1 DEF RoleInv
    <3> QED BY <3>1, <3>2, <1>7, <1>8, <1>23, <1>24 DEF NoneHeld, TypeOK
  <2>1. Walkers' = {} /\ Role("inc")' = {} /\ Role("dec")' = {} /\ Role("deinit")' = {} /\ NoBlocks'
    BY <1>5, <1>7, <1>9, <1>13, <1>24 DEF Walkers, NoBlocks
  <2>2. WalkInv(log, start)' /\ BlockInv' /\ OrderInv(log, start)' BY <2>1 DEF WalkInv, BlockInv, OrderInv, NoBlocks
  <2>3. LiveInv'
    <3>1. held'[Whole] > 0 BY <2>0
    <3> QED BY <3>1, <1>23 DEF LiveInv
  <2>4. RefInv(log, start, own)'
    <3>1. Calm BY <1>1, <1>24 DEF Calm
    <3>2. \A i \in DOMAIN log : Data(log, i) => refc[log[i].extent] = AL_ONE_REF BY <3>1, CalmCounts DEF RefInv
    <3>3. HeldRefs' = {<<Whole, 1>>}
      <4>1. DOMAIN held' = Rs BY <1>6 DEF TypeOK
      <4>2. ASSUME NEW k \in HeldRefs' PROVE k = <<Whole, 1>>
        <5>1. PICK r \in Rs : k \in {r} \X (1 .. held'[r]) BY <4>1, <4>2 DEF HeldRefs
        <5>2. r = Whole BY <5>1, <2>0
        <5> QED BY <5>1, <5>2, <2>0
      <4>3. <<Whole, 1>> \in {Whole} \X (1 .. held'[Whole]) BY <2>0
      <4>4. <<Whole, 1>> \in HeldRefs' BY <4>1, <4>3, <1>23 DEF HeldRefs
      <4> QED BY <4>2, <4>4
    <3>4. ASSUME NEW i \in DOMAIN log, Data(log, i) PROVE DataRefs(log, start, i)'
      <4>1. Hit(log, Whole, i) BY <3>4, <2>0, <1>9, <1>11, <1>14, <1>24, WholeHits
      <4>2. \A r : Hit(log, r, i)' <=> Hit(log, r, i) BY DEF Hit, Pair, Hits, Data, StateAt, FirstOf
      <4>3. PICK k0 \in TokenSet : k0 = <<"held", <<Whole, 1>>>> BY <1>23 DEF TokenSet
      <4>4. \A k \in TokenSet : Active(log, start, i, k)' <=> k = k0
        <5> SUFFICES ASSUME NEW k \in TokenSet PROVE Active(log, start, i, k)' <=> k = k0 OBVIOUS
        <5>1. k[1] \in {"held", "mine", "new", "dec"} /\ (k[1] = "held" => k = <<"held", k[2]>>) BY DEF TokenSet
        <5>2. Active(log, start, i, k)' <=> k[1] = "held" /\ k[2] \in HeldRefs' /\ Hit(log, k[2][1], i)'
          BY <5>1, <2>1 DEF Active
        <5> QED BY <5>1, <5>2, <4>1, <4>2, <4>3, <3>3
      <4>5. Tokens(log, start, i)' = {k0} BY <4>4 DEF Tokens
      <4>6. IsFiniteSet({k0}) /\ Cardinality({k0}) = 1 BY FS_Singleton
      <4>7. ~Building' /\ keyed' BY <2>0, <1>5 DEF Building
      <4>8. refc'[log[i].extent] = AL_ONE_REF BY <3>2, <3>4, <1>7
      <4> QED BY <4>5, <4>6, <4>7, <4>8 DEF DataRefs, Counted, AL_ONE_REF
    <3>5. FirstCount' = FirstCount
      <4>1. FirstCount = MINI_NO_REFS BY <3>1, <1>24, CalmCounts DEF MINI_NO_REFS
      <4>2. {u \in MiniThread : blocked'[u] # {}} = {} BY <2>1 DEF NoBlocks
      <4>3. FirstCount' = MINI_NO_REFS BY <4>2, <2>0, FS_EmptySet DEF FirstCount, MINI_NO_REFS
      <4> QED BY <4>1, <4>3
    <3>6. ASSUME NEW c \in DOMAIN meta PROVE MetaRefs(start, ExtentOf(c))'
      <4>1. MetaRefs(start, ExtentOf(c)) BY DEF RefInv
      <4>2. life = "released" BY <1>9, <1>24
      <4> QED BY <4>1, <4>2, <3>5, <2>0, <1>7 DEF MetaRefs
    <3> QED BY <3>4, <3>6, <1>7, <1>11, <1>22 DEF RefInv, Data
  <2> QED BY <2>2, <2>3, <2>4, <1>6, <1>7, <1>10, <1>15, <1>16, <1>17, <1>18, <1>20, <1>21
<1>25. CASE ~keyed
  <2>0. ~keyed' /\ held' = held BY <1>7, <1>8, <1>25
  <2>4. WalkInv(log, start)' /\ BlockInv' /\ OrderInv(log, start)' BY <2>0, <1>10, UnkeyedRest
  <2>5. LiveInv'
    <3>2. ~Building /\ ~Building' BY <2>0, <1>25 DEF Building
    <3> QED BY <3>2, <2>0, <1>7, <1>13 DEF LiveInv
  <2>6. RefInv(log, start, own)'
    <3>3. FirstCount' = FirstCount BY <2>0, <1>5, <1>25 DEF FirstCount
    <3>4. \A x : Unreached(start, x)' <=> Unreached(start, x) BY <1>5, <1>7 DEF Unreached
    <3>5. \A i : Freed(start, i)' <=> Freed(start, i)
      <4>2. \A u \in Role("dealloc") : Pos(start, u)' = Pos(start, u) BY <1>5 DEF Pos
      <4> QED BY <4>2, <1>5, <1>7 DEF Freed
    <3>9. ASSUME NEW c \in DOMAIN meta PROVE MetaRefs(start, ExtentOf(c))'
      <4>1. MetaRefs(start, ExtentOf(c)) BY DEF RefInv
      <4>2. PICK x : x = ExtentOf(c) OBVIOUS
      <4>3. MetaRefs(start, x)' BY <4>1, <4>2, <3>3, <3>4, <1>7 DEF MetaRefs
      <4> QED BY <4>2, <4>3 DEF MetaRefs, Unreached
    <3>10. ASSUME NEW i \in DOMAIN log, Data(log, i) PROVE DataRefs(log, start, i)'
      <4>3. DataRefs(log, start, i) BY <3>10 DEF RefInv
      <4> QED BY <4>3, <3>5, <2>0, <1>7, <1>25 DEF DataRefs, Building
    <3> QED BY <3>9, <3>10, <1>7, <1>11, <1>22 DEF RefInv, Data
  <2> QED BY <2>4, <2>5, <2>6, <1>6, <1>7, <1>10, <1>15, <1>16, <1>17, <1>18, <1>20, <1>21
<1> QED BY <1>24, <1>25

(* mini_destroy_unused keeps the invariant: no extent but the first and    *)
(* those in advance was taken.                                             *)
LEMMA DestroyUnusedInv ==
    ASSUME NEW log, NEW start, NEW own, Inv(log, start, own), NEW t \in MiniThread, DestroyUnused(t)
    PROVE  \E own2 : Inv(log, start, own2)'
<1> DEFINE loc == [op |-> "deinit", page |-> meta_head]
<1> USE DEF Inv
<1>0. keyed /\ life = "open" /\ life' = "gone" /\ Move(t, "idle", "deinit", loc) BY DEF DestroyUnused
<1>1. \A u \in MiniThread : allocs[u] = 0 BY DEF DestroyUnused
<1>2. given = {} /\ num_extents = NumBatches + 1 /\ NoneHeld /\ NoBlocks BY <1>0, <1>1 DEF RoleInv
<1>3. Role("alloc") = {}
  <2>1. \A u \in Role("alloc") : allocs[u] > 0 /\ u \in MiniThread BY <1>0 DEF RoleInv, Role
  <2> QED BY <2>1, <1>1
<1>4. \A u \in MiniThread : lv[u].op = "none"
  <2>1. \A u \in MiniThread : lv[u].op \in {"none", "alloc"} BY <1>0 DEF RoleInv
  <2> QED BY <2>1, <1>3 DEF Role
<1>5. loc \in DeinitRec /\ loc.op = "deinit" /\ loc.page = meta_head BY HeadExtent DEF DeinitRec
<1>6. LocalsAt("deinit", loc) BY <1>5 DEF LocalsAt
<1>7. /\ mpc' \in [MiniThread -> PCs] /\ DOMAIN lv' = MiniThread
      /\ \A u \in MiniThread : LocalsAt(mpc'[u], lv'[u])
      /\ mpc'[t] = "deinit" /\ lv'[t] = loc
      /\ \A u \in MiniThread \ {t} : mpc'[u] = mpc[u] /\ lv'[u] = lv[u]
  BY <1>0, <1>6, Moved
<1> HIDE DEF loc
<1>8. \A u \in MiniThread : lv'[u].op = IF u = t THEN "deinit" ELSE "none" BY <1>4, <1>5, <1>7
<1>9. Role("deinit")' = {t} /\ \A op : op \notin {"deinit", "none"} => Role(op)' = {} BY <1>8 DEF Role
<1>10. \A b \in Batch : Pending(b) /\ ~Pending(b)' /\ ~Ended(b) BY <1>0, <1>9 DEF Pending, Ended
<1>11. \A b \in Batch : own[next_extent[b]] = <<"adv", b>> /\ refc[next_extent[b]] = AL_ONE_REF
  BY <1>10 DEF OwnInv, RefInv
<1>12. UNCHANGED <<keyed, meta, meta_tail, next_addr, next_extent, num_extents, claim, held, blocked, given, allocs, reloads>>
  BY DEF DestroyUnused
<1>13. failed' = {} /\ refc' = [e \in Ext |-> IF \E b \in Batch : next_extent[b] = e THEN AL_FREE ELSE refc[e]]
  BY <1>2, <1>11 DEF DestroyUnused, Check
<1>14. TypeOK'
  <2>1. refc' \in [Ext -> Int] BY <1>13 DEF TypeOK, AL_FREE
  <2> QED BY <2>1, <1>0, <1>7, <1>12 DEF TypeOK
<1>15. RoleInv'
  <2>1. NoneHeld' /\ NoBlocks' BY <1>2, <1>12 DEF NoneHeld, NoBlocks
  <2>2. \A u \in MiniThread : mpc'[u] \notin WaitPCs
    <3>1. \A u \in MiniThread : mpc[u] = "idle" BY <1>4, OpOfStep
    <3> QED BY <3>1, <1>7 DEF WaitPCs
  <2> QED BY <2>1, <2>2, <1>0, <1>1, <1>8, <1>9, <1>12 DEF RoleInv
<1>16. log \in Seq(EntryRec) BY DEF ListInv
<1>17. ASSUME NEW i \in DOMAIN log PROVE FALSE
  <2>1. Data(log, i) BY <1>10, <1>16, LogEntries DEF BatchInv
  <2> QED BY <2>1, <1>0, <1>2, <1>3 DEF KeyInv
<1>18. ListInv(log, start)'
  <2>1. Walkers' = {} BY <1>9 DEF Walkers
  <2>2. \A u \in Role("deinit")' : lv'[u].page \in DOMAIN meta BY <1>5, <1>7, <1>9 DEF ListInv
  <2> QED BY <2>1, <2>2, <1>12, ListFrame
<1>19. ClaimInv'
  <2>1. \A u \in MiniThread : mpc'[u] \notin {"append", "append_new"}
    <3>1. \A u \in MiniThread : mpc[u] = "idle" BY <1>4, OpOfStep
    <3> QED BY <3>1, <1>7
  <2> QED BY <2>1, <1>9, <1>12 DEF ClaimInv
<1>20. BatchInv(log)' BY <1>0, <1>17 DEF BatchInv
<1>21. PICK own2 : own2 = [e \in Ext |-> IF \E b \in Batch : next_extent[b] = e THEN Free ELSE own[e]] OBVIOUS
<1>22. \A u \in MiniThread : ~Flying(u)' BY <1>8 DEF Flying
<1>23. \A c \in DOMAIN meta : ExtentOf(c) \in Ext /\ own[ExtentOf(c)] = Meta /\ own2[ExtentOf(c)] = Meta
                              /\ \A b \in Batch : next_extent[b] # ExtentOf(c)
  <2> SUFFICES ASSUME NEW c \in DOMAIN meta
               PROVE ExtentOf(c) \in Ext /\ own[ExtentOf(c)] = Meta /\ own2[ExtentOf(c)] = Meta
                     /\ \A b \in Batch : next_extent[b] # ExtentOf(c)
    OBVIOUS
  <2>1. ExtentOf(c) \in Ext /\ own[ExtentOf(c)] = Meta BY DEF OwnInv
  <2>2. \A b \in Batch : next_extent[b] # ExtentOf(c) BY <2>1, <1>11 DEF Meta
  <2> QED BY <2>1, <2>2, <1>21
<1>24. \A e \in Ext : own2[e] = Free \/ (own2[e] = Meta /\ \E c \in DOMAIN meta : ExtentOf(c) = e)
  <2> SUFFICES ASSUME NEW e \in Ext PROVE own2[e] = Free \/ (own2[e] = Meta /\ \E c \in DOMAIN meta : ExtentOf(c) = e) OBVIOUS
  <2>1. CASE \E b \in Batch : next_extent[b] = e BY <2>1, <1>21
  <2>2. CASE ~(\E b \in Batch : next_extent[b] = e)
    <3>1. own2[e] = own[e] BY <2>2, <1>21
    <3>2. \A u \in MiniThread : ~Flying(u) BY <1>4 DEF Flying
    <3> QED BY <3>1, <3>2, <2>2, <1>17 DEF OwnInv
  <2> QED BY <2>1, <2>2
<1>25. OwnInv(log, own2)'
  <2>1. DOMAIN own2 = Ext BY <1>21
  <2> QED BY <2>1, <1>10, <1>12, <1>17, <1>22, <1>23, <1>24 DEF OwnInv
<1>26. AddrInv(log)' BY <1>0, <1>2, <1>9, <1>12 DEF AddrInv
<1>27. KeyInv(log)'
  <2>1. (\A g \in Leaves : g.key <= Cardinality(Leaves) /\ g.key > 0) /\ Cardinality(Leaves) <= LastKey BY <1>0 DEF KeyInv
  <2>2. Leaves' = Leaves BY <1>12 DEF Leaves
  <2>3. life' # "released" BY <1>0
  <2> QED BY <2>1, <2>2, <2>3, <1>2, <1>9, <1>12, <1>17 DEF KeyInv
<1>28. WalkInv(log, start)' /\ OrderInv(log, start)' /\ BlockInv' /\ LiveInv'
  BY <1>0, <1>2, <1>9, <1>12 DEF WalkInv, OrderInv, BlockInv, LiveInv, NoBlocks
<1>29. RefInv(log, start, own2)'
  <2>1. Calm /\ life' = "gone" BY <1>0 DEF Calm
  <2>2. ASSUME NEW e \in Ext, own2[e] = Free PROVE refc'[e] = AL_FREE
    <3>1. CASE \E b \in Batch : next_extent[b] = e BY <3>1, <1>13
    <3>2. CASE ~(\E b \in Batch : next_extent[b] = e)
      <4>1. own[e] = Free BY <2>2, <3>2, <1>21
      <4> QED BY <4>1, <3>2, <1>13 DEF RefInv
    <3> QED BY <3>1, <3>2
  <2>3. ASSUME NEW c \in DOMAIN meta PROVE MetaRefs(start, ExtentOf(c))'
    <3>1. PICK e \in Ext : e = ExtentOf(c) /\ \A b \in Batch : next_extent[b] # e BY <1>23
    <3>2. MetaRefs(start, e) BY <3>1 DEF RefInv
    <3>3. refc[e] = AL_ONE_REF BY <3>2, <2>1, <1>0, CalmCounts DEF AL_ONE_REF, MINI_NO_REFS
    <3>4. refc'[e] = AL_ONE_REF BY <3>1, <3>3, <1>13
    <3>5. Unreached(start, e)'
      <4>1. lv'[t].page = meta_head /\ start[meta_head] = 0 /\ start[c] \in Nat BY <1>5, <1>7 DEF ListInv
      <4>2. start[c] >= start[lv'[t].page] BY <4>1
      <4> QED BY <3>1, <4>2, <1>9, <1>12 DEF Unreached
    <3>6. MetaRefs(start, e)' BY <2>1, <3>4, <3>5 DEF MetaRefs
    <3> QED BY <3>1, <3>6 DEF MetaRefs, Unreached
  <2> QED BY <2>2, <2>3, <1>10, <1>12, <1>17, <1>22 DEF RefInv
<1>30. Inv(log, start, own2)'
  BY <1>13, <1>14, <1>15, <1>18, <1>19, <1>20, <1>25, <1>26, <1>27, <1>28, <1>29
<1> QED BY <1>30

(* There are extents for all batches.                                      *)
LEMMA FreshExtents ==
    ASSUME NEW S, IsFiniteSet(S), Cardinality(S) >= NumBatches
    PROVE  \E f \in [Batch -> S] : \A b, c \in Batch : b # c => f[b] # f[c]
<1>1. Cardinality(S) \in Nat /\ ExistsBijection(1 .. Cardinality(S), S) BY FS_CardinalityType
<1>2. PICK n \in Nat : n = Cardinality(S) BY <1>1
<1>3. PICK h \in Bijection(1 .. n, S) : TRUE BY <1>1, <1>2 DEF ExistsBijection
<1>4. h \in [1 .. n -> S] /\ \A x, y \in 1 .. n : h[x] = h[y] => x = y
  BY <1>3 DEF Bijection, Injection, IsInjective
<1>5. \A b \in Batch : b \in Nat /\ b + 1 \in 1 .. n BY <1>2, MiniSizeAssumption DEF Batch
<1>6. PICK f : f = [b \in Batch |-> h[b + 1]] OBVIOUS
<1>7. f \in [Batch -> S] BY <1>4, <1>5, <1>6
<1>8. \A b, c \in Batch : b # c => f[b] # f[c]
  <2> SUFFICES ASSUME NEW b \in Batch, NEW c \in Batch, b # c PROVE f[b] # f[c] OBVIOUS
  <2>1. b + 1 # c + 1 BY <1>5
  <2> QED BY <2>1, <1>4, <1>5, <1>6
<1> QED BY <1>7, <1>8

(* mini_init of a released allocator keeps the invariant: the extents it   *)
(* takes were free.                                                        *)
LEMMA ReloadInv ==
    ASSUME NEW log, NEW start, NEW own, Inv(log, start, own), Reload
    PROVE  \E own2 : Inv(log, start, own2)'
<1> USE DEF Inv
<1>1. ~keyed /\ life = "released" /\ life' = "open" /\ next_addr' = [b \in Batch |-> 0]
  BY DEF Reload
<1>2. \A u \in MiniThread : lv[u].op = "none" BY IdleThreads DEF Reload
<1>3. \A op : op # "none" => Role(op) = {} BY <1>2 DEF Role
<1>4. UNCHANGED <<keyed, meta, meta_tail, claim, mpc, lv, held, blocked, given, allocs, failed>> BY DEF Reload
<1>5. PICK f \in [Batch -> FreeExts] : /\ \A b, c \in Batch : b # c => f[b] # f[c]
                                       /\ next_extent' = f
                                       /\ refc' = [e \in Ext |-> IF \E b \in Batch : f[b] = e THEN AL_ONE_REF ELSE refc[e]]
  <2>1. IsFiniteSet(FreeExts)
    <3>1. IsFiniteSet(Ext) BY FS_Interval, MiniSizeAssumption DEF Ext
    <3> QED BY <3>1, FS_Subset DEF FreeExts
  <2>2. Cardinality(FreeExts) \in Nat BY <2>1, FS_CardinalityType
  <2>3. Cardinality(FreeExts) >= NumBatches BY <2>2, MiniSizeAssumption DEF Reload
  <2>4. \E f \in [Batch -> FreeExts] : \A b, c \in Batch : b # c => f[b] # f[c] BY <2>1, <2>3, FreshExtents
  <2>5. PICK g : g = CHOOSE f \in [Batch -> FreeExts] : \A b, c \in Batch : b # c => f[b] # f[c] OBVIOUS
  <2>6. g \in [Batch -> FreeExts] /\ \A b, c \in Batch : b # c => g[b] # g[c] BY <2>4, <2>5
  <2>7. next_extent' = g /\ refc' = [e \in Ext |-> IF \E b \in Batch : g[b] = e THEN AL_ONE_REF ELSE refc[e]]
    BY <2>5 DEF Reload
  <2> QED BY <2>6, <2>7
<1>6. Calm /\ Calm'
  <2>1. Walkers = {} BY <1>3 DEF Walkers
  <2> QED BY <2>1, <1>1 DEF Calm
<1>7. \A b \in Batch : f[b] \in Ext /\ refc[f[b]] = AL_FREE /\ own[f[b]] = Free
  BY <1>6, CalmRefsBefore DEF FreeExts
<1>8. TypeOK'
  <2>1. refc' \in [Ext -> Int] BY <1>5 DEF TypeOK, AL_ONE_REF
  <2>2. next_extent' \in [Batch -> Ext] /\ next_addr' \in [Batch -> Nat] BY <1>1, <1>5, <1>7
  <2> QED BY <2>1, <2>2, <1>1, <1>4 DEF TypeOK
<1>9. RoleInv'
  <2>1. \A op : Role(op)' = Role(op) BY <1>4 DEF Role
  <2>2. NoBlocks' BY <1>1, <1>4 DEF RoleInv, NoBlocks
  <2>3. \A r \in Rs : r # Whole => held'[r] = 0 BY <1>1, <1>4 DEF RoleInv
  <2>4. \A u \in MiniThread : mpc'[u] \notin WaitPCs BY <1>4 DEF WaitPCs, Reload, AllIdle
  <2> QED BY <2>1, <2>2, <2>3, <2>4, <1>1, <1>2, <1>3, <1>4 DEF RoleInv
<1>10. ListInv(log, start)' BY <1>4, <1>6, <1>8, <1>9, CalmList
<1>11. ClaimInv' BY <1>4, <1>6, <1>8, <1>9, CalmClaims
<1>12. BatchInv(log)' BY <1>1, <1>4, UnkeyedBatch
<1>13. PICK own2 : own2 = [e \in Ext |-> IF \E b \in Batch : f[b] = e THEN <<"adv", CHOOSE b \in Batch : f[b] = e>> ELSE own[e]] OBVIOUS
<1>14. /\ DOMAIN own2 = Ext
       /\ \A b \in Batch : own2[f[b]] = <<"adv", b>>
       /\ \A e \in Ext : own[e] # Free => own2[e] = own[e]
       /\ \A e \in Ext : own2[e] = own[e] \/ \E b \in Batch : f[b] = e
  <2>1. ASSUME NEW b \in Batch PROVE own2[f[b]] = <<"adv", b>>
    <3>1. PICK c \in Batch : c = (CHOOSE d \in Batch : f[d] = f[b]) /\ f[c] = f[b] OBVIOUS
    <3>2. c = b BY <3>1, <1>5
    <3> QED BY <3>1, <3>2, <1>7, <1>13
  <2> QED BY <2>1, <1>7, <1>13
<1>15. \A b \in Batch : Pending(b)' BY <1>1 DEF Pending
<1>16. \A b \in Batch : ~Pending(b) BY <1>1, <1>3 DEF Pending
<1>17. \A u \in MiniThread : ~Flying(u) /\ ~Flying(u)' BY <1>2, <1>4 DEF Flying
<1>18. log \in Seq(EntryRec) BY DEF ListInv
<1>19. OwnInv(log, own2)'
  <2>1. ASSUME NEW i \in DOMAIN log, Data(log, i) PROVE own2[log[i].extent] = <<"data", i>>
    <3>1. own[log[i].extent] = <<"data", i>> /\ log[i].extent \in Ext BY <2>1, <1>18, LogEntries DEF OwnInv
    <3> QED BY <3>1, <1>14 DEF Free
  <2>2. ASSUME NEW c \in DOMAIN meta PROVE ExtentOf(c) \in Ext /\ own2[ExtentOf(c)] = Meta
    <3>1. ExtentOf(c) \in Ext /\ own[ExtentOf(c)] = Meta BY DEF OwnInv
    <3> QED BY <3>1, <1>14 DEF Free, Meta
  <2>3. ASSUME NEW x \in Ext
        PROVE  \/ own2[x] = Free
               \/ \E i \in DOMAIN log : own2[x] = <<"data", i>> /\ log[i].extent = x
               \/ own2[x] = Meta /\ \E c \in DOMAIN meta : ExtentOf(c) = x
               \/ \E c \in Batch : own2[x] = <<"adv", c>> /\ f[c] = x
    <3>1. CASE \E b \in Batch : f[b] = x BY <3>1, <1>14
    <3>2. CASE own2[x] = own[x] BY <3>2, <1>16, <1>17 DEF OwnInv
    <3> QED BY <3>1, <3>2, <1>14
  <2>4. \A i : Data(log, i)' <=> Data(log, i) BY DEF Data
  <2> QED BY <2>1, <2>2, <2>3, <2>4, <1>4, <1>5, <1>14, <1>15, <1>17 DEF OwnInv
<1>20. AddrInv(log)'
  <2>1. Role("alloc")' = {} /\ given' = given BY <1>3, <1>4 DEF Role
  <2>2. \A b \in Batch : next_addr'[b] % PagesPerExtent = 0
    <3>1. 0 % PagesPerExtent = 0 BY HeadExtent, ExtentBase, MiniSizeAssumption
    <3> QED BY <3>1, <1>1
  <2>3. \A g \in given : \E i \in DOMAIN log : Data(log, i) /\ log[i].extent = ExtentOf(g.addr) /\ log[i].batch = g.batch
    BY DEF AddrInv
  <2> QED BY <2>1, <2>2, <2>3 DEF AddrInv, Data
<1>21. KeyInv(log)' BY <1>1, <1>4 DEF KeyInv
<1>22. CalmRefs(own2)'
  <2>1. \A x \in Ext : refc[x] = CalmCount(own, x) BY <1>6, CalmRefsBefore DEF CalmRefs
  <2>2. own[1] = Meta BY HeadExtent DEF OwnInv, ListInv
  <2>3. ASSUME NEW x \in Ext PROVE refc'[x] = CalmCount(own2, x)'
    <3>1. CASE \E b \in Batch : f[b] = x
      <4>1. PICK b \in Batch : f[b] = x BY <3>1
      <4>2. own2[x] = <<"adv", b>> /\ x # 1 BY <4>1, <2>2, <1>7, <1>14 DEF Free, Meta
      <4>3. refc'[x] = AL_ONE_REF BY <4>1, <1>5
      <4> QED BY <4>2, <4>3 DEF CalmCount, Free
    <3>2. CASE ~(\E b \in Batch : f[b] = x)
      <4>1. refc'[x] = refc[x] /\ own2[x] = own[x] BY <3>2, <1>5, <1>14
      <4>2. CalmCount(own2, x)' = CalmCount(own, x) BY <4>1, <1>4 DEF CalmCount
      <4> QED BY <4>1, <4>2, <2>1
    <3> QED BY <3>1, <3>2
  <2> QED BY <2>3 DEF CalmRefs
<1>23. Inv(log, start, own2)'
  BY <1>4, <1>6, <1>8, <1>9, <1>10, <1>11, <1>12, <1>19, <1>20, <1>21, <1>22, CalmInv
<1> QED BY <1>23

-----------------------------------------------------------------------------
(* mini_init                                                               *)
LEMMA InitInv ==
    ASSUME MiniInit
    PROVE  \E start, own : Inv(<<>>, start, own)
<1> USE DEF MiniInit
<1>1. PICK start : start = [a \in {meta_head} |-> 0] OBVIOUS
<1>2. PICK own : own = [e \in Ext |-> IF e = 1 THEN Meta ELSE IF e \in 2 .. NumBatches + 1 THEN <<"adv", e - 2>> ELSE Free] OBVIOUS
<1>3. meta_head \in Nat /\ ExtentOf(meta_head) = 1 /\ 1 \in Ext /\ 0 % PagesPerExtent = 0
  <2>1. 0 % PagesPerExtent = 0 BY ExtentBase, MiniSizeAssumption
  <2> QED BY <2>1, HeadExtent
<1>4. \A b \in Batch : b + 2 \in Ext /\ b + 2 # 1 /\ b + 2 \in 2 .. NumBatches + 1 /\ (b + 2) - 2 = b
  <2> SUFFICES ASSUME NEW b \in Batch PROVE b + 2 \in Ext /\ b + 2 # 1 /\ b + 2 \in 2 .. NumBatches + 1 /\ (b + 2) - 2 = b OBVIOUS
  <2>1. b \in Nat /\ b < NumBatches /\ NumBatches \in Nat /\ MiniExtents \in Nat /\ NumBatches < MiniExtents BY MiniSizeAssumption DEF Batch
  <2> HIDE DEF MiniInit
  <2> QED BY <2>1 DEF Ext
<1>5. \A u \in MiniThread : mpc[u] = "idle" /\ lv[u] = NoLocals /\ lv[u].op = "none" BY DEF NoLocals
<1>6. \A op : op # "none" => Role(op) = {} BY <1>5 DEF Role
<1>7. TypeOK
  <2>1. refc \in [Ext -> Int]
    <3> SUFFICES ASSUME NEW e \in Ext PROVE refc[e] \in Int BY DEF Ext
    <3>1. refc[e] \in {AL_ONE_REF, MINI_NO_REFS + 1, AL_FREE} OBVIOUS
    <3> QED BY <3>1 DEF AL_ONE_REF, MINI_NO_REFS, AL_FREE
  <2>2. DOMAIN meta \subseteq Nat /\ meta \in [DOMAIN meta -> PageRec]
    <3>1. NewPage \in PageRec BY DEF NewPage, PageRec, NoPage
    <3> QED BY <3>1, <1>3
  <2>3. next_extent \in [Batch -> Ext] BY <1>4
  <2>4. held \in [Rs -> Nat] BY DEF Rs
  <2>5. mpc \in [MiniThread -> PCs] BY DEF PCs
  <2>6. given \in SUBSET GivenRec /\ IsFiniteSet(given) BY FS_EmptySet
  <2>7. \A t \in MiniThread : LocalsAt(mpc[t], lv[t]) BY <1>5 DEF LocalsAt
  <2>8. claim \in [DOMAIN claim -> MiniThread] OBVIOUS
  <2> QED BY <2>1, <2>2, <2>3, <2>4, <2>5, <2>6, <2>7, <2>8 DEF TypeOK
<1>8. NoBlocks /\ (keyed => NoneHeld)
  BY DEF NoBlocks, NoneHeld, Rs
<1>9. RoleInv
  <2>1. \A r \in Rs : r # Whole => held[r] = 0 BY DEF Rs
  <2>2. \A u \in MiniThread : mpc[u] \notin WaitPCs BY <1>5 DEF WaitPCs
  <2>3. \A u \in MiniThread : allocs[u] = 0 OBVIOUS
  <2>4. life = "open" /\ num_extents = NumBatches + 1 /\ given = {} OBVIOUS
  <2> HIDE DEF MiniInit
  <2> QED BY <1>5, <1>6, <1>8, <2>1, <2>2, <2>3, <2>4 DEF RoleInv
<1>10. Walkers = {} BY <1>6 DEF Walkers
<1>11. <<>> \in Seq(EntryRec) /\ Len(<<>>) = 0 /\ DOMAIN <<>> = {} OBVIOUS
<1>12. ListInv(<<>>, start)
  <2>1. DOMAIN meta = {meta_head} /\ meta_tail = meta_head /\ start[meta_head] = 0 /\ start \in [DOMAIN meta -> Nat] BY <1>1
  <2>2. meta[meta_head].next = NoPage /\ meta[meta_head].entries = <<>> BY DEF NewPage
  <2>3. PageInv(<<>>, start, meta_head)
    <3>1. \A k : k \notin 1 .. Len(meta[meta_head].entries) BY <2>2, <1>11
    <3>2. start[meta_head] + Len(meta[meta_head].entries) = 0 BY <2>1, <2>2, <1>11
    <3> QED BY <3>1, <3>2, <2>1, <2>2, <1>11 DEF PageInv
  <2>4. PageOrder(start, meta_head, meta_head) BY <2>1 DEF PageOrder
  <2> QED BY <2>1, <2>3, <2>4, <1>6, <1>10, <1>11 DEF ListInv
<1>13. ClaimInv BY <1>5, <1>6 DEF ClaimInv
<1>14. BatchInv(<<>>) BY <1>11 DEF BatchInv
<1>15. /\ DOMAIN own = Ext /\ own[1] = Meta /\ \A b \in Batch : own[b + 2] = <<"adv", b>>
       /\ \A e \in Ext : own[e] = Free \/ e = 1 \/ \E b \in Batch : e = b + 2
       /\ \A e \in Ext : own[e] = Free => e # 1 /\ e \notin 2 .. NumBatches + 1
  <2>1. DOMAIN own = Ext /\ own[1] = Meta BY <1>2, <1>3
  <2>2. \A b \in Batch : own[b + 2] = <<"adv", b>> BY <1>2, <1>4
  <2>3. ASSUME NEW e \in Ext, e # 1, own[e] # Free PROVE \E b \in Batch : e = b + 2
    <3>1. e \in 2 .. NumBatches + 1 BY <2>3, <1>2
    <3>2. e - 2 \in Batch /\ e = (e - 2) + 2 BY <3>1, MiniSizeAssumption DEF Batch
    <3> QED BY <3>2
  <2>4. \A e \in Ext : own[e] = Free => e # 1 /\ e \notin 2 .. NumBatches + 1 BY <1>2, <2>1 DEF Free, Meta
  <2> QED BY <2>1, <2>2, <2>3, <2>4
<1>16. (\A b \in Batch : Pending(b)) /\ (\A t \in MiniThread : ~Flying(t)) BY <1>5 DEF Pending, Flying
<1>17. OwnInv(<<>>, own)
  <2>1. \A b \in Batch : next_extent[b] = b + 2 OBVIOUS
  <2> QED BY <2>1, <1>3, <1>11, <1>15, <1>16 DEF OwnInv
<1>18. AddrInv(<<>>) BY <1>3, <1>6 DEF AddrInv
<1>19. KeyInv(<<>>)
  <2>1. Leaves = {} BY DEF Leaves
  <2>2. Cardinality(Leaves) = 0 BY <2>1, FS_EmptySet
  <2> QED BY <2>1, <2>2, <1>6, <1>11, MiniKeyAssumption DEF KeyInv
<1>20. WalkInv(<<>>, start) /\ OrderInv(<<>>, start) /\ BlockInv BY <1>6, <1>8 DEF WalkInv, OrderInv, BlockInv, NoBlocks
<1>21. LiveInv
  <2>1. CASE keyed BY <2>1 DEF LiveInv, Building
  <2>2. CASE ~keyed
    <3>1. held[Whole] = 1 /\ Whole \in Rs BY <2>2 DEF Rs
    <3> QED BY <3>1 DEF LiveInv
  <2> QED BY <2>1, <2>2
<1>22. RefInv(<<>>, start, own)
  <2>1. \A e \in Ext : own[e] = Free => refc[e] = AL_FREE BY <1>15
  <2>2. \A b \in Batch : refc[next_extent[b]] = AL_ONE_REF BY <1>4
  <2>3. FirstCount = MINI_NO_REFS + IF keyed THEN 0 ELSE 1
    <3>1. {t \in MiniThread : blocked[t] # {}} = {} OBVIOUS
    <3>2. Cardinality({}) = 0 BY FS_EmptySet
    <3>3. held[Whole] = IF keyed THEN 0 ELSE 1 BY DEF Rs
    <3>4. Role("prefetch") = {} BY <1>6
    <3> HIDE DEF MiniInit
    <3>5. CASE keyed BY <3>1, <3>2, <3>5 DEF FirstCount
    <3>6. CASE ~keyed BY <3>2, <3>3, <3>4, <3>6 DEF FirstCount
    <3> QED BY <3>5, <3>6
  <2>4. MetaRefs(start, 1)
    <3>1. refc[1] = IF keyed THEN AL_ONE_REF ELSE MINI_NO_REFS + 1 BY <1>3
    <3> QED BY <3>1, <2>3 DEF MetaRefs, AL_ONE_REF, MINI_NO_REFS
  <2> QED BY <2>1, <2>2, <2>4, <1>3, <1>11, <1>16 DEF RefInv
<1>23. Inv(<<>>, start, own)
  BY <1>7, <1>9, <1>12, <1>13, <1>14, <1>17, <1>18, <1>19, <1>20, <1>21, <1>22 DEF Inv
<1> QED BY <1>23

-----------------------------------------------------------------------------
(* Steps of threads that neither allocate nor release: the entries, the    *)
(* owners, the addresses and the keys stay.                                *)
Elsewhere ==
    \A u \in MiniThread :
        \/ mpc'[u] = mpc[u] /\ lv'[u] = lv[u]
        \/ lv[u].op \notin {"alloc", "release"} /\ lv'[u].op \notin {"alloc", "release"}

(* Such steps keep the entries, the owners, the addresses and the keys.    *)
LEMMA WalkFrame ==
    ASSUME NEW log, NEW own, TypeOK, TypeOK', Elsewhere, log \in Seq(EntryRec),
           BatchInv(log), OwnInv(log, own), AddrInv(log), KeyInv(log),
           keyed' = keyed, meta' = meta, next_addr' = next_addr, next_extent' = next_extent, given' = given,
           life' = "open" <=> life = "open", life' = "released" => life = "released"
    PROVE  /\ BatchInv(log)' /\ OwnInv(log, own)' /\ AddrInv(log)' /\ KeyInv(log)'
           /\ Role("release")' = Role("release")
           /\ \A b \in Batch : Pending(b)' <=> Pending(b)
           /\ \A u \in MiniThread : (Flying(u)' <=> Flying(u)) /\ (Flying(u) => lv'[u].addr = lv[u].addr)
<1>1. \A u \in MiniThread : mpc[u] = "finish" => lv[u].op = "alloc" BY OpOfStep
<1>2. \A u \in MiniThread : mpc'[u] = "finish" => lv'[u].op = "alloc"
  <2> SUFFICES ASSUME NEW u \in MiniThread, mpc'[u] = "finish" PROVE lv'[u].op = "alloc" OBVIOUS
  <2>1. LocalsAt(mpc'[u], lv'[u]) BY DEF TypeOK
  <2> QED BY <2>1 DEF LocalsAt, AllocRec, ReleasePCs, WaitPCs, AppendPCs
<1>3. SameAllocs
  <2> SUFFICES ASSUME NEW u \in MiniThread
               PROVE /\ lv'[u].op = "alloc" => lv[u].op = "alloc" /\ lv'[u].key = lv[u].key /\ lv'[u].batch = lv[u].batch
                     /\ mpc'[u] = "finish" <=> mpc[u] = "finish"
                     /\ mpc[u] = "finish" => lv'[u] = lv[u]
    BY DEF SameAllocs
  <2> QED BY <1>1, <1>2 DEF Elsewhere
<1>4. Role("release")' = Role("release") /\ \A u \in Role("release") : u \in MiniThread /\ mpc'[u] = mpc[u] /\ lv'[u] = lv[u]
  BY DEF Role, Elsewhere
<1>5. \A b \in Batch : Pending(b)' <=> Pending(b) BY <1>4 DEF Pending
<1>6. \A b \in Batch : Ended(b)' <=> Ended(b) BY <1>4 DEF Ended
<1>7. \A u \in MiniThread : (Flying(u)' <=> Flying(u)) /\ (Flying(u) => lv'[u].addr = lv[u].addr)
  BY DEF Flying, Elsewhere
<1>8. BatchInv(log)' BY <1>6, BatchFrame
<1>9. OwnInv(log, own)' BY <1>5, <1>7, OwnFrame
<1>10. AddrInv(log)' BY <1>3, AddrFrame
<1>11. KeyInv(log)' BY <1>3, KeyFrame
<1> QED BY <1>4, <1>5, <1>7, <1>8, <1>9, <1>10, <1>11

(* The owners of the extents tell which counts a step may change.          *)
LEMMA RefFrame ==
    ASSUME NEW log, NEW start, NEW own, RefInv(log, start, own), OwnInv(log, own), next_extent' = next_extent,
           \A b \in Batch : Pending(b)' <=> Pending(b),
           \A u \in MiniThread : (Flying(u)' <=> Flying(u)) /\ (Flying(u) => lv'[u].addr = lv[u].addr),
           \A e \in Ext : own[e][1] \in {"free", "adv", "fly"} => refc'[e] = refc[e],
           \A a \in DOMAIN meta : MetaRefs(start, ExtentOf(a))', meta' = meta,
           \A i \in DOMAIN log : Data(log, i) => DataRefs(log, start, i)',
           next_extent \in [Batch -> Ext]
    PROVE  RefInv(log, start, own)'
<1>1. \A e \in Ext : own[e] = Free => refc'[e] = AL_FREE BY DEF RefInv, Free
<1>2. \A b \in Batch : Pending(b) => refc'[next_extent[b]] = AL_ONE_REF BY DEF RefInv, OwnInv
<1>3. \A u \in MiniThread : Flying(u) => refc'[ExtentOf(lv[u].addr)] = AL_ONE_REF
  <2> SUFFICES ASSUME NEW u \in MiniThread, Flying(u) PROVE refc'[ExtentOf(lv[u].addr)] = AL_ONE_REF OBVIOUS
  <2>1. PICK e \in Ext : e = ExtentOf(lv[u].addr) /\ own[e] = <<"fly", u>> BY DEF OwnInv
  <2>2. refc[e] = AL_ONE_REF BY <2>1 DEF RefInv
  <2>3. own[e][1] = "fly" BY <2>1
  <2> QED BY <2>1, <2>2, <2>3
<1>4. \A u \in MiniThread : Flying(u) => ExtentOf(lv[u].addr)' = ExtentOf(lv[u].addr) BY DEF ExtentOf
<1>5. \A u \in MiniThread : Flying(u)' => refc'[ExtentOf(lv[u].addr)'] = AL_ONE_REF BY <1>3, <1>4
<1>6. \A a \in DOMAIN meta' : MetaRefs(start, ExtentOf(a))' OBVIOUS
<1>7. \A i \in DOMAIN log : Data(log, i)' => DataRefs(log, start, i)' BY DEF Data
<1> HIDE DEF RefInv
<1>8. /\ \A e \in Ext : own[e] = Free => refc'[e] = AL_FREE
      /\ \A b \in Batch : Pending(b)' => refc'[next_extent'[b]] = AL_ONE_REF
      /\ \A u \in MiniThread : Flying(u)' => refc'[ExtentOf(lv[u].addr)'] = AL_ONE_REF
  BY <1>1, <1>2, <1>5
<1> QED BY <1>6, <1>7, <1>8 DEF RefInv

(* While the allocator lives, the counts of the meta pages are simple.     *)
LEMMA LiveMeta ==
    ASSUME NEW log, NEW start, NEW own, RefInv(log, start, own), OwnInv(log, own), life # "gone", life' # "gone", meta' = meta,
           \A e \in Ext : own[e] = Meta /\ e # 1 => refc'[e] = refc[e], refc'[1] = FirstCount'
    PROVE  \A a \in DOMAIN meta : MetaRefs(start, ExtentOf(a))'
<1> SUFFICES ASSUME NEW a \in DOMAIN meta PROVE MetaRefs(start, ExtentOf(a))' OBVIOUS
<1>1. ExtentOf(a) \in Ext /\ own[ExtentOf(a)] = Meta BY DEF OwnInv
<1>2. MetaRefs(start, ExtentOf(a)) BY DEF RefInv
<1>3. PICK e \in Ext : e = ExtentOf(a) /\ own[e] = Meta BY <1>1
<1>4. MetaRefs(start, e)' BY <1>2, <1>3 DEF MetaRefs
<1>5. ExtentOf(a)' = e BY <1>3 DEF ExtentOf
<1> QED BY <1>4, <1>5 DEF MetaRefs, Unreached

(* The first extent holds the first meta page.                             *)
LEMMA FirstExtent ==
    ASSUME NEW log, NEW start, NEW own, ListInv(log, start), OwnInv(log, own), RefInv(log, start, own), life # "gone"
    PROVE  own[1] = Meta /\ 1 \in Ext /\ refc[1] = FirstCount
<1>1. meta_head \in DOMAIN meta /\ ExtentOf(meta_head) = 1 BY HeadExtent DEF ListInv
<1>2. own[1] = Meta /\ 1 \in Ext BY <1>1, HeadExtent DEF OwnInv
<1>3. MetaRefs(start, ExtentOf(meta_head)) BY <1>1 DEF RefInv
<1> QED BY <1>1, <1>2, <1>3 DEF MetaRefs

(* Entries have extents of their own.                                      *)
LEMMA EntryExtents ==
    ASSUME NEW log, NEW own, log \in Seq(EntryRec), OwnInv(log, own)
    PROVE  /\ \A i \in DOMAIN log : Data(log, i) =>
                log[i].extent \in Ext /\ own[log[i].extent] = <<"data", i>> /\ own[log[i].extent][1] = "data"
           /\ \A i, k \in DOMAIN log : Data(log, i) /\ Data(log, k) /\ log[i].extent = log[k].extent => i = k
           /\ \A i \in DOMAIN log, a \in DOMAIN meta : Data(log, i) => log[i].extent # ExtentOf(a)
<1>1. \A i \in DOMAIN log : Data(log, i) => log[i].extent \in Ext BY LogEntries
<1>2. \A i \in DOMAIN log : Data(log, i) => own[log[i].extent] = <<"data", i>> BY DEF OwnInv
<1>3. \A a \in DOMAIN meta : own[ExtentOf(a)] = <<"meta", 0>> BY DEF OwnInv, Meta
<1>4. \A i \in DOMAIN log : Data(log, i) => own[log[i].extent][1] = "data"
  <2> SUFFICES ASSUME NEW i \in DOMAIN log, Data(log, i) PROVE own[log[i].extent][1] = "data" OBVIOUS
  <2>1. own[log[i].extent] = <<"data", i>> BY <1>2
  <2> QED BY <2>1
<1>5. ASSUME NEW i \in DOMAIN log, NEW k \in DOMAIN log, Data(log, i), Data(log, k), log[i].extent = log[k].extent PROVE i = k
  <2>1. own[log[i].extent] = <<"data", i>> /\ own[log[i].extent] = <<"data", k>> BY <1>2, <1>5
  <2> QED BY <2>1
<1>6. ASSUME NEW i \in DOMAIN log, NEW a \in DOMAIN meta, Data(log, i) PROVE log[i].extent # ExtentOf(a)
  <2>1. own[log[i].extent] = <<"data", i>> /\ own[ExtentOf(a)] = <<"meta", 0>> BY <1>2, <1>3, <1>6
  <2> QED BY <2>1
<1> QED BY <1>1, <1>2, <1>4, <1>5, <1>6

-----------------------------------------------------------------------------
(* Where a walk is.                                                        *)

(* The entries of a page, and the page behind it.                          *)
LEMMA PageBounds ==
    ASSUME TypeOK, NEW log, NEW start, NEW own, ListInv(log, start), OwnInv(log, own), NEW a \in DOMAIN meta
    PROVE  /\ start[a] \in Nat /\ Len(meta[a].entries) \in Nat /\ Len(log) \in Nat /\ DOMAIN log = 1 .. Len(log)
           /\ start[a] + Len(meta[a].entries) <= Len(log)
           /\ \A k \in 1 .. Len(meta[a].entries) : meta[a].entries[k] = log[start[a] + k]
           /\ meta[a].next = NoPage <=> a = meta_tail
           /\ a = meta_tail => start[a] + Len(meta[a].entries) = Len(log)
           /\ a # meta_tail => /\ meta[a].next \in DOMAIN meta
                               /\ start[meta[a].next] = start[a] + Len(meta[a].entries)
                               /\ Len(meta[a].entries) > 0
                               /\ meta[a].next = a + 1 \/ (a + 1) % PagesPerExtent = 0
<1>1. PageInv(log, start, a) BY DEF ListInv
<1>2. start[a] \in Nat /\ Len(log) \in Nat /\ DOMAIN log = 1 .. Len(log) BY LogEntries DEF ListInv
<1>3. meta[a] \in PageRec BY DEF TypeOK
<1>4. Len(meta[a].entries) \in Nat BY <1>3 DEF PageRec
<1>5. \A c \in DOMAIN meta : c # NoPage
  <2>1. \A c \in DOMAIN meta : ExtentOf(c) \in Ext BY DEF OwnInv
  <2>2. ~(0 \in Ext) BY MiniSizeAssumption DEF Ext
  <2> QED BY <2>1, <2>2, HeadExtent
<1> QED BY <1>1, <1>2, <1>4, <1>5 DEF PageInv

(* The pages are in order, the last one is the tail.                       *)
LEMMA PagesOrdered ==
    ASSUME TypeOK, NEW log, NEW start, NEW own, ListInv(log, start), OwnInv(log, own), NEW a \in DOMAIN meta, NEW c \in DOMAIN meta
    PROVE  /\ start[a] < start[c] => start[a] + Len(meta[a].entries) <= start[c]
           /\ start[a] < start[c] /\ ExtentOf(a) = ExtentOf(c) => a < c
           /\ start[a] = start[c] => a = c
           /\ a = meta_tail => start[c] <= start[a]
<1>1. PageOrder(start, a, c) /\ (start[a] = start[c] => a = c) BY DEF ListInv
<1>2. a = meta_tail => start[c] <= start[a]
  <2> SUFFICES ASSUME a = meta_tail, start[a] < start[c] PROVE FALSE
    <3>1. start[a] \in Nat /\ start[c] \in Nat BY PageBounds
    <3> QED BY <3>1
  <2>1. start[a] + Len(meta[a].entries) = Len(log) /\ start[a] \in Nat /\ Len(meta[a].entries) \in Nat /\ Len(log) \in Nat BY PageBounds
  <2>2. start[c] \in Nat /\ Len(meta[c].entries) \in Nat /\ start[c] + Len(meta[c].entries) <= Len(log)
        /\ (c # meta_tail => Len(meta[c].entries) > 0)
    BY PageBounds
  <2>3. start[a] + Len(meta[a].entries) <= start[c] BY <1>1 DEF PageOrder
  <2>4. c # meta_tail
    <3>1. start[a] # start[c] BY <2>1, <2>2
    <3> QED BY <3>1
  <2> QED BY <2>1, <2>2, <2>3, <2>4
<1> QED BY <1>1, <1>2 DEF PageOrder

(* A walk is at a page of the list, behind the entries it has passed.      *)
LEMMA WalkerAt ==
    ASSUME TypeOK, NEW log, NEW start, NEW own, ListInv(log, start), OwnInv(log, own), NEW t \in Walkers
    PROVE  /\ t \in MiniThread /\ lv[t] \in WalkRec /\ lv[t].page \in DOMAIN meta /\ lv[t].i \in Nat /\ lv[t].i >= 1
           /\ lv[t].i <= Len(meta[lv[t].page].entries) + 1
           /\ Pos(start, t) \in Nat /\ Pos(start, t) = start[lv[t].page] + lv[t].i - 1
           /\ start[lv[t].page] <= Pos(start, t)
           /\ Pos(start, t) <= start[lv[t].page] + Len(meta[lv[t].page].entries)
           /\ Pos(start, t) <= Len(log)
<1>1. t \in MiniThread /\ lv[t].op \in {"inc", "prefetch", "dec", "dealloc"} BY DEF Walkers, Role
<1>2. lv[t] \in WalkRec BY <1>1, OpOfStep
<1>3. lv[t].i \in Nat BY <1>2 DEF WalkRec
<1>4. lv[t].page \in DOMAIN meta /\ lv[t].i \in 1 .. Len(meta[lv[t].page].entries) + 1 BY DEF ListInv
<1>5. PICK a \in DOMAIN meta : a = lv[t].page BY <1>4
<1>6. start[a] \in Nat /\ Len(meta[a].entries) \in Nat /\ Len(log) \in Nat /\ start[a] + Len(meta[a].entries) <= Len(log) BY PageBounds
<1>7. PICK i \in Nat : i = lv[t].i BY <1>3
<1>8. Pos(start, t) = start[a] + i - 1 BY <1>5, <1>7 DEF Pos
<1>9. PICK s \in Nat, n \in Nat, m \in Nat : s = start[a] /\ n = Len(meta[a].entries) /\ m = Len(log) BY <1>6
<1>10. i >= 1 /\ i <= n + 1 /\ s + n <= m BY <1>4, <1>5, <1>6, <1>7, <1>9
<1>11. s + i - 1 \in Nat /\ s <= s + i - 1 /\ s + i - 1 <= s + n /\ s + i - 1 <= m BY <1>10
<1> QED BY <1>1, <1>2, <1>5, <1>7, <1>8, <1>9, <1>10, <1>11

(* The entry that a walk comes to.                                         *)
LEMMA EntryAt ==
    ASSUME TypeOK, NEW log, NEW start, NEW own, ListInv(log, start), OwnInv(log, own), NEW t \in Walkers,
           lv[t].i <= Len(meta[lv[t].page].entries)
    PROVE  /\ Pos(start, t) + 1 \in DOMAIN log /\ meta[lv[t].page].entries[lv[t].i] = log[Pos(start, t) + 1]
           /\ start[lv[t].page] + (lv[t].i + 1) - 1 = Pos(start, t) + 1
           /\ lv[t].i + 1 \in 1 .. Len(meta[lv[t].page].entries) + 1
           /\ Pos(start, t) < start[lv[t].page] + Len(meta[lv[t].page].entries)
<1>1. PICK a \in DOMAIN meta : a = lv[t].page BY WalkerAt
<1>2. PICK i \in Nat : i = lv[t].i /\ i >= 1 BY WalkerAt
<1>3. PICK p \in Nat : p = Pos(start, t) /\ p = start[a] + i - 1 BY WalkerAt, <1>1, <1>2
<1>4. start[a] \in Nat /\ Len(meta[a].entries) \in Nat /\ Len(log) \in Nat /\ DOMAIN log = 1 .. Len(log)
      /\ start[a] + Len(meta[a].entries) <= Len(log)
      /\ \A k \in 1 .. Len(meta[a].entries) : meta[a].entries[k] = log[start[a] + k]
  BY PageBounds
<1>5. i <= Len(meta[a].entries) BY <1>1, <1>2
<1>6. i \in 1 .. Len(meta[a].entries) /\ start[a] + i = p + 1 BY <1>2, <1>3, <1>4, <1>5
<1>7. meta[a].entries[i] = log[p + 1] BY <1>4, <1>6
<1>8. PICK s \in Nat, n \in Nat, m \in Nat : s = start[a] /\ n = Len(meta[a].entries) /\ m = Len(log) BY <1>4
<1>9. p = s + i - 1 /\ i <= n /\ s + n <= m BY <1>3, <1>4, <1>5, <1>8
<1>12. i >= 1 BY <1>2
<1>13. p + 1 <= m /\ i + 1 <= n + 1 /\ s + (i + 1) - 1 = p + 1 /\ p < s + n BY <1>9, <1>12
<1>10. p + 1 \in 1 .. m /\ i + 1 \in 1 .. n + 1 /\ s + (i + 1) - 1 = p + 1 /\ p < s + n BY <1>13, <1>12
<1> QED BY <1>1, <1>2, <1>3, <1>4, <1>7, <1>8, <1>10

-----------------------------------------------------------------------------
(* Neighbours in a batch.                                                  *)
LEMMA PairFacts ==
    ASSUME NEW log, log \in Seq(EntryRec)
    PROVE  /\ \A i, j, k \in DOMAIN log : Pair(log, i, j) /\ Pair(log, i, k) => j = k
           /\ \A i, j, k \in DOMAIN log : Pair(log, i, j) /\ Pair(log, k, j) => i = k
           /\ \A i, j \in DOMAIN log : Pair(log, i, j) => ~FirstOf(log, j) /\ i < j /\ Data(log, i)
           /\ \A i, j \in DOMAIN log : Pair(log, i, j) => log[i].batch = log[j].batch
<1>1. DOMAIN log \subseteq Nat BY LogEntries
<1> QED BY <1>1 DEF Pair, FirstOf

(* A range has a lower and an upper key.                                   *)
LEMMA RangeBounds ==
    ASSUME NEW r \in Rs
    PROVE  r[1] \in Nat /\ r[2] \in Nat /\ r[1] <= r[2]
<1>1. LastKey \in Nat /\ PackedLeaves \subseteq 1 .. LastKey /\ PackedLeaves # {} BY MiniKeyAssumption
<1>2. PICK n \in PackedLeaves : TRUE BY <1>1
<1>3. 1 <= LastKey BY <1>1, <1>2
<1>4. CASE r \in Ranges BY <1>4, MiniKeyAssumption
<1>5. CASE r = Whole BY <1>5, <1>1, <1>3 DEF Whole
<1> QED BY <1>4, <1>5 DEF Rs

(* What a part of a range hits, the range hits.                            *)
LEMMA HitWithin ==
    ASSUME NEW log, log \in Seq(EntryRec), NEW r \in Rs, NEW s \in Rs, Within(r, s), NEW i \in DOMAIN log, Hit(log, r, i)
    PROVE  Hit(log, s, i)
<1>1. PICK j \in DOMAIN log : Pair(log, i, j) /\ Hits(log, r, i, j) BY DEF Hit
<1>2. ~FirstOf(log, j) /\ Data(log, i) BY <1>1, PairFacts
<1>3. PICK ki \in Nat : ki = log[i].key BY LogEntries
<1>4. PICK kj \in Nat : kj = log[j].key BY LogEntries
<1>5. PICK r1 \in Nat, r2 \in Nat, s1 \in Nat, s2 \in Nat : r1 = r[1] /\ r2 = r[2] /\ s1 = s[1] /\ s2 = s[2] BY RangeBounds
<1>6. s1 <= r1 /\ r2 <= s2 /\ s1 <= s2 /\ r1 <= r2 BY <1>5, RangeBounds DEF Within
<1>7. \A k \in Nat : /\ StateOf(r, k) = IF k < r1 THEN "before_start" ELSE IF k <= r2 THEN "in_range" ELSE "after_end"
                     /\ StateOf(s, k) = IF k < s1 THEN "before_start" ELSE IF k <= s2 THEN "in_range" ELSE "after_end"
  BY <1>5 DEF StateOf
<1>8. Hits(log, s, i, j)
  BY <1>1, <1>2, <1>3, <1>4, <1>6, <1>7 DEF Hits, Intersects, StateAt
<1> QED BY <1>1, <1>8 DEF Hit

(* A walk over any range counts the one extent of a batch with one entry.  *)
LEMMA TopHit ==
    ASSUME NEW log, log \in Seq(EntryRec), NEW i \in DOMAIN log, NEW j \in DOMAIN log, Top(log, i, j)
    PROVE  \A r : Hits(log, r, i, j) /\ Hit(log, r, i)
<1>1. Pair(log, i, j) /\ FirstOf(log, i) /\ ~FirstOf(log, j) /\ ~Data(log, j) BY PairFacts DEF Top
<1>2. \A r : Hits(log, r, i, j) BY <1>1 DEF Hits, Intersects, StateAt
<1> QED BY <1>1, <1>2 DEF Hit

(* A batch with one entry, which a walk over any range counts: that of the *)
(* only leaf or of the root above the leaves.                              *)
LEMMA TopExists ==
    ASSUME NEW log, NEW start, NEW own, Inv(log, start, own), keyed, life = "released", Role("release") = {}
    PROVE  \E i, j \in DOMAIN log : Top(log, i, j)
<1> USE DEF Inv
<1>1. log \in Seq(EntryRec) /\ DOMAIN log \subseteq Nat BY LogEntries DEF ListInv
<1>2. \A b \in Batch : Ended(b) BY DEF Ended
<1>3. ASSUME NEW b \in Batch, NEW i \in DOMAIN log, Data(log, i), log[i].batch = b,
             \A k \in DOMAIN log : Data(log, k) /\ log[k].batch = b => k = i
      PROVE  \E j \in DOMAIN log : Top(log, i, j)
  <2>1. PICK j \in DOMAIN log : log[j].batch = b /\ ~Data(log, j) BY <1>2 DEF BatchInv
  <2>2. \A k \in DOMAIN log : ~Data(log, k) => LastOf(log, k) BY DEF BatchInv
  <2>3. i < j
    <3>1. i # j BY <2>1, <1>3
    <3>2. ~(i > j) BY <2>1, <2>2, <1>3 DEF LastOf
    <3> QED BY <3>1, <3>2, <1>1
  <2>4. \A k \in DOMAIN log : i < k /\ k < j => log[k].batch # b
    <3> SUFFICES ASSUME NEW k \in DOMAIN log, i < k, k < j, log[k].batch = b PROVE FALSE OBVIOUS
    <3>1. ~Data(log, k) BY <1>3, <1>1
    <3>2. LastOf(log, k) BY <3>1, <2>2
    <3> QED BY <3>2, <2>1, <1>1 DEF LastOf
  <2>5. FirstOf(log, i)
    <3> SUFFICES ASSUME NEW k \in DOMAIN log, k < i, log[k].batch = b PROVE FALSE BY <1>3 DEF FirstOf
    <3>1. ~Data(log, k) BY <1>3, <1>1
    <3>2. LastOf(log, k) BY <3>1, <2>2
    <3> QED BY <3>2, <1>3, <1>1 DEF LastOf
  <2> QED BY <2>1, <2>3, <2>4, <2>5, <1>3 DEF Top, Pair
<1>4. CASE \E g \in given : g.batch > 0
  <2>1. PICK g \in given : g.batch > 0 BY <1>4
  <2>2. g.batch \in Batch BY DEF TypeOK, GivenRec
  <2>3. PICK i \in DOMAIN log : Data(log, i) /\ log[i].batch = g.batch BY DEF AddrInv
  <2>4. ASSUME NEW k \in DOMAIN log, Data(log, k), log[k].batch = g.batch PROVE k = i
    <3>1. log[i].batch # 0 BY <2>1, <2>2, <2>3 DEF Batch
    <3>2. ~(i < k) BY <2>3, <2>4, <3>1 DEF KeyInv
    <3>3. ~(k < i) BY <2>3, <2>4, <3>1 DEF KeyInv
    <3> QED BY <3>2, <3>3, <1>1
  <2> QED BY <2>2, <2>3, <2>4, <1>3
<1>5. CASE \A g \in given : ~(g.batch > 0)
  <2>1. \A g \in given : g.batch = 0 BY <1>5 DEF TypeOK, GivenRec, Batch
  <2>2. Leaves = given BY <2>1 DEF Leaves
  <2>3. given # {} /\ ~(Cardinality(Leaves) > 1) BY <1>5 DEF KeyInv
  <2>4. Cardinality(Leaves) = 1 /\ IsFiniteSet(Leaves) BY <2>2, <2>3, LeavesCount
  <2>5. PICK g \in given : given = {g}
    <3>1. \E x : Leaves = {x} BY <2>4, FS_Singleton
    <3> QED BY <3>1, <2>2
  <2>6. PICK i \in DOMAIN log : Data(log, i) /\ log[i].extent = ExtentOf(g.addr) /\ log[i].batch = g.batch BY DEF AddrInv
  <2>7. ASSUME NEW k \in DOMAIN log, Data(log, k), log[k].batch = g.batch PROVE k = i
    <3>1. Role("alloc") = {} BY DEF RoleInv
    <3>2. PICK h \in given : ExtentOf(h.addr) = log[k].extent BY <2>7, <3>1 DEF KeyInv
    <3>3. h = g BY <2>5
    <3> QED BY <3>2, <3>3, <2>6, <2>7, <1>1, EntryExtents
  <2>8. g.batch \in Batch BY DEF TypeOK, GivenRec
  <2> QED BY <2>6, <2>7, <2>8, <1>3
<1> QED BY <1>4, <1>5

-----------------------------------------------------------------------------
(* The tokens: references that are held, and what the walks count.         *)

(* A token is a reference or belongs to a thread.                          *)
LEMMA EveryToken ==
    ASSUME NEW k \in TokenSet
    PROVE  \/ \E r \in Rs, m \in Nat : k = <<"held", <<r, m>>>>
           \/ \E u \in MiniThread : k = <<"mine", u>> \/ k = <<"new", u>> \/ k = <<"dec", u>>
BY DEF TokenSet

(* All of these are tokens.                                                *)
LEMMA TokenMembers ==
    /\ \A r \in Rs, m \in Nat : <<"held", <<r, m>>>> \in TokenSet
    /\ \A u \in MiniThread : <<"mine", u>> \in TokenSet /\ <<"new", u>> \in TokenSet /\ <<"dec", u>> \in TokenSet
BY DEF TokenSet

(* The references to a range.                                              *)
LEMMA HeldPairs ==
    ASSUME TypeOK, NEW r \in Rs, NEW m \in Nat
    PROVE  <<r, m>> \in HeldRefs <=> m \in 1 .. held[r]
<1>1. DOMAIN held = Rs BY DEF TypeOK
<1> QED BY <1>1 DEF HeldRefs

(* HeldPairs of the state after a step.                                    *)
LEMMA HeldPairsNext ==
    ASSUME TypeOK', NEW r \in Rs, NEW m \in Nat
    PROVE  <<r, m>> \in HeldRefs' <=> m \in 1 .. held'[r]
<1>1. DOMAIN held' = Rs BY DEF TypeOK
<1> QED BY <1>1 DEF HeldRefs

(* What each kind of token stands for.                                     *)
LEMMA HeldToken ==
    ASSUME TypeOK, NEW log, NEW start, NEW i, NEW r \in Rs, NEW m \in Nat
    PROVE  Active(log, start, i, <<"held", <<r, m>>>>) <=> m \in 1 .. held[r] /\ Hit(log, r, i)
<1>1. <<r, m>> \in HeldRefs <=> m \in 1 .. held[r] BY HeldPairs
<1> QED BY <1>1 DEF Active

(* HeldToken of the state after a step.                                    *)
LEMMA HeldTokenNext ==
    ASSUME TypeOK', NEW log, NEW start, NEW i, NEW r \in Rs, NEW m \in Nat
    PROVE  Active(log, start, i, <<"held", <<r, m>>>>)' <=> m \in 1 .. held'[r] /\ Hit(log, r, i)
<1>1. <<r, m>> \in HeldRefs' <=> m \in 1 .. held'[r] BY HeldPairsNext
<1> QED BY <1>1 DEF Active, Hit, Pair, Hits, Data, StateAt, FirstOf

(* What the tokens of a thread stand for.                                  *)
LEMMA ThreadTokens ==
    ASSUME NEW log, NEW start, NEW i, NEW u \in MiniThread
    PROVE  /\ Active(log, start, i, <<"mine", u>>) <=> lv[u].op = "inc" /\ Hit(log, lv[u].mine, i)
           /\ Active(log, start, i, <<"new", u>>) <=> lv[u].op = "inc" /\ Hit(log, lv[u].range, i) /\ Passed(log, i, Pos(start, u))
           /\ Active(log, start, i, <<"dec", u>>) <=> lv[u].op = "dec" /\ Hit(log, lv[u].range, i) /\ ~Passed(log, i, Pos(start, u))
BY DEF Active, Role

(* ThreadTokens of the state after a step.                                 *)
LEMMA ThreadTokensNext ==
    ASSUME NEW log, NEW start, NEW i, NEW u \in MiniThread, NEW w, w = lv'[u], NEW p, p = start[w.page] + w.i - 1
    PROVE  /\ Active(log, start, i, <<"mine", u>>)' <=> w.op = "inc" /\ Hit(log, w.mine, i)
           /\ Active(log, start, i, <<"new", u>>)' <=> w.op = "inc" /\ Hit(log, w.range, i) /\ Passed(log, i, p)
           /\ Active(log, start, i, <<"dec", u>>)' <=> w.op = "dec" /\ Hit(log, w.range, i) /\ ~Passed(log, i, p)
<1>1. Pos(start, u)' = p BY DEF Pos
<1>2. Active(log, start, i, <<"mine", u>>)' <=> w.op = "inc" /\ Hit(log, w.mine, i)
  BY DEF Active, Role, Hit, Pair, Hits, Data, StateAt, FirstOf
<1>3. \A r : Hit(log, r, i)' <=> Hit(log, r, i) BY DEF Hit, Pair, Hits, Data, StateAt, FirstOf
<1>4. \A q : Passed(log, i, q)' <=> Passed(log, i, q) BY DEF Passed, Pair, Data
<1> QED BY <1>1, <1>2, <1>3, <1>4 DEF Active, Role

(* A thread whose locals and position a step leaves alone has the same     *)
(* tokens.                                                                 *)
LEMMA SameTokens ==
    ASSUME NEW log, NEW start, NEW i, NEW u \in MiniThread, lv'[u].op = lv[u].op,
           lv[u].op \in {"inc", "dec"} => /\ lv'[u].mine = lv[u].mine /\ lv'[u].range = lv[u].range
                                          /\ Pos(start, u)' = Pos(start, u)
    PROVE  /\ Active(log, start, i, <<"mine", u>>)' <=> Active(log, start, i, <<"mine", u>>)
           /\ Active(log, start, i, <<"new", u>>)' <=> Active(log, start, i, <<"new", u>>)
           /\ Active(log, start, i, <<"dec", u>>)' <=> Active(log, start, i, <<"dec", u>>)
<1>1. PICK w : w = lv'[u] OBVIOUS
<1>2. PICK p : p = start[w.page] + w.i - 1 OBVIOUS
<1>3. p = Pos(start, u)' BY <1>1, <1>2 DEF Pos
<1>4. lv[u].op \in {"inc", "dec"} => w.mine = lv[u].mine /\ w.range = lv[u].range /\ p = Pos(start, u)
  BY <1>1, <1>3
<1>5. w.op = lv[u].op BY <1>1
<1> QED BY <1>1, <1>2, <1>4, <1>5, ThreadTokens, ThreadTokensNext

(* No token moves.                                                         *)
LEMMA TokensStay ==
    ASSUME TypeOK, TypeOK', NEW log, NEW start, NEW i, held' = held,
           \A u \in MiniThread : lv'[u].op = lv[u].op,
           \A u \in MiniThread : lv[u].op \in {"inc", "dec"} =>
               lv'[u].mine = lv[u].mine /\ lv'[u].range = lv[u].range /\ Pos(start, u)' = Pos(start, u)
    PROVE  Tokens(log, start, i)' = Tokens(log, start, i)
<1> SUFFICES ASSUME NEW k \in TokenSet PROVE Active(log, start, i, k)' <=> Active(log, start, i, k)
  BY DEF Tokens, TokenSet
<1>1. CASE \E r \in Rs, m \in Nat : k = <<"held", <<r, m>>>>
  BY <1>1, HeldToken, HeldTokenNext
<1>2. CASE \E u \in MiniThread : k = <<"mine", u>> \/ k = <<"new", u>> \/ k = <<"dec", u>>
  <2>1. PICK u \in MiniThread : k = <<"mine", u>> \/ k = <<"new", u>> \/ k = <<"dec", u>> BY <1>2
  <2> QED BY <2>1, SameTokens
<1> QED BY <1>1, <1>2, EveryToken

(* One token takes the place of another: the count is the same.            *)
LEMMA SwapCount ==
    ASSUME NEW S, IsFiniteSet(S), NEW a \in S, NEW b, b \notin S
    PROVE  IsFiniteSet((S \ {a}) \cup {b}) /\ Cardinality((S \ {a}) \cup {b}) = Cardinality(S)
<1>1. IsFiniteSet(S \ {a}) /\ Cardinality(S \ {a}) = Cardinality(S) - 1 BY FS_RemoveElement
<1>2. IsFiniteSet((S \ {a}) \cup {b}) /\ Cardinality((S \ {a}) \cup {b}) = Cardinality(S \ {a}) + 1
  <2>1. b \notin S \ {a} OBVIOUS
  <2> QED BY <1>1, <2>1, FS_AddElement
<1>3. Cardinality(S) \in Nat BY FS_CardinalityType
<1> QED BY <1>1, <1>2, <1>3

(* When at most one token takes the place of another, the count is still   *)
(* the right one.                                                          *)
LEMMA SwapRefs ==
    ASSUME NEW log, NEW start, NEW i, DataRefs(log, start, i), keyed, keyed' = keyed, ~Building, ~Building',
           refc'[log[i].extent] = refc[log[i].extent],
           \/ Tokens(log, start, i)' = Tokens(log, start, i)
           \/ \E a \in Tokens(log, start, i), b \in TokenSet \ Tokens(log, start, i) :
                 Tokens(log, start, i)' = (Tokens(log, start, i) \ {a}) \cup {b}
    PROVE  DataRefs(log, start, i)'
<1>1. IsFiniteSet(Tokens(log, start, i)) /\ refc[log[i].extent] = Counted(Cardinality(Tokens(log, start, i))) BY DEF DataRefs
<1>2. IsFiniteSet(Tokens(log, start, i)') /\ Cardinality(Tokens(log, start, i)') = Cardinality(Tokens(log, start, i))
  <2>1. CASE Tokens(log, start, i)' = Tokens(log, start, i) BY <2>1, <1>1
  <2>2. ASSUME NEW a \in Tokens(log, start, i), NEW b \in TokenSet \ Tokens(log, start, i),
               Tokens(log, start, i)' = (Tokens(log, start, i) \ {a}) \cup {b}
        PROVE  IsFiniteSet(Tokens(log, start, i)') /\ Cardinality(Tokens(log, start, i)') = Cardinality(Tokens(log, start, i))
    <3>1. PICK S : S = Tokens(log, start, i) OBVIOUS
    <3>2. b \notin S /\ a \in S /\ IsFiniteSet(S) BY <3>1, <1>1
    <3>3. IsFiniteSet((S \ {a}) \cup {b}) /\ Cardinality((S \ {a}) \cup {b}) = Cardinality(S) BY <3>2, SwapCount
    <3> QED BY <2>2, <3>1, <3>3
  <2> QED BY <2>1, <2>2
<1>3. refc'[log[i].extent] = Counted(Cardinality(Tokens(log, start, i)')) BY <1>1, <1>2 DEF Counted
<1> QED BY <1>2, <1>3 DEF DataRefs, Counted

-----------------------------------------------------------------------------
(* Steps of a walk that count nothing: it waits, or goes on to a page.     *)

\* What such a step keeps of the local variables.
SameWalk(start, t, loc) ==
    /\ loc \in WalkRec /\ loc.page \in DOMAIN meta /\ loc.i \in 1 .. Len(meta[loc.page].entries) + 1
    /\ loc.op = lv[t].op /\ loc.range = lv[t].range /\ loc.mine = lv[t].mine
    /\ loc.did_work = lv[t].did_work /\ loc.cleanup = lv[t].cleanup
    /\ loc.extent = lv[t].extent /\ loc.state = lv[t].state
    /\ start[loc.page] + loc.i - 1 = Pos(start, t)

(* Such a step keeps everything but the claims and the order of the walks. *)
LEMMA SlideStep ==
    ASSUME NEW log, NEW start, NEW own, Inv(log, start, own), NEW t \in MiniThread, NEW from, NEW to, NEW loc,
           from \in WaitPCs \cup {"walk"}, to \in {"claim_page", "walk"}, Move(t, from, to, loc), SameWalk(start, t, loc),
           to \in WaitPCs => from \in WaitPCs /\ loc = lv[t],
           keyed' = keyed, refc' = refc, meta' = meta, meta_tail' = meta_tail, next_addr' = next_addr, next_extent' = next_extent,
           num_extents' = num_extents, held' = held, blocked' = blocked, given' = given, life' = life, allocs' = allocs,
           failed' = failed, claim' \in [DOMAIN claim' -> MiniThread]
    PROVE  /\ TypeOK' /\ RoleInv' /\ ListInv(log, start)' /\ BatchInv(log)' /\ OwnInv(log, own)' /\ AddrInv(log)' /\ KeyInv(log)'
           /\ WalkInv(log, start)' /\ RefInv(log, start, own)' /\ LiveInv' /\ failed' = {}
           /\ t \in Walkers /\ \A op : Role(op)' = Role(op)
           /\ mpc[t] = from /\ mpc'[t] = to /\ lv'[t] = loc
           /\ \A u \in MiniThread \ {t} : mpc'[u] = mpc[u] /\ lv'[u] = lv[u]
<1> USE DEF Inv
<1>1. LocalsAt(to, loc) BY DEF SameWalk, LocalsAt, WaitPCs
<1>2. /\ mpc' \in [MiniThread -> PCs] /\ DOMAIN lv' = MiniThread
      /\ \A u \in MiniThread : LocalsAt(mpc'[u], lv'[u])
      /\ mpc[t] = from /\ mpc'[t] = to /\ lv'[t] = loc
      /\ \A u \in MiniThread \ {t} : mpc'[u] = mpc[u] /\ lv'[u] = lv[u]
  BY <1>1, Moved
<1>3. TypeOK'
  <2>1. refc' \in [Ext -> Int] /\ next_addr' \in [Batch -> Nat] /\ next_extent' \in [Batch -> Ext] /\ held' \in [Rs -> Nat]
        /\ blocked' \in [MiniThread -> SUBSET Rs] /\ allocs' \in [MiniThread -> Nat] /\ meta' \in [DOMAIN meta' -> PageRec]
    BY DEF TypeOK
  <2> QED BY <1>2, <2>1 DEF TypeOK
<1>4. lv[t].op \in {"inc", "prefetch", "dec", "dealloc"} /\ t \in Walkers
  <2>1. mpc[t] \in WaitPCs => lv[t].op = "dec" BY DEF RoleInv
  <2>2. lv[t].op \in {"inc", "prefetch", "dec", "dealloc"} BY <2>1, <1>2, OpOfStep
  <2> QED BY <2>2 DEF Walkers, Role
<1>5. \A u \in MiniThread : lv'[u].op = lv[u].op BY <1>2 DEF SameWalk
<1>6. \A op : Role(op)' = Role(op) BY <1>5 DEF Role
<1>7. RoleInv'
  <2>1. \A u \in Role("release") : mpc'[u] # "release" => keyed /\ lv'[u].batch \in Batch
    <3> SUFFICES ASSUME NEW u \in Role("release"), mpc'[u] # "release" PROVE keyed /\ lv'[u].batch \in Batch OBVIOUS
    <3>1. u # t /\ u \in MiniThread BY <1>4 DEF Role
    <3> QED BY <3>1, <1>2 DEF RoleInv
  <2>2. \A u \in MiniThread : mpc'[u] \in WaitPCs => mpc[u] \in WaitPCs /\ lv'[u] = lv[u] BY <1>2
  <2>3. \A u \in Role("inc") \cup Role("prefetch") : lv'[u].range = lv[u].range /\ lv'[u].mine = lv[u].mine
    BY <1>2 DEF SameWalk, Role
  <2> QED BY <2>1, <2>2, <2>3, <1>5, RoleFrame
<1>8. Elsewhere BY <1>2, <1>4, <1>5 DEF Elsewhere
<1>9. log \in Seq(EntryRec) BY DEF ListInv
<1>10. BatchInv(log)' /\ OwnInv(log, own)' /\ AddrInv(log)' /\ KeyInv(log)'
       /\ (\A b \in Batch : Pending(b)' <=> Pending(b))
       /\ \A u \in MiniThread : (Flying(u)' <=> Flying(u)) /\ (Flying(u) => lv'[u].addr = lv[u].addr)
  BY <1>3, <1>8, <1>9, WalkFrame
<1>11. ListInv(log, start)'
  <2>1. Walkers' = Walkers BY <1>6 DEF Walkers
  <2>2. \A u \in Walkers : u \in MiniThread BY DEF Walkers, Role
  <2>3. \A u \in Walkers' : lv'[u].page \in DOMAIN meta /\ lv'[u].i \in 1 .. Len(meta[lv'[u].page].entries) + 1
    <3> SUFFICES ASSUME NEW u \in Walkers PROVE lv'[u].page \in DOMAIN meta /\ lv'[u].i \in 1 .. Len(meta[lv'[u].page].entries) + 1
      BY <2>1
    <3>1. CASE u = t BY <3>1, <1>2 DEF SameWalk
    <3>2. CASE u # t BY <3>2, <1>2, <2>2 DEF ListInv
    <3> QED BY <3>1, <3>2
  <2>4. \A u \in Role("deinit")' : lv'[u].page \in DOMAIN meta
    <3> SUFFICES ASSUME NEW u \in Role("deinit") PROVE lv'[u].page \in DOMAIN meta BY <1>6
    <3>1. u # t /\ u \in MiniThread BY <1>4 DEF Role
    <3> QED BY <3>1, <1>2 DEF ListInv
  <2> QED BY <2>3, <2>4, ListFrame
<1>12. \A u \in MiniThread : Pos(start, u)' = Pos(start, u)
  <2> SUFFICES ASSUME NEW u \in MiniThread PROVE Pos(start, u)' = Pos(start, u) OBVIOUS
  <2>1. CASE u = t BY <2>1, <1>2 DEF SameWalk, Pos
  <2>2. CASE u # t BY <2>2, <1>2 DEF Pos
  <2> QED BY <2>1, <2>2
<1>13. \A u \in Walkers : lv'[u].mine = lv[u].mine /\ lv'[u].range = lv[u].range /\ lv'[u].did_work = lv[u].did_work
                         /\ lv'[u].extent = lv[u].extent /\ lv'[u].state = lv[u].state
  BY <1>2 DEF SameWalk, Walkers, Role
<1>14. WalkInv(log, start)'
  <2> SUFFICES ASSUME NEW u \in Role("inc") \cup Role("dec")
               PROVE /\ \A k \in DOMAIN log : k > Pos(start, u)' /\ FirstOf(log, k) =>
                           lv'[u].extent[log[k].batch] = TERMINAL_EXTENT_ADDR /\ lv'[u].state[log[k].batch] = "before_start"
                     /\ \A i, k \in DOMAIN log : i <= Pos(start, u)' /\ k > Pos(start, u)' /\ Pair(log, i, k) =>
                           lv'[u].extent[log[k].batch] = log[i].extent /\ lv'[u].state[log[k].batch] = StateAt(log, lv'[u].range, i)
                     /\ \A i, j \in DOMAIN log : Top(log, i, j) /\ j <= Pos(start, u)' => lv'[u].did_work
    BY <1>6 DEF WalkInv, FirstOf, Pair, Top, StateAt, Data
  <2>1. Pos(start, u)' = Pos(start, u) /\ lv'[u].range = lv[u].range /\ lv'[u].did_work = lv[u].did_work
        /\ lv'[u].extent = lv[u].extent /\ lv'[u].state = lv[u].state
    BY <1>12, <1>13 DEF Walkers, Role
  <2> QED BY <2>1 DEF WalkInv
<1>15. Building' <=> Building BY <1>6 DEF Building
<1>16. life # "gone" BY <1>4 DEF RoleInv
<1>17. RefInv(log, start, own)'
  <2>1. FirstCount' = FirstCount BY <1>6 DEF FirstCount
  <2>2. own[1] = Meta /\ refc'[1] = FirstCount' BY <2>1, <1>16, FirstExtent
  <2>3. \A a \in DOMAIN meta : MetaRefs(start, ExtentOf(a))' BY <2>2, <1>16, LiveMeta
  <2>4. ASSUME NEW i \in DOMAIN log, Data(log, i) PROVE DataRefs(log, start, i)'
    <3>1. DataRefs(log, start, i) BY <2>4 DEF RefInv
    <3>2. Freed(start, i)' <=> Freed(start, i)
      <4>1. \A u \in Role("dealloc") : u \in MiniThread BY DEF Role
      <4> QED BY <4>1, <1>6, <1>12 DEF Freed
    <3>3. Tokens(log, start, i)' = Tokens(log, start, i)
      <4>1. \A u \in MiniThread : lv[u].op \in {"inc", "dec"} =>
               lv'[u].mine = lv[u].mine /\ lv'[u].range = lv[u].range /\ Pos(start, u)' = Pos(start, u)
        BY <1>12, <1>13 DEF Walkers, Role
      <4> QED BY <4>1, <1>3, <1>5, TokensStay
    <3> QED BY <3>1, <3>2, <3>3, <1>15 DEF DataRefs, Counted
  <2>5. next_extent \in [Batch -> Ext] BY DEF TypeOK
  <2> QED BY <2>3, <2>4, <2>5, <1>10, RefFrame
<1>18. LiveInv'
  <2>1. Walkers' # {} BY <1>4, <1>6 DEF Walkers
  <2> QED BY <2>1 DEF LiveInv
<1> QED BY <1>2, <1>3, <1>4, <1>6, <1>7, <1>10, <1>11, <1>14, <1>17, <1>18

-----------------------------------------------------------------------------
(* WaitForBlockers, ClaimPage, WalkPage.                                   *)

(* mini_wait_for_blockers keeps the invariant: nobody blocks a range whose *)
(* walk goes on.                                                           *)
LEMMA WaitForBlockersInv ==
    ASSUME NEW log, NEW start, NEW own, Inv(log, start, own), NEW t \in MiniThread, WaitForBlockers(t)
    PROVE  Inv(log, start, own)'
<1> USE DEF Inv
<1>1. /\ Move(t, "wait_blockers", "claim_page", lv[t]) /\ refc[1] = AL_ONE_REF /\ refc' = refc /\ failed' = failed
      /\ UNCHANGED otherVars
  BY DEF WaitForBlockers
<1>2. mpc[t] = "wait_blockers" BY <1>1 DEF Move
<1>3. lv[t].op = "dec" /\ t \in Walkers
  <2>1. lv[t].op = "dec" BY <1>2 DEF RoleInv, WaitPCs
  <2> QED BY <2>1 DEF Walkers, Role
<1>4. keyed /\ life # "gone" BY <1>3 DEF RoleInv, Role
<1>5. SameWalk(start, t, lv[t]) BY <1>3, WalkerAt DEF SameWalk, Pos, ListInv
<1>6. /\ TypeOK' /\ RoleInv' /\ ListInv(log, start)' /\ BatchInv(log)' /\ OwnInv(log, own)' /\ AddrInv(log)' /\ KeyInv(log)'
      /\ WalkInv(log, start)' /\ RefInv(log, start, own)' /\ LiveInv' /\ failed' = {}
      /\ \A op : Role(op)' = Role(op)
      /\ mpc[t] = "wait_blockers" /\ mpc'[t] = "claim_page" /\ lv'[t] = lv[t]
      /\ \A u \in MiniThread \ {t} : mpc'[u] = mpc[u] /\ lv'[u] = lv[u]
  <2>1. claim' \in [DOMAIN claim' -> MiniThread] BY <1>1 DEF otherVars, TypeOK
  <2>2. "wait_blockers" \in WaitPCs \cup {"walk"} /\ "claim_page" \in {"claim_page", "walk"} /\ "wait_blockers" \in WaitPCs BY DEF WaitPCs
  <2> QED BY <2>1, <2>2, <1>1, <1>5, SlideStep DEF otherVars
<1>7. ClaimInv'
  <2>1. \A u \in MiniThread : mpc'[u] \in {"append", "append_new"} => mpc[u] = mpc'[u] /\ lv'[u] = lv[u] BY <1>6
  <2>2. \A u \in Role("dec")' : mpc'[u] = "walk" => u \in Role("dec") /\ mpc[u] = "walk" /\ lv'[u].page = lv[u].page
    BY <1>6 DEF Role
  <2> QED BY <2>1, <2>2, <1>1, ClaimFrame DEF otherVars
<1>8. BlockInv'
  <2>1. FirstCount = AL_ONE_REF BY <1>1, <1>4, FirstExtent
  <2>2. {u \in MiniThread : blocked[u] # {}} = {}
    <3>1. IsFiniteSet({u \in MiniThread : blocked[u] # {}}) BY MiniThreadAssumption, FS_Subset
    <3>2. Cardinality({u \in MiniThread : blocked[u] # {}}) \in Nat BY <3>1, FS_CardinalityType
    <3>3. Cardinality({u \in MiniThread : blocked[u] # {}}) = 0 BY <2>1, <3>2, <1>4 DEF FirstCount, MINI_NO_REFS, AL_ONE_REF
    <3> QED BY <3>1, <3>3, FS_EmptySet
  <2>3. \A u \in MiniThread : blocked'[u] = {} BY <2>2, <1>1 DEF otherVars
  <2> QED BY <2>3 DEF BlockInv
<1>9. OrderInv(log, start)'
  <2>1. \A u \in MiniThread : lv'[u] = lv[u] /\ (mpc'[u] \in WaitPCs <=> mpc[u] \in WaitPCs) BY <1>6 DEF WaitPCs
  <2>2. \A u \in Role("dec") : u \in MiniThread BY DEF Role
  <2>3. held' = held BY <1>1 DEF otherVars
  <2>4. ASSUME NEW u \in Role("dec") PROVE (Behind(start, u)' <=> Behind(start, u)) /\ Pos(start, u)' = Pos(start, u)
    BY <2>1, <2>2, <2>3, <1>6 DEF Behind, Pos
  <2> QED BY <2>1, <2>2, <2>4, <1>6 DEF OrderInv, Top, Pair, FirstOf, Data
<1> QED BY <1>6, <1>7, <1>8, <1>9

(* The claim of the first page by mini_keyed_dec_ref keeps the invariant:  *)
(* the walks before it are on later pages.                                 *)
LEMMA ClaimPageInv ==
    ASSUME NEW log, NEW start, NEW own, Inv(log, start, own), NEW t \in MiniThread, ClaimPage(t)
    PROVE  Inv(log, start, own)'
<1> USE DEF Inv
<1>1. /\ Move(t, "claim_page", "walk", lv[t]) /\ ~Claimed(lv[t].page) /\ claim' = Put(claim, lv[t].page, t)
      /\ UNCHANGED <<keyed, refc, meta, meta_tail, next_addr, next_extent, num_extents, held, blocked, given, life, allocs, reloads, failed>>
  BY DEF ClaimPage
<1>2. mpc[t] = "claim_page" BY <1>1 DEF Move
<1>3. lv[t].op = "dec" /\ t \in Walkers /\ t \in Role("dec") /\ lv[t].page = meta_head /\ lv[t].cleanup
  <2>1. lv[t].op = "dec" /\ lv[t].page = meta_head /\ lv[t].cleanup BY <1>2 DEF RoleInv, WaitPCs
  <2> QED BY <2>1 DEF Walkers, Role
<1>5. SameWalk(start, t, lv[t]) BY <1>3, WalkerAt DEF SameWalk, Pos, ListInv
<1>4. claim' \in [DOMAIN claim' -> MiniThread] /\ DOMAIN claim' = DOMAIN claim \cup {meta_head} /\ claim'[meta_head] = t
      /\ (\A a \in DOMAIN claim : claim'[a] = claim[a]) /\ meta_head \notin DOMAIN claim
  <2>1. claim' = [x \in DOMAIN claim \cup {meta_head} |-> IF x = meta_head THEN t ELSE claim[x]] BY <1>1, <1>3 DEF Put
  <2>2. meta_head \notin DOMAIN claim BY <1>1, <1>3 DEF Claimed
  <2>3. \A x \in DOMAIN claim : claim[x] \in MiniThread BY DEF TypeOK
  <2> QED BY <2>1, <2>2, <2>3
<1>6. /\ TypeOK' /\ RoleInv' /\ ListInv(log, start)' /\ BatchInv(log)' /\ OwnInv(log, own)' /\ AddrInv(log)' /\ KeyInv(log)'
      /\ WalkInv(log, start)' /\ RefInv(log, start, own)' /\ LiveInv' /\ failed' = {}
      /\ \A op : Role(op)' = Role(op)
      /\ mpc[t] = "claim_page" /\ mpc'[t] = "walk" /\ lv'[t] = lv[t]
      /\ \A u \in MiniThread \ {t} : mpc'[u] = mpc[u] /\ lv'[u] = lv[u]
  <2>2. "claim_page" \in WaitPCs \cup {"walk"} /\ "walk" \in {"claim_page", "walk"} /\ ~("walk" \in WaitPCs) BY DEF WaitPCs
  <2> QED BY <2>2, <1>1, <1>4, <1>5, SlideStep
<1>7. ClaimInv'
  <2>1. DOMAIN claim' \subseteq DOMAIN meta' BY <1>1, <1>4 DEF ClaimInv, ListInv
  <2>2. \A u \in MiniThread : mpc'[u] \in {"append", "append_new"} =>
           lv'[u].tail = meta_tail' /\ meta_tail' \in DOMAIN claim' /\ claim'[meta_tail'] = u
    BY <1>1, <1>4, <1>6 DEF ClaimInv
  <2>3. \A u \in Role("dec") : mpc'[u] = "walk" => lv'[u].page \in DOMAIN claim' /\ claim'[lv'[u].page] = u
    <3> SUFFICES ASSUME NEW u \in Role("dec"), mpc'[u] = "walk" PROVE lv'[u].page \in DOMAIN claim' /\ claim'[lv'[u].page] = u OBVIOUS
    <3>1. CASE u = t BY <3>1, <1>3, <1>4, <1>6
    <3>2. CASE u # t
      <4>1. u \in MiniThread BY DEF Role
      <4>2. mpc[u] = "walk" /\ lv'[u] = lv[u] BY <3>2, <4>1, <1>6
      <4> QED BY <4>1, <4>2, <1>4 DEF ClaimInv
    <3> QED BY <3>1, <3>2
  <2> QED BY <2>1, <2>2, <2>3, <1>6 DEF ClaimInv
<1>8. BlockInv'
  <2>1. \A u \in MiniThread : lv'[u] = lv[u] /\ (mpc'[u] = "wait_blockers" <=> mpc[u] = "wait_blockers") BY <1>6
  <2>2. \A u \in Role("inc") : u \in MiniThread BY DEF Role
  <2> QED BY <2>1, <2>2, <1>1, <1>6 DEF BlockInv
<1>9. OrderInv(log, start)'
  <2>1. \A u \in MiniThread : lv'[u] = lv[u] /\ (mpc'[u] \in WaitPCs => mpc[u] \in WaitPCs) BY <1>6 DEF WaitPCs
  <2>2. \A u \in Role("dec") : u \in MiniThread BY DEF Role
  <2>3. \A u \in MiniThread : u # t => (mpc'[u] \in WaitPCs <=> mpc[u] \in WaitPCs) BY <1>6
  <2>4. mpc[t] \in WaitPCs /\ start[meta_head] = 0 BY <1>2 DEF WaitPCs, ListInv
  <2>5. ASSUME NEW u \in Role("dec") PROVE Behind(start, u)' => Behind(start, u)
    BY <2>1, <2>2, <2>4, <1>1, <1>6, <1>3 DEF Behind
  <2>6. ASSUME NEW u \in Role("dec"), ~lv[u].cleanup PROVE Behind(start, u)'
    <3>1. Behind(start, u) BY <2>6 DEF OrderInv
    <3>2. u # t /\ u \in MiniThread BY <2>6, <1>3, <2>2
    <3>3. mpc[u] = "walk" /\ u \in Walkers
      <4>1. ~(mpc[u] \in WaitPCs) BY <2>6, <3>2 DEF RoleInv
      <4>2. lv[u].op = "dec" BY DEF Role
      <4>3. mpc[u] \in WaitPCs \cup {"walk"} BY <3>2, <4>2, OpOfStep
      <4> QED BY <4>1, <4>2, <4>3, <3>2 DEF Walkers, Role
    <3>4. lv[u].page \in DOMAIN meta /\ lv[u].page # meta_head
      <4>1. lv[u].page \in DOMAIN claim BY <3>3 DEF ClaimInv
      <4> QED BY <4>1, <1>4 DEF ClaimInv
    <3>5. start[lv[u].page] \in Nat /\ start[lv[u].page] # 0 BY <3>4, <2>4 DEF ListInv
    <3>6. start[lv'[t].page] < start[lv'[u].page] BY <3>5, <2>1, <2>2, <2>4, <1>3, <3>2
    <3> QED BY <3>6, <3>2, <1>3, <1>6 DEF Behind
  <2>7. \A u \in Role("dec") : Pos(start, u)' = Pos(start, u) /\ lv'[u].cleanup = lv[u].cleanup BY <2>1, <2>2 DEF Pos
  <2>8. \A i, j : Top(log, i, j)' <=> Top(log, i, j) BY DEF Top, Pair, FirstOf, Data
  <2> QED BY <2>5, <2>6, <2>7, <2>8, <1>6 DEF OrderInv
<1> QED BY <1>6, <1>7, <1>8, <1>9

-----------------------------------------------------------------------------

(* The walks that take references away, one behind the other.              *)
LEMMA DecAt ==
    ASSUME NEW log, NEW start, NEW own, Inv(log, start, own), NEW u \in Role("dec")
    PROVE  /\ u \in MiniThread /\ u \in Walkers /\ lv[u].op = "dec" /\ keyed /\ life = "released"
           /\ mpc[u] \notin WaitPCs => mpc[u] = "walk" /\ lv[u].page \in DOMAIN claim /\ claim[lv[u].page] = u
           /\ mpc[u] \in WaitPCs => lv[u].page = meta_head /\ start[lv[u].page] = 0 /\ Pos(start, u) = 0 /\ lv[u].cleanup
<1> USE DEF Inv
<1>1. u \in MiniThread /\ u \in Walkers /\ lv[u].op = "dec" BY DEF Role, Walkers
<1>2. keyed BY DEF RoleInv
<1>3. life = "released" BY <1>1 DEF RoleInv, TypeOK
<1>4. mpc[u] \in WaitPCs \cup {"walk"} BY <1>1, OpOfStep
<1>5. mpc[u] = "walk" => lv[u].page \in DOMAIN claim /\ claim[lv[u].page] = u BY DEF ClaimInv
<1>6. ASSUME mpc[u] \in WaitPCs PROVE lv[u].page = meta_head /\ start[lv[u].page] = 0 /\ Pos(start, u) = 0 /\ lv[u].cleanup
  <2>1. lv[u].page = meta_head /\ lv[u].i = 1 /\ lv[u].cleanup BY <1>1, <1>6 DEF RoleInv
  <2>2. start[meta_head] = 0 BY DEF ListInv
  <2> QED BY <2>1, <2>2 DEF Pos
<1> QED BY <1>1, <1>2, <1>3, <1>4, <1>5, <1>6

(* The step to the next page keeps the invariant: a dec_ref claims it      *)
(* before it lets go of its own, so none overtakes another.                *)
LEMMA WalkPageInv ==
    ASSUME NEW log, NEW start, NEW own, Inv(log, start, own), NEW t \in MiniThread, WalkPage(t)
    PROVE  Inv(log, start, own)'
<1> USE DEF Inv
<1>1. PICK a : a = lv[t].page OBVIOUS
<1>2. PICK n : n = meta[a].next OBVIOUS
<1>3. PICK loc : loc = [lv[t] EXCEPT !.page = n, !.i = 1] OBVIOUS
<1>4. /\ mpc[t] = "walk" /\ lv[t].i > Len(meta[a].entries) /\ n # NoPage
      /\ lv[t].op = "dec" => ~Claimed(n)
      /\ Move(t, "walk", "walk", loc)
      /\ claim' = IF lv[t].op = "dec" THEN Put(Release(a), n, t) ELSE claim
      /\ UNCHANGED <<keyed, refc, meta, meta_tail, next_addr, next_extent, num_extents, held, blocked, given, life, allocs, reloads, failed>>
  BY <1>1, <1>2, <1>3 DEF WalkPage
<1>5. t \in Walkers BY <1>4, OpOfStep DEF Walkers, Role
<1>6. PICK i \in Nat : i = lv[t].i /\ i <= Len(meta[a].entries) + 1 /\ Pos(start, t) = start[a] + i - 1 BY <1>1, <1>5, WalkerAt
<1>7. a \in DOMAIN meta /\ lv[t] \in WalkRec BY <1>1, <1>5, WalkerAt
<1>8. /\ start[a] \in Nat /\ Len(meta[a].entries) \in Nat /\ n \in DOMAIN meta /\ start[n] = start[a] + Len(meta[a].entries)
      /\ Len(meta[a].entries) > 0 /\ a # meta_tail
  BY <1>2, <1>4, <1>7, PageBounds
<1>9. start[n] \in Nat /\ Len(meta[n].entries) \in Nat /\ n \in Nat
  <2>1. n \in Nat BY <1>8 DEF TypeOK
  <2> QED BY <2>1, <1>8, PageBounds
<1>10. start[n] + 1 - 1 = Pos(start, t) /\ start[a] < start[n] /\ a # n
  <2>1. PICK m \in Nat, s \in Nat : m = Len(meta[a].entries) /\ s = start[a] BY <1>8
  <2>2. i = m + 1
    <3>1. i = lv[t].i /\ i <= Len(meta[a].entries) + 1 BY <1>6
    <3>2. lv[t].i > Len(meta[a].entries) BY <1>4
    <3>3. i > m BY <2>1, <3>1, <3>2
    <3>4. i <= m + 1 BY <2>1, <3>1
    <3> HIDE DEF Inv
    <3> QED BY <3>3, <3>4
  <2>3. start[n] = s + m /\ m > 0 BY <1>8, <2>1
  <2> QED BY <1>6, <2>1, <2>2, <2>3
<1>11. loc \in WalkRec /\ loc.page = n /\ loc.i = 1 BY <1>3, <1>7, <1>9 DEF WalkRec
<1>12. SameWalk(start, t, loc)
  <2>1. 1 \in 1 .. Len(meta[n].entries) + 1 BY <1>9
  <2>2. /\ loc.op = lv[t].op /\ loc.range = lv[t].range /\ loc.mine = lv[t].mine
        /\ loc.did_work = lv[t].did_work /\ loc.cleanup = lv[t].cleanup
        /\ loc.extent = lv[t].extent /\ loc.state = lv[t].state
    BY <1>3, <1>7 DEF WalkRec
  <2> QED BY <2>1, <2>2, <1>8, <1>10, <1>11 DEF SameWalk
<1>13. lv[t].op = "dec" => t \in Role("dec") /\ a \in DOMAIN claim /\ claim[a] = t /\ n \notin DOMAIN claim
                           /\ DOMAIN claim' = (DOMAIN claim \ {a}) \cup {n} /\ claim'[n] = t
                           /\ \A c \in DOMAIN claim \ {a} : claim'[c] = claim[c]
  <2> SUFFICES ASSUME lv[t].op = "dec"
               PROVE /\ t \in Role("dec") /\ a \in DOMAIN claim /\ claim[a] = t /\ n \notin DOMAIN claim
                     /\ DOMAIN claim' = (DOMAIN claim \ {a}) \cup {n} /\ claim'[n] = t
                     /\ \A c \in DOMAIN claim \ {a} : claim'[c] = claim[c]
    OBVIOUS
  <2>1. t \in Role("dec") BY DEF Role
  <2>2. a \in DOMAIN claim /\ claim[a] = t BY <2>1, <1>1, <1>4 DEF ClaimInv
  <2>3. n \notin DOMAIN claim BY <1>4 DEF Claimed
  <2>4. DOMAIN Release(a) = DOMAIN claim \ {a} /\ \A c \in DOMAIN claim \ {a} : Release(a)[c] = claim[c] BY DEF Release
  <2>5. claim' = [x \in DOMAIN Release(a) \cup {n} |-> IF x = n THEN t ELSE Release(a)[x]] BY <1>4 DEF Put
  <2> QED BY <2>1, <2>2, <2>3, <2>4, <2>5
<1>14. claim' \in [DOMAIN claim' -> MiniThread]
  <2>1. CASE lv[t].op = "dec"
    <3>1. \A x \in DOMAIN claim : claim[x] \in MiniThread BY DEF TypeOK
    <3>2. \A x \in DOMAIN claim' : claim'[x] \in MiniThread BY <3>1, <2>1, <1>13
    <3>3. claim' = [x \in DOMAIN claim' |-> claim'[x]] BY <2>1, <1>4 DEF Put
    <3> QED BY <3>2, <3>3
  <2>2. CASE lv[t].op # "dec" BY <2>2, <1>4 DEF TypeOK
  <2> QED BY <2>1, <2>2
<1>15. /\ TypeOK' /\ RoleInv' /\ ListInv(log, start)' /\ BatchInv(log)' /\ OwnInv(log, own)' /\ AddrInv(log)' /\ KeyInv(log)'
       /\ WalkInv(log, start)' /\ RefInv(log, start, own)' /\ LiveInv' /\ failed' = {}
       /\ \A op : Role(op)' = Role(op)
       /\ mpc'[t] = "walk" /\ lv'[t] = loc
       /\ \A u \in MiniThread \ {t} : mpc'[u] = mpc[u] /\ lv'[u] = lv[u]
  <2>1. "walk" \in WaitPCs \cup {"walk"} /\ "walk" \in {"claim_page", "walk"} /\ ~("walk" \in WaitPCs) BY DEF WaitPCs
  <2> QED BY <2>1, <1>4, <1>12, <1>14, SlideStep
<1>16. loc.op = lv[t].op /\ loc.mine = lv[t].mine /\ loc.cleanup = lv[t].cleanup BY <1>12 DEF SameWalk
<1>17. ClaimInv'
  <2>1. CASE lv[t].op # "dec"
    <3>1. \A u \in MiniThread : mpc'[u] \in {"append", "append_new"} => mpc[u] = mpc'[u] /\ lv'[u] = lv[u] BY <1>15
    <3>2. t \notin Role("dec") BY <2>1 DEF Role
    <3>3. \A u \in Role("dec")' : mpc'[u] = "walk" => u \in Role("dec") /\ mpc[u] = "walk" /\ lv'[u].page = lv[u].page
      BY <1>15, <3>2 DEF Role
    <3> QED BY <2>1, <3>1, <3>3, <1>4, ClaimFrame
  <2>2. CASE lv[t].op = "dec"
    <3>1. DOMAIN claim' \subseteq DOMAIN meta' BY <2>2, <1>4, <1>8, <1>13 DEF ClaimInv
    <3>2. \A u \in MiniThread : mpc'[u] \in {"append", "append_new"} =>
             lv'[u].tail = meta_tail' /\ meta_tail' \in DOMAIN claim' /\ claim'[meta_tail'] = u
      <4> SUFFICES ASSUME NEW u \in MiniThread, mpc'[u] \in {"append", "append_new"}
                   PROVE lv'[u].tail = meta_tail /\ meta_tail \in DOMAIN claim' /\ claim'[meta_tail] = u
        BY <1>4
      <4>1. u # t /\ lv'[u] = lv[u] /\ mpc[u] = mpc'[u] BY <1>15
      <4>2. lv[u].tail = meta_tail /\ meta_tail \in DOMAIN claim /\ claim[meta_tail] = u BY <4>1 DEF ClaimInv
      <4> QED BY <4>1, <4>2, <1>13, <2>2
    <3>3. \A u \in Role("dec") : mpc'[u] = "walk" => lv'[u].page \in DOMAIN claim' /\ claim'[lv'[u].page] = u
      <4> SUFFICES ASSUME NEW u \in Role("dec"), mpc'[u] = "walk" PROVE lv'[u].page \in DOMAIN claim' /\ claim'[lv'[u].page] = u OBVIOUS
      <4>1. CASE u = t BY <4>1, <2>2, <1>11, <1>13, <1>15
      <4>2. CASE u # t
        <5>1. u \in MiniThread BY DEF Role
        <5>2. mpc[u] = "walk" /\ lv'[u] = lv[u] BY <4>2, <5>1, <1>15
        <5>3. lv[u].page \in DOMAIN claim /\ claim[lv[u].page] = u BY <5>2 DEF ClaimInv
        <5> QED BY <4>2, <5>2, <5>3, <1>13, <2>2
      <4> QED BY <4>1, <4>2
    <3> QED BY <3>1, <3>2, <3>3, <1>15 DEF ClaimInv
  <2> QED BY <2>1, <2>2
<1>18. BlockInv'
  <2>1. \A u \in MiniThread : lv'[u].mine = lv[u].mine \/ u = t BY <1>15
  <2>2. lv'[t].mine = lv[t].mine BY <1>15, <1>16
  <2>3. \A u \in MiniThread : mpc[u] = "wait_blockers" => mpc'[u] = "wait_blockers" /\ lv'[u] = lv[u] BY <1>15, <1>4
  <2>4. \A u \in Role("inc") : u \in MiniThread BY DEF Role
  <2> QED BY <2>1, <2>2, <2>3, <2>4, <1>4, <1>15 DEF BlockInv
<1>19. OrderInv(log, start)'
  <2>1. \A u \in Role("dec") : u \in MiniThread BY DEF Role
  <2>2. t \in Role("dec") => lv[t].op = "dec" BY DEF Role
  <2>3. mpc[t] \notin WaitPCs /\ mpc'[t] \notin WaitPCs BY <1>4, <1>15 DEF WaitPCs
  <2>4. start[lv'[t].page] = start[n] /\ start[lv[t].page] = start[a] BY <1>1, <1>11, <1>15
  <2>5. \A u \in Role("dec") \ {t} : mpc'[u] = mpc[u] /\ lv'[u] = lv[u] BY <2>1, <1>15
  \* Nobody is at a page in between.
  <2>6. ASSUME NEW u \in Role("dec"), u # t, t \in Role("dec"), mpc[u] \notin WaitPCs
        PROVE  /\ start[lv[u].page] \in Nat
               /\ start[a] < start[lv[u].page] <=> start[n] < start[lv[u].page]
               /\ start[lv[u].page] < start[a] <=> start[lv[u].page] < start[n]
    <3>1. PICK c \in DOMAIN meta : c = lv[u].page BY <2>6, DecAt, WalkerAt
    <3>2. c \in DOMAIN claim /\ claim[c] = u BY <2>6, <3>1, DecAt
    <3>3. c # a /\ c # n BY <3>2, <2>6, <2>2, <1>13
    <3>4. start[c] \in Nat /\ start[c] # start[a] /\ start[c] # start[n] BY <3>3, <1>7, <1>8, PageBounds, PagesOrdered
    <3>5. start[a] < start[c] => start[n] <= start[c] BY <1>7, <1>8, PagesOrdered
    <3> QED BY <3>1, <3>4, <3>5, <1>8, <1>9, <1>10
  <2>7. held' = held BY <1>4
  <2>8. ASSUME NEW u \in Role("dec"), u # t PROVE Behind(start, u)' <=> Behind(start, u)
    <3>1. CASE t \notin Role("dec") BY <3>1, <2>5, <2>7, <2>8, <1>15 DEF Behind
    <3>2. CASE t \in Role("dec") /\ mpc[u] \notin WaitPCs
      <4>1. start[lv[t].page] < start[lv[u].page] <=> start[lv'[t].page] < start[lv'[u].page]
        BY <3>2, <2>4, <2>5, <2>6, <2>8
      <4> QED BY <4>1, <2>3, <2>5, <2>7, <2>8, <1>15 DEF Behind
    <3>3. CASE t \in Role("dec") /\ mpc[u] \in WaitPCs
      <4>1. start[lv[u].page] = 0 BY <3>3, DecAt
      <4>2. ~(start[lv[t].page] < start[lv[u].page]) /\ ~(start[lv'[t].page] < start[lv'[u].page])
        BY <4>1, <2>4, <2>5, <2>8, <1>8, <1>9
      <4> QED BY <4>2, <2>3, <2>5, <2>7, <2>8, <1>15 DEF Behind
    <3> QED BY <3>1, <3>2, <3>3
  <2>9. ASSUME t \in Role("dec") PROVE Behind(start, t)' <=> Behind(start, t)
    <3>1. ASSUME NEW u \in Role("dec"), u # t, mpc[u] \notin WaitPCs
          PROVE  start[lv'[u].page] < start[lv'[t].page] <=> start[lv[u].page] < start[lv[t].page]
      BY <3>1, <2>9, <2>4, <2>5, <2>6
    <3>2. (\E u \in Role("dec") : u # t /\ (mpc'[u] \in WaitPCs \/ start[lv'[u].page] < start[lv'[t].page]))
          <=> \E u \in Role("dec") : u # t /\ (mpc[u] \in WaitPCs \/ start[lv[u].page] < start[lv[t].page])
      BY <3>1, <2>5
    <3> QED BY <3>2, <2>7, <1>15 DEF Behind
  <2>10. \A u \in Role("dec") : Pos(start, u)' = Pos(start, u) /\ lv'[u].cleanup = lv[u].cleanup
    <3>1. Pos(start, t)' = Pos(start, t) /\ lv'[t].cleanup = lv[t].cleanup BY <1>10, <1>11, <1>15, <1>16 DEF Pos
    <3> QED BY <3>1, <2>5 DEF Pos
  <2>11. \A i1, j : Top(log, i1, j)' <=> Top(log, i1, j) BY DEF Top, Pair, FirstOf, Data
  <2>12. \A u \in Role("dec") : Behind(start, u)' <=> Behind(start, u) BY <2>8, <2>9
  <2> QED BY <2>10, <2>11, <2>12, <1>15 DEF OrderInv
<1> QED BY <1>15, <1>17, <1>18, <1>19

-----------------------------------------------------------------------------
(* WalkEntry: the walk of t takes entry p, and counts (hit) extent e.      *)

Taken(log, start, t, p, hit, e) ==
    /\ t \in Walkers /\ t \in MiniThread /\ lv[t] \in WalkRec /\ mpc[t] = "walk"
    /\ life = "released" /\ ~Building /\ ~Building'
    /\ p = Pos(start, t) + 1 /\ p \in DOMAIN log
    /\ Pos(start, t) \in Nat /\ Pos(start, t) < start[lv[t].page] + Len(meta[lv[t].page].entries)
    /\ hit \in BOOLEAN /\ hit = (~keyed \/ Intersects(lv[t].state[log[p].batch], NextState(lv[t], log[p])))
    /\ e = IF keyed THEN lv[t].extent[log[p].batch] ELSE log[p].extent
    /\ refc' = IF hit THEN [refc EXCEPT ![e] = Applied(lv[t].op, refc[e])] ELSE refc
    /\ failed' = IF hit => e \in Ext /\ (lv[t].op = "dealloc" => refc[e] = AL_ONE_REF) /\ refc[e] # AL_FREE THEN failed
                 ELSE failed \cup {lv[t].op}
    /\ mpc' = mpc /\ (\A op : Role(op)' = Role(op)) /\ \A u \in MiniThread \ {t} : lv'[u] = lv[u]
    /\ lv'[t].op = lv[t].op /\ lv'[t].range = lv[t].range /\ lv'[t].mine = lv[t].mine
    /\ lv'[t].page = lv[t].page /\ lv'[t].i = lv[t].i + 1
    /\ lv'[t].extent = [lv[t].extent EXCEPT ![log[p].batch] = log[p].extent]
    /\ lv'[t].state = [lv[t].state EXCEPT ![log[p].batch] = NextState(lv[t], log[p])]
    /\ lv'[t].did_work = (lv[t].did_work \/ hit)
    /\ lv'[t].cleanup = (lv[t].cleanup /\ (hit => refc'[e] = AL_FREE))
    /\ Pos(start, t)' = p /\ \A u \in MiniThread \ {t} : Pos(start, u)' = Pos(start, u)
    /\ UNCHANGED otherVars

(* The state of a batch is one of three.                                   *)
LEMMA NextStateType ==
    ASSUME NEW w, NEW x
    PROVE  NextState(w, x) \in WalkStates
BY DEF NextState, StateOf, WalkStates

(* An entry of a walk: what the step does, and the parts of the invariant  *)
(* it leaves alone.                                                        *)
LEMMA WalkEntryTaken ==
    ASSUME NEW log, NEW start, NEW own, Inv(log, start, own), NEW t \in MiniThread, WalkEntry(t)
    PROVE  /\ \E p \in Nat : \E hit, e : Taken(log, start, t, p, hit, e)
           /\ TypeOK' /\ RoleInv' /\ ListInv(log, start)' /\ BatchInv(log)' /\ OwnInv(log, own)' /\ AddrInv(log)' /\ KeyInv(log)'
           /\ ClaimInv' /\ BlockInv' /\ LiveInv'
           /\ \A b \in Batch : Pending(b)' <=> Pending(b)
           /\ \A u \in MiniThread : (Flying(u)' <=> Flying(u)) /\ (Flying(u) => lv'[u].addr = lv[u].addr)
<1> USE DEF Inv
<1>1. mpc[t] = "walk" /\ lv[t].i <= Len(meta[lv[t].page].entries) BY DEF WalkEntry
<1>2. t \in Walkers /\ lv[t].op \in {"inc", "prefetch", "dec", "dealloc"} BY <1>1, OpOfStep DEF Walkers, Role
<1>3. lv[t] \in WalkRec /\ Pos(start, t) \in Nat BY <1>2, WalkerAt
<1>4. PICK p \in Nat : p = Pos(start, t) + 1 BY <1>3
<1>5. /\ p \in DOMAIN log /\ meta[lv[t].page].entries[lv[t].i] = log[p]
      /\ start[lv[t].page] + (lv[t].i + 1) - 1 = p
      /\ lv[t].i + 1 \in 1 .. Len(meta[lv[t].page].entries) + 1
      /\ Pos(start, t) < start[lv[t].page] + Len(meta[lv[t].page].entries)
  BY <1>1, <1>2, <1>4, EntryAt
<1>6. PICK x : x = log[p] OBVIOUS
<1>7. x \in EntryRec /\ x.batch \in Batch /\ x.extent \in Ext \cup {TERMINAL_EXTENT_ADDR}
  BY <1>5, <1>6, LogEntries DEF ListInv, EntryRec
<1>8. PICK hit \in BOOLEAN : hit = (~keyed \/ Intersects(lv[t].state[x.batch], NextState(lv[t], x)))
  BY DEF TypeOK
<1>9. PICK e : e = IF keyed THEN lv[t].extent[x.batch] ELSE x.extent OBVIOUS
<1>10. PICK after : after = IF hit THEN [refc EXCEPT ![e] = Applied(lv[t].op, refc[e])] ELSE refc OBVIOUS
<1>11. PICK loc : loc = [Advanced(lv[t], x) EXCEPT !.did_work = @ \/ hit, !.cleanup = @ /\ (hit => after[e] = AL_FREE)] OBVIOUS
<1>12. /\ Check(lv[t].op, hit => e \in Ext /\ (lv[t].op = "dealloc" => refc[e] = AL_ONE_REF) /\ refc[e] # AL_FREE)
       /\ refc' = after
       /\ Move(t, "walk", "walk", loc)
       /\ UNCHANGED otherVars
  BY <1>5, <1>6, <1>8, <1>9, <1>10, <1>11 DEF WalkEntry
<1>13. /\ loc \in WalkRec
       /\ loc.op = lv[t].op /\ loc.range = lv[t].range /\ loc.mine = lv[t].mine /\ loc.page = lv[t].page /\ loc.i = lv[t].i + 1
       /\ loc.extent = [lv[t].extent EXCEPT ![x.batch] = x.extent]
       /\ loc.state = [lv[t].state EXCEPT ![x.batch] = NextState(lv[t], x)]
       /\ loc.did_work = (lv[t].did_work \/ hit)
       /\ loc.cleanup = (lv[t].cleanup /\ (hit => after[e] = AL_FREE))
  <2>1. PICK ns \in WalkStates : ns = NextState(lv[t], x) BY NextStateType
  <2>2. loc = [lv[t] EXCEPT !.i = lv[t].i + 1, !.extent = [lv[t].extent EXCEPT ![x.batch] = x.extent],
                            !.state = [lv[t].state EXCEPT ![x.batch] = ns],
                            !.did_work = lv[t].did_work \/ hit, !.cleanup = lv[t].cleanup /\ (hit => after[e] = AL_FREE)]
    BY <1>3, <1>11, <2>1 DEF Advanced, WalkRec
  <2>3. lv[t].i + 1 \in Nat BY <1>3 DEF WalkRec
  <2>4. [lv[t].extent EXCEPT ![x.batch] = x.extent] \in [Batch -> Ext \cup {TERMINAL_EXTENT_ADDR}] BY <1>3, <1>7 DEF WalkRec
  <2>5. [lv[t].state EXCEPT ![x.batch] = ns] \in [Batch -> WalkStates] BY <1>3, <1>7 DEF WalkRec
  <2>6. (lv[t].did_work \/ hit) \in BOOLEAN /\ (lv[t].cleanup /\ (hit => after[e] = AL_FREE)) \in BOOLEAN OBVIOUS
  <2> QED BY <1>3, <2>1, <2>2, <2>3, <2>4, <2>5, <2>6 DEF WalkRec
<1>14. LocalsAt("walk", loc) BY <1>13 DEF LocalsAt
<1>15. /\ mpc' \in [MiniThread -> PCs] /\ DOMAIN lv' = MiniThread
       /\ \A u \in MiniThread : LocalsAt(mpc'[u], lv'[u])
       /\ mpc'[t] = "walk" /\ lv'[t] = loc
       /\ \A u \in MiniThread \ {t} : mpc'[u] = mpc[u] /\ lv'[u] = lv[u]
  BY <1>12, <1>14, Moved
<1>16. after \in [Ext -> Int]
  <2>1. refc \in [Ext -> Int] BY DEF TypeOK
  <2>2. e \in Ext => Applied(lv[t].op, refc[e]) \in Int
    <3> SUFFICES ASSUME e \in Ext PROVE Applied(lv[t].op, refc[e]) \in Int OBVIOUS
    <3>1. PICK n \in Int : n = refc[e] BY <2>1
    <3> QED BY <3>1, <1>2 DEF Applied, AL_FREE
  <2> QED BY <1>10, <2>1, <2>2
<1>17. TypeOK'
  <2>1. next_addr' \in [Batch -> Nat] /\ next_extent' \in [Batch -> Ext] /\ held' \in [Rs -> Nat]
        /\ blocked' \in [MiniThread -> SUBSET Rs] /\ allocs' \in [MiniThread -> Nat] /\ meta' \in [DOMAIN meta' -> PageRec]
        /\ claim' \in [DOMAIN claim' -> MiniThread]
    BY <1>12 DEF TypeOK, otherVars
  <2> QED BY <1>12, <1>15, <1>16, <2>1 DEF TypeOK, otherVars
<1>18. mpc' = mpc /\ \A u \in MiniThread : lv'[u].op = lv[u].op
  <2>1. mpc' = mpc BY <1>1, <1>12 DEF Move, TypeOK
  <2> QED BY <2>1, <1>13, <1>15
<1>19. \A op : Role(op)' = Role(op) BY <1>18 DEF Role
<1>20. RoleInv'
  <2>1. \A u \in Role("release") : mpc'[u] # "release" => keyed /\ lv'[u].batch \in Batch
    <3> SUFFICES ASSUME NEW u \in Role("release"), mpc'[u] # "release" PROVE keyed /\ lv'[u].batch \in Batch OBVIOUS
    <3>1. u # t /\ u \in MiniThread BY <1>2 DEF Role
    <3> QED BY <3>1, <1>15 DEF RoleInv
  <2>2. \A u \in MiniThread : mpc'[u] \in WaitPCs => mpc[u] \in WaitPCs /\ lv'[u] = lv[u] BY <1>15 DEF WaitPCs
  <2>3. \A u \in Role("inc") \cup Role("prefetch") : lv'[u].range = lv[u].range /\ lv'[u].mine = lv[u].mine
    BY <1>15, <1>13 DEF Role
  <2> QED BY <2>1, <2>2, <2>3, <1>12, <1>18, RoleFrame DEF otherVars
<1>21. Elsewhere BY <1>15, <1>18, <1>2 DEF Elsewhere
<1>22. BatchInv(log)' /\ OwnInv(log, own)' /\ AddrInv(log)' /\ KeyInv(log)'
       /\ (\A b \in Batch : Pending(b)' <=> Pending(b))
       /\ \A u \in MiniThread : (Flying(u)' <=> Flying(u)) /\ (Flying(u) => lv'[u].addr = lv[u].addr)
  <2>1. log \in Seq(EntryRec) BY DEF ListInv
  <2> QED BY <2>1, <1>12, <1>17, <1>21, WalkFrame DEF otherVars
<1>23. ListInv(log, start)'
  <2>1. Walkers' = Walkers BY <1>19 DEF Walkers
  <2>2. \A u \in Walkers' : lv'[u].page \in DOMAIN meta /\ lv'[u].i \in 1 .. Len(meta[lv'[u].page].entries) + 1
    <3> SUFFICES ASSUME NEW u \in Walkers PROVE lv'[u].page \in DOMAIN meta /\ lv'[u].i \in 1 .. Len(meta[lv'[u].page].entries) + 1
      BY <2>1
    <3>1. CASE u = t BY <3>1, <1>2, <1>5, <1>13, <1>15, WalkerAt
    <3>2. CASE u # t
      <4>1. u \in MiniThread BY DEF Walkers, Role
      <4> QED BY <4>1, <3>2, <1>15 DEF ListInv
    <3> QED BY <3>1, <3>2
  <2>3. \A u \in Role("deinit")' : lv'[u].page \in DOMAIN meta
    <3> SUFFICES ASSUME NEW u \in Role("deinit") PROVE lv'[u].page \in DOMAIN meta BY <1>19
    <3>1. u # t /\ u \in MiniThread BY <1>2 DEF Role
    <3> QED BY <3>1, <1>15 DEF ListInv
  <2> QED BY <2>2, <2>3, <1>12, ListFrame DEF otherVars
<1>24. ClaimInv'
  <2>1. \A u \in MiniThread : mpc'[u] \in {"append", "append_new"} => mpc[u] = mpc'[u] /\ lv'[u] = lv[u] BY <1>15
  <2>2. \A u \in Role("dec")' : mpc'[u] = "walk" => u \in Role("dec") /\ mpc[u] = "walk" /\ lv'[u].page = lv[u].page
    BY <1>13, <1>15, <1>18, <1>19 DEF Role
  <2> QED BY <2>1, <2>2, <1>12, ClaimFrame DEF otherVars
<1>25. BlockInv'
  <2>1. \A u \in MiniThread : lv'[u].mine = lv[u].mine /\ lv'[u].range = lv[u].range BY <1>13, <1>15
  <2>2. \A u \in Role("inc") : u \in MiniThread BY DEF Role
  <2> QED BY <2>1, <2>2, <1>12, <1>18, <1>19 DEF BlockInv, otherVars
<1>26. LiveInv'
  <2>1. Walkers' # {} BY <1>2, <1>19 DEF Walkers
  <2> QED BY <2>1 DEF LiveInv
<1>27. life = "released" /\ ~Building /\ ~Building'
  <2>1. life = "released" BY <1>2 DEF RoleInv, TypeOK
  <2>2. ~(keyed /\ Role("release") # {})
    <3> SUFFICES ASSUME keyed, NEW u \in Role("release") PROVE FALSE OBVIOUS
    <3>1. u # t BY <1>2 DEF Role
    <3> QED BY <3>1, <1>2 DEF RoleInv
  <2> QED BY <2>1, <2>2, <1>12, <1>19 DEF Building, otherVars
<1>28. Pos(start, t)' = p /\ \A u \in MiniThread \ {t} : Pos(start, u)' = Pos(start, u)
  <2>1. Pos(start, t)' = p BY <1>5, <1>13, <1>15 DEF Pos
  <2>2. \A u \in MiniThread \ {t} : Pos(start, u)' = Pos(start, u) BY <1>15 DEF Pos
  <2> QED BY <2>1, <2>2
<1>29. Taken(log, start, t, p, hit, e)
  <2>1. /\ t \in Walkers /\ t \in MiniThread /\ lv[t] \in WalkRec /\ mpc[t] = "walk"
        /\ life = "released" /\ ~Building /\ ~Building'
        /\ p = Pos(start, t) + 1 /\ p \in DOMAIN log
        /\ Pos(start, t) \in Nat /\ Pos(start, t) < start[lv[t].page] + Len(meta[lv[t].page].entries)
    BY <1>1, <1>2, <1>3, <1>4, <1>5, <1>27
  <2>2. /\ hit \in BOOLEAN /\ hit = (~keyed \/ Intersects(lv[t].state[log[p].batch], NextState(lv[t], log[p])))
        /\ e = IF keyed THEN lv[t].extent[log[p].batch] ELSE log[p].extent
        /\ refc' = IF hit THEN [refc EXCEPT ![e] = Applied(lv[t].op, refc[e])] ELSE refc
    BY <1>6, <1>8, <1>9, <1>10, <1>12
  <2>3. failed' = IF hit => e \in Ext /\ (lv[t].op = "dealloc" => refc[e] = AL_ONE_REF) /\ refc[e] # AL_FREE THEN failed
                  ELSE failed \cup {lv[t].op}
    BY <1>12 DEF Check
  <2>4. mpc' = mpc /\ (\A op : Role(op)' = Role(op)) /\ \A u \in MiniThread \ {t} : lv'[u] = lv[u]
    BY <1>15, <1>18, <1>19
  <2>5. /\ lv'[t].op = lv[t].op /\ lv'[t].range = lv[t].range /\ lv'[t].mine = lv[t].mine
        /\ lv'[t].page = lv[t].page /\ lv'[t].i = lv[t].i + 1
        /\ lv'[t].extent = [lv[t].extent EXCEPT ![log[p].batch] = log[p].extent]
        /\ lv'[t].state = [lv[t].state EXCEPT ![log[p].batch] = NextState(lv[t], log[p])]
        /\ lv'[t].did_work = (lv[t].did_work \/ hit)
        /\ lv'[t].cleanup = (lv[t].cleanup /\ (hit => refc'[e] = AL_FREE))
    BY <1>6, <1>12, <1>13, <1>15
  <2> QED BY <2>1, <2>2, <2>3, <2>4, <2>5, <1>28, <1>12 DEF Taken
<1> HIDE DEF Inv
<1> QED BY <1>17, <1>20, <1>22, <1>23, <1>24, <1>25, <1>26, <1>29

-----------------------------------------------------------------------------

(* What a keyed walk remembers of the batch is the entry before in it.     *)
LEMMA BatchStates ==
    ASSUME NEW log, NEW start, NEW own, Inv(log, start, own), NEW t \in Role("inc") \cup Role("dec"),
           NEW p \in DOMAIN log, p = Pos(start, t) + 1, Pos(start, t) \in Nat
    PROVE  /\ NextState(lv[t], log[p]) = StateAt(log, lv[t].range, p)
           /\ \A i \in DOMAIN log : Pair(log, i, p) =>
                /\ i <= Pos(start, t)
                /\ lv[t].extent[log[p].batch] = log[i].extent /\ lv[t].state[log[p].batch] = StateAt(log, lv[t].range, i)
                /\ Intersects(lv[t].state[log[p].batch], NextState(lv[t], log[p])) <=> Hits(log, lv[t].range, i, p)
           /\ Intersects(lv[t].state[log[p].batch], NextState(lv[t], log[p])) => \E i \in DOMAIN log : Pair(log, i, p)
<1> USE DEF Inv
<1>1. log \in Seq(EntryRec) /\ DOMAIN log \subseteq Nat BY LogEntries DEF ListInv
<1>2. ASSUME NEW i \in DOMAIN log, Pair(log, i, p)
      PROVE  /\ i <= Pos(start, t)
             /\ lv[t].extent[log[p].batch] = log[i].extent /\ lv[t].state[log[p].batch] = StateAt(log, lv[t].range, i)
             /\ Data(log, i) /\ ~FirstOf(log, p)
  <2>1. i < p /\ Data(log, i) /\ ~FirstOf(log, p) BY <1>1, <1>2, PairFacts
  <2>2. i <= Pos(start, t) /\ p > Pos(start, t) BY <2>1, <1>1
  <2> QED BY <2>1, <2>2, <1>2 DEF WalkInv
<1>3. NextState(lv[t], log[p]) = StateAt(log, lv[t].range, p)
  <2>1. CASE FirstOf(log, p)
    <3>1. lv[t].extent[log[p].batch] = TERMINAL_EXTENT_ADDR BY <2>1 DEF WalkInv
    <3> QED BY <2>1, <3>1 DEF NextState, StateAt
  <2>2. CASE ~FirstOf(log, p)
    <3>1. PICK i \in DOMAIN log : Pair(log, i, p) BY <2>2 DEF BatchInv
    <3>2. lv[t].extent[log[p].batch] # TERMINAL_EXTENT_ADDR BY <1>2, <3>1 DEF Data
    <3> QED BY <2>2, <3>2 DEF NextState, StateAt, Data
  <2> QED BY <2>1, <2>2
<1>4. ASSUME Intersects(lv[t].state[log[p].batch], NextState(lv[t], log[p])) PROVE \E i \in DOMAIN log : Pair(log, i, p)
  <2> SUFFICES ASSUME FirstOf(log, p) PROVE FALSE BY DEF BatchInv
  <2>1. lv[t].state[log[p].batch] = "before_start" BY DEF WalkInv
  <2>2. NextState(lv[t], log[p]) = "before_start" BY <1>3 DEF StateAt
  <2> QED BY <2>1, <2>2, <1>4 DEF Intersects
<1>5. \A i \in DOMAIN log : Pair(log, i, p) =>
        /\ i <= Pos(start, t)
        /\ lv[t].extent[log[p].batch] = log[i].extent /\ lv[t].state[log[p].batch] = StateAt(log, lv[t].range, i)
        /\ Intersects(lv[t].state[log[p].batch], NextState(lv[t], log[p])) <=> Hits(log, lv[t].range, i, p)
  <2> SUFFICES ASSUME NEW i \in DOMAIN log, Pair(log, i, p)
               PROVE  /\ i <= Pos(start, t)
                      /\ lv[t].extent[log[p].batch] = log[i].extent /\ lv[t].state[log[p].batch] = StateAt(log, lv[t].range, i)
                      /\ Intersects(lv[t].state[log[p].batch], NextState(lv[t], log[p])) <=> Hits(log, lv[t].range, i, p)
    OBVIOUS
  <2>1. lv[t].state[log[p].batch] = StateAt(log, lv[t].range, i) BY <1>2
  <2>2. Intersects(lv[t].state[log[p].batch], NextState(lv[t], log[p])) <=> Hits(log, lv[t].range, i, p)
    BY <2>1, <1>3 DEF Hits
  <2> QED BY <1>2, <2>2
<1> HIDE DEF Inv
<1> QED BY <1>3, <1>4, <1>5

(* The walk remembers the entry.                                           *)
LEMMA WalkEntryStates ==
    ASSUME NEW log, NEW start, NEW own, Inv(log, start, own), NEW t \in MiniThread, NEW p \in Nat, NEW hit, NEW e,
           Taken(log, start, t, p, hit, e)
    PROVE  WalkInv(log, start)'
<1> USE DEF Inv
<1>1. log \in Seq(EntryRec) /\ DOMAIN log \subseteq Nat BY LogEntries DEF ListInv
<1> SUFFICES ASSUME NEW u \in Role("inc") \cup Role("dec")
             PROVE /\ \A k \in DOMAIN log : k > Pos(start, u)' /\ FirstOf(log, k) =>
                         lv'[u].extent[log[k].batch] = TERMINAL_EXTENT_ADDR /\ lv'[u].state[log[k].batch] = "before_start"
                   /\ \A i, k \in DOMAIN log : i <= Pos(start, u)' /\ k > Pos(start, u)' /\ Pair(log, i, k) =>
                         lv'[u].extent[log[k].batch] = log[i].extent /\ lv'[u].state[log[k].batch] = StateAt(log, lv'[u].range, i)
                   /\ \A i, j \in DOMAIN log : Top(log, i, j) /\ j <= Pos(start, u)' => lv'[u].did_work
  <2>1. \A op : Role(op)' = Role(op) BY DEF Taken
  <2> QED BY <2>1 DEF WalkInv, FirstOf, Pair, Top, StateAt, Data
<1>2. u \in MiniThread BY DEF Role
<1>3. CASE u # t
  <2>1. lv'[u] = lv[u] /\ Pos(start, u)' = Pos(start, u) BY <1>2, <1>3 DEF Taken
  <2> QED BY <2>1 DEF WalkInv
<1>4. CASE u = t
  <2> USE <1>4
  <2>1. keyed BY DEF RoleInv
  <2>2. PICK q \in Nat : q = Pos(start, t) /\ p = q + 1 BY DEF Taken
  <2>3. p \in DOMAIN log /\ Pos(start, t)' = p BY DEF Taken
  <2>4. PICK b \in Batch : b = log[p].batch BY <1>1, <2>3, LogEntries
  <2>5. lv[t].extent \in [Batch -> Ext \cup {TERMINAL_EXTENT_ADDR}] /\ lv[t].state \in [Batch -> WalkStates] BY DEF Taken, WalkRec
  <2>6. /\ lv'[t].extent[b] = log[p].extent /\ \A c \in Batch \ {b} : lv'[t].extent[c] = lv[t].extent[c]
        /\ lv'[t].state[b] = NextState(lv[t], log[p]) /\ \A c \in Batch \ {b} : lv'[t].state[c] = lv[t].state[c]
        /\ lv'[t].range = lv[t].range
    BY <2>4, <2>5 DEF Taken
  <2>7. NextState(lv[t], log[p]) = StateAt(log, lv[t].range, p) BY <2>2, <2>3, BatchStates
  <2>8. \A k \in DOMAIN log : log[k].batch \in Batch BY <1>1, LogEntries
  <2>9. ASSUME NEW k \in DOMAIN log, k > p, FirstOf(log, k)
        PROVE  lv'[t].extent[log[k].batch] = TERMINAL_EXTENT_ADDR /\ lv'[t].state[log[k].batch] = "before_start"
    <3>1. log[k].batch # b BY <2>3, <2>4, <2>9 DEF FirstOf
    <3>2. k > Pos(start, t) BY <2>2, <2>9, <1>1
    <3>3. lv[t].extent[log[k].batch] = TERMINAL_EXTENT_ADDR /\ lv[t].state[log[k].batch] = "before_start"
      BY <3>2, <2>9 DEF WalkInv
    <3> QED BY <3>1, <3>3, <2>6, <2>8
  <2>10. ASSUME NEW i \in DOMAIN log, NEW k \in DOMAIN log, i <= p, k > p, Pair(log, i, k)
         PROVE  lv'[t].extent[log[k].batch] = log[i].extent /\ lv'[t].state[log[k].batch] = StateAt(log, lv'[t].range, i)
    <3>1. log[i].batch = log[k].batch BY <2>10, <1>1, PairFacts
    <3>2. CASE i = p BY <3>1, <3>2, <2>4, <2>6, <2>7
    <3>3. CASE i # p
      <4>1. i < p /\ i <= Pos(start, t) /\ k > Pos(start, t) BY <3>3, <2>2, <2>10, <1>1
      <4>2. log[k].batch # b BY <3>1, <4>1, <2>3, <2>4, <2>10 DEF Pair
      <4>3. lv[t].extent[log[k].batch] = log[i].extent /\ lv[t].state[log[k].batch] = StateAt(log, lv[t].range, i)
        BY <4>1, <2>10 DEF WalkInv
      <4> QED BY <4>2, <4>3, <2>6, <2>8
    <3> QED BY <3>2, <3>3
  <2>11. ASSUME NEW i \in DOMAIN log, NEW j \in DOMAIN log, Top(log, i, j), j <= p PROVE lv'[t].did_work
    <3>1. CASE j = p
      <4>1. Hits(log, lv[t].range, i, p) /\ Pair(log, i, p) BY <3>1, <2>11, <1>1, TopHit DEF Top
      <4>2. Intersects(lv[t].state[log[p].batch], NextState(lv[t], log[p])) BY <4>1, <2>2, <2>3, BatchStates
      <4>3. hit = TRUE BY <4>2 DEF Taken
      <4> QED BY <4>3 DEF Taken
    <3>2. CASE j # p
      <4>1. j <= Pos(start, t) BY <3>2, <2>2, <2>11, <1>1
      <4>2. lv[t].did_work = TRUE
        <5>1. lv[t].did_work BY <4>1, <2>11 DEF WalkInv
        <5>2. lv[t].did_work \in BOOLEAN BY DEF Taken, WalkRec
        <5> QED BY <5>1, <5>2
      <4> QED BY <4>2 DEF Taken
    <3> QED BY <3>1, <3>2
  <2> QED BY <2>3, <2>9, <2>10, <2>11
<1> QED BY <1>3, <1>4

\* What entry p changes of the tokens of entry i.
Recounted(log, start, t, p, hit, e, i) ==
    /\ ~(hit /\ Pair(log, i, p)) => Tokens(log, start, i)' = Tokens(log, start, i)
    /\ hit /\ Pair(log, i, p) =>
         /\ e = log[i].extent /\ Data(log, i)
         /\ lv[t].op = "inc" => /\ <<"new", t>> \notin Tokens(log, start, i)
                                /\ Tokens(log, start, i)' = Tokens(log, start, i) \cup {<<"new", t>>}
                                /\ <<"mine", t>> \in Tokens(log, start, i)
         /\ lv[t].op = "dec" => /\ <<"dec", t>> \in Tokens(log, start, i)
                                /\ Tokens(log, start, i)' = Tokens(log, start, i) \ {<<"dec", t>>}

(* The tokens of an entry change when the walk comes to the next entry of  *)
(* its batch, and there the walk counts.                                   *)
LEMMA WalkEntryTokens ==
    ASSUME NEW log, NEW start, NEW own, Inv(log, start, own), TypeOK', NEW t \in MiniThread, NEW p \in Nat, NEW hit, NEW e,
           Taken(log, start, t, p, hit, e), keyed, NEW i \in DOMAIN log
    PROVE  Recounted(log, start, t, p, hit, e, i)
<1> USE DEF Inv
<1>1. log \in Seq(EntryRec) /\ DOMAIN log \subseteq Nat BY LogEntries DEF ListInv
<1>2. lv[t].op \in {"inc", "dec"} /\ t \in Role("inc") \cup Role("dec")
  <2>1. t \in Walkers /\ ~(t \in Role("prefetch") \cup Role("dealloc")) BY DEF Taken, RoleInv
  <2> QED BY <2>1 DEF Walkers, Role
<1>3. PICK q \in Nat : q = Pos(start, t) /\ p = q + 1 BY DEF Taken
<1>4. p \in DOMAIN log /\ Pos(start, t)' = p BY DEF Taken
<1>5. hit <=> Intersects(lv[t].state[log[p].batch], NextState(lv[t], log[p])) BY DEF Taken
<1>6. Pair(log, i, p) => (hit <=> Hits(log, lv[t].range, i, p)) BY <1>2, <1>3, <1>4, <1>5, BatchStates
<1>7. Passed(log, i, p) /\ ~Passed(log, i, q) => Pair(log, i, p)
  <2> SUFFICES ASSUME Passed(log, i, p), ~Passed(log, i, q) PROVE Pair(log, i, p) OBVIOUS
  <2>1. PICK j \in DOMAIN log : Pair(log, i, j) /\ j <= p BY DEF Passed
  <2>2. ~(j <= q) BY <2>1 DEF Passed
  <2>3. j = p BY <2>1, <2>2, <1>1, <1>3
  <2> QED BY <2>1, <2>3
<1>8. Passed(log, i, q) => Passed(log, i, p) BY <1>1, <1>3 DEF Passed
<1>9. Pair(log, i, p) => Passed(log, i, p) /\ ~Passed(log, i, q)
  <2> SUFFICES ASSUME Pair(log, i, p) PROVE Passed(log, i, p) /\ ~Passed(log, i, q) OBVIOUS
  <2>1. Passed(log, i, p) BY <1>4 DEF Passed
  <2>2. ASSUME NEW j \in DOMAIN log, Pair(log, i, j), j <= q PROVE FALSE
    <3>1. j = p BY <2>2, <1>1, <1>4, PairFacts
    <3> QED BY <3>1, <2>2, <1>3
  <2> QED BY <2>1, <2>2 DEF Passed
<1>10. PICK w : w = lv'[t] /\ w.op = lv[t].op /\ w.range = lv[t].range /\ w.mine = lv[t].mine BY DEF Taken
<1>11. p = start[w.page] + w.i - 1 BY <1>4, <1>10 DEF Pos
<1>12. /\ Active(log, start, i, <<"mine", t>>)' <=> w.op = "inc" /\ Hit(log, w.mine, i)
       /\ Active(log, start, i, <<"new", t>>)' <=> w.op = "inc" /\ Hit(log, w.range, i) /\ Passed(log, i, p)
       /\ Active(log, start, i, <<"dec", t>>)' <=> w.op = "dec" /\ Hit(log, w.range, i) /\ ~Passed(log, i, p)
  BY <1>10, <1>11, ThreadTokensNext
<1>13. /\ Active(log, start, i, <<"mine", t>>) <=> w.op = "inc" /\ Hit(log, w.mine, i)
       /\ Active(log, start, i, <<"new", t>>) <=> w.op = "inc" /\ Hit(log, w.range, i) /\ Passed(log, i, q)
       /\ Active(log, start, i, <<"dec", t>>) <=> w.op = "dec" /\ Hit(log, w.range, i) /\ ~Passed(log, i, q)
  BY <1>3, <1>10, ThreadTokens
<1>14. Pair(log, i, p) => (Hit(log, w.range, i) <=> hit)
  <2> SUFFICES ASSUME Pair(log, i, p) PROVE Hit(log, w.range, i) <=> Hits(log, lv[t].range, i, p) BY <1>6
  <2>1. \A j \in DOMAIN log : Pair(log, i, j) => j = p BY <1>1, <1>4, PairFacts
  <2> QED BY <2>1, <1>4, <1>10 DEF Hit
<1>15. ASSUME NEW k \in TokenSet, k # <<"new", t>>, k # <<"dec", t>>
       PROVE  Active(log, start, i, k)' <=> Active(log, start, i, k)
  <2>1. CASE \E r \in Rs, m \in Nat : k = <<"held", <<r, m>>>>
    <3>1. held' = held BY DEF Taken, otherVars
    <3> QED BY <2>1, <3>1, HeldToken, HeldTokenNext
  <2>2. CASE \E u \in MiniThread : k = <<"mine", u>> \/ k = <<"new", u>> \/ k = <<"dec", u>>
    <3>1. PICK u \in MiniThread : k = <<"mine", u>> \/ k = <<"new", u>> \/ k = <<"dec", u>> BY <2>2
    <3>2. CASE u = t
      <4>1. k = <<"mine", t>> BY <3>1, <3>2, <1>15
      <4> QED BY <4>1, <1>12, <1>13
    <3>3. CASE u # t
      <4>1. lv'[u] = lv[u] /\ Pos(start, u)' = Pos(start, u) BY <3>3 DEF Taken
      <4> QED BY <3>1, <4>1, SameTokens
    <3> QED BY <3>2, <3>3
  <2> QED BY <2>1, <2>2, EveryToken
<1>16. <<"new", t>> \in TokenSet /\ <<"dec", t>> \in TokenSet /\ <<"mine", t>> \in TokenSet /\ <<"new", t>> # <<"dec", t>>
  BY TokenMembers
<1>17. \A k \in TokenSet : (k \in Tokens(log, start, i) <=> Active(log, start, i, k))
                           /\ (k \in Tokens(log, start, i)' <=> Active(log, start, i, k)')
  BY DEF Tokens, TokenSet
<1>18. Tokens(log, start, i) \subseteq TokenSet /\ Tokens(log, start, i)' \subseteq TokenSet BY DEF Tokens, TokenSet
<1>19. ASSUME ~(hit /\ Pair(log, i, p)) PROVE Tokens(log, start, i)' = Tokens(log, start, i)
  <2>1. Active(log, start, i, <<"new", t>>)' <=> Active(log, start, i, <<"new", t>>)
    BY <1>7, <1>8, <1>12, <1>13, <1>14, <1>19
  <2>2. Active(log, start, i, <<"dec", t>>)' <=> Active(log, start, i, <<"dec", t>>)
    BY <1>7, <1>8, <1>12, <1>13, <1>14, <1>19
  <2>3. \A k \in TokenSet : Active(log, start, i, k)' <=> Active(log, start, i, k) BY <2>1, <2>2, <1>15
  <2> QED BY <2>3, <1>17, <1>18
<1>20. ASSUME hit, Pair(log, i, p)
       PROVE  /\ e = log[i].extent /\ Data(log, i)
              /\ lv[t].op = "inc" => /\ <<"new", t>> \notin Tokens(log, start, i)
                                     /\ Tokens(log, start, i)' = Tokens(log, start, i) \cup {<<"new", t>>}
                                     /\ <<"mine", t>> \in Tokens(log, start, i)
              /\ lv[t].op = "dec" => /\ <<"dec", t>> \in Tokens(log, start, i)
                                     /\ Tokens(log, start, i)' = Tokens(log, start, i) \ {<<"dec", t>>}
  <2>1. e = log[i].extent /\ Data(log, i)
    <3>1. lv[t].extent[log[p].batch] = log[i].extent BY <1>2, <1>3, <1>4, <1>20, BatchStates
    <3>2. Data(log, i) BY <1>20, <1>1, <1>4, PairFacts
    <3> QED BY <3>1, <3>2 DEF Taken
  <2>2. Hit(log, w.range, i) /\ Passed(log, i, p) /\ ~Passed(log, i, q) BY <1>9, <1>14, <1>20
  <2>3. CASE lv[t].op = "inc"
    <3>1. Hit(log, w.mine, i)
      <4>1. w.range \in Rs /\ w.mine \in Rs BY <1>10 DEF Taken, WalkRec
      <4>2. Within(w.range, w.mine)
        <5>1. t \in Role("inc") BY <2>3 DEF Role
        <5> QED BY <5>1, <1>10 DEF RoleInv
      <4> QED BY <2>2, <4>1, <4>2, <1>1, HitWithin
    <3>2. /\ Active(log, start, i, <<"new", t>>)' /\ ~Active(log, start, i, <<"new", t>>) /\ Active(log, start, i, <<"mine", t>>)
          /\ ~Active(log, start, i, <<"dec", t>>)' /\ ~Active(log, start, i, <<"dec", t>>)
      BY <2>2, <2>3, <3>1, <1>10, <1>12, <1>13
    <3>3. <<"new", t>> \notin Tokens(log, start, i) /\ <<"mine", t>> \in Tokens(log, start, i) BY <3>2, <1>16, <1>17
    <3>4. \A k \in TokenSet : k \in Tokens(log, start, i)' <=> k \in Tokens(log, start, i) \/ k = <<"new", t>>
      BY <3>2, <1>15, <1>16, <1>17
    <3> QED BY <2>1, <2>3, <3>3, <3>4, <1>16, <1>18
  <2>4. CASE lv[t].op = "dec"
    <3>1. /\ ~Active(log, start, i, <<"dec", t>>)' /\ Active(log, start, i, <<"dec", t>>)
          /\ ~Active(log, start, i, <<"new", t>>)' /\ ~Active(log, start, i, <<"new", t>>)
      BY <2>2, <2>4, <1>10, <1>12, <1>13
    <3>2. <<"dec", t>> \in Tokens(log, start, i) BY <3>1, <1>16, <1>17
    <3>3. \A k \in TokenSet : k \in Tokens(log, start, i)' <=> k \in Tokens(log, start, i) /\ k # <<"dec", t>>
      BY <3>1, <1>15, <1>16, <1>17
    <3> QED BY <2>1, <2>4, <3>2, <3>3, <1>18
  <2> QED BY <2>1, <2>3, <2>4, <1>2
<1> QED BY <1>19, <1>20 DEF Recounted

-----------------------------------------------------------------------------

(* How a walk changes the count of an extent.                              *)
LEMMA CountApplied ==
    ASSUME NEW n \in Nat
    PROVE  /\ Counted(n) = AL_FREE <=> n = 0
           /\ n > 0 => /\ Applied("inc", Counted(n)) = Counted(n + 1)
                       /\ Applied("dec", Counted(n)) = Counted(n - 1)
<1>1. Applied("inc", Counted(n)) = Counted(n) + 1 BY DEF Applied
<1>2. Applied("dec", Counted(n)) = IF Counted(n) = AL_ONE_REF THEN AL_FREE ELSE Counted(n) - 1 BY DEF Applied
<1> QED BY <1>1, <1>2 DEF Counted, AL_FREE, AL_ONE_REF

(* The counts after the entry: inc_ref adds one to the extents its range   *)
(* hits, dec_ref takes one, and the assertions hold, as each has a count   *)
(* to add to or to take from.                                              *)
LEMMA WalkEntryRefs ==
    ASSUME NEW log, NEW start, NEW own, Inv(log, start, own), TypeOK', NEW t \in MiniThread, NEW p \in Nat, NEW hit, NEW e,
           Taken(log, start, t, p, hit, e),
           \A b \in Batch : Pending(b)' <=> Pending(b),
           \A u \in MiniThread : (Flying(u)' <=> Flying(u)) /\ (Flying(u) => lv'[u].addr = lv[u].addr)
    PROVE  RefInv(log, start, own)' /\ failed' = {}
<1> USE DEF Inv
<1>1. log \in Seq(EntryRec) /\ DOMAIN log \subseteq Nat BY LogEntries DEF ListInv
<1>2. refc \in [Ext -> Int] /\ next_extent \in [Batch -> Ext] BY DEF TypeOK
<1>3. own[1] = Meta /\ refc[1] = FirstCount /\ 1 \in Ext
  <2>1. life # "gone" BY DEF Taken
  <2> QED BY <2>1, FirstExtent
<1>4. FirstCount' = FirstCount BY DEF Taken, otherVars, FirstCount
<1>5. ASSUME \A x \in Ext : own[x][1] # "data" => refc'[x] = refc[x], failed' = {},
             \A i \in DOMAIN log : Data(log, i) => DataRefs(log, start, i)'
      PROVE  RefInv(log, start, own)'
  <2>1. life # "gone" /\ life' # "gone" /\ meta' = meta /\ next_extent' = next_extent BY DEF Taken, otherVars
  <2>2. refc'[1] = FirstCount' BY <1>3, <1>4, <1>5 DEF Meta
  <2>3. \A x \in Ext : own[x] = Meta /\ x # 1 => refc'[x] = refc[x] BY <1>5 DEF Meta
  <2>4. \A a \in DOMAIN meta : MetaRefs(start, ExtentOf(a))' BY <2>1, <2>2, <2>3, LiveMeta
  <2>5. \A x \in Ext : own[x][1] \in {"free", "adv", "fly"} => refc'[x] = refc[x] BY <1>5
  <2> QED BY <2>1, <2>4, <2>5, <1>2, <1>5, RefFrame
<1>6. CASE keyed
  <2>1. lv[t].op \in {"inc", "dec"} /\ t \in Role("inc") \cup Role("dec")
    <3>1. t \in Walkers /\ ~(t \in Role("prefetch") \cup Role("dealloc")) BY <1>6 DEF Taken, RoleInv
    <3> QED BY <3>1 DEF Walkers, Role
  <2>2. keyed' /\ ~Building /\ ~Building' BY <1>6 DEF Taken, otherVars
  <2>7. \A i \in DOMAIN log :
          hit /\ Pair(log, i, p) =>
            /\ e = log[i].extent /\ Data(log, i)
            /\ lv[t].op = "inc" => /\ <<"new", t>> \notin Tokens(log, start, i)
                                   /\ Tokens(log, start, i)' = Tokens(log, start, i) \cup {<<"new", t>>}
                                   /\ <<"mine", t>> \in Tokens(log, start, i)
            /\ lv[t].op = "dec" => /\ <<"dec", t>> \in Tokens(log, start, i)
                                   /\ Tokens(log, start, i)' = Tokens(log, start, i) \ {<<"dec", t>>}
    <3> HIDE DEF Inv
    <3> SUFFICES ASSUME NEW i \in DOMAIN log, hit, Pair(log, i, p)
                 PROVE  /\ e = log[i].extent /\ Data(log, i)
                        /\ lv[t].op = "inc" => /\ <<"new", t>> \notin Tokens(log, start, i)
                                               /\ Tokens(log, start, i)' = Tokens(log, start, i) \cup {<<"new", t>>}
                                               /\ <<"mine", t>> \in Tokens(log, start, i)
                        /\ lv[t].op = "dec" => /\ <<"dec", t>> \in Tokens(log, start, i)
                                               /\ Tokens(log, start, i)' = Tokens(log, start, i) \ {<<"dec", t>>}
      OBVIOUS
    <3>1. keyed BY <1>6
    <3>2. Recounted(log, start, t, p, hit, e, i) BY <3>1, WalkEntryTokens
    <3> QED BY <3>2 DEF Recounted
  <2>3. ASSUME NEW i \in DOMAIN log, Data(log, i), ~(hit /\ Pair(log, i, p)), refc'[log[i].extent] = refc[log[i].extent]
        PROVE  DataRefs(log, start, i)'
    <3>0. Recounted(log, start, t, p, hit, e, i) BY <1>6, WalkEntryTokens
    <3>1. Tokens(log, start, i)' = Tokens(log, start, i) BY <3>0, <2>3 DEF Recounted
    <3>2. DataRefs(log, start, i) BY <2>3 DEF RefInv
    <3> QED BY <3>1, <3>2, <2>2, <2>3, <1>6, SwapRefs
  <2>4. CASE ~hit
    <3>1. refc' = refc /\ failed' = {} BY <2>4 DEF Taken
    <3> QED BY <3>1, <2>3, <2>4, <1>5
  <2>5. CASE hit
    <3>1. PICK i \in DOMAIN log : Pair(log, i, p)
      <4>1. Intersects(lv[t].state[log[p].batch], NextState(lv[t], log[p])) BY <2>5, <1>6 DEF Taken
      <4> QED BY <4>1, <2>1, BatchStates DEF Taken
    <3>2. e = log[i].extent /\ Data(log, i) BY <3>1, <2>5, <2>7
    <3>3. e \in Ext /\ own[e][1] = "data" BY <3>2, <1>1, EntryExtents
    <3>4. PICK S : S = Tokens(log, start, i) OBVIOUS
    <3>5. IsFiniteSet(S) /\ refc[e] = Counted(Cardinality(S)) BY <3>2, <3>4, <2>2, <1>6 DEF RefInv, DataRefs
    <3>6. PICK n \in Nat : n = Cardinality(S) BY <3>5, FS_CardinalityType
    <3>7. S # {}
      <4>1. CASE lv[t].op = "inc"
        <5>1. <<"mine", t>> \in Tokens(log, start, i) BY <4>1, <3>1, <2>5, <2>7
        <5> QED BY <5>1, <3>4
      <4>2. CASE lv[t].op = "dec"
        <5>1. <<"dec", t>> \in Tokens(log, start, i) BY <4>2, <3>1, <2>5, <2>7
        <5> QED BY <5>1, <3>4
      <4> QED BY <4>1, <4>2, <2>1
    <3>8. n > 0 BY <3>5, <3>6, <3>7, FS_EmptySet
    <3>9. refc[e] = Counted(n) /\ refc[e] # AL_FREE BY <3>5, <3>6, <3>8, CountApplied
    <3>10. refc' = [refc EXCEPT ![e] = Applied(lv[t].op, refc[e])] BY <2>5 DEF Taken
    <3>11. refc'[e] = Applied(lv[t].op, Counted(n)) /\ \A x \in Ext : x # e => refc'[x] = refc[x]
      BY <3>3, <3>9, <3>10, <1>2
    <3>12. failed' = {} BY <2>1, <2>5, <3>3, <3>9 DEF Taken
    <3>13. DataRefs(log, start, i)'
      <4>1. CASE lv[t].op = "inc"
        <5>1. <<"new", t>> \notin S /\ Tokens(log, start, i)' = S \cup {<<"new", t>>}
          BY <4>1, <3>1, <3>4, <2>5, <2>7
        <5>2. IsFiniteSet(Tokens(log, start, i)') /\ Cardinality(Tokens(log, start, i)') = n + 1
          <6>1. PICK x : x = <<"new", t>> OBVIOUS
          <6>2. PICK T : T = Tokens(log, start, i)' OBVIOUS
          <6>3. x \notin S /\ T = S \cup {x} BY <5>1, <6>1, <6>2
          <6>4. IsFiniteSet(S) /\ n = Cardinality(S) BY <3>5, <3>6
          <6> HIDE DEF Inv
          <6>5. IsFiniteSet(T) /\ Cardinality(T) = n + 1 BY <6>3, <6>4, FS_AddElement
          <6> QED BY <6>2, <6>5
        <5>3. refc'[e] = Counted(n + 1) BY <4>1, <3>8, <3>11, CountApplied
        <5>4. refc'[log[i].extent] = Counted(Cardinality(Tokens(log, start, i)')) BY <5>2, <5>3, <3>2
        <5> QED BY <5>2, <5>4, <2>2 DEF DataRefs, Counted
      <4>2. CASE lv[t].op = "dec"
        <5>0. <<"dec", t>> \in Tokens(log, start, i) /\ Tokens(log, start, i)' = Tokens(log, start, i) \ {<<"dec", t>>}
          BY <4>2, <3>1, <2>5, <2>7
        <5>1. <<"dec", t>> \in S /\ Tokens(log, start, i)' = S \ {<<"dec", t>>}
          BY <5>0, <3>4
        <5>2. IsFiniteSet(Tokens(log, start, i)') /\ Cardinality(Tokens(log, start, i)') = n - 1
          <6>1. PICK x : x = <<"dec", t>> OBVIOUS
          <6>2. PICK T : T = Tokens(log, start, i)' OBVIOUS
          <6>3. x \in S /\ T = S \ {x} BY <5>1, <6>1, <6>2
          <6>4. IsFiniteSet(S) /\ n = Cardinality(S) BY <3>5, <3>6
          <6> HIDE DEF Inv
          <6>5. IsFiniteSet(T) /\ Cardinality(T) = n - 1 BY <6>3, <6>4, FS_RemoveElement
          <6> QED BY <6>2, <6>5
        <5>3. refc'[e] = Counted(n - 1) BY <4>2, <3>8, <3>11, CountApplied
        <5>4. refc'[log[i].extent] = Counted(Cardinality(Tokens(log, start, i)')) BY <5>2, <5>3, <3>2
        <5> QED BY <5>2, <5>4, <2>2 DEF DataRefs, Counted
      <4> QED BY <4>1, <4>2, <2>1
    <3>14. ASSUME NEW k \in DOMAIN log, Data(log, k) PROVE DataRefs(log, start, k)'
      <4>1. CASE k = i BY <4>1, <3>13
      <4>2. CASE k # i
        <5>1. ~Pair(log, k, p)
          <6>1. p \in DOMAIN log BY DEF Taken
          <6> QED BY <6>1, <4>2, <3>1, <1>1, PairFacts
        <5>2. log[k].extent # e /\ log[k].extent \in Ext BY <4>2, <3>2, <3>14, <1>1, EntryExtents
        <5> QED BY <5>1, <5>2, <3>11, <3>14, <2>3
      <4> QED BY <4>1, <4>2
    <3>15. \A x \in Ext : own[x][1] # "data" => refc'[x] = refc[x] BY <3>3, <3>11
    <3> QED BY <3>12, <3>14, <3>15, <1>5
  <2>6. hit \in BOOLEAN BY DEF Taken
  <2> QED BY <2>4, <2>5, <2>6
<1>7. CASE ~keyed
  <2>1. hit /\ e = log[p].extent /\ p \in DOMAIN log BY <1>7 DEF Taken
  <2>2. Data(log, p) BY <2>1, <1>7 DEF BatchInv
  <2>3. e \in Ext /\ own[e][1] = "data" BY <2>1, <2>2, <1>1, EntryExtents
  <2>4. lv[t].op \in {"prefetch", "dealloc"}
    <3>1. t \in Walkers /\ ~(t \in Role("inc") \cup Role("dec")) BY <1>7 DEF Taken, RoleInv
    <3> QED BY <3>1 DEF Walkers, Role
  <2>5. \A u \in Role("dealloc") : lv[t].op = "dealloc" /\ u = t
    <3> SUFFICES ASSUME NEW u \in Role("dealloc") PROVE lv[t].op = "dealloc" /\ u = t OBVIOUS
    <3>1. lv[t].op = "dealloc" BY <2>4 DEF RoleInv, Role
    <3>2. t \in Role("dealloc") BY <3>1 DEF Role
    <3> QED BY <3>1, <3>2 DEF RoleInv
  <2>6. PICK q \in Nat : q = Pos(start, t) /\ p = q + 1 BY DEF Taken
  <2>7. \A i \in DOMAIN log : Freed(start, i) <=> lv[t].op = "dealloc" /\ q >= i
    <3>1. life # "gone" BY DEF Taken
    <3>2. lv[t].op = "dealloc" => t \in Role("dealloc") BY DEF Role
    <3> QED BY <3>1, <3>2, <2>5, <2>6 DEF Freed
  <2>8. \A i \in DOMAIN log : Freed(start, i)' <=> lv[t].op = "dealloc" /\ p >= i
    <3>1. life' # "gone" /\ Role("dealloc")' = Role("dealloc") /\ Pos(start, t)' = p BY DEF Taken, otherVars
    <3>2. lv[t].op = "dealloc" => t \in Role("dealloc") BY DEF Role
    <3>3. ASSUME NEW i \in DOMAIN log PROVE Freed(start, i)' <=> \E u \in Role("dealloc") : Pos(start, u)' >= i
      BY <3>1 DEF Freed
    <3> QED BY <3>1, <3>2, <3>3, <2>5
  <2>9. \A i \in DOMAIN log : Data(log, i) => refc[log[i].extent] = IF Freed(start, i) THEN AL_FREE ELSE AL_ONE_REF
    BY <1>7 DEF RefInv, DataRefs, Building
  <2>10. refc[e] = AL_ONE_REF
    <3>1. ~Freed(start, p) BY <2>1, <2>6, <2>7
    <3> QED BY <3>1, <2>1, <2>2, <2>9
  <2>11. failed' = {}
    <3>1. e \in Ext /\ (lv[t].op = "dealloc" => refc[e] = AL_ONE_REF) /\ refc[e] # AL_FREE
      BY <2>3, <2>10 DEF AL_ONE_REF, AL_FREE
    <3>2. failed' = failed BY <3>1 DEF Taken
    <3> QED BY <3>2
  <2>12. refc'[e] = (IF lv[t].op = "dealloc" THEN AL_FREE ELSE AL_ONE_REF) /\ \A x \in Ext : x # e => refc'[x] = refc[x]
    <3>1. refc' = [refc EXCEPT ![e] = Applied(lv[t].op, AL_ONE_REF)] BY <2>1, <2>10 DEF Taken
    <3>2. Applied(lv[t].op, AL_ONE_REF) = IF lv[t].op = "dealloc" THEN AL_FREE ELSE AL_ONE_REF BY <2>4 DEF Applied
    <3> QED BY <3>1, <3>2, <2>3, <1>2
  <2>13. ASSUME NEW i \in DOMAIN log, Data(log, i) PROVE DataRefs(log, start, i)'
    <3>1. refc'[log[i].extent] = IF Freed(start, i)' THEN AL_FREE ELSE AL_ONE_REF
      <4>1. CASE i = p
        <5>1. Freed(start, i)' <=> lv[t].op = "dealloc" BY <4>1, <2>8
        <5> QED BY <4>1, <5>1, <2>1, <2>12
      <4>2. CASE i # p
        <5>1. log[i].extent # e /\ log[i].extent \in Ext BY <4>2, <2>1, <2>2, <2>13, <1>1, EntryExtents
        <5>2. q >= i <=> p >= i BY <4>2, <2>6, <1>1
        <5>3. Freed(start, i)' <=> Freed(start, i) BY <5>2, <2>7, <2>8
        <5> QED BY <5>1, <5>3, <2>9, <2>12, <2>13
      <4> QED BY <4>1, <4>2
    <3>2. ~keyed' /\ ~Building' BY <1>7 DEF Taken, otherVars
    <3> QED BY <3>1, <3>2 DEF DataRefs
  <2>14. \A x \in Ext : own[x][1] # "data" => refc'[x] = refc[x] BY <2>3, <2>12
  <2> QED BY <2>11, <2>13, <2>14, <1>5
<1> QED BY <1>6, <1>7

-----------------------------------------------------------------------------

(* What remains of the tokens of an entry is behind the walk.              *)
LEMMA TokensBehind ==
    ASSUME NEW log, NEW start, NEW own, Inv(log, start, own), NEW t \in Role("dec"), NEW i \in DOMAIN log, NEW p \in DOMAIN log,
           Pair(log, i, p), p = Pos(start, t) + 1, Pos(start, t) \in Nat,
           Pos(start, t) < start[lv[t].page] + Len(meta[lv[t].page].entries), mpc[t] = "walk",
           NEW k \in Tokens(log, start, i), k # <<"dec", t>>
    PROVE  Behind(start, t)
<1> USE DEF Inv
<1>1. log \in Seq(EntryRec) /\ DOMAIN log \subseteq Nat BY LogEntries DEF ListInv
<1>2. k \in TokenSet /\ Active(log, start, i, k) BY DEF Tokens, TokenSet
<1>3. CASE \E r \in Rs, m \in Nat : k = <<"held", <<r, m>>>>
  <2>1. PICK r \in Rs, m \in Nat : k = <<"held", <<r, m>>>> BY <1>3
  <2>2. m \in 1 .. held[r] BY <2>1, <1>2, HeldToken
  <2>3. held[r] \in Nat BY DEF TypeOK
  <2>4. held[r] > 0 BY <2>2, <2>3
  <2> QED BY <2>4 DEF Behind
<1>4. CASE \E u \in MiniThread : k = <<"mine", u>> \/ k = <<"new", u>> \/ k = <<"dec", u>>
  <2>1. PICK u \in MiniThread : k = <<"mine", u>> \/ k = <<"new", u>> \/ k = <<"dec", u>> BY <1>4
  <2>2. CASE k # <<"dec", u>>
    <3>1. lv[u].op = "inc" BY <2>1, <2>2, <1>2, ThreadTokens
    <3>2. u \in Role("inc") BY <3>1 DEF Role
    <3> QED BY <3>2 DEF Behind
  <2>3. CASE k = <<"dec", u>>
    <3>1. lv[u].op = "dec" /\ ~Passed(log, i, Pos(start, u)) /\ u # t BY <2>3, <1>2, ThreadTokens
    <3>2. u \in Role("dec") BY <3>1 DEF Role
    <3>3. CASE mpc[u] \in WaitPCs BY <3>1, <3>2, <3>3 DEF Behind
    <3>4. CASE mpc[u] \notin WaitPCs
      <4>1. PICK c \in DOMAIN meta : c = lv[u].page BY <3>2, DecAt, WalkerAt
      <4>2. PICK a \in DOMAIN meta : a = lv[t].page BY DecAt, WalkerAt
      <4>3. c # a
        <5>1. mpc[t] \notin WaitPCs BY DEF WaitPCs
        <5> QED BY <5>1, <4>1, <4>2, <3>1, <3>2, <3>4, DecAt
      <4>4. PICK x \in Nat : x = Pos(start, u) /\ start[c] <= x BY <3>2, <4>1, DecAt, WalkerAt
      <4>5. PICK q \in Nat : q = Pos(start, t) /\ p = q + 1 /\ q < start[a] + Len(meta[a].entries) BY <4>2
      <4>6. PICK sc \in Nat, sa \in Nat, la \in Nat : sc = start[c] /\ sa = start[a] /\ la = Len(meta[a].entries) BY PageBounds
      <4>7. ~(p <= x) BY <3>1, <4>4 DEF Passed
      <4>8. sc <= x /\ x <= q /\ q < sa + la BY <4>4, <4>5, <4>6, <4>7
      <4>9. sa < sc => sa + la <= sc BY <4>6, PagesOrdered
      <4>10. sa # sc BY <4>3, <4>6, PagesOrdered
      <4>11. sc < sa BY <4>8, <4>9, <4>10
      <4> QED BY <4>1, <4>2, <4>6, <4>11, <3>1, <3>2 DEF Behind
    <3> QED BY <3>3, <3>4
  <2> QED BY <2>2, <2>3
<1> QED BY <1>2, <1>3, <1>4, EveryToken

(* Who is behind the walk has a token of the entry that everybody counts.  *)
LEMMA BehindTokens ==
    ASSUME NEW log, NEW start, NEW own, Inv(log, start, own), NEW t \in Role("dec"), NEW i \in DOMAIN log, NEW p \in DOMAIN log,
           Top(log, i, p), start[lv[t].page] < p, Behind(start, t)
    PROVE  \E k \in Tokens(log, start, i) : k # <<"dec", t>>
<1> USE DEF Inv
<1>1. log \in Seq(EntryRec) /\ DOMAIN log \subseteq Nat BY LogEntries DEF ListInv
<1>2. \A r : Hit(log, r, i) BY <1>1, TopHit
<1>3. \A k \in TokenSet : Active(log, start, i, k) => k \in Tokens(log, start, i) BY DEF Tokens, TokenSet
<1>4. CASE \E r \in Rs : held[r] > 0
  <2>1. PICK r \in Rs : held[r] > 0 BY <1>4
  <2>2. 1 \in 1 .. held[r] BY <2>1 DEF TypeOK
  <2>3. Active(log, start, i, <<"held", <<r, 1>>>>) BY <2>2, <1>2, HeldToken
  <2>4. <<"held", <<r, 1>>>> \in TokenSet /\ <<"held", <<r, 1>>>> # <<"dec", t>> BY TokenMembers
  <2> QED BY <2>3, <2>4, <1>3
<1>5. CASE Role("inc") # {}
  <2>1. PICK u \in MiniThread : lv[u].op = "inc" BY <1>5 DEF Role
  <2>2. Active(log, start, i, <<"mine", u>>) BY <2>1, <1>2, ThreadTokens
  <2>3. <<"mine", u>> \in TokenSet /\ <<"mine", u>> # <<"dec", t>> BY TokenMembers
  <2> QED BY <2>2, <2>3, <1>3
<1>6. CASE \E u \in Role("dec") : u # t /\ (mpc[u] \in WaitPCs \/ start[lv[u].page] < start[lv[t].page])
  <2>1. PICK u \in Role("dec") : u # t /\ (mpc[u] \in WaitPCs \/ start[lv[u].page] < start[lv[t].page]) BY <1>6
  <2>2. PICK c \in DOMAIN meta : c = lv[u].page BY DecAt, WalkerAt
  <2>3. PICK a \in DOMAIN meta : a = lv[t].page BY DecAt, WalkerAt
  <2>4. PICK x \in Nat : x = Pos(start, u) /\ x <= start[c] + Len(meta[c].entries) BY <2>2, DecAt, WalkerAt
  <2>5. PICK sc \in Nat, sa \in Nat, lc \in Nat : sc = start[c] /\ sa = start[a] /\ lc = Len(meta[c].entries) BY PageBounds
  <2>6. x < p
    <3>1. CASE mpc[u] \in WaitPCs
      <4>1. x = 0 BY <3>1, <2>4, DecAt
      <4> QED BY <4>1, <1>1, <2>3, <2>5
    <3>2. CASE start[lv[u].page] < start[lv[t].page]
      <4>1. sc < sa BY <3>2, <2>2, <2>3, <2>5
      <4>2. sc + lc <= sa BY <4>1, <2>5, PagesOrdered
      <4>3. sa < p BY <2>3, <2>5
      <4> QED BY <4>2, <4>3, <2>4, <2>5, <1>1
    <3> QED BY <3>1, <3>2, <2>1
  <2>7. ~Passed(log, i, Pos(start, u))
    <3> SUFFICES ASSUME NEW j \in DOMAIN log, Pair(log, i, j), j <= x PROVE FALSE BY <2>4 DEF Passed
    <3>1. j = p BY <1>1, PairFacts DEF Top
    <3> QED BY <3>1, <2>6, <1>1
  <2>8. u \in MiniThread /\ lv[u].op = "dec" BY DEF Role
  <2>9. Active(log, start, i, <<"dec", u>>) BY <2>7, <2>8, <1>2, ThreadTokens
  <2>10. <<"dec", u>> \in TokenSet /\ <<"dec", u>> # <<"dec", t>> BY <2>1, <2>8, TokenMembers
  <2> QED BY <2>9, <2>10, <1>3
<1> QED BY <1>4, <1>5, <1>6 DEF Behind

(* A walk of dec_ref that has only seen counts go to zero has nobody       *)
(* behind it, and one that has seen another has.                           *)
LEMMA WalkEntryOrder ==
    ASSUME NEW log, NEW start, NEW own, Inv(log, start, own), TypeOK', NEW t \in MiniThread, NEW p \in Nat, NEW hit, NEW e,
           Taken(log, start, t, p, hit, e), RefInv(log, start, own)'
    PROVE  OrderInv(log, start)'
<1> USE DEF Inv
<1>1. log \in Seq(EntryRec) /\ DOMAIN log \subseteq Nat BY LogEntries DEF ListInv
<1>2. held' = held /\ mpc' = mpc /\ (\A op : Role(op)' = Role(op)) BY DEF Taken, otherVars
<1>3. \A u \in MiniThread : lv'[u].page = lv[u].page BY DEF Taken
<1>4. \A u \in Role("dec") : u \in MiniThread BY DEF Role
<1>5. ASSUME NEW u \in Role("dec") PROVE Behind(start, u)' <=> Behind(start, u) BY <1>2, <1>3, <1>4 DEF Behind
<1>6. \A i, j : Top(log, i, j)' <=> Top(log, i, j) BY DEF Top, Pair, FirstOf, Data
<1> SUFFICES ASSUME NEW u \in Role("dec")
             PROVE  /\ ~lv'[u].cleanup => Behind(start, u)
                    /\ lv'[u].cleanup /\ (\E i, j \in DOMAIN log : Top(log, i, j) /\ j <= Pos(start, u)') => ~Behind(start, u)
  BY <1>2, <1>5, <1>6 DEF OrderInv
<1>7. CASE u # t
  <2>1. lv'[u] = lv[u] /\ Pos(start, u)' = Pos(start, u) BY <1>4, <1>7 DEF Taken
  <2> QED BY <2>1 DEF OrderInv
<1>8. CASE u = t
  <2>0. t \in Role("dec") /\ lv[t].op = "dec" BY <1>8 DEF Role
  <2>1. keyed BY <2>0, DecAt
  <2>2. PICK q \in Nat : q = Pos(start, t) /\ p = q + 1 BY DEF Taken
  <2>3. p \in DOMAIN log /\ Pos(start, t)' = p /\ mpc[t] = "walk"
        /\ Pos(start, t) < start[lv[t].page] + Len(meta[lv[t].page].entries) /\ Pos(start, t) \in Nat /\ p = Pos(start, t) + 1
    BY DEF Taken
  <2>4. keyed' /\ ~Building' BY <2>1 DEF Taken, otherVars
  <2>5. lv[t].cleanup \in BOOLEAN /\ hit \in BOOLEAN /\ lv'[t].cleanup = (lv[t].cleanup /\ (hit => refc'[e] = AL_FREE))
    BY DEF Taken, WalkRec
  <2>6. ASSUME NEW i \in DOMAIN log, Pair(log, i, p), hit
        PROVE  /\ e = log[i].extent /\ Data(log, i)
               /\ Tokens(log, start, i)' = Tokens(log, start, i) \ {<<"dec", t>>}
               /\ refc'[e] = AL_FREE <=> Tokens(log, start, i)' = {}
    <3>1. Recounted(log, start, t, p, hit, e, i) BY <2>1, WalkEntryTokens
    <3>2. e = log[i].extent /\ Data(log, i) /\ Tokens(log, start, i)' = Tokens(log, start, i) \ {<<"dec", t>>}
      BY <3>1, <2>0, <2>6 DEF Recounted
    <3>3. DataRefs(log, start, i)'
      <4>1. Data(log, i)' BY <3>2 DEF Data
      <4> QED BY <4>1 DEF RefInv
    <3>4. IsFiniteSet(Tokens(log, start, i)') /\ refc'[log[i].extent] = Counted(Cardinality(Tokens(log, start, i)'))
      BY <3>3, <2>4 DEF DataRefs, Counted
    <3>5. PICK S : S = Tokens(log, start, i)' OBVIOUS
    <3>6. Cardinality(S) \in Nat /\ (Cardinality(S) = 0 <=> S = {}) BY <3>4, <3>5, FS_CardinalityType, FS_EmptySet
    <3>7. Counted(Cardinality(S)) = AL_FREE <=> S = {} BY <3>6, CountApplied
    <3>8. refc'[e] = AL_FREE <=> S = {} BY <3>2, <3>4, <3>5, <3>7
    <3> QED BY <3>2, <3>5, <3>8
  <2>7. ASSUME ~lv'[t].cleanup PROVE Behind(start, t)
    <3>1. CASE ~lv[t].cleanup BY <3>1, <2>0 DEF OrderInv
    <3>2. CASE lv[t].cleanup
      <4>1. hit /\ refc'[e] # AL_FREE BY <3>2, <2>5, <2>7
      <4>2. PICK i \in DOMAIN log : Pair(log, i, p)
        <5>1. Intersects(lv[t].state[log[p].batch], NextState(lv[t], log[p])) BY <4>1, <2>1 DEF Taken
        <5> QED BY <5>1, <2>0, <2>3, BatchStates
      <4>3. PICK k \in Tokens(log, start, i) : k # <<"dec", t>> BY <4>1, <4>2, <2>6
      <4> QED BY <4>2, <4>3, <2>0, <2>3, TokensBehind
    <3> QED BY <3>1, <3>2
  <2>8. ASSUME lv'[t].cleanup, NEW i \in DOMAIN log, NEW j \in DOMAIN log, Top(log, i, j), j <= p, Behind(start, t) PROVE FALSE
    <3>1. lv[t].cleanup BY <2>5, <2>8
    <3>2. j = p
      <4>1. ~(j <= Pos(start, t)) BY <3>1, <2>0, <2>8 DEF OrderInv
      <4> QED BY <4>1, <2>2, <2>8, <1>1
    <3>3. Pair(log, i, p) /\ Hits(log, lv[t].range, i, p) BY <3>2, <2>8, <1>1, TopHit DEF Top
    <3>4. hit
      <4>1. Intersects(lv[t].state[log[p].batch], NextState(lv[t], log[p])) BY <3>3, <2>0, <2>3, BatchStates
      <4> QED BY <4>1 DEF Taken
    <3>5. refc'[e] = AL_FREE BY <3>4, <2>5, <2>8
    <3>6. Tokens(log, start, i) \ {<<"dec", t>>} = {} BY <3>3, <3>4, <3>5, <2>6
    <3>7. start[lv[t].page] < p
      <4>1. PICK a \in DOMAIN meta : a = lv[t].page /\ start[a] <= Pos(start, t) BY <2>0, DecAt, WalkerAt
      <4>2. start[a] \in Nat BY PageBounds
      <4> QED BY <4>1, <4>2, <2>2
    <3>8. \E k \in Tokens(log, start, i) : k # <<"dec", t>> BY <3>2, <3>7, <2>0, <2>3, <2>8, BehindTokens
    <3> QED BY <3>6, <3>8
  <2> QED BY <1>8, <2>3, <2>7, <2>8
<1> QED BY <1>7, <1>8

(* The functions that the walks call for an entry keep the invariant.      *)
LEMMA WalkEntryInv ==
    ASSUME NEW log, NEW start, NEW own, Inv(log, start, own), NEW t \in MiniThread, WalkEntry(t)
    PROVE  Inv(log, start, own)'
<1>1. /\ \E p \in Nat : \E hit, e : Taken(log, start, t, p, hit, e)
      /\ TypeOK' /\ RoleInv' /\ ListInv(log, start)' /\ BatchInv(log)' /\ OwnInv(log, own)' /\ AddrInv(log)' /\ KeyInv(log)'
      /\ ClaimInv' /\ BlockInv' /\ LiveInv'
      /\ \A b \in Batch : Pending(b)' <=> Pending(b)
      /\ \A u \in MiniThread : (Flying(u)' <=> Flying(u)) /\ (Flying(u) => lv'[u].addr = lv[u].addr)
  BY WalkEntryTaken
<1>6. PICK p \in Nat : \E hit, e : Taken(log, start, t, p, hit, e) BY <1>1
<1>2. PICK hit, e : Taken(log, start, t, p, hit, e) BY <1>6
<1>3. WalkInv(log, start)' BY <1>2, WalkEntryStates
<1>4. RefInv(log, start, own)' /\ failed' = {} BY <1>1, <1>2, WalkEntryRefs
<1>5. OrderInv(log, start)' BY <1>1, <1>2, <1>4, WalkEntryOrder
<1> QED BY <1>1, <1>3, <1>4, <1>5 DEF Inv

-----------------------------------------------------------------------------
(* WalkEnd.                                                                *)

(* A walk lives in a released allocator that nobody releases any more.     *)
LEMMA WalksAfterRelease ==
    ASSUME NEW log, NEW start, NEW own, Inv(log, start, own), NEW t \in Walkers
    PROVE  life = "released" /\ ~Building /\ (keyed => Role("release") = {}) /\ Role("deinit") = {} /\ Role("alloc") = {}
<1> USE DEF Inv
<1>1. t \in MiniThread /\ lv[t].op \in {"inc", "prefetch", "dec", "dealloc"} BY DEF Walkers, Role
<1>2. life = "released" BY <1>1 DEF RoleInv, TypeOK
<1>3. keyed => Role("release") = {}
  <2> SUFFICES ASSUME keyed, NEW u \in Role("release") PROVE FALSE OBVIOUS
  <2>1. u # t BY <1>1 DEF Role
  <2> QED BY <2>1, <1>1 DEF RoleInv
<1>4. Role("deinit") = {} /\ Role("alloc") = {} BY <1>2 DEF RoleInv
<1> QED BY <1>2, <1>3, <1>4 DEF Building

(* At the end a walk is behind all entries; a keyed one has counted.       *)
LEMMA AtEnd ==
    ASSUME NEW log, NEW start, NEW own, Inv(log, start, own), NEW t \in Walkers,
           lv[t].i > Len(meta[lv[t].page].entries), meta[lv[t].page].next = NoPage
    PROVE  /\ lv[t].page = meta_tail /\ Pos(start, t) = Len(log) /\ Len(log) \in Nat /\ DOMAIN log = 1 .. Len(log)
           /\ keyed => lv[t].did_work /\ \E i, j \in DOMAIN log : Top(log, i, j) /\ j <= Pos(start, t)
<1> USE DEF Inv
<1>1. PICK a \in DOMAIN meta : a = lv[t].page BY WalkerAt
<1>2. PICK i \in Nat : i = lv[t].i /\ i <= Len(meta[a].entries) + 1 /\ Pos(start, t) = start[a] + i - 1 BY <1>1, WalkerAt
<1>3. PICK s \in Nat, n \in Nat, m \in Nat : s = start[a] /\ n = Len(meta[a].entries) /\ m = Len(log) BY PageBounds
<1>4. a = meta_tail /\ s + n = m BY <1>1, <1>3, PageBounds
<1>5. i = n + 1 BY <1>1, <1>2, <1>3
<1>6. Pos(start, t) = m BY <1>2, <1>3, <1>4, <1>5
<1>7. DOMAIN log = 1 .. Len(log) /\ log \in Seq(EntryRec) BY LogEntries DEF ListInv
<1>8. ASSUME keyed PROVE lv[t].did_work /\ \E ii, j \in DOMAIN log : Top(log, ii, j) /\ j <= Pos(start, t)
  <2>1. life = "released" /\ Role("release") = {} BY <1>8, WalksAfterRelease
  <2>2. PICK ii \in DOMAIN log, j \in DOMAIN log : Top(log, ii, j) BY <2>1, <1>8, TopExists
  <2>3. j <= Pos(start, t) BY <1>3, <1>6, <1>7
  <2>4. t \in Role("inc") \cup Role("dec")
    <3>1. t \notin Role("prefetch") \cup Role("dealloc") BY <1>8 DEF RoleInv
    <3> QED BY <3>1 DEF Walkers
  <2>5. lv[t].did_work BY <2>2, <2>3, <2>4 DEF WalkInv
  <2> QED BY <2>2, <2>3, <2>5
<1> QED BY <1>1, <1>3, <1>4, <1>6, <1>7, <1>8

\* What the end of the walk of t leaves alone.
EndsWalk(t, to, loc) ==
    /\ mpc[t] = "walk" /\ Move(t, "walk", to, loc)
    /\ to \in {"idle", "deinit"} /\ loc = IF to = "idle" THEN NoLocals ELSE [op |-> "deinit", page |-> meta_head]
    /\ claim' = IF lv[t].op = "dec" THEN Release(lv[t].page) ELSE claim
    /\ life' = IF to = "idle" THEN life ELSE "gone"
    /\ UNCHANGED <<keyed, refc, meta, meta_tail, next_addr, next_extent, num_extents, blocked, given, allocs, reloads>>

(* The end of a walk keeps all that is not about references.               *)
LEMMA EndStep ==
    ASSUME NEW log, NEW start, NEW own, Inv(log, start, own), NEW t \in MiniThread, NEW to, NEW loc, EndsWalk(t, to, loc),
           held' \in [Rs -> Nat]
    PROVE  /\ TypeOK' /\ ListInv(log, start)' /\ ClaimInv' /\ BatchInv(log)' /\ OwnInv(log, own)' /\ AddrInv(log)' /\ KeyInv(log)'
           /\ WalkInv(log, start)'
           /\ \A b \in Batch : Pending(b)' <=> Pending(b)
           /\ \A u \in MiniThread : (Flying(u)' <=> Flying(u)) /\ (Flying(u) => lv'[u].addr = lv[u].addr)
           /\ \A op \in {"inc", "prefetch", "dec", "dealloc"} : Role(op)' = Role(op) \ {t}
           /\ \A op \in {"alloc", "release"} : Role(op)' = Role(op)
           /\ Role("deinit")' = IF to = "idle" THEN {} ELSE {t}
           /\ t \in Walkers /\ lv[t].op \in {"inc", "prefetch", "dec", "dealloc"}
           /\ mpc'[t] = to /\ lv'[t] = loc /\ \A u \in MiniThread \ {t} : mpc'[u] = mpc[u] /\ lv'[u] = lv[u]
<1> USE DEF Inv
<1>1. /\ mpc[t] = "walk" /\ Move(t, "walk", to, loc)
      /\ to \in {"idle", "deinit"} /\ loc = IF to = "idle" THEN NoLocals ELSE [op |-> "deinit", page |-> meta_head]
      /\ claim' = IF lv[t].op = "dec" THEN Release(lv[t].page) ELSE claim
      /\ life' = IF to = "idle" THEN life ELSE "gone"
      /\ UNCHANGED <<keyed, refc, meta, meta_tail, next_addr, next_extent, num_extents, blocked, given, allocs, reloads>>
  BY DEF EndsWalk
<1>2. lv[t].op \in {"inc", "prefetch", "dec", "dealloc"} /\ t \in Walkers BY <1>1, OpOfStep DEF Walkers, Role
<1>3. LocalsAt(to, loc) /\ loc.op = IF to = "idle" THEN "none" ELSE "deinit"
  BY <1>1, HeadExtent DEF LocalsAt, DeinitRec, NoLocals
<1>4. /\ mpc' \in [MiniThread -> PCs] /\ DOMAIN lv' = MiniThread
      /\ \A u \in MiniThread : LocalsAt(mpc'[u], lv'[u])
      /\ mpc'[t] = to /\ lv'[t] = loc
      /\ \A u \in MiniThread \ {t} : mpc'[u] = mpc[u] /\ lv'[u] = lv[u]
  BY <1>1, <1>3, Moved
<1>5. claim' \in [DOMAIN claim' -> MiniThread] /\ DOMAIN claim' \subseteq DOMAIN claim /\ (\A a \in DOMAIN claim' : claim'[a] = claim[a])
      /\ DOMAIN claim \ {lv[t].page} \subseteq DOMAIN claim' /\ (lv[t].op # "dec" => claim' = claim)
  <2>1. \A x \in DOMAIN claim : claim[x] \in MiniThread BY DEF TypeOK
  <2>2. CASE lv[t].op = "dec"
    <3>1. claim' = [x \in DOMAIN claim \ {lv[t].page} |-> claim[x]] BY <1>1, <2>2 DEF Release
    <3> QED BY <3>1, <2>1, <2>2
  <2>3. CASE lv[t].op # "dec"
    <3>1. claim' = claim /\ claim \in [DOMAIN claim -> MiniThread] BY <1>1, <2>3 DEF TypeOK
    <3> QED BY <3>1
  <2> QED BY <2>2, <2>3
<1>6. life = "released" /\ Role("deinit") = {} BY <1>2, WalksAfterRelease
<1>7. TypeOK'
  <2>1. next_addr' \in [Batch -> Nat] /\ next_extent' \in [Batch -> Ext] /\ refc' \in [Ext -> Int]
        /\ blocked' \in [MiniThread -> SUBSET Rs] /\ allocs' \in [MiniThread -> Nat] /\ meta' \in [DOMAIN meta' -> PageRec]
    BY <1>1 DEF TypeOK
  <2> QED BY <1>1, <1>4, <1>5, <1>6, <2>1 DEF TypeOK
<1>8. \A u \in MiniThread : u # t => lv'[u].op = lv[u].op BY <1>4
<1>9. lv'[t].op = IF to = "idle" THEN "none" ELSE "deinit" BY <1>3, <1>4
<1>10. /\ \A op \in {"inc", "prefetch", "dec", "dealloc"} : Role(op)' = Role(op) \ {t}
       /\ \A op \in {"alloc", "release"} : Role(op)' = Role(op)
       /\ Role("deinit")' = IF to = "idle" THEN {} ELSE {t}
  <2>1. \A op \in {"inc", "prefetch", "dec", "dealloc"} : Role(op)' = Role(op) \ {t} BY <1>8, <1>9 DEF Role
  <2>2. \A op \in {"alloc", "release"} : Role(op)' = Role(op) BY <1>2, <1>8, <1>9 DEF Role
  <2>3. Role("deinit")' = IF to = "idle" THEN {} ELSE {t} BY <1>6, <1>8, <1>9 DEF Role
  <2> QED BY <2>1, <2>2, <2>3
<1>11. Elsewhere
  <2> SUFFICES ASSUME NEW u \in MiniThread
               PROVE \/ mpc'[u] = mpc[u] /\ lv'[u] = lv[u]
                     \/ lv[u].op \notin {"alloc", "release"} /\ lv'[u].op \notin {"alloc", "release"}
    BY DEF Elsewhere
  <2> QED BY <1>2, <1>4, <1>9
<1>12. BatchInv(log)' /\ OwnInv(log, own)' /\ AddrInv(log)' /\ KeyInv(log)'
       /\ (\A b \in Batch : Pending(b)' <=> Pending(b))
       /\ \A u \in MiniThread : (Flying(u)' <=> Flying(u)) /\ (Flying(u) => lv'[u].addr = lv[u].addr)
  <2>1. log \in Seq(EntryRec) BY DEF ListInv
  <2> QED BY <2>1, <1>1, <1>6, <1>7, <1>11, WalkFrame
<1>13. ListInv(log, start)'
  <2>1. \A u \in Walkers' : u \in Walkers /\ u # t /\ u \in MiniThread BY <1>10 DEF Walkers, Role
  <2>2. \A u \in Walkers' : lv'[u].page \in DOMAIN meta /\ lv'[u].i \in 1 .. Len(meta[lv'[u].page].entries) + 1
    BY <2>1, <1>4 DEF ListInv
  <2>3. \A u \in Role("deinit")' : lv'[u].page \in DOMAIN meta
    <3> SUFFICES ASSUME to = "deinit" PROVE lv'[t].page \in DOMAIN meta BY <1>10, <1>1
    <3> QED BY <1>1, <1>4 DEF ListInv
  <2> QED BY <2>2, <2>3, <1>1, ListFrame
<1>14. ClaimInv'
  <2>1. DOMAIN claim' \subseteq DOMAIN meta' BY <1>1, <1>5 DEF ClaimInv
  <2>2. lv[t].op = "dec" => t \in Role("dec") /\ lv[t].page \in DOMAIN claim /\ claim[lv[t].page] = t BY <1>1 DEF ClaimInv, Role
  <2>3. \A u \in MiniThread : mpc'[u] \in {"append", "append_new"} =>
           lv'[u].tail = meta_tail' /\ meta_tail' \in DOMAIN claim' /\ claim'[meta_tail'] = u
    <3> SUFFICES ASSUME NEW u \in MiniThread, mpc'[u] \in {"append", "append_new"}
                 PROVE lv'[u].tail = meta_tail /\ meta_tail \in DOMAIN claim' /\ claim'[meta_tail] = u
      BY <1>1
    <3>1. u # t BY <1>1, <1>4
    <3>2. lv[u].tail = meta_tail /\ meta_tail \in DOMAIN claim /\ claim[meta_tail] = u BY <3>1, <1>4 DEF ClaimInv
    <3> QED BY <3>1, <3>2, <2>2, <1>4, <1>5
  <2>4. \A u \in Role("dec")' : mpc'[u] = "walk" => lv'[u].page \in DOMAIN claim' /\ claim'[lv'[u].page] = u
    <3> SUFFICES ASSUME NEW u \in Role("dec")', mpc'[u] = "walk" PROVE lv'[u].page \in DOMAIN claim' /\ claim'[lv'[u].page] = u OBVIOUS
    <3>1. u \in Role("dec") /\ u # t /\ u \in MiniThread BY <1>10 DEF Role
    <3>2. lv'[u] = lv[u] /\ lv[u].page \in DOMAIN claim /\ claim[lv[u].page] = u BY <3>1, <1>4 DEF ClaimInv
    <3> QED BY <3>1, <3>2, <2>2, <1>5
  <2> QED BY <2>1, <2>3, <2>4 DEF ClaimInv
<1>15. WalkInv(log, start)'
  <2> SUFFICES ASSUME NEW u \in Role("inc")' \cup Role("dec")'
               PROVE /\ \A k \in DOMAIN log : k > Pos(start, u)' /\ FirstOf(log, k) =>
                           lv'[u].extent[log[k].batch] = TERMINAL_EXTENT_ADDR /\ lv'[u].state[log[k].batch] = "before_start"
                     /\ \A i, k \in DOMAIN log : i <= Pos(start, u)' /\ k > Pos(start, u)' /\ Pair(log, i, k) =>
                           lv'[u].extent[log[k].batch] = log[i].extent /\ lv'[u].state[log[k].batch] = StateAt(log, lv'[u].range, i)
                     /\ \A i, j \in DOMAIN log : Top(log, i, j) /\ j <= Pos(start, u)' => lv'[u].did_work
    BY DEF WalkInv, FirstOf, Pair, Top, StateAt, Data
  <2>1. u \in Role("inc") \cup Role("dec") /\ u # t /\ u \in MiniThread BY <1>10 DEF Role
  <2>2. lv'[u] = lv[u] /\ Pos(start, u)' = Pos(start, u) BY <2>1, <1>4 DEF Pos
  <2> QED BY <2>1, <2>2 DEF WalkInv
<1> HIDE DEF Inv
<1> QED BY <1>2, <1>4, <1>7, <1>10, <1>12, <1>13, <1>14, <1>15

-----------------------------------------------------------------------------

\* The walk of t is the one that frees the allocator.
Destroys(t) == lv[t].op = "dealloc" \/ (lv[t].op = "dec" /\ lv[t].cleanup)

(* It is alone: all references are gone, and so are the blockers.          *)
LEMMA LastWalk ==
    ASSUME NEW log, NEW start, NEW own, Inv(log, start, own), NEW t \in Walkers, mpc[t] = "walk",
           lv[t].i > Len(meta[lv[t].page].entries), meta[lv[t].page].next = NoPage, Destroys(t)
    PROVE  NoneHeld /\ NoBlocks /\ Walkers = {t} /\ refc[1] = AL_ONE_REF /\ FirstCount = AL_ONE_REF
<1> USE DEF Inv
<1>0. Cardinality({}) = 0 BY FS_EmptySet
<1>1. lv[t].page = meta_tail BY AtEnd
<1>2. life = "released" BY WalksAfterRelease
<1>3. \A r \in Rs : held[r] \in Nat BY DEF TypeOK
<1>4. CASE lv[t].op = "dealloc"
  <2>1. t \in Role("dealloc") /\ t \in MiniThread BY <1>4 DEF Role, Walkers
  <2>2. ~keyed /\ NoneHeld /\ Role("prefetch") = {} BY <2>1 DEF RoleInv
  <2>3. NoBlocks /\ Role("inc") \cup Role("dec") = {} BY <2>2 DEF RoleInv
  <2>4. Walkers = {t} BY <2>1, <2>2, <2>3 DEF RoleInv, Walkers
  <2>5. held[Whole] = 0 BY <2>2 DEF NoneHeld, Rs
  <2>6. FirstCount = AL_ONE_REF
    <3> HIDE DEF Inv
    <3>1. Cardinality(Role("prefetch")) = 0 BY <1>0, <2>2
    <3> QED BY <3>1, <2>2, <2>5 DEF FirstCount, MINI_NO_REFS, AL_ONE_REF
  <2> QED BY <2>2, <2>3, <2>4, <2>6, <1>2, FirstExtent
<1>5. CASE lv[t].op = "dec"
  <2>1. t \in Role("dec") /\ t \in MiniThread /\ keyed /\ lv[t].cleanup
    <3>1. t \in Role("dec") BY <1>5 DEF Role, Walkers
    <3> QED BY <3>1, <1>5, DecAt DEF Destroys
  <2>2. ~Behind(start, t)
    <3>1. \E i, j \in DOMAIN log : Top(log, i, j) /\ j <= Pos(start, t) BY <2>1, AtEnd
    <3> QED BY <3>1, <2>1 DEF OrderInv
  <2>3. NoneHeld BY <2>2, <1>3 DEF Behind, NoneHeld
  <2>4. Role("inc") = {} BY <2>2 DEF Behind
  <2>5. ASSUME NEW u \in Role("dec"), u # t PROVE FALSE
    <3>1. mpc[u] \notin WaitPCs BY <2>2, <2>5 DEF Behind
    <3>2. PICK c \in DOMAIN meta : c = lv[u].page BY DecAt, WalkerAt
    <3>3. c # meta_tail
      <4>1. mpc[t] \notin WaitPCs BY DEF WaitPCs
      <4> QED BY <4>1, <3>1, <3>2, <2>1, <2>5, <1>1, DecAt
    <3>4. start[c] \in Nat /\ start[meta_tail] \in Nat /\ start[c] <= start[meta_tail] /\ start[c] # start[meta_tail]
      BY <3>2, <3>3, PageBounds, PagesOrdered DEF ListInv
    <3>5. start[lv[u].page] < start[lv[t].page] BY <3>2, <3>4, <1>1
    <3> QED BY <3>5, <2>2, <2>5 DEF Behind
  <2>6. Walkers = {t}
    <3>1. Role("prefetch") \cup Role("dealloc") = {} BY <2>1 DEF RoleInv
    <3> QED BY <3>1, <2>1, <2>4, <2>5 DEF Walkers
  <2>7. NoBlocks
    <3> SUFFICES ASSUME NEW u \in MiniThread, NEW r \in blocked[u] PROVE FALSE BY DEF NoBlocks
    <3>1. r \in Rs BY DEF TypeOK
    <3>2. held[r] = 0 BY <3>1, <2>3 DEF NoneHeld
    <3>3. PICK v \in MiniThread : mpc[v] = "wait_blockers" BY <3>2, <2>4 DEF BlockInv
    <3>4. v \in Role("dec") BY <3>3 DEF RoleInv, WaitPCs, Role
    <3> QED BY <3>3, <3>4, <2>5
  <2>8. FirstCount = AL_ONE_REF
    <3>1. {u \in MiniThread : blocked[u] # {}} = {} BY <2>7 DEF NoBlocks
    <3> HIDE DEF Inv
    <3>2. Cardinality({u \in MiniThread : blocked[u] # {}}) = 0 BY <1>0, <3>1
    <3> QED BY <3>2, <2>1 DEF FirstCount, MINI_NO_REFS, AL_ONE_REF
  <2> QED BY <2>3, <2>6, <2>7, <2>8, <1>2, FirstExtent
<1> QED BY <1>4, <1>5 DEF Destroys

\* What the end of the walk of t gives back.
GivesBack(t) ==
    \A r \in Rs : held'[r] = held[r] + (IF lv[t].op \in {"inc", "prefetch"} /\ r = lv[t].mine THEN 1 ELSE 0)
                                     + (IF lv[t].op = "inc" /\ r = lv[t].range THEN 1 ELSE 0)

(* The end of a walk frees or does not, and the assertions of              *)
(* mini_keyed_for_each hold.                                               *)
LEMMA WalkEndStep ==
    ASSUME NEW log, NEW start, NEW own, Inv(log, start, own), NEW t \in MiniThread, WalkEnd(t)
    PROVE  /\ t \in Walkers /\ mpc[t] = "walk" /\ lv[t].i > Len(meta[lv[t].page].entries) /\ meta[lv[t].page].next = NoPage
           /\ Destroys(t) => EndsWalk(t, "deinit", [op |-> "deinit", page |-> meta_head])
           /\ ~Destroys(t) => EndsWalk(t, "idle", NoLocals)
           /\ GivesBack(t) /\ held' \in [Rs -> Nat] /\ failed' = {}
<1> USE DEF Inv
<1>1. PICK back : back = IF lv[t].op \in {"dec", "dealloc"} THEN {} ELSE {lv[t].mine} OBVIOUS
<1>2. /\ mpc[t] = "walk" /\ lv[t].i > Len(meta[lv[t].page].entries) /\ meta[lv[t].page].next = NoPage
      /\ failed' = IF (keyed => lv[t].did_work) /\ (keyed /\ Destroys(t) => refc[1] = AL_ONE_REF) THEN failed
                   ELSE failed \cup {"mini_keyed_for_each"}
      /\ Move(t, "walk", IF Destroys(t) THEN "deinit" ELSE "idle", IF Destroys(t) THEN [op |-> "deinit", page |-> meta_head] ELSE NoLocals)
      /\ claim' = IF lv[t].op = "dec" THEN Release(lv[t].page) ELSE claim
      /\ held' = [r \in DOMAIN held |-> held[r] + Cardinality(back \cap {r}) + (IF lv[t].op = "inc" /\ r = lv[t].range THEN 1 ELSE 0)]
      /\ life' = IF Destroys(t) THEN "gone" ELSE life
      /\ UNCHANGED <<keyed, refc, meta, meta_tail, next_addr, next_extent, num_extents, blocked, given, allocs, reloads>>
  BY <1>1 DEF WalkEnd, Check, Destroys
<1>3. lv[t].op \in {"inc", "prefetch", "dec", "dealloc"} /\ t \in Walkers BY <1>2, OpOfStep DEF Walkers, Role
<1>4. failed' = {}
  <2>1. keyed => lv[t].did_work BY <1>2, <1>3, AtEnd
  <2>2. Destroys(t) => refc[1] = AL_ONE_REF BY <1>2, <1>3, LastWalk
  <2> QED BY <2>1, <2>2, <1>2
<1>5. Destroys(t) => EndsWalk(t, "deinit", [op |-> "deinit", page |-> meta_head]) BY <1>2 DEF EndsWalk
<1>6. ~Destroys(t) => EndsWalk(t, "idle", NoLocals) BY <1>2 DEF EndsWalk
<1>7. DOMAIN held = Rs /\ \A r \in Rs : held[r] \in Nat BY DEF TypeOK
<1>8. \A r : Cardinality(back \cap {r}) = IF lv[t].op \in {"inc", "prefetch"} /\ r = lv[t].mine THEN 1 ELSE 0
  <2> SUFFICES ASSUME NEW r PROVE Cardinality(back \cap {r}) = IF lv[t].op \in {"inc", "prefetch"} /\ r = lv[t].mine THEN 1 ELSE 0
    OBVIOUS
  <2>1. CASE lv[t].op \in {"inc", "prefetch"} /\ r = lv[t].mine
    <3>1. back \cap {r} = {r} BY <2>1, <1>1
    <3> QED BY <3>1, <2>1, FS_Singleton
  <2>2. CASE ~(lv[t].op \in {"inc", "prefetch"} /\ r = lv[t].mine)
    <3>1. back \cap {r} = {} BY <2>2, <1>1, <1>3
    <3> QED BY <3>1, <2>2, FS_EmptySet
  <2> QED BY <2>1, <2>2
<1>9. GivesBack(t) BY <1>2, <1>7, <1>8 DEF GivesBack
<1>10. held' \in [Rs -> Nat]
  <2>1. \A r \in Rs : held'[r] \in Nat BY <1>7, <1>9 DEF GivesBack
  <2> QED BY <2>1, <1>2, <1>7
<1> QED BY <1>2, <1>3, <1>4, <1>5, <1>6, <1>9, <1>10

(* The walk that frees.                                                    *)
LEMMA WalkEndsGone ==
    ASSUME NEW log, NEW start, NEW own, Inv(log, start, own), NEW t \in MiniThread, WalkEnd(t), Destroys(t)
    PROVE  Inv(log, start, own)'
<1> USE DEF Inv
<1>1. /\ t \in Walkers /\ mpc[t] = "walk" /\ lv[t].i > Len(meta[lv[t].page].entries) /\ meta[lv[t].page].next = NoPage
      /\ EndsWalk(t, "deinit", [op |-> "deinit", page |-> meta_head])
      /\ GivesBack(t) /\ held' \in [Rs -> Nat] /\ failed' = {}
  BY WalkEndStep
<1>2. /\ TypeOK' /\ ListInv(log, start)' /\ ClaimInv' /\ BatchInv(log)' /\ OwnInv(log, own)' /\ AddrInv(log)' /\ KeyInv(log)'
      /\ WalkInv(log, start)'
      /\ \A b \in Batch : Pending(b)' <=> Pending(b)
      /\ \A u \in MiniThread : (Flying(u)' <=> Flying(u)) /\ (Flying(u) => lv'[u].addr = lv[u].addr)
      /\ \A op \in {"inc", "prefetch", "dec", "dealloc"} : Role(op)' = Role(op) \ {t}
      /\ \A op \in {"alloc", "release"} : Role(op)' = Role(op)
      /\ Role("deinit")' = {t}
      /\ mpc'[t] = "deinit" /\ lv'[t] = [op |-> "deinit", page |-> meta_head]
      /\ \A u \in MiniThread \ {t} : mpc'[u] = mpc[u] /\ lv'[u] = lv[u]
  BY <1>1, EndStep
<1>3. NoneHeld /\ NoBlocks /\ Walkers = {t} /\ refc[1] = AL_ONE_REF /\ FirstCount = AL_ONE_REF BY <1>1, LastWalk
<1>4. /\ life' = "gone"
      /\ UNCHANGED <<keyed, refc, meta, meta_tail, next_addr, next_extent, num_extents, blocked, given, allocs, reloads>>
  BY <1>1 DEF EndsWalk
<1>5. life = "released" /\ ~Building /\ (keyed => Role("release") = {}) /\ Role("deinit") = {} /\ Role("alloc") = {}
  BY <1>1, WalksAfterRelease
<1>6. Role("inc")' = {} /\ Role("prefetch")' = {} /\ Role("dec")' = {} /\ Role("dealloc")' = {} BY <1>2, <1>3 DEF Walkers
<1>7. NoneHeld' /\ NoBlocks'
  <2>1. lv[t].op \notin {"inc", "prefetch"} BY DEF Destroys
  <2>2. \A r \in Rs : held'[r] = 0 BY <2>1, <1>1, <1>3 DEF GivesBack, NoneHeld
  <2> QED BY <2>2, <1>3, <1>4 DEF NoneHeld, NoBlocks
<1>8. \A u \in MiniThread : u # t => lv[u].op \in {"none", "release"} /\ mpc[u] \notin WaitPCs
  <2> SUFFICES ASSUME NEW u \in MiniThread, u # t PROVE lv[u].op \in {"none", "release"} /\ mpc[u] \notin WaitPCs OBVIOUS
  <2>1. u \notin Walkers /\ u \notin Role("deinit") /\ u \notin Role("alloc") BY <1>3, <1>5
  <2>2. lv[u].op \notin {"inc", "prefetch", "dec", "dealloc", "deinit", "alloc"} BY <2>1 DEF Walkers, Role
  <2>3. mpc[u] \in PCs BY DEF TypeOK
  <2>4. lv[u].op \in {"none", "release"} BY <2>2, <2>3, OpOfStep DEF PCs, AllocPCs, ReleasePCs, WaitPCs, AppendPCs, RoleInv
  <2> QED BY <2>2, <2>4 DEF RoleInv
<1>9. RoleInv'
  <2>1. \A u \in MiniThread : lv'[u].op \in {"none", "release", "deinit"} BY <1>2, <1>8
  <2>2. \A u \in MiniThread : mpc'[u] \notin WaitPCs
    <3>1. mpc'[t] \notin WaitPCs BY <1>2 DEF WaitPCs
    <3> QED BY <3>1, <1>2, <1>8
  <2>3. \A u, v \in Role("release")' : u = v BY <1>2 DEF RoleInv
  <2>4. \A u \in Role("release")' : mpc'[u] # "release" => keyed' /\ lv'[u].batch \in Batch
    <3> SUFFICES ASSUME NEW u \in Role("release"), mpc'[u] # "release" PROVE keyed /\ lv'[u].batch \in Batch BY <1>2, <1>4
    <3>1. u \in MiniThread /\ u # t
      <4>1. lv[t].op # "release" BY DEF Destroys
      <4> QED BY <4>1 DEF Role
    <3> QED BY <3>1, <1>2 DEF RoleInv
  <2>5. keyed' => Role("release")' = {} BY <1>2, <1>4, <1>5
  <2>6. Role("alloc")' = {} BY <1>2, <1>5
  <2>7. keyed' => \A u, v \in MiniThread : allocs'[u] > 0 /\ allocs'[v] > 0 => u = v BY <1>4 DEF RoleInv
  <2>8. life' = "gone" /\ NoneHeld' /\ NoBlocks' /\ \A r \in Rs : r # Whole => held'[r] = 0 BY <1>4, <1>7 DEF NoneHeld
  <2>9. Role("deinit")' = {t} BY <1>2
  <2> HIDE DEF Inv
  <2> QED BY <2>1, <2>2, <2>3, <2>4, <2>5, <2>6, <2>7, <2>8, <2>9, <1>6 DEF RoleInv
<1>10. RefInv(log, start, own)'
  <2>1. ASSUME NEW a \in DOMAIN meta PROVE MetaRefs(start, ExtentOf(a))'
    <3>1. refc'[ExtentOf(a)] = AL_ONE_REF
      <4>1. MetaRefs(start, ExtentOf(a)) BY DEF RefInv
      <4> QED BY <4>1, <1>3, <1>4, <1>5 DEF MetaRefs
    <3>2. Unreached(start, ExtentOf(a))'
      <4>1. start[a] \in Nat /\ start[meta_head] = 0 BY DEF ListInv
      <4>2. start[a] >= start[lv'[t].page] BY <4>1, <1>2
      <4> QED BY <4>2, <1>2, <1>4 DEF Unreached
    <3> QED BY <3>1, <3>2, <1>4 DEF MetaRefs
  <2>2. ASSUME NEW i \in DOMAIN log, Data(log, i) PROVE DataRefs(log, start, i)'
    <3>1. DataRefs(log, start, i) BY <2>2 DEF RefInv
    <3>2. ~Building' BY <1>2, <1>4, <1>5 DEF Building
    <3>3. Pos(start, t) = Len(log) /\ Len(log) \in Nat /\ DOMAIN log = 1 .. Len(log) BY <1>1, AtEnd
    <3>4. CASE ~keyed
      <4>1. lv[t].op = "dealloc" /\ t \in Role("dealloc")
        <5>1. Role("dec") = {} BY <3>4 DEF RoleInv
        <5>2. lv[t].op # "dec" BY <5>1 DEF Role
        <5> QED BY <5>2 DEF Role, Destroys
      <4>2. Freed(start, i) BY <4>1, <3>3 DEF Freed
      <4>3. refc[log[i].extent] = AL_FREE BY <4>2, <3>1, <3>4, <1>5 DEF DataRefs
      <4>4. Freed(start, i)' BY <1>4 DEF Freed
      <4> QED BY <4>3, <4>4, <3>2, <3>4, <1>4 DEF DataRefs
    <3>5. CASE keyed
      <4>1. \A u \in MiniThread : lv[u].op = "dec" => u = t BY <1>3 DEF Walkers, Role
      <4>2. \A u \in MiniThread : lv[u].op # "inc" 
        <5>1. lv[t].op # "inc" BY DEF Destroys
        <5> QED BY <5>1, <1>3 DEF Walkers, Role
      <4>3. \A u \in MiniThread : lv'[u].op \notin {"inc", "dec"} BY <1>6 DEF Role
      <4>4. \A r : Hit(log, r, i) => Passed(log, i, Pos(start, t)) BY <3>3 DEF Hit, Passed
      <4>5. ASSUME NEW k \in TokenSet PROVE ~Active(log, start, i, k) /\ ~Active(log, start, i, k)'
        <5>1. CASE \E r \in Rs, m \in Nat : k = <<"held", <<r, m>>>>
          <6>1. PICK r \in Rs, m \in Nat : k = <<"held", <<r, m>>>> BY <5>1
          <6>2. held[r] = 0 /\ held'[r] = 0 BY <6>1, <1>3, <1>7 DEF NoneHeld
          <6> QED BY <6>1, <6>2, <1>2, HeldToken, HeldTokenNext
        <5>2. CASE \E u \in MiniThread : k = <<"mine", u>> \/ k = <<"new", u>> \/ k = <<"dec", u>>
          <6>1. PICK u \in MiniThread : k = <<"mine", u>> \/ k = <<"new", u>> \/ k = <<"dec", u>> BY <5>2
          <6>2. ~Active(log, start, i, k) BY <6>1, <4>1, <4>2, <4>4, ThreadTokens
          <6>3. ~Active(log, start, i, k)'
            <7>1. PICK w : w = lv'[u] OBVIOUS
            <7>2. PICK p : p = start[w.page] + w.i - 1 OBVIOUS
            <7>3. w.op \notin {"inc", "dec"} BY <7>1, <4>3
            <7>4. ~Active(log, start, i, <<"mine", u>>)' /\ ~Active(log, start, i, <<"new", u>>)' /\ ~Active(log, start, i, <<"dec", u>>)'
              BY <7>1, <7>2, <7>3, ThreadTokensNext
            <7> QED BY <6>1, <7>4
          <6> QED BY <6>2, <6>3
        <5> QED BY <5>1, <5>2, EveryToken
      <4>6. Tokens(log, start, i)' = Tokens(log, start, i)
        <5>1. Tokens(log, start, i) = {} BY <4>5 DEF Tokens
        <5>2. Tokens(log, start, i)' = {} BY <4>5 DEF Tokens, TokenSet
        <5> QED BY <5>1, <5>2
      <4> QED BY <4>6, <3>1, <3>2, <3>5, <1>4, <1>5, SwapRefs
    <3> QED BY <3>4, <3>5
  <2>3. next_extent \in [Batch -> Ext] BY DEF TypeOK
  <2> QED BY <2>1, <2>2, <2>3, <1>2, <1>4, RefFrame
<1>11. BlockInv' BY <1>7 DEF BlockInv, NoBlocks
<1>12. LiveInv' BY <1>4 DEF LiveInv
<1>13. OrderInv(log, start)' BY <1>6 DEF OrderInv
<1> HIDE DEF Inv
<1> QED BY <1>1, <1>2, <1>9, <1>10, <1>11, <1>12, <1>13 DEF Inv

-----------------------------------------------------------------------------

(* Two elements take the place of two others.                              *)
LEMMA SwapTwo ==
    ASSUME NEW S, IsFiniteSet(S), NEW a \in S, NEW c \in S, a # c, NEW b, b \notin S, NEW d, d \notin S, b # d
    PROVE  IsFiniteSet((S \ {a, c}) \cup {b, d}) /\ Cardinality((S \ {a, c}) \cup {b, d}) = Cardinality(S)
<1>1. PICK R : R = (S \ {a}) \cup {b} OBVIOUS
<1>2. IsFiniteSet(R) /\ Cardinality(R) = Cardinality(S) BY <1>1, SwapCount
<1>3. c \in R /\ d \notin R BY <1>1
<1>4. (R \ {c}) \cup {d} = (S \ {a, c}) \cup {b, d} BY <1>1
<1>5. IsFiniteSet((R \ {c}) \cup {d}) /\ Cardinality((R \ {c}) \cup {d}) = Cardinality(R) BY <1>2, <1>3, SwapCount
<1> QED BY <1>2, <1>4, <1>5

(* The references of inc_ref: what the walk of t held of entry i and what  *)
(* it added are references to the two ranges now.                          *)
LEMMA IncEndsTokens ==
    ASSUME NEW log, NEW start, NEW own, Inv(log, start, own), NEW t \in Role("inc"), Pos(start, t) = Len(log),
           GivesBack(t), TypeOK', lv'[t].op = "none", \A u \in MiniThread \ {t} : lv'[u] = lv[u],
           NEW i \in DOMAIN log, IsFiniteSet(Tokens(log, start, i))
    PROVE  IsFiniteSet(Tokens(log, start, i)') /\ Cardinality(Tokens(log, start, i)') = Cardinality(Tokens(log, start, i))
<1> USE DEF Inv
<1>1. log \in Seq(EntryRec) /\ Len(log) \in Nat /\ DOMAIN log = 1 .. Len(log) BY LogEntries DEF ListInv
<1>2. t \in MiniThread /\ lv[t].op = "inc" /\ lv[t] \in WalkRec /\ Within(lv[t].range, lv[t].mine)
  <2>1. t \in Walkers /\ lv[t].op = "inc" BY DEF Role, Walkers
  <2> QED BY <2>1, WalkerAt DEF RoleInv
<1>3. PICK s \in Rs, r \in Rs : s = lv[t].mine /\ r = lv[t].range BY <1>2 DEF WalkRec
<1>4. PICK n \in Nat, m \in Nat : n = held[s] /\ m = held[r] BY DEF TypeOK
<1>5. PICK q \in Nat : q = IF r = s THEN m + 2 ELSE m + 1 BY <1>4
<1>6. /\ held'[s] = IF r = s THEN n + 2 ELSE n + 1
      /\ held'[r] = q
      /\ \A x \in Rs : x # s /\ x # r => held'[x] = held[x]
  BY <1>2, <1>3, <1>4, <1>5 DEF GivesBack, TypeOK
<1>7. \A x : Hit(log, x, i) => Passed(log, i, Pos(start, t)) BY <1>1 DEF Hit, Passed
<1>8. PICK a, c, b, d : /\ a = <<"mine", t>> /\ c = <<"new", t>>
                        /\ b = <<"held", <<s, n + 1>>>> /\ d = <<"held", <<r, q>>>>
  OBVIOUS
<1>9. {a, c, b, d} \subseteq TokenSet /\ a # c /\ b # d /\ {a, c} \cap {b, d} = {}
  <2>1. n + 1 \in Nat /\ (r = s => q # n + 1) BY <1>4, <1>5
  <2>2. a \in TokenSet /\ c \in TokenSet BY <1>2, <1>8, TokenMembers
  <2>3. b \in TokenSet BY <2>1, <1>8, TokenMembers
  <2>4. d \in TokenSet BY <1>8, TokenMembers
  <2>5. "held" # "mine" /\ "held" # "new" /\ "mine" # "new" OBVIOUS
  <2>6. a # c /\ a # b /\ a # d /\ c # b /\ c # d BY <2>5, <1>8
  <2>7. b # d
    <3>1. <<s, n + 1>> # <<r, q>> BY <2>1
    <3> QED BY <3>1, <1>8
  <2> QED BY <2>2, <2>3, <2>4, <2>6, <2>7
<1>10. /\ Active(log, start, i, a) <=> Hit(log, s, i)
       /\ Active(log, start, i, c) <=> Hit(log, r, i)
       /\ ~Active(log, start, i, b) /\ ~Active(log, start, i, d)
  <2>1. Active(log, start, i, a) <=> Hit(log, s, i) BY <1>2, <1>3, <1>8, ThreadTokens
  <2>2. Active(log, start, i, c) <=> Hit(log, r, i) BY <1>2, <1>3, <1>7, <1>8, ThreadTokens
  <2>3. n + 1 \in Nat /\ n + 1 \notin 1 .. held[s] BY <1>4
  <2>4. q \notin 1 .. held[r] BY <1>4, <1>5
  <2>5. ~Active(log, start, i, b) BY <2>3, <1>8, HeldToken
  <2>6. ~Active(log, start, i, d) BY <2>4, <1>8, HeldToken
  <2> QED BY <2>1, <2>2, <2>5, <2>6
<1>11. /\ ~Active(log, start, i, a)' /\ ~Active(log, start, i, c)'
       /\ Active(log, start, i, b)' <=> Hit(log, s, i)
       /\ Active(log, start, i, d)' <=> Hit(log, r, i)
  <2>1. PICK w : w = lv'[t] OBVIOUS
  <2>2. PICK p : p = start[w.page] + w.i - 1 OBVIOUS
  <2>3. ~Active(log, start, i, <<"mine", t>>)' /\ ~Active(log, start, i, <<"new", t>>)' BY <1>2, <2>1, <2>2, ThreadTokensNext
  <2>4. n + 1 \in Nat /\ n + 1 \in 1 .. held'[s] BY <1>4, <1>6
  <2>5. q \in 1 .. held'[r] BY <1>4, <1>5, <1>6
  <2>6. Active(log, start, i, <<"held", <<s, n + 1>>>>)' <=> Hit(log, s, i) BY <2>4, HeldTokenNext
  <2>7. Active(log, start, i, <<"held", <<r, q>>>>)' <=> Hit(log, r, i) BY <2>5, HeldTokenNext
  <2> QED BY <2>3, <2>6, <2>7, <1>8
<1>12. ASSUME NEW k \in TokenSet, k \notin {a, c, b, d} PROVE Active(log, start, i, k)' <=> Active(log, start, i, k)
  <2>1. CASE \E x \in Rs, y \in Nat : k = <<"held", <<x, y>>>>
    <3>1. PICK x \in Rs, y \in Nat : k = <<"held", <<x, y>>>> BY <2>1
    <3>2. ~(x = s /\ y = n + 1) /\ ~(x = r /\ y = q) BY <3>1, <1>8, <1>12
    <3>3. y \in 1 .. held'[x] <=> y \in 1 .. held[x]
      <4>1. CASE x # s /\ x # r BY <4>1, <1>6
      <4>2. CASE x = s /\ x # r BY <4>2, <3>2, <1>4, <1>6
      <4>3. CASE x = r /\ x # s BY <4>3, <3>2, <1>4, <1>5, <1>6
      <4>4. CASE x = r /\ x = s
        <5>1. r = s /\ q = m + 2 /\ m = n BY <4>4, <1>4, <1>5
        <5>2. y # n + 1 /\ y # n + 2 BY <4>4, <5>1, <3>2
        <5>3. held[x] = n /\ held'[x] = n + 2 BY <4>4, <5>1, <1>4, <1>6
        <5>4. y \in 1 .. n + 2 <=> y \in 1 .. n BY <5>2
        <5> QED BY <5>3, <5>4
      <4> QED BY <4>1, <4>2, <4>3, <4>4
    <3>4. Active(log, start, i, <<"held", <<x, y>>>>)' <=> Active(log, start, i, <<"held", <<x, y>>>>)
      BY <3>3, HeldToken, HeldTokenNext
    <3> QED BY <3>1, <3>4
  <2>2. CASE \E u \in MiniThread : k = <<"mine", u>> \/ k = <<"new", u>> \/ k = <<"dec", u>>
    <3>1. PICK u \in MiniThread : k = <<"mine", u>> \/ k = <<"new", u>> \/ k = <<"dec", u>> BY <2>2
    <3>2. PICK w : w = lv'[u] OBVIOUS
    <3>3. PICK p : p = start[w.page] + w.i - 1 OBVIOUS
    <3>4. CASE u = t
      <4>1. k = <<"dec", t>> BY <3>1, <3>4, <1>8, <1>12
      <4>2. ~Active(log, start, i, <<"dec", t>>) BY <1>2, ThreadTokens
      <4>3. ~Active(log, start, i, <<"dec", t>>)' BY <3>2, <3>3, <3>4, ThreadTokensNext
      <4> QED BY <4>1, <4>2, <4>3
    <3>5. CASE u # t
      <4>1. lv'[u] = lv[u] BY <3>5
      <4>2. lv'[u].op = lv[u].op /\ lv'[u].mine = lv[u].mine /\ lv'[u].range = lv[u].range /\ Pos(start, u)' = Pos(start, u)
        BY <4>1 DEF Pos
      <4>3. /\ Active(log, start, i, <<"mine", u>>)' <=> Active(log, start, i, <<"mine", u>>)
            /\ Active(log, start, i, <<"new", u>>)' <=> Active(log, start, i, <<"new", u>>)
            /\ Active(log, start, i, <<"dec", u>>)' <=> Active(log, start, i, <<"dec", u>>)
        BY <4>2, SameTokens
      <4> QED BY <4>3, <3>1
    <3> QED BY <3>4, <3>5
  <2> QED BY <2>1, <2>2, EveryToken
<1>13. PICK S : S = Tokens(log, start, i) OBVIOUS
<1>14. PICK N : N = Tokens(log, start, i)' OBVIOUS
<1>15. \A k : k \in S <=> k \in TokenSet /\ Active(log, start, i, k) BY <1>13 DEF Tokens, TokenSet
<1>16. \A k : k \in N <=> k \in TokenSet /\ Active(log, start, i, k)' BY <1>14 DEF Tokens, TokenSet
<1> HIDE DEF Inv
<1>17. CASE ~Hit(log, s, i)
  <2>1. ~Hit(log, r, i) BY <1>17, <1>1, <1>2, <1>3, HitWithin
  <2>2. N = S BY <2>1, <1>9, <1>10, <1>11, <1>12, <1>15, <1>16, <1>17
  <2> QED BY <2>2, <1>13, <1>14
<1>18. CASE Hit(log, s, i) /\ ~Hit(log, r, i)
  <2>1. a \in S /\ b \notin S BY <1>9, <1>10, <1>15, <1>18
  <2>2. N = (S \ {a}) \cup {b} BY <1>9, <1>10, <1>11, <1>12, <1>15, <1>16, <1>18
  <2> QED BY <2>1, <2>2, <1>13, <1>14, SwapCount
<1>19. CASE Hit(log, s, i) /\ Hit(log, r, i)
  <2>1. a \in S /\ c \in S /\ b \notin S /\ d \notin S BY <1>9, <1>10, <1>15, <1>19
  <2>2. N = (S \ {a, c}) \cup {b, d} BY <1>9, <1>10, <1>11, <1>12, <1>15, <1>16, <1>19
  <2> QED BY <2>1, <2>2, <1>9, <1>13, <1>14, SwapTwo
<1> QED BY <1>17, <1>18, <1>19

(* A thread that ends its operation leaves no token.                       *)
LEMMA EndedTokens ==
    ASSUME NEW log, NEW start, NEW i, NEW u \in MiniThread, lv'[u].op = "none"
    PROVE  ~Active(log, start, i, <<"mine", u>>)' /\ ~Active(log, start, i, <<"new", u>>)' /\ ~Active(log, start, i, <<"dec", u>>)'
<1>1. PICK w : w = lv'[u] OBVIOUS
<1>2. PICK p : p = start[w.page] + w.i - 1 OBVIOUS
<1>3. w.op = "none" BY <1>1
<1>4. /\ Active(log, start, i, <<"mine", u>>)' <=> w.op = "inc" /\ Hit(log, w.mine, i)
      /\ Active(log, start, i, <<"new", u>>)' <=> w.op = "inc" /\ Hit(log, w.range, i) /\ Passed(log, i, p)
      /\ Active(log, start, i, <<"dec", u>>)' <=> w.op = "dec" /\ Hit(log, w.range, i) /\ ~Passed(log, i, p)
  BY <1>1, <1>2, ThreadTokensNext
<1> QED BY <1>3, <1>4

(* A dec_ref that does not free leaves no token behind at the end.         *)
LEMMA DecEndsTokens ==
    ASSUME NEW log, NEW start, NEW own, Inv(log, start, own), NEW t \in Role("dec"), Pos(start, t) = Len(log),
           held' = held, TypeOK', lv'[t].op = "none", \A u \in MiniThread \ {t} : lv'[u] = lv[u],
           NEW i \in DOMAIN log
    PROVE  Tokens(log, start, i)' = Tokens(log, start, i)
<1> USE DEF Inv
<1>1. Len(log) \in Nat /\ DOMAIN log = 1 .. Len(log) BY LogEntries DEF ListInv
<1>2. t \in MiniThread /\ lv[t].op = "dec" BY DEF Role
<1>3. \A x : Hit(log, x, i) => Passed(log, i, Pos(start, t)) BY <1>1 DEF Hit, Passed
<1>4. ASSUME NEW k \in TokenSet PROVE Active(log, start, i, k)' <=> Active(log, start, i, k)
  <2>1. CASE \E x \in Rs, y \in Nat : k = <<"held", <<x, y>>>>
    <3>1. PICK x \in Rs, y \in Nat : k = <<"held", <<x, y>>>> BY <2>1
    <3>2. Active(log, start, i, <<"held", <<x, y>>>>)' <=> Active(log, start, i, <<"held", <<x, y>>>>)
      BY HeldToken, HeldTokenNext
    <3> QED BY <3>1, <3>2
  <2>2. CASE \E u \in MiniThread : k = <<"mine", u>> \/ k = <<"new", u>> \/ k = <<"dec", u>>
    <3>1. PICK u \in MiniThread : k = <<"mine", u>> \/ k = <<"new", u>> \/ k = <<"dec", u>> BY <2>2
    <3>2. CASE u = t
      <4>1. ~Active(log, start, i, <<"mine", t>>) /\ ~Active(log, start, i, <<"new", t>>) /\ ~Active(log, start, i, <<"dec", t>>)
        BY <1>2, <1>3, ThreadTokens
      <4>2. ~Active(log, start, i, <<"mine", t>>)' /\ ~Active(log, start, i, <<"new", t>>)' /\ ~Active(log, start, i, <<"dec", t>>)'
        BY <1>2, EndedTokens
      <4> QED BY <4>1, <4>2, <3>1, <3>2
    <3>3. CASE u # t
      <4>1. lv'[u] = lv[u] BY <3>3
      <4>2. lv'[u].op = lv[u].op /\ lv'[u].mine = lv[u].mine /\ lv'[u].range = lv[u].range /\ Pos(start, u)' = Pos(start, u)
        BY <4>1 DEF Pos
      <4>3. /\ Active(log, start, i, <<"mine", u>>)' <=> Active(log, start, i, <<"mine", u>>)
            /\ Active(log, start, i, <<"new", u>>)' <=> Active(log, start, i, <<"new", u>>)
            /\ Active(log, start, i, <<"dec", u>>)' <=> Active(log, start, i, <<"dec", u>>)
        BY <4>2, SameTokens
      <4> QED BY <4>3, <3>1
    <3> QED BY <3>2, <3>3
  <2> QED BY <2>1, <2>2, EveryToken
<1>5. \A k : k \in Tokens(log, start, i) <=> k \in TokenSet /\ Active(log, start, i, k) BY DEF Tokens, TokenSet
<1>6. \A k : k \in Tokens(log, start, i)' <=> k \in TokenSet /\ Active(log, start, i, k)' BY DEF Tokens, TokenSet
<1> HIDE DEF Inv
<1> QED BY <1>4, <1>5, <1>6

-----------------------------------------------------------------------------

(* The walk that does not free.                                            *)
LEMMA WalkEndsIdle ==
    ASSUME NEW log, NEW start, NEW own, Inv(log, start, own), NEW t \in MiniThread, WalkEnd(t), ~Destroys(t)
    PROVE  Inv(log, start, own)'
<1> USE DEF Inv
<1>1. /\ t \in Walkers /\ mpc[t] = "walk" /\ lv[t].i > Len(meta[lv[t].page].entries) /\ meta[lv[t].page].next = NoPage
      /\ EndsWalk(t, "idle", NoLocals)
      /\ GivesBack(t) /\ held' \in [Rs -> Nat] /\ failed' = {}
  BY WalkEndStep
<1>2. /\ TypeOK' /\ ListInv(log, start)' /\ ClaimInv' /\ BatchInv(log)' /\ OwnInv(log, own)' /\ AddrInv(log)' /\ KeyInv(log)'
      /\ WalkInv(log, start)'
      /\ \A b \in Batch : Pending(b)' <=> Pending(b)
      /\ \A u \in MiniThread : (Flying(u)' <=> Flying(u)) /\ (Flying(u) => lv'[u].addr = lv[u].addr)
      /\ \A op \in {"inc", "prefetch", "dec", "dealloc"} : Role(op)' = Role(op) \ {t}
      /\ \A op \in {"alloc", "release"} : Role(op)' = Role(op)
      /\ Role("deinit")' = {}
      /\ lv[t].op \in {"inc", "prefetch", "dec", "dealloc"}
      /\ mpc'[t] = "idle" /\ lv'[t] = NoLocals
      /\ \A u \in MiniThread \ {t} : mpc'[u] = mpc[u] /\ lv'[u] = lv[u]
  BY <1>1, EndStep
<1>3. /\ life' = life
      /\ UNCHANGED <<keyed, refc, meta, meta_tail, next_addr, next_extent, num_extents, blocked, given, allocs, reloads>>
  BY <1>1 DEF EndsWalk
<1>4. life = "released" /\ ~Building /\ (keyed => Role("release") = {}) /\ Role("deinit") = {} /\ Role("alloc") = {}
  BY <1>1, WalksAfterRelease
<1>5. lv[t].page = meta_tail /\ Pos(start, t) = Len(log) /\ Len(log) \in Nat BY <1>1, AtEnd
<1>6. lv[t] \in WalkRec /\ lv[t].mine \in Rs BY <1>1, WalkerAt DEF WalkRec
<1>7. \A r \in Rs : held[r] \in Nat /\ held'[r] \in Nat /\ held'[r] >= held[r]
  <2>1. \A r \in Rs : held[r] \in Nat /\ held'[r] \in Nat BY <1>1 DEF TypeOK
  <2> QED BY <2>1, <1>1 DEF GivesBack
<1>8. lv[t].op \in {"inc", "prefetch"} => held'[lv[t].mine] > 0 BY <1>1, <1>6, <1>7 DEF GivesBack
<1>9. lv[t].op = "dec" => held' = held /\ ~lv[t].cleanup
  <2>1. ASSUME lv[t].op = "dec" PROVE held' = held
    <3>1. \A r \in Rs : held'[r] = held[r] BY <2>1, <1>1, <1>7 DEF GivesBack
    <3> QED BY <3>1, <1>1 DEF TypeOK
  <2> QED BY <2>1 DEF Destroys
<1>10. /\ keyed => lv[t].op \in {"inc", "dec"} /\ Role("prefetch") = {}
       /\ ~keyed => lv[t].op = "prefetch" /\ lv[t].mine = Whole /\ Role("inc") = {} /\ Role("dec") = {}
       /\ Role("dealloc") = {}
  <2>1. t \in Role(lv[t].op) /\ lv[t].op # "dealloc" BY <1>2 DEF Role, Destroys
  <2>2. keyed => lv[t].op \in {"inc", "dec"} /\ Role("prefetch") = {} /\ Role("dealloc") = {}
    <3>1. keyed => Role("prefetch") = {} /\ Role("dealloc") = {} BY DEF RoleInv
    <3>2. Role("prefetch") = {} => lv[t].op # "prefetch" BY <2>1
    <3> QED BY <3>1, <3>2, <2>1, <1>2
  <2>3. ~keyed => lv[t].op = "prefetch" /\ lv[t].mine = Whole /\ Role("inc") = {} /\ Role("dec") = {} /\ Role("dealloc") = {}
    <3>1. ~keyed => Role("inc") = {} /\ Role("dec") = {} BY DEF RoleInv
    <3>2. lv[t].op = "inc" => Role("inc") # {} BY <2>1
    <3>3. lv[t].op = "dec" => Role("dec") # {} BY <2>1
    <3>4. ~keyed => lv[t].op = "prefetch" /\ t \in Role("prefetch") BY <3>1, <3>2, <3>3, <2>1, <1>2
    <3>5. ~keyed => lv[t].mine = Whole /\ Role("dealloc") = {} BY <3>4 DEF RoleInv
    <3> QED BY <3>1, <3>4, <3>5
  <2> QED BY <2>2, <2>3
<1>11. RoleInv'
  <2>1. \A u \in MiniThread : u # t => lv'[u] = lv[u] /\ mpc'[u] = mpc[u] BY <1>2
  <2>2. lv'[t].op = "none" /\ mpc'[t] \notin WaitPCs BY <1>2 DEF NoLocals, WaitPCs
  <2>3. Role("release")' = Role("release") /\ Role("alloc")' = {} /\ Role("deinit")' = {} /\ Role("dealloc")' = {}
        /\ Role("inc")' \subseteq Role("inc") /\ Role("dec")' \subseteq Role("dec") /\ Role("prefetch")' \subseteq Role("prefetch")
    BY <1>2, <1>4, <1>10
  <2>4. \A u, v \in Role("release")' : u = v BY <2>3 DEF RoleInv
  <2>5. keyed' => Role("prefetch")' = {} /\ Role("release")' = {} BY <2>3, <1>3, <1>4, <1>10
  <2>6. ~keyed' => Role("inc")' = {} /\ Role("dec")' = {} BY <2>3, <1>3, <1>10
  <2>7. ~keyed' => NoBlocks' /\ \A r \in Rs : r # Whole => held'[r] = 0
    <3>1. ~keyed => NoBlocks /\ \A r \in Rs : r # Whole => held[r] = 0 BY DEF RoleInv
    <3>2. ~keyed => \A r \in Rs : r # Whole => held'[r] = 0 BY <3>1, <1>1, <1>10 DEF GivesBack
    <3> QED BY <3>1, <3>2, <1>3 DEF NoBlocks
  <2>8. \A u \in Role("release")' : mpc'[u] # "release" => keyed' /\ lv'[u].batch \in Batch
    <3> SUFFICES ASSUME NEW u \in Role("release"), mpc'[u] # "release" PROVE keyed /\ lv'[u].batch \in Batch BY <2>3, <1>3
    <3>1. u \in MiniThread /\ u # t BY <1>2 DEF Role
    <3> QED BY <3>1, <2>1 DEF RoleInv
  <2>9. \A u \in MiniThread : mpc'[u] \in WaitPCs =>
           lv'[u].op = "dec" /\ lv'[u].page = meta_head /\ lv'[u].i = 1 /\ lv'[u].cleanup /\ lv'[u].range = lv'[u].mine
    BY <2>1, <2>2 DEF RoleInv
  <2>10. \A u \in Role("inc")' : Within(lv'[u].range, lv'[u].mine)
    <3> SUFFICES ASSUME NEW u \in Role("inc")' PROVE Within(lv'[u].range, lv'[u].mine) OBVIOUS
    <3>1. u \in Role("inc") /\ u \in MiniThread /\ u # t BY <1>2 DEF Role
    <3> QED BY <3>1, <2>1 DEF RoleInv
  <2>11. \A u \in Role("prefetch")' : lv'[u].mine = Whole
    <3> SUFFICES ASSUME NEW u \in Role("prefetch")' PROVE lv'[u].mine = Whole OBVIOUS
    <3>1. u \in Role("prefetch") /\ u \in MiniThread /\ u # t BY <1>2 DEF Role
    <3> QED BY <3>1, <2>1 DEF RoleInv
  <2>12. keyed' => \A u, v \in MiniThread : allocs'[u] > 0 /\ allocs'[v] > 0 => u = v BY <1>3 DEF RoleInv
  <2>13. life' = "released" BY <1>3, <1>4
  <2> HIDE DEF Inv
  <2> QED BY <2>3, <2>4, <2>5, <2>6, <2>7, <2>8, <2>9, <2>10, <2>11, <2>12, <2>13 DEF RoleInv
<1>12. ~Building' BY <1>2, <1>3, <1>4 DEF Building
<1>13. FirstCount' = FirstCount
  <2>1. CASE keyed BY <2>1, <1>3 DEF FirstCount
  <2>2. CASE ~keyed
    <3>1. PICK S : S = Role("prefetch") OBVIOUS
    <3>2. IsFiniteSet(S) /\ t \in S
      <4>1. S \subseteq MiniThread BY <3>1 DEF Role
      <4>2. t \in S BY <2>2, <3>1, <1>10 DEF Role
      <4> QED BY <4>1, <4>2, MiniThreadAssumption, FS_Subset
    <3>3. Cardinality(S \ {t}) = Cardinality(S) - 1 /\ Cardinality(S) \in Nat BY <3>2, FS_RemoveElement, FS_CardinalityType
    <3>4. Role("prefetch")' = S \ {t} BY <3>1, <1>2
    <3>5. Whole \in Rs BY DEF Rs
    <3>6. held'[Whole] = held[Whole] + 1 /\ held[Whole] \in Nat BY <2>2, <3>5, <1>1, <1>7, <1>10 DEF GivesBack
    <3>7. keyed' = keyed BY <1>3
    <3> HIDE DEF Inv
    <3>8. FirstCount = MINI_NO_REFS + (held[Whole] + Cardinality(S)) BY <2>2, <3>1 DEF FirstCount
    <3>9. FirstCount' = MINI_NO_REFS + (held'[Whole] + Cardinality(S \ {t})) BY <2>2, <3>4, <3>7 DEF FirstCount
    <3> QED BY <3>3, <3>6, <3>8, <3>9
  <2> QED BY <2>1, <2>2
<1>14. RefInv(log, start, own)'
  <2>1. life # "gone" /\ life' # "gone" BY <1>3, <1>4
  <2>2. refc'[1] = FirstCount' BY <2>1, <1>3, <1>13, FirstExtent
  <2>3. \A a \in DOMAIN meta : MetaRefs(start, ExtentOf(a))' BY <2>1, <2>2, <1>3, LiveMeta
  <2>4. ASSUME NEW i \in DOMAIN log, Data(log, i) PROVE DataRefs(log, start, i)'
    <3>1. DataRefs(log, start, i) BY <2>4 DEF RefInv
    <3>2. CASE ~keyed
      <4>1. ~Freed(start, i) BY <2>1, <1>10 DEF Freed
      <4>2. ~Freed(start, i)' BY <2>1, <1>2, <1>10 DEF Freed
      <4> QED BY <3>1, <3>2, <4>1, <4>2, <1>3, <1>4, <1>12 DEF DataRefs
    <3>3. CASE keyed /\ lv[t].op = "inc"
      <4>1. t \in Role("inc") BY <3>3 DEF Role
      <4>2. IsFiniteSet(Tokens(log, start, i)) /\ refc[log[i].extent] = Counted(Cardinality(Tokens(log, start, i)))
        BY <3>1, <3>3, <1>4 DEF DataRefs
      <4>3. lv'[t].op = "none" BY <1>2 DEF NoLocals
      <4>4. IsFiniteSet(Tokens(log, start, i)') /\ Cardinality(Tokens(log, start, i)') = Cardinality(Tokens(log, start, i))
        BY <4>1, <4>2, <4>3, <1>1, <1>2, <1>5, IncEndsTokens
      <4>5. refc'[log[i].extent] = Counted(Cardinality(Tokens(log, start, i)')) BY <4>2, <4>4, <1>3
      <4> QED BY <4>4, <4>5, <3>3, <1>3, <1>12 DEF DataRefs, Counted
    <3>4. CASE keyed /\ lv[t].op = "dec"
      <4>1. t \in Role("dec") BY <3>4 DEF Role
      <4>2. lv'[t].op = "none" BY <1>2 DEF NoLocals
      <4>3. Tokens(log, start, i)' = Tokens(log, start, i) BY <4>1, <4>2, <3>4, <1>2, <1>5, <1>9, DecEndsTokens
      <4> QED BY <4>3, <3>1, <3>4, <1>3, <1>4, <1>12, SwapRefs
    <3> QED BY <3>2, <3>3, <3>4, <1>10
  <2>5. next_extent \in [Batch -> Ext] BY DEF TypeOK
  <2> QED BY <2>3, <2>4, <2>5, <1>2, <1>3, RefFrame
<1>15. BlockInv'
  <2> SUFFICES ASSUME NEW u \in MiniThread, NEW r \in blocked[u]
               PROVE \/ held'[r] > 0
                     \/ \E v \in Role("inc")' : lv'[v].mine = r
                     \/ \E v \in MiniThread : mpc'[v] = "wait_blockers" /\ lv'[v].range = r
    BY <1>3 DEF BlockInv
  <2>1. r \in Rs BY DEF TypeOK
  <2>2. \/ held[r] > 0
        \/ \E v \in Role("inc") : lv[v].mine = r
        \/ \E v \in MiniThread : mpc[v] = "wait_blockers" /\ lv[v].range = r
    BY DEF BlockInv
  <2>3. CASE held[r] > 0 BY <2>1, <2>3, <1>7
  <2>4. CASE \E v \in Role("inc") : lv[v].mine = r
    <3>1. PICK v \in Role("inc") : lv[v].mine = r BY <2>4
    <3>2. CASE v = t BY <3>1, <3>2, <1>8 DEF Role
    <3>3. CASE v # t
      <4>1. v \in Role("inc")' BY <3>3, <1>2
      <4>2. v \in MiniThread BY DEF Role
      <4> QED BY <3>1, <3>3, <4>1, <4>2, <1>2
    <3> QED BY <3>2, <3>3
  <2>5. CASE \E v \in MiniThread : mpc[v] = "wait_blockers" /\ lv[v].range = r
    <3>1. PICK v \in MiniThread : mpc[v] = "wait_blockers" /\ lv[v].range = r BY <2>5
    <3>2. v # t BY <3>1, <1>1
    <3> QED BY <3>1, <3>2, <1>2
  <2> QED BY <2>2, <2>3, <2>4, <2>5
<1>16. LiveInv'
  <2>1. CASE lv[t].op \in {"inc", "prefetch"} BY <2>1, <1>6, <1>8 DEF LiveInv
  <2>2. CASE lv[t].op = "dec"
    <3>1. Behind(start, t)
      <4>1. t \in Role("dec") BY <2>2 DEF Role
      <4> QED BY <4>1, <2>2, <1>9 DEF OrderInv
    <3>2. CASE \E r \in Rs : held[r] > 0 BY <3>2, <2>2, <1>9 DEF LiveInv
    <3>3. CASE Role("inc") # {}
      <4>1. Role("inc")' # {}
        <5>1. t \notin Role("inc") BY <2>2 DEF Role
        <5> QED BY <3>3, <5>1, <1>2
      <4> QED BY <4>1 DEF LiveInv, Walkers
    <3>4. CASE \E u \in Role("dec") : u # t
      <4>1. Role("dec")' # {} BY <3>4, <1>2
      <4> QED BY <4>1 DEF LiveInv, Walkers
    <3> QED BY <3>1, <3>2, <3>3, <3>4 DEF Behind
  <2> QED BY <2>1, <2>2, <1>2, <1>10
<1>17. OrderInv(log, start)'
  <2> SUFFICES ASSUME NEW u \in Role("dec")'
               PROVE /\ ~lv'[u].cleanup => Behind(start, u)'
                     /\ lv'[u].cleanup /\ (\E i, j \in DOMAIN log : Top(log, i, j) /\ j <= Pos(start, u)') => ~Behind(start, u)'
    BY DEF OrderInv, Top, Pair, FirstOf, Data
  <2>1. u \in Role("dec") /\ u # t /\ u \in MiniThread BY <1>2 DEF Role
  <2>2. lv'[u] = lv[u] /\ mpc'[u] = mpc[u] /\ Pos(start, u)' = Pos(start, u) BY <2>1, <1>2 DEF Pos
  <2>3. keyed /\ lv[t].op \in {"inc", "dec"} BY <2>1, <1>10
  <2>4. Role("dec")' = Role("dec") \ {t} /\ Role("inc")' = Role("inc") \ {t} BY <1>2
  <2>5. \A v \in Role("dec") : v \in MiniThread BY DEF Role
  <2>6. ASSUME ~lv'[u].cleanup PROVE Behind(start, u)'
    <3>1. Behind(start, u) BY <2>1, <2>2, <2>6 DEF OrderInv
    <3>2. CASE \E r \in Rs : held[r] > 0
      <4>1. \E r \in Rs : held'[r] > 0 BY <3>2, <1>7
      <4> QED BY <4>1 DEF Behind
    <3>3. CASE Role("inc") # {}
      <4>1. CASE lv[t].op = "inc"
        <5>1. \E r \in Rs : held'[r] > 0 BY <4>1, <1>6, <1>8
        <5> QED BY <5>1 DEF Behind
      <4>2. CASE lv[t].op # "inc"
        <5>1. t \notin Role("inc") BY <4>2 DEF Role
        <5>2. Role("inc")' # {} BY <5>1, <3>3, <2>4
        <5> QED BY <5>2 DEF Behind
      <4> QED BY <4>1, <4>2
    <3>4. CASE \E v \in Role("dec") : v # u /\ (mpc[v] \in WaitPCs \/ start[lv[v].page] < start[lv[u].page])
      <4>1. PICK v \in Role("dec") : v # u /\ (mpc[v] \in WaitPCs \/ start[lv[v].page] < start[lv[u].page]) BY <3>4
      <4>2. v # t
        <5> SUFFICES ASSUME v = t PROVE FALSE OBVIOUS
        <5>1. start[meta_tail] < start[lv[u].page] BY <4>1, <1>1, <1>5 DEF WaitPCs
        <5>2. PICK c \in DOMAIN meta : c = lv[u].page BY <2>1, DecAt, WalkerAt
        <5>3. start[c] \in Nat /\ start[meta_tail] \in Nat /\ start[c] <= start[meta_tail] BY PageBounds, PagesOrdered DEF ListInv
        <5> QED BY <5>1, <5>2, <5>3
      <4>3. v \in Role("dec")' /\ lv'[v] = lv[v] /\ mpc'[v] = mpc[v] BY <4>2, <2>4, <2>5, <1>2
      <4> QED BY <4>1, <4>3, <2>2 DEF Behind
    <3> QED BY <3>1, <3>2, <3>3, <3>4 DEF Behind
  <2>7. ASSUME lv'[u].cleanup, \E i, j \in DOMAIN log : Top(log, i, j) /\ j <= Pos(start, u)', Behind(start, u)' PROVE FALSE
    <3>1. ~Behind(start, u) BY <2>1, <2>2, <2>7 DEF OrderInv
    <3>2. lv[t].op = "dec"
      <4>1. t \notin Role("inc") BY <3>1 DEF Behind
      <4> QED BY <4>1, <2>3 DEF Role
    <3>3. held' = held BY <3>2, <1>9
    <3>4. \A v \in Role("dec")' : v \in Role("dec") /\ lv'[v] = lv[v] /\ mpc'[v] = mpc[v] BY <2>4, <2>5, <1>2
    <3>5. Role("inc")' = {} BY <3>1, <2>4 DEF Behind
    <3>6. \A v \in Role("dec")' : ~(v # u /\ (mpc'[v] \in WaitPCs \/ start[lv'[v].page] < start[lv'[u].page]))
      BY <3>1, <3>4, <2>2 DEF Behind
    <3>7. ~\E r \in Rs : held'[r] > 0 BY <3>1, <3>3 DEF Behind
    <3> QED BY <2>7, <3>5, <3>6, <3>7 DEF Behind
  <2> QED BY <2>6, <2>7
<1> HIDE DEF Inv
<1> QED BY <1>1, <1>2, <1>11, <1>14, <1>15, <1>16, <1>17 DEF Inv

(* The end of a walk keeps the invariant.                                  *)
LEMMA WalkEndInv ==
    ASSUME NEW log, NEW start, NEW own, Inv(log, start, own), NEW t \in MiniThread, WalkEnd(t)
    PROVE  Inv(log, start, own)'
BY WalkEndsGone, WalkEndsIdle

-----------------------------------------------------------------------------
(* Deinit.                                                                 *)

(* Where nobody has a reference or walks there are no tokens.              *)
LEMMA NoTokens ==
    ASSUME TypeOK, TypeOK', NoneHeld, NoneHeld', NEW log, NEW start, NEW i,
           \A u \in MiniThread : lv[u].op \notin {"inc", "dec"} /\ lv'[u].op \notin {"inc", "dec"}
    PROVE  Tokens(log, start, i) = {} /\ Tokens(log, start, i)' = {}
<1>1. ASSUME NEW k \in TokenSet PROVE ~Active(log, start, i, k) /\ ~Active(log, start, i, k)'
  <2>1. CASE \E r \in Rs, m \in Nat : k = <<"held", <<r, m>>>>
    <3>1. PICK r \in Rs, m \in Nat : k = <<"held", <<r, m>>>> BY <2>1
    <3>2. held[r] = 0 /\ held'[r] = 0 BY DEF NoneHeld
    <3> QED BY <3>1, <3>2, HeldToken, HeldTokenNext
  <2>2. CASE \E u \in MiniThread : k = <<"mine", u>> \/ k = <<"new", u>> \/ k = <<"dec", u>>
    <3>1. PICK u \in MiniThread : k = <<"mine", u>> \/ k = <<"new", u>> \/ k = <<"dec", u>> BY <2>2
    <3>2. ~Active(log, start, i, k) BY <3>1, ThreadTokens
    <3>3. PICK w : w = lv'[u] OBVIOUS
    <3>4. PICK p : p = start[w.page] + w.i - 1 OBVIOUS
    <3>5. w.op \notin {"inc", "dec"} BY <3>3
    <3>6. ~Active(log, start, i, <<"mine", u>>)' /\ ~Active(log, start, i, <<"new", u>>)' /\ ~Active(log, start, i, <<"dec", u>>)'
      BY <3>3, <3>4, <3>5, ThreadTokensNext
    <3> QED BY <3>1, <3>2, <3>6
  <2> QED BY <2>1, <2>2, EveryToken
<1>2. Tokens(log, start, i) = {} BY <1>1 DEF Tokens
<1>3. Tokens(log, start, i)' = {} BY <1>1 DEF Tokens, TokenSet
<1> QED BY <1>2, <1>3

(* mini_deinit keeps the invariant, and its assertion holds: it frees each *)
(* extent of meta pages once, with the last page in it.                    *)
LEMMA DeinitInv ==
    ASSUME NEW log, NEW start, NEW own, Inv(log, start, own), NEW t \in MiniThread, Deinit(t)
    PROVE  Inv(log, start, own)'
<1> USE DEF Inv
<1>1. PICK a, n, e : a = lv[t].page /\ n = meta[a].next /\ e = ExtentOf(a) OBVIOUS
<1>2. PICK to, loc : to = (IF n = NoPage THEN "idle" ELSE "deinit") /\ loc = IF n = NoPage THEN NoLocals ELSE [lv[t] EXCEPT !.page = n] OBVIOUS
<1>3. /\ mpc[t] = "deinit" /\ Move(t, "deinit", to, loc)
      /\ failed' = IF ExtentOf(n) # e => refc[e] = AL_ONE_REF THEN failed ELSE failed \cup {"mini_deinit"}
      /\ refc' = IF ExtentOf(n) # e THEN [refc EXCEPT ![e] = AL_FREE] ELSE refc
      /\ UNCHANGED otherVars
  BY <1>1, <1>2 DEF Deinit, Check
<1>4. lv[t].op = "deinit" /\ t \in Role("deinit") /\ lv[t] \in DeinitRec BY <1>3, OpOfStep DEF Role
<1>5. life = "gone" BY <1>4 DEF RoleInv, TypeOK
<1>6. NoneHeld /\ NoBlocks /\ (\A u \in MiniThread : lv[u].op \in {"none", "release", "deinit"}) /\ Role("deinit") = {t}
  BY <1>4, <1>5 DEF RoleInv
<1>7. UNCHANGED <<keyed, meta, meta_tail, next_addr, next_extent, num_extents, claim, held, blocked, given, life, allocs>>
  BY <1>3 DEF otherVars
<1>8. a \in DOMAIN meta /\ a \in Nat /\ e \in Ext /\ own[e] = Meta
  <2>1. a \in DOMAIN meta BY <1>1, <1>4 DEF ListInv
  <2> QED BY <2>1, <1>1 DEF TypeOK, OwnInv
<1>9. /\ n = NoPage <=> a = meta_tail
      /\ n # NoPage => n \in DOMAIN meta /\ n \in Nat /\ start[a] < start[n] /\ start[n] = start[a] + Len(meta[a].entries)
                       /\ (n = a + 1 \/ (a + 1) % PagesPerExtent = 0)
  <2>1. start[a] \in Nat /\ Len(meta[a].entries) \in Nat BY <1>8, PageBounds
  <2>2. n = NoPage <=> a = meta_tail BY <1>1, <1>8, PageBounds
  <2>3. n # NoPage => n \in DOMAIN meta /\ start[n] = start[a] + Len(meta[a].entries) /\ Len(meta[a].entries) > 0
                      /\ (n = a + 1 \/ (a + 1) % PagesPerExtent = 0)
    BY <2>2, <1>1, <1>8, PageBounds
  <2>4. n # NoPage => n \in Nat BY <2>3 DEF TypeOK
  <2> QED BY <2>1, <2>2, <2>3, <2>4
<1>10. LocalsAt(to, loc) /\ loc.op = (IF n = NoPage THEN "none" ELSE "deinit") /\ (n # NoPage => loc.page = n)
  BY <1>2, <1>4, <1>9 DEF LocalsAt, DeinitRec, NoLocals
<1>11. /\ mpc' \in [MiniThread -> PCs] /\ DOMAIN lv' = MiniThread
       /\ \A u \in MiniThread : LocalsAt(mpc'[u], lv'[u])
       /\ mpc'[t] = to /\ lv'[t] = loc
       /\ \A u \in MiniThread \ {t} : mpc'[u] = mpc[u] /\ lv'[u] = lv[u]
  BY <1>3, <1>10, Moved
<1>12. TypeOK'
  <2>1. refc' \in [Ext -> Int]
    <3>1. refc \in [Ext -> Int] /\ AL_FREE \in Int BY DEF TypeOK, AL_FREE
    <3>2. [refc EXCEPT ![e] = AL_FREE] \in [Ext -> Int] BY <3>1, <1>8
    <3> QED BY <3>1, <3>2, <1>3
  <2>2. /\ next_addr' \in [Batch -> Nat] /\ next_extent' \in [Batch -> Ext] /\ held' \in [Rs -> Nat]
        /\ claim' \in [DOMAIN claim' -> MiniThread]
        /\ blocked' \in [MiniThread -> SUBSET Rs] /\ allocs' \in [MiniThread -> Nat] /\ meta' \in [DOMAIN meta' -> PageRec]
    BY <1>7 DEF TypeOK
  <2> QED BY <1>7, <1>11, <2>1, <2>2 DEF TypeOK
<1>13. /\ \A u \in MiniThread : lv'[u].op \in {"none", "release", "deinit"}
       /\ \A u \in MiniThread : u # t => lv'[u].op = lv[u].op
       /\ lv'[t].op = (IF n = NoPage THEN "none" ELSE "deinit")
  BY <1>6, <1>10, <1>11
<1>14. /\ Role("release")' = Role("release") /\ Role("alloc")' = {} /\ Role("inc")' = {} /\ Role("prefetch")' = {}
       /\ Role("dec")' = {} /\ Role("dealloc")' = {} /\ Role("deinit")' = IF n = NoPage THEN {} ELSE {t}
  <2>1. Role("deinit")' = IF n = NoPage THEN {} ELSE {t} BY <1>6, <1>13 DEF Role
  <2>2. Role("release")' = Role("release") BY <1>4, <1>13 DEF Role
  <2> QED BY <2>1, <2>2, <1>13 DEF Role
<1>15. Elsewhere
  <2> SUFFICES ASSUME NEW u \in MiniThread
               PROVE \/ mpc'[u] = mpc[u] /\ lv'[u] = lv[u]
                     \/ lv[u].op \notin {"alloc", "release"} /\ lv'[u].op \notin {"alloc", "release"}
    BY DEF Elsewhere
  <2> QED BY <1>4, <1>11, <1>13
<1>16. BatchInv(log)' /\ OwnInv(log, own)' /\ AddrInv(log)' /\ KeyInv(log)'
       /\ (\A b \in Batch : Pending(b)' <=> Pending(b))
       /\ \A u \in MiniThread : (Flying(u)' <=> Flying(u)) /\ (Flying(u) => lv'[u].addr = lv[u].addr)
  <2>1. log \in Seq(EntryRec) BY DEF ListInv
  <2> QED BY <2>1, <1>7, <1>12, <1>15, WalkFrame
<1>17. ListInv(log, start)'
  <2>1. Walkers' = {} BY <1>14 DEF Walkers
  <2>2. \A u \in Role("deinit")' : lv'[u].page \in DOMAIN meta BY <1>9, <1>10, <1>11, <1>14
  <2> QED BY <2>1, <2>2, <1>7, ListFrame
<1>18. ClaimInv'
  <2>1. \A u \in MiniThread : mpc'[u] \in {"append", "append_new"} => mpc[u] = mpc'[u] /\ lv'[u] = lv[u]
    BY <1>2, <1>11
  <2> QED BY <2>1, <1>7, <1>14, ClaimFrame
<1>19. keyed => Role("release") = {}
  <2> SUFFICES ASSUME keyed, NEW u \in Role("release") PROVE FALSE OBVIOUS
  <2> QED BY <1>5 DEF RoleInv
<1>20. NoneHeld' /\ NoBlocks' BY <1>6, <1>7 DEF NoneHeld, NoBlocks
<1>21. RoleInv'
  <2>1. \A u \in MiniThread : mpc'[u] \notin WaitPCs
    <3> SUFFICES ASSUME NEW u \in MiniThread, mpc'[u] \in WaitPCs PROVE FALSE OBVIOUS
    <3>1. u # t BY <1>2, <1>11 DEF WaitPCs
    <3>2. lv[u].op = "dec" BY <3>1, <1>11 DEF RoleInv
    <3> QED BY <3>2, <1>6
  <2>2. \A u, v \in Role("release")' : u = v BY <1>14 DEF RoleInv
  <2>3. \A u \in Role("release")' : mpc'[u] # "release" => keyed' /\ lv'[u].batch \in Batch
    <3> SUFFICES ASSUME NEW u \in Role("release"), mpc'[u] # "release" PROVE keyed /\ lv'[u].batch \in Batch BY <1>7, <1>14
    <3>1. u \in MiniThread /\ u # t BY <1>4 DEF Role
    <3> QED BY <3>1, <1>11 DEF RoleInv
  <2>4. keyed' => Role("release")' = {} BY <1>7, <1>14, <1>19
  <2>5. keyed' => \A u, v \in MiniThread : allocs'[u] > 0 /\ allocs'[v] > 0 => u = v BY <1>7 DEF RoleInv
  <2>6. life' = "gone" /\ \A r \in Rs : r # Whole => held'[r] = 0 BY <1>5, <1>7, <1>20 DEF NoneHeld
  <2>7. \A u, v \in Role("deinit")' : u = v BY <1>14
  <2> HIDE DEF Inv
  <2> QED BY <2>1, <2>2, <2>3, <2>4, <2>5, <2>6, <2>7, <1>13, <1>14, <1>20 DEF RoleInv
<1>22. \A x : Unreached(start, x) <=> \E c \in DOMAIN meta : ExtentOf(c) = x /\ start[c] >= start[a]
  BY <1>1, <1>6 DEF Unreached
<1>23. \A x : Unreached(start, x)' <=> n # NoPage /\ \E c \in DOMAIN meta : ExtentOf(c) = x /\ start[c] >= start[n]
  <2> SUFFICES ASSUME NEW x
               PROVE Unreached(start, x)' <=> n # NoPage /\ \E c \in DOMAIN meta : ExtentOf(c) = x /\ start[c] >= start[n]
    OBVIOUS
  <2>1. CASE n = NoPage BY <2>1, <1>14 DEF Unreached
  <2>2. CASE n # NoPage
    <3>1. Role("deinit")' = {t} /\ lv'[t].page = n /\ meta' = meta BY <2>2, <1>7, <1>10, <1>11, <1>14
    <3> QED BY <2>2, <3>1 DEF Unreached
  <2> QED BY <2>1, <2>2
<1>24. refc[e] = AL_ONE_REF /\ failed' = {}
  <2>1. start[a] \in Nat BY <1>8, PageBounds
  <2>2. Unreached(start, e) BY <2>1, <1>1, <1>8, <1>22
  <2>3. MetaRefs(start, e) BY <1>1, <1>8 DEF RefInv
  <2> QED BY <2>2, <2>3, <1>3, <1>5 DEF MetaRefs
<1>25. \A x \in Ext : refc'[x] = IF ExtentOf(n) # e /\ x = e THEN AL_FREE ELSE refc[x]
  <2>1. refc \in [Ext -> Int] BY DEF TypeOK
  <2> QED BY <2>1, <1>3, <1>8
<1>26. ASSUME NEW d \in DOMAIN meta PROVE MetaRefs(start, ExtentOf(d))'
  <2>1. PICK x : x = ExtentOf(d) OBVIOUS
  <2>2. x \in Ext BY <2>1 DEF OwnInv
  <2>3. refc[x] = IF Unreached(start, x) THEN AL_ONE_REF ELSE AL_FREE BY <2>1, <1>5 DEF RefInv, MetaRefs
  <2>4. SUFFICES refc'[x] = IF Unreached(start, x)' THEN AL_ONE_REF ELSE AL_FREE BY <2>1, <1>5, <1>7 DEF MetaRefs
  <2>5. CASE n = NoPage
    <3>1. ExtentOf(n) # e BY <2>5, <1>8, HeadExtent DEF Ext
    <3>2. ASSUME x # e PROVE ~Unreached(start, x)
      <4> SUFFICES ASSUME NEW c \in DOMAIN meta, ExtentOf(c) = x, start[c] >= start[a] PROVE FALSE BY <1>22
      <4>1. start[c] \in Nat /\ start[a] \in Nat /\ start[c] <= start[a] BY <2>5, <1>8, <1>9, PageBounds, PagesOrdered
      <4>2. c = a BY <4>1, <1>8, PagesOrdered
      <4> QED BY <4>2, <3>2, <1>1
    <3>3. ~Unreached(start, x)' BY <2>5, <1>23
    <3> QED BY <3>1, <3>2, <3>3, <2>2, <2>3, <1>25
  <2>6. CASE n # NoPage
    <3>1. n \in DOMAIN meta /\ n \in Nat /\ start[a] < start[n] /\ start[n] = start[a] + Len(meta[a].entries)
          /\ (n = a + 1 \/ (a + 1) % PagesPerExtent = 0)
      BY <2>6, <1>9
    <3>2. PICK s \in Nat, sn \in Nat : s = start[a] /\ sn = start[n] /\ s < sn BY <3>1, <1>8, PageBounds
    <3>3. ASSUME NEW c \in DOMAIN meta PROVE start[c] \in Nat /\ (start[c] >= sn <=> start[c] > s) /\ (start[c] = s => c = a)
      <4>1. PICK sc \in Nat : sc = start[c] BY PageBounds
      <4>2. s < sc => sn <= sc BY <4>1, <3>1, <3>2, <1>8, PagesOrdered
      <4> QED BY <4>1, <4>2, <3>2, <1>8, PagesOrdered
    <3>4. CASE x # e
      <4>1. ASSUME NEW c \in DOMAIN meta, ExtentOf(c) = x PROVE start[c] >= start[n] <=> start[c] >= start[a]
        <5>1. c # a BY <3>4, <4>1, <1>1
        <5> QED BY <5>1, <3>2, <3>3
      <4>2. Unreached(start, x)' <=> Unreached(start, x) BY <4>1, <2>6, <1>22, <1>23
      <4> QED BY <4>2, <3>4, <2>2, <2>3, <1>25
    <3>5. CASE x = e /\ ExtentOf(n) = e
      <4>1. Unreached(start, x)' BY <3>1, <3>2, <3>5, <2>6, <1>23
      <4> QED BY <4>1, <3>5, <2>2, <1>24, <1>25
    <3>6. CASE x = e /\ ExtentOf(n) # e
      <4>1. ~Unreached(start, x)'
        <5> SUFFICES ASSUME NEW c \in DOMAIN meta, ExtentOf(c) = e, start[c] >= start[n] PROVE FALSE BY <3>6, <1>23
        <5>1. start[a] < start[c] BY <3>2, <3>3
        <5>2. a < c /\ c \in Nat BY <5>1, <1>1, <1>8, PagesOrdered DEF TypeOK
        <5>3. (a + 1) % PagesPerExtent = 0
          <6>1. (a + 1) % PagesPerExtent # 0 => ExtentOf(a + 1) = e BY <1>1, <1>8, ExtentNext
          <6> QED BY <6>1, <3>1, <3>6
        <5>4. c <= a BY <5>2, <5>3, <1>1, <1>8, ExtentNext
        <5> QED BY <5>2, <5>4, <1>8
      <4> QED BY <4>1, <3>6, <2>2, <1>25
    <3> QED BY <3>4, <3>5, <3>6
  <2> QED BY <2>5, <2>6
<1>27. ASSUME NEW i \in DOMAIN log, Data(log, i) PROVE DataRefs(log, start, i)'
  <2>1. DataRefs(log, start, i) BY <1>27 DEF RefInv
  <2>2. ~Building /\ ~Building' BY <1>5, <1>7, <1>14, <1>19 DEF Building
  <2>3. refc'[log[i].extent] = refc[log[i].extent]
    <3>1. log \in Seq(EntryRec) BY DEF ListInv
    <3>2. log[i].extent \in Ext /\ log[i].extent # e BY <3>1, <1>1, <1>8, <1>27, EntryExtents
    <3> QED BY <3>2, <1>25
  <2>4. Freed(start, i) /\ Freed(start, i)' BY <1>5, <1>7 DEF Freed
  <2>5. Tokens(log, start, i) = {} /\ Tokens(log, start, i)' = {} BY <1>6, <1>12, <1>13, <1>20, NoTokens
  <2>6. CASE keyed BY <2>1, <2>2, <2>3, <2>5, <2>6, <1>7, SwapRefs
  <2>7. CASE ~keyed BY <2>1, <2>2, <2>3, <2>4, <2>7, <1>7 DEF DataRefs
  <2> QED BY <2>6, <2>7
<1>28. RefInv(log, start, own)'
  <2>1. next_extent \in [Batch -> Ext] BY DEF TypeOK
  <2>2. \A x \in Ext : own[x][1] \in {"free", "adv", "fly"} => refc'[x] = refc[x] BY <1>8, <1>25 DEF Meta
  <2> QED BY <2>1, <2>2, <1>7, <1>16, <1>26, <1>27, RefFrame
<1>29. WalkInv(log, start)' /\ OrderInv(log, start)'
  <2>1. WalkInv(log, start)' BY <1>14 DEF WalkInv
  <2>2. OrderInv(log, start)' BY <1>14 DEF OrderInv
  <2> QED BY <2>1, <2>2
<1>30. BlockInv' BY <1>20 DEF BlockInv, NoBlocks
<1>31. LiveInv' BY <1>5, <1>7 DEF LiveInv
<1> HIDE DEF Inv
<1> QED BY <1>12, <1>16, <1>17, <1>18, <1>21, <1>24, <1>28, <1>29, <1>30, <1>31 DEF Inv

-----------------------------------------------------------------------------
(* A thread takes a reference to s and begins a walk.                      *)

Enters(t, to, op, r, s) ==
    /\ op \in {"inc", "prefetch", "dec", "dealloc"} /\ (keyed <=> op \in {"inc", "dec"})
    /\ life = "released" /\ r \in Rs /\ s \in Rs /\ held[s] > 0 /\ Within(r, s) /\ (op = "dec" => r = s)
    /\ to = IF op = "dec" THEN "wait_blockers" ELSE "walk"
    /\ Move(t, "idle", to, Walker(op, r, s))
    /\ held' = [held EXCEPT ![s] = @ - 1]
    /\ refc' \in [Ext -> Int]
    /\ UNCHANGED <<keyed, meta, meta_tail, next_addr, next_extent, num_extents, claim, blocked, given, life, allocs, failed>>

(* Who begins a walk has the allocator built, and nobody frees it.         *)
LEMMA EntersBuilt ==
    ASSUME NEW log, NEW start, NEW own, Inv(log, start, own), life = "released", NEW s \in Rs, held[s] > 0
    PROVE  /\ keyed => Role("release") = {} /\ Role("prefetch") = {}
           /\ ~keyed => s = Whole /\ Role("inc") = {} /\ Role("dec") = {} /\ NoBlocks
           /\ Role("dealloc") = {} /\ Role("deinit") = {} /\ Role("alloc") = {} /\ ~Building
<1> USE DEF Inv
<1>1. ~NoneHeld BY DEF NoneHeld
<1>2. held[s] # 0 BY DEF TypeOK
<1>3. Role("dealloc") = {} /\ Role("deinit") = {} /\ Role("alloc") = {} BY <1>1 DEF RoleInv
<1>4. keyed => Role("release") = {} /\ Role("prefetch") = {} BY <1>1 DEF RoleInv
<1>5. ~keyed => s = Whole /\ Role("inc") = {} /\ Role("dec") = {} /\ NoBlocks BY <1>2 DEF RoleInv
<1> QED BY <1>3, <1>4, <1>5 DEF Building

(* A new walk keeps the list, the owners, the addresses and the keys.      *)
LEMMA EnterStep ==
    ASSUME NEW log, NEW start, NEW own, Inv(log, start, own), NEW t \in MiniThread, NEW to, NEW op, NEW r, NEW s, Enters(t, to, op, r, s)
    PROVE  /\ TypeOK' /\ ListInv(log, start)' /\ ClaimInv' /\ BatchInv(log)' /\ OwnInv(log, own)' /\ AddrInv(log)' /\ KeyInv(log)'
           /\ \A b \in Batch : Pending(b)' <=> Pending(b)
           /\ \A u \in MiniThread : (Flying(u)' <=> Flying(u)) /\ (Flying(u) => lv'[u].addr = lv[u].addr)
           /\ \A x \in {"inc", "prefetch", "dec", "dealloc"} : Role(x)' = IF x = op THEN Role(x) \cup {t} ELSE Role(x)
           /\ \A x \in {"alloc", "release", "deinit"} : Role(x)' = Role(x)
           /\ mpc[t] = "idle" /\ lv[t].op = "none" /\ mpc'[t] = to /\ lv'[t] = Walker(op, r, s)
           /\ \A u \in MiniThread \ {t} : mpc'[u] = mpc[u] /\ lv'[u] = lv[u]
           /\ \A x \in Rs : held[x] \in Nat /\ held'[x] = IF x = s THEN held[x] - 1 ELSE held[x]
<1> USE DEF Inv
<1>1. /\ op \in {"inc", "prefetch", "dec", "dealloc"} /\ (keyed <=> op \in {"inc", "dec"})
      /\ life = "released" /\ r \in Rs /\ s \in Rs /\ held[s] > 0 /\ Within(r, s) /\ (op = "dec" => r = s)
      /\ to = IF op = "dec" THEN "wait_blockers" ELSE "walk"
      /\ Move(t, "idle", to, Walker(op, r, s))
      /\ held' = [held EXCEPT ![s] = @ - 1]
      /\ refc' \in [Ext -> Int]
      /\ UNCHANGED <<keyed, meta, meta_tail, next_addr, next_extent, num_extents, claim, blocked, given, life, allocs, failed>>
  BY DEF Enters
<1>2. \A x \in Rs : held[x] \in Nat /\ held'[x] = IF x = s THEN held[x] - 1 ELSE held[x] BY <1>1 DEF TypeOK
<1>3. held' \in [Rs -> Nat]
  <2>1. \A x \in Rs : held'[x] \in Nat BY <1>1, <1>2
  <2>2. DOMAIN held' = Rs /\ held' = [x \in Rs |-> held'[x]] BY <1>1 DEF TypeOK
  <2> QED BY <2>1, <2>2
<1>4. Walker(op, r, s) \in WalkRec /\ Walker(op, r, s).op = op /\ Walker(op, r, s).page = meta_head /\ Walker(op, r, s).i = 1
  BY <1>1, HeadExtent DEF Walker, WalkRec, WalkStates
<1>5. LocalsAt(to, Walker(op, r, s)) BY <1>1, <1>4 DEF LocalsAt, WaitPCs
<1>6. /\ mpc' \in [MiniThread -> PCs] /\ DOMAIN lv' = MiniThread
      /\ \A u \in MiniThread : LocalsAt(mpc'[u], lv'[u])
      /\ mpc[t] = "idle" /\ mpc'[t] = to /\ lv'[t] = Walker(op, r, s)
      /\ \A u \in MiniThread \ {t} : mpc'[u] = mpc[u] /\ lv'[u] = lv[u]
  BY <1>1, <1>5, Moved
<1>7. lv[t].op = "none" BY <1>6, OpOfStep
<1>8. TypeOK'
  <2>1. /\ next_addr' \in [Batch -> Nat] /\ next_extent' \in [Batch -> Ext] /\ claim' \in [DOMAIN claim' -> MiniThread]
        /\ blocked' \in [MiniThread -> SUBSET Rs] /\ allocs' \in [MiniThread -> Nat] /\ meta' \in [DOMAIN meta' -> PageRec]
    BY <1>1 DEF TypeOK
  <2> QED BY <1>1, <1>3, <1>6, <2>1 DEF TypeOK
<1>9. (\A u \in MiniThread : u # t => lv'[u].op = lv[u].op) /\ lv'[t].op = op BY <1>4, <1>6
<1>10. /\ \A x \in {"inc", "prefetch", "dec", "dealloc"} : Role(x)' = IF x = op THEN Role(x) \cup {t} ELSE Role(x)
       /\ \A x \in {"alloc", "release", "deinit"} : Role(x)' = Role(x)
  <2>1. \A x \in {"inc", "prefetch", "dec", "dealloc"} : Role(x)' = IF x = op THEN Role(x) \cup {t} ELSE Role(x)
    BY <1>7, <1>9 DEF Role
  <2>2. \A x \in {"alloc", "release", "deinit"} : Role(x)' = Role(x) BY <1>1, <1>7, <1>9 DEF Role
  <2> QED BY <2>1, <2>2
<1>11. Elsewhere
  <2> SUFFICES ASSUME NEW u \in MiniThread
               PROVE \/ mpc'[u] = mpc[u] /\ lv'[u] = lv[u]
                     \/ lv[u].op \notin {"alloc", "release"} /\ lv'[u].op \notin {"alloc", "release"}
    BY DEF Elsewhere
  <2> QED BY <1>1, <1>6, <1>7, <1>9
<1>12. BatchInv(log)' /\ OwnInv(log, own)' /\ AddrInv(log)' /\ KeyInv(log)'
       /\ (\A b \in Batch : Pending(b)' <=> Pending(b))
       /\ \A u \in MiniThread : (Flying(u)' <=> Flying(u)) /\ (Flying(u) => lv'[u].addr = lv[u].addr)
  <2>1. log \in Seq(EntryRec) BY DEF ListInv
  <2> QED BY <2>1, <1>1, <1>8, <1>11, WalkFrame
<1>13. ListInv(log, start)'
  <2>1. \A u \in Walkers' : u = t \/ (u \in Walkers /\ u # t /\ u \in MiniThread) BY <1>7, <1>10 DEF Walkers, Role
  <2>2. meta_head \in DOMAIN meta /\ Len(meta[meta_head].entries) \in Nat
    <3>1. meta_head \in DOMAIN meta BY DEF ListInv
    <3> QED BY <3>1, PageBounds
  <2>3. \A u \in Walkers' : lv'[u].page \in DOMAIN meta /\ lv'[u].i \in 1 .. Len(meta[lv'[u].page].entries) + 1
    <3> SUFFICES ASSUME NEW u \in Walkers' PROVE lv'[u].page \in DOMAIN meta /\ lv'[u].i \in 1 .. Len(meta[lv'[u].page].entries) + 1
      OBVIOUS
    <3>1. CASE u = t BY <3>1, <2>2, <1>4, <1>6
    <3>2. CASE u # t BY <3>2, <2>1, <1>6 DEF ListInv
    <3> QED BY <3>1, <3>2
  <2>4. \A u \in Role("deinit")' : lv'[u].page \in DOMAIN meta
    <3> SUFFICES ASSUME NEW u \in Role("deinit") PROVE lv'[u].page \in DOMAIN meta BY <1>10
    <3>1. u \in MiniThread /\ u # t BY <1>7 DEF Role
    <3> QED BY <3>1, <1>6 DEF ListInv
  <2> QED BY <2>3, <2>4, <1>1, ListFrame
<1>14. ClaimInv'
  <2>1. \A u \in MiniThread : mpc'[u] \in {"append", "append_new"} => mpc[u] = mpc'[u] /\ lv'[u] = lv[u] BY <1>1, <1>6
  <2>2. \A u \in Role("dec")' : mpc'[u] = "walk" => u \in Role("dec") /\ mpc[u] = "walk" /\ lv'[u].page = lv[u].page
    <3> SUFFICES ASSUME NEW u \in Role("dec")', mpc'[u] = "walk" PROVE u \in Role("dec") /\ mpc[u] = "walk" /\ lv'[u].page = lv[u].page OBVIOUS
    <3>1. u # t
      <4>1. u = t => op = "dec" BY <1>9 DEF Role
      <4> QED BY <4>1, <1>1, <1>6
    <3>2. u \in Role("dec") /\ u \in MiniThread BY <3>1, <1>10 DEF Role
    <3> QED BY <3>1, <3>2, <1>6
  <2> QED BY <2>1, <2>2, <1>1, ClaimFrame
<1> HIDE DEF Inv
<1> QED BY <1>2, <1>6, <1>7, <1>8, <1>10, <1>12, <1>13, <1>14

(* What the new walk does to the invariant apart from the counts.          *)
LEMMA EnterWalk ==
    ASSUME NEW log, NEW start, NEW own, Inv(log, start, own), NEW t \in MiniThread, NEW to, NEW op, NEW r, NEW s, Enters(t, to, op, r, s),
           op = "dealloc" => NoneHeld' /\ Role("prefetch") = {}
    PROVE  RoleInv' /\ WalkInv(log, start)' /\ BlockInv' /\ LiveInv' /\ OrderInv(log, start)' /\ failed' = {}
<1> USE DEF Inv
<1>1. /\ op \in {"inc", "prefetch", "dec", "dealloc"} /\ (keyed <=> op \in {"inc", "dec"})
      /\ life = "released" /\ r \in Rs /\ s \in Rs /\ held[s] > 0 /\ Within(r, s) /\ (op = "dec" => r = s)
      /\ to = IF op = "dec" THEN "wait_blockers" ELSE "walk"
      /\ UNCHANGED <<keyed, meta, meta_tail, next_addr, next_extent, num_extents, claim, blocked, given, life, allocs, failed>>
  BY DEF Enters
<1>2. /\ \A x \in {"inc", "prefetch", "dec", "dealloc"} : Role(x)' = IF x = op THEN Role(x) \cup {t} ELSE Role(x)
      /\ \A x \in {"alloc", "release", "deinit"} : Role(x)' = Role(x)
      /\ mpc[t] = "idle" /\ lv[t].op = "none" /\ mpc'[t] = to /\ lv'[t] = Walker(op, r, s)
      /\ \A u \in MiniThread \ {t} : mpc'[u] = mpc[u] /\ lv'[u] = lv[u]
      /\ \A x \in Rs : held[x] \in Nat /\ held'[x] = IF x = s THEN held[x] - 1 ELSE held[x]
  BY EnterStep
<1>3. /\ keyed => Role("release") = {} /\ Role("prefetch") = {}
      /\ ~keyed => s = Whole /\ Role("inc") = {} /\ Role("dec") = {} /\ NoBlocks
      /\ Role("dealloc") = {} /\ Role("deinit") = {} /\ Role("alloc") = {} /\ ~Building
  BY <1>1, EntersBuilt
<1>4. PICK w : w = lv'[t] OBVIOUS
<1>5. /\ w.op = op /\ w.range = r /\ w.mine = s /\ w.page = meta_head /\ w.i = 1 /\ w.cleanup
      /\ \A b \in Batch : w.extent[b] = TERMINAL_EXTENT_ADDR /\ w.state[b] = "before_start"
  BY <1>2, <1>4 DEF Walker
<1>6. \A x, u : u \in Role(x) => u # t \/ x = "none" BY <1>2 DEF Role
<1>7. \A x, u : u \in Role(x) => u \in MiniThread BY DEF Role
<1>8. RoleInv'
  <2>1. \A u, v \in Role("release")' : u = v BY <1>2 DEF RoleInv
  <2>2. \A u, v \in Role("dealloc")' : u = v BY <1>2, <1>3
  <2>3. keyed' => Role("prefetch")' = {} /\ Role("dealloc")' = {} /\ Role("release")' = {} BY <1>1, <1>2, <1>3
  <2>4. ~keyed' => Role("inc")' = {} /\ Role("dec")' = {} /\ NoBlocks' BY <1>1, <1>2, <1>3 DEF NoBlocks
  <2>5. ~keyed' => \A x \in Rs : x # Whole => held'[x] = 0
    <3>1. ~keyed => \A x \in Rs : x # Whole => held[x] = 0 BY DEF RoleInv
    <3> QED BY <3>1, <1>1, <1>2, <1>3
  <2>6. Role("dealloc")' # {} => NoneHeld' /\ Role("prefetch")' = {} BY <1>2, <1>3
  <2>7. \A u \in Role("release")' : mpc'[u] # "release" => keyed' /\ lv'[u].batch \in Batch
    <3> SUFFICES ASSUME NEW u \in Role("release"), mpc'[u] # "release" PROVE keyed /\ lv'[u].batch \in Batch BY <1>1, <1>2
    <3>1. u \in MiniThread /\ u # t BY <1>6, <1>7
    <3> QED BY <3>1, <1>2 DEF RoleInv
  <2>8. \A u \in MiniThread : mpc'[u] \in WaitPCs =>
           lv'[u].op = "dec" /\ lv'[u].page = meta_head /\ lv'[u].i = 1 /\ lv'[u].cleanup /\ lv'[u].range = lv'[u].mine
    <3> SUFFICES ASSUME NEW u \in MiniThread, mpc'[u] \in WaitPCs
                 PROVE  lv'[u].op = "dec" /\ lv'[u].page = meta_head /\ lv'[u].i = 1 /\ lv'[u].cleanup /\ lv'[u].range = lv'[u].mine
      OBVIOUS
    <3>1. CASE u = t
      <4>1. op = "dec" BY <3>1, <1>1, <1>2 DEF WaitPCs
      <4> QED BY <3>1, <4>1, <1>1, <1>4, <1>5
    <3>2. CASE u # t BY <3>2, <1>2 DEF RoleInv
    <3> QED BY <3>1, <3>2
  <2>9. \A u \in Role("inc")' : Within(lv'[u].range, lv'[u].mine)
    <3> SUFFICES ASSUME NEW u \in Role("inc")' PROVE Within(lv'[u].range, lv'[u].mine) OBVIOUS
    <3>1. CASE u = t BY <3>1, <1>1, <1>4, <1>5
    <3>2. CASE u # t
      <4>1. u \in Role("inc") /\ u \in MiniThread BY <3>2, <1>2, <1>7
      <4> QED BY <3>2, <4>1, <1>2 DEF RoleInv
    <3> QED BY <3>1, <3>2
  <2>10. \A u \in Role("prefetch")' : lv'[u].mine = Whole
    <3> SUFFICES ASSUME NEW u \in Role("prefetch")' PROVE lv'[u].mine = Whole OBVIOUS
    <3>1. CASE u = t
      <4>1. ~keyed BY <2>3, <1>1
      <4> QED BY <3>1, <4>1, <1>3, <1>4, <1>5
    <3>2. CASE u # t
      <4>1. u \in Role("prefetch") /\ u \in MiniThread BY <3>2, <1>2, <1>7
      <4> QED BY <3>2, <4>1, <1>2 DEF RoleInv
    <3> QED BY <3>1, <3>2
  <2>11. keyed' => \A u, v \in MiniThread : allocs'[u] > 0 /\ allocs'[v] > 0 => u = v BY <1>1 DEF RoleInv
  <2>12. life' = "released" /\ Role("alloc")' = {} /\ Role("deinit")' = {} BY <1>1, <1>2, <1>3
  <2> HIDE DEF Inv
  <2> QED BY <2>1, <2>2, <2>3, <2>4, <2>5, <2>6, <2>7, <2>8, <2>9, <2>10, <2>11, <2>12 DEF RoleInv
<1>9. start[meta_head] = 0 /\ log \in Seq(EntryRec) /\ DOMAIN log \subseteq Nat \ {0} /\ \A k \in DOMAIN log : log[k].batch \in Batch
  <2>1. start[meta_head] = 0 /\ log \in Seq(EntryRec) BY DEF ListInv
  <2> QED BY <2>1, LogEntries
<1>10. Pos(start, t)' = 0 BY <1>4, <1>5, <1>9 DEF Pos
<1>11. WalkInv(log, start)'
  <2> SUFFICES ASSUME NEW u \in Role("inc")' \cup Role("dec")'
               PROVE /\ \A k \in DOMAIN log : k > Pos(start, u)' /\ FirstOf(log, k) =>
                           lv'[u].extent[log[k].batch] = TERMINAL_EXTENT_ADDR /\ lv'[u].state[log[k].batch] = "before_start"
                     /\ \A i, k \in DOMAIN log : i <= Pos(start, u)' /\ k > Pos(start, u)' /\ Pair(log, i, k) =>
                           lv'[u].extent[log[k].batch] = log[i].extent /\ lv'[u].state[log[k].batch] = StateAt(log, lv'[u].range, i)
                     /\ \A i, j \in DOMAIN log : Top(log, i, j) /\ j <= Pos(start, u)' => lv'[u].did_work
    BY DEF WalkInv, FirstOf, Pair, Top, StateAt, Data
  <2>1. CASE u = t
    <3>1. \A k \in DOMAIN log : ~(k <= 0) BY <1>9
    <3> QED BY <3>1, <2>1, <1>4, <1>5, <1>9, <1>10
  <2>2. CASE u # t
    <3>1. u \in Role("inc") \cup Role("dec") /\ u \in MiniThread BY <2>2, <1>2, <1>7
    <3>2. lv'[u] = lv[u] /\ Pos(start, u)' = Pos(start, u) BY <2>2, <3>1, <1>2 DEF Pos
    <3> QED BY <3>1, <3>2 DEF WalkInv
  <2> QED BY <2>1, <2>2
<1>12. BlockInv'
  <2> SUFFICES ASSUME NEW u \in MiniThread, NEW x \in blocked[u]
               PROVE \/ held'[x] > 0
                     \/ \E v \in Role("inc")' : lv'[v].mine = x
                     \/ \E v \in MiniThread : mpc'[v] = "wait_blockers" /\ lv'[v].range = x
    BY <1>1 DEF BlockInv
  <2>1. x \in Rs BY DEF TypeOK
  <2>2. keyed BY <1>3 DEF NoBlocks
  <2>3. \/ held[x] > 0
        \/ \E v \in Role("inc") : lv[v].mine = x
        \/ \E v \in MiniThread : mpc[v] = "wait_blockers" /\ lv[v].range = x
    BY DEF BlockInv
  <2>4. CASE x = s
    <3>1. CASE op = "inc"
      <4>1. t \in Role("inc")' /\ lv'[t].mine = x BY <2>4, <3>1, <1>2, <1>4, <1>5
      <4> QED BY <4>1
    <3>2. CASE op = "dec"
      <4>1. mpc'[t] = "wait_blockers" /\ lv'[t].range = x BY <2>4, <3>2, <1>1, <1>2, <1>4, <1>5
      <4> QED BY <4>1
    <3> QED BY <3>1, <3>2, <2>2, <1>1
  <2>5. CASE x # s /\ held[x] > 0 BY <2>1, <2>5, <1>2
  <2>6. CASE \E v \in Role("inc") : lv[v].mine = x
    <3>1. PICK v \in Role("inc") : lv[v].mine = x BY <2>6
    <3>2. v \in MiniThread /\ v # t BY <1>6, <1>7
    <3>3. v \in Role("inc")' BY <1>2
    <3> QED BY <3>1, <3>2, <3>3, <1>2
  <2>7. CASE \E v \in MiniThread : mpc[v] = "wait_blockers" /\ lv[v].range = x
    <3>1. PICK v \in MiniThread : mpc[v] = "wait_blockers" /\ lv[v].range = x BY <2>7
    <3>2. v # t BY <3>1, <1>2
    <3> QED BY <3>1, <3>2, <1>2
  <2> QED BY <2>3, <2>4, <2>5, <2>6, <2>7
<1>13. LiveInv'
  <2>1. t \in Walkers' BY <1>1, <1>2 DEF Walkers
  <2> QED BY <2>1 DEF LiveInv
<1>14. OrderInv(log, start)'
  <2> SUFFICES ASSUME NEW u \in Role("dec")'
               PROVE /\ ~lv'[u].cleanup => Behind(start, u)'
                     /\ lv'[u].cleanup /\ (\E i, j \in DOMAIN log : Top(log, i, j) /\ j <= Pos(start, u)') => ~Behind(start, u)'
    BY DEF OrderInv, Top, Pair, FirstOf, Data
  <2>1. CASE u = t
    <3>1. lv'[t].cleanup BY <1>4, <1>5
    <3>2. \A j \in DOMAIN log : ~(j <= Pos(start, t)') BY <1>9, <1>10
    <3> QED BY <2>1, <3>1, <3>2
  <2>2. CASE u # t
    <3>1. u \in Role("dec") /\ u \in MiniThread BY <2>2, <1>2, <1>7
    <3>2. lv'[u] = lv[u] /\ Pos(start, u)' = Pos(start, u) BY <2>2, <3>1, <1>2 DEF Pos
    <3>3. Behind(start, u) BY <1>1 DEF Behind
    <3>4. Behind(start, u)'
      <4>1. keyed BY <3>1, <1>3
      <4>2. CASE op = "inc"
        <5>1. t \in Role("inc")' BY <4>2, <1>2
        <5> QED BY <5>1 DEF Behind
      <4>3. CASE op = "dec"
        <5>1. t \in Role("dec")' /\ mpc'[t] \in WaitPCs BY <4>3, <1>1, <1>2 DEF WaitPCs
        <5> QED BY <2>2, <5>1 DEF Behind
      <4> QED BY <4>1, <4>2, <4>3, <1>1
    <3>5. ~(lv[u].cleanup /\ (\E i, j \in DOMAIN log : Top(log, i, j) /\ j <= Pos(start, u))) BY <3>1, <3>3 DEF OrderInv
    <3> QED BY <3>2, <3>4, <3>5
  <2> QED BY <2>1, <2>2
<1> HIDE DEF Inv
<1> QED BY <1>1, <1>8, <1>11, <1>12, <1>13, <1>14 DEF Inv

-----------------------------------------------------------------------------
(* WalkCall, KeyedDec, UnkeyedDec.                                         *)

(* The reference that a thread takes is its own now.                       *)
LEMMA EnterTokens ==
    ASSUME NEW log, NEW start, NEW own, Inv(log, start, own), NEW t \in MiniThread, NEW to, NEW op, NEW r, NEW s, Enters(t, to, op, r, s),
           keyed, NEW i \in DOMAIN log
    PROVE  \/ Tokens(log, start, i)' = Tokens(log, start, i)
           \/ \E a \in Tokens(log, start, i), b \in TokenSet \ Tokens(log, start, i) :
                 Tokens(log, start, i)' = (Tokens(log, start, i) \ {a}) \cup {b}
<1>1. TypeOK /\ ListInv(log, start) BY DEF Inv
<1>2. /\ op \in {"inc", "dec"} /\ r \in Rs /\ s \in Rs /\ held[s] > 0 /\ (op = "dec" => r = s) BY DEF Enters
<1>3. /\ TypeOK' /\ lv[t].op = "none" /\ lv'[t] = Walker(op, r, s)
      /\ \A u \in MiniThread \ {t} : lv'[u] = lv[u]
      /\ \A x \in Rs : held[x] \in Nat /\ held'[x] = IF x = s THEN held[x] - 1 ELSE held[x]
  BY EnterStep
<1>4. PICK n \in Nat : n = held[s] BY <1>2, <1>3
<1>5. PICK w, p : w = lv'[t] /\ p = start[w.page] + w.i - 1 OBVIOUS
<1>6. w.op = op /\ w.range = r /\ w.mine = s /\ p = 0
  <2>1. w.op = op /\ w.range = r /\ w.mine = s /\ w.page = meta_head /\ w.i = 1 BY <1>3, <1>5 DEF Walker
  <2>2. start[meta_head] = 0 BY <1>1 DEF ListInv
  <2> QED BY <2>1, <2>2, <1>5
<1>7. ~Passed(log, i, p)
  <2>1. DOMAIN log = 1 .. Len(log) /\ Len(log) \in Nat BY <1>1, LogEntries DEF ListInv
  <2> QED BY <2>1, <1>6 DEF Passed
<1>8. PICK a, b : a = <<"held", <<s, n>>>> /\ b = IF op = "inc" THEN <<"mine", t>> ELSE <<"dec", t>> OBVIOUS
<1>9. a \in TokenSet /\ b \in TokenSet
  <2>1. a \in TokenSet BY <1>2, <1>8, TokenMembers
  <2>2. b \in TokenSet BY <1>8, TokenMembers
  <2> QED BY <2>1, <2>2
<1>10. /\ Active(log, start, i, a) <=> Hit(log, s, i)
       /\ ~Active(log, start, i, b)
       /\ ~Active(log, start, i, a)'
       /\ Active(log, start, i, b)' <=> Hit(log, s, i)
  <2>1. n \in 1 .. held[s] /\ n \notin 1 .. held'[s] BY <1>2, <1>3, <1>4
  <2>2. Active(log, start, i, <<"held", <<s, n>>>>) <=> Hit(log, s, i) BY <2>1, <1>1, <1>2, HeldToken
  <2>3. ~Active(log, start, i, <<"held", <<s, n>>>>)' BY <2>1, <1>2, <1>3, HeldTokenNext
  <2>4. ~Active(log, start, i, <<"mine", t>>) /\ ~Active(log, start, i, <<"dec", t>>) BY <1>3, ThreadTokens
  <2>5. /\ op = "inc" => (Active(log, start, i, <<"mine", t>>)' <=> Hit(log, s, i))
        /\ op = "dec" => (Active(log, start, i, <<"dec", t>>)' <=> Hit(log, s, i))
    BY <1>2, <1>5, <1>6, <1>7, ThreadTokensNext
  <2> QED BY <2>2, <2>3, <2>4, <2>5, <1>2, <1>8
<1>11. ASSUME NEW k \in TokenSet, k # a, k # b PROVE Active(log, start, i, k)' <=> Active(log, start, i, k)
  <2>1. CASE \E x \in Rs, y \in Nat : k = <<"held", <<x, y>>>>
    <3>1. PICK x \in Rs, y \in Nat : k = <<"held", <<x, y>>>> BY <2>1
    <3>2. ~(x = s /\ y = n) BY <3>1, <1>8, <1>11
    <3>3. y \in 1 .. held'[x] <=> y \in 1 .. held[x]
      <4>1. CASE x # s BY <4>1, <1>3
      <4>2. CASE x = s BY <4>2, <3>2, <1>3, <1>4
      <4> QED BY <4>1, <4>2
    <3>4. Active(log, start, i, <<"held", <<x, y>>>>)' <=> Active(log, start, i, <<"held", <<x, y>>>>)
      BY <3>3, <1>1, <1>3, HeldToken, HeldTokenNext
    <3> QED BY <3>1, <3>4
  <2>2. CASE \E u \in MiniThread : k = <<"mine", u>> \/ k = <<"new", u>> \/ k = <<"dec", u>>
    <3>1. PICK u \in MiniThread : k = <<"mine", u>> \/ k = <<"new", u>> \/ k = <<"dec", u>> BY <2>2
    <3>2. CASE u = t
      <4>1. ~Active(log, start, i, <<"mine", t>>) /\ ~Active(log, start, i, <<"new", t>>) /\ ~Active(log, start, i, <<"dec", t>>)
        BY <1>3, ThreadTokens
      <4>2. /\ ~Active(log, start, i, <<"new", t>>)'
            /\ op = "inc" => ~Active(log, start, i, <<"dec", t>>)'
            /\ op = "dec" => ~Active(log, start, i, <<"mine", t>>)'
        BY <1>2, <1>5, <1>6, <1>7, ThreadTokensNext
      <4>3. CASE op = "inc"
        <5>1. k = <<"new", t>> \/ k = <<"dec", t>> BY <4>3, <3>1, <3>2, <1>8, <1>11
        <5> QED BY <5>1, <4>1, <4>2, <4>3
      <4>4. CASE op = "dec"
        <5>1. k = <<"new", t>> \/ k = <<"mine", t>> BY <4>4, <3>1, <3>2, <1>8, <1>11
        <5> QED BY <5>1, <4>1, <4>2, <4>4
      <4> QED BY <4>3, <4>4, <1>2
    <3>3. CASE u # t
      <4>1. lv'[u] = lv[u] BY <3>3, <1>3
      <4>2. lv'[u].op = lv[u].op /\ lv'[u].mine = lv[u].mine /\ lv'[u].range = lv[u].range /\ Pos(start, u)' = Pos(start, u)
        BY <4>1 DEF Pos
      <4>3. /\ Active(log, start, i, <<"mine", u>>)' <=> Active(log, start, i, <<"mine", u>>)
            /\ Active(log, start, i, <<"new", u>>)' <=> Active(log, start, i, <<"new", u>>)
            /\ Active(log, start, i, <<"dec", u>>)' <=> Active(log, start, i, <<"dec", u>>)
        BY <4>2, SameTokens
      <4> QED BY <4>3, <3>1
    <3> QED BY <3>2, <3>3
  <2> QED BY <2>1, <2>2, EveryToken
<1>12. PICK S : S = Tokens(log, start, i) OBVIOUS
<1>13. PICK N : N = Tokens(log, start, i)' OBVIOUS
<1>14. \A k : k \in S <=> k \in TokenSet /\ Active(log, start, i, k) BY <1>12 DEF Tokens, TokenSet
<1>15. \A k : k \in N <=> k \in TokenSet /\ Active(log, start, i, k)' BY <1>13 DEF Tokens, TokenSet
<1>16. CASE Hit(log, s, i)
  <2>1. a \in S /\ b \in TokenSet \ S BY <1>9, <1>10, <1>14, <1>16
  <2>2. N = (S \ {a}) \cup {b} BY <1>9, <1>10, <1>11, <1>14, <1>15, <1>16
  <2> QED BY <2>1, <2>2, <1>12, <1>13
<1>17. CASE ~Hit(log, s, i)
  <2>1. N = S BY <1>9, <1>10, <1>11, <1>14, <1>15, <1>17
  <2> QED BY <2>1, <1>12, <1>13
<1> QED BY <1>16, <1>17

(* The counts at the begin of a walk.                                      *)
LEMMA EnterRefs ==
    ASSUME NEW log, NEW start, NEW own, Inv(log, start, own), NEW t \in MiniThread, NEW to, NEW op, NEW r, NEW s, Enters(t, to, op, r, s),
           \A e \in Ext : e # 1 => refc'[e] = refc[e], refc'[1] = FirstCount'
    PROVE  RefInv(log, start, own)'
<1> USE DEF Inv
<1>1. /\ op \in {"inc", "prefetch", "dec", "dealloc"} /\ (keyed <=> op \in {"inc", "dec"})
      /\ life = "released" /\ s \in Rs /\ held[s] > 0
      /\ UNCHANGED <<keyed, meta, meta_tail, next_addr, next_extent, num_extents, claim, blocked, given, life, allocs, failed>>
  BY DEF Enters
<1>2. /\ \A b \in Batch : Pending(b)' <=> Pending(b)
      /\ \A u \in MiniThread : (Flying(u)' <=> Flying(u)) /\ (Flying(u) => lv'[u].addr = lv[u].addr)
      /\ \A x \in {"inc", "prefetch", "dec", "dealloc"} : Role(x)' = IF x = op THEN Role(x) \cup {t} ELSE Role(x)
      /\ \A x \in {"alloc", "release", "deinit"} : Role(x)' = Role(x)
      /\ lv'[t] = Walker(op, r, s)
  BY EnterStep
<1>3. Role("dealloc") = {} /\ ~Building /\ (keyed => Role("release") = {}) BY <1>1, EntersBuilt
<1>4. ~Building' BY <1>1, <1>2, <1>3 DEF Building
<1>5. own[1] = Meta BY <1>1, FirstExtent
<1>6. \A a \in DOMAIN meta : MetaRefs(start, ExtentOf(a))' BY <1>1, LiveMeta
<1>7. ASSUME NEW i \in DOMAIN log, Data(log, i) PROVE DataRefs(log, start, i)'
  <2>1. DataRefs(log, start, i) BY <1>7 DEF RefInv
  <2>2. refc'[log[i].extent] = refc[log[i].extent]
    <3>1. log \in Seq(EntryRec) BY DEF ListInv
    <3>2. log[i].extent \in Ext /\ own[log[i].extent][1] = "data" BY <3>1, <1>7, EntryExtents
    <3> QED BY <3>2, <1>5 DEF Meta
  <2>3. CASE keyed
    <3> HIDE DEF Inv
    <3>1. \/ Tokens(log, start, i)' = Tokens(log, start, i)
          \/ \E a \in Tokens(log, start, i), b \in TokenSet \ Tokens(log, start, i) :
                Tokens(log, start, i)' = (Tokens(log, start, i) \ {a}) \cup {b}
      BY <2>3, EnterTokens
    <3> QED BY <3>1, <2>1, <2>2, <2>3, <1>1, <1>3, <1>4, SwapRefs
  <2>4. CASE ~keyed
    <3>1. ~Freed(start, i) BY <1>1, <1>3 DEF Freed
    <3>2. ~Freed(start, i)'
      <4>1. Pos(start, t)' = 0
        <5>1. start[meta_head] = 0 BY DEF ListInv
        <5> QED BY <5>1, <1>2 DEF Pos, Walker
      <4>2. i \in Nat \ {0}
        <5>1. DOMAIN log = 1 .. Len(log) BY LogEntries DEF ListInv
        <5> QED BY <5>1
      <4>3. Role("dealloc")' \subseteq {t} BY <1>2, <1>3
      <4> QED BY <4>1, <4>2, <4>3, <1>1 DEF Freed
    <3> QED BY <2>1, <2>2, <2>4, <3>1, <3>2, <1>1, <1>4, <1>3 DEF DataRefs
  <2> QED BY <2>3, <2>4
<1>8. next_extent \in [Batch -> Ext] BY DEF TypeOK
<1>9. \A e \in Ext : own[e][1] \in {"free", "adv", "fly"} => refc'[e] = refc[e] BY <1>1, <1>5 DEF Meta
<1> QED BY <1>1, <1>2, <1>6, <1>7, <1>8, <1>9, RefFrame

(* mini_keyed_inc_ref and mini_unkeyed_prefetch keep the invariant when    *)
(* they begin.                                                             *)
LEMMA WalkCallInv ==
    ASSUME NEW log, NEW start, NEW own, Inv(log, start, own), NEW t \in MiniThread, NEW op \in {"inc", "prefetch"},
           NEW r \in DOMAIN held, NEW s \in DOMAIN held, WalkCall(t, op, r, s)
    PROVE  Inv(log, start, own)'
<1>0. TypeOK BY DEF Inv
<1>1. r \in Rs /\ s \in Rs BY <1>0 DEF TypeOK
<1>2. Enters(t, "walk", op, r, s)
  <2>1. refc' = refc /\ refc \in [Ext -> Int] BY <1>0 DEF WalkCall, TypeOK
  <2> QED BY <2>1, <1>1 DEF WalkCall, Enters
<1>3. refc' = refc /\ keyed' = keyed /\ blocked' = blocked /\ life = "released" /\ held[s] > 0 BY DEF WalkCall
<1>4. FirstCount' = FirstCount
  <2>1. CASE keyed BY <2>1, <1>3 DEF FirstCount
  <2>2. CASE ~keyed
    <3>1. op = "prefetch" BY <2>2 DEF WalkCall
    <3>2. s = Whole BY <2>2, <1>1, <1>3, EntersBuilt
    <3>3. PICK S : S = Role("prefetch") OBVIOUS
    <3>4. Role("prefetch")' = S \cup {t} /\ t \notin S /\ held[s] \in Nat /\ held'[s] = held[s] - 1
      <4>1. /\ \A x \in {"inc", "prefetch", "dec", "dealloc"} : Role(x)' = IF x = op THEN Role(x) \cup {t} ELSE Role(x)
            /\ lv[t].op = "none"
            /\ \A x \in Rs : held[x] \in Nat /\ held'[x] = IF x = s THEN held[x] - 1 ELSE held[x]
        BY <1>2, EnterStep
      <4> QED BY <4>1, <3>1, <3>3, <1>1 DEF Role
    <3>5. IsFiniteSet(S)
      <4>1. S \subseteq MiniThread BY <3>3 DEF Role
      <4> QED BY <4>1, MiniThreadAssumption, FS_Subset
    <3>6. Cardinality(S \cup {t}) = Cardinality(S) + 1 /\ Cardinality(S) \in Nat BY <3>4, <3>5, FS_AddElement, FS_CardinalityType
    <3>7. FirstCount = MINI_NO_REFS + (held[Whole] + Cardinality(S)) BY <2>2, <3>3 DEF FirstCount
    <3>8. FirstCount' = MINI_NO_REFS + (held'[Whole] + Cardinality(S \cup {t})) BY <2>2, <3>4, <1>3 DEF FirstCount
    <3> QED BY <3>2, <3>4, <3>6, <3>7, <3>8
  <2> QED BY <2>1, <2>2
<1>5. refc'[1] = FirstCount'
  <2>1. refc[1] = FirstCount BY <1>3, FirstExtent DEF Inv
  <2> QED BY <2>1, <1>3, <1>4
<1>6. RefInv(log, start, own)' BY <1>2, <1>3, <1>5, EnterRefs
<1>7. op # "dealloc" OBVIOUS
<1>8. RoleInv' /\ WalkInv(log, start)' /\ BlockInv' /\ LiveInv' /\ OrderInv(log, start)' /\ failed' = {} BY <1>2, <1>7, EnterWalk
<1>9. TypeOK' /\ ListInv(log, start)' /\ ClaimInv' /\ BatchInv(log)' /\ OwnInv(log, own)' /\ AddrInv(log)' /\ KeyInv(log)'
  BY <1>2, EnterStep
<1> QED BY <1>6, <1>8, <1>9 DEF Inv

(* mini_keyed_dec_ref keeps the invariant when it begins to wait for the   *)
(* blockers.                                                               *)
LEMMA KeyedDecInv ==
    ASSUME NEW log, NEW start, NEW own, Inv(log, start, own), NEW t \in MiniThread, NEW r \in DOMAIN held, KeyedDec(t, r)
    PROVE  Inv(log, start, own)'
<1>0. TypeOK BY DEF Inv
<1>1. r \in Rs BY <1>0 DEF TypeOK
<1>2. Enters(t, "wait_blockers", "dec", r, r)
  <2>1. refc' = refc /\ refc \in [Ext -> Int] BY <1>0 DEF KeyedDec, TypeOK
  <2>2. Within(r, r) BY <1>1, RangeBounds DEF Within
  <2> QED BY <2>1, <2>2, <1>1 DEF KeyedDec, Enters
<1>3. refc' = refc /\ keyed /\ keyed' = keyed /\ blocked' = blocked /\ life = "released" BY DEF KeyedDec
<1>4. FirstCount' = FirstCount BY <1>3 DEF FirstCount
<1>5. refc'[1] = FirstCount'
  <2>1. refc[1] = FirstCount BY <1>3, FirstExtent DEF Inv
  <2> QED BY <2>1, <1>3, <1>4
<1>6. RefInv(log, start, own)' BY <1>2, <1>3, <1>5, EnterRefs
<1>7. "dec" # "dealloc" OBVIOUS
<1>8. RoleInv' /\ WalkInv(log, start)' /\ BlockInv' /\ LiveInv' /\ OrderInv(log, start)' /\ failed' = {} BY <1>2, <1>7, EnterWalk
<1>9. TypeOK' /\ ListInv(log, start)' /\ ClaimInv' /\ BatchInv(log)' /\ OwnInv(log, own)' /\ AddrInv(log)' /\ KeyInv(log)'
  BY <1>2, EnterStep
<1> QED BY <1>6, <1>8, <1>9 DEF Inv

-----------------------------------------------------------------------------
(* UnkeyedInc, UnkeyedDec, Block, Unblock.                                 *)

\* Only the references and the count of the first extent change.
Counts ==
    /\ life # "gone"
    /\ UNCHANGED <<keyed, meta, meta_tail, next_addr, next_extent, num_extents, claim, given, life, allocs>>
    /\ mpc' \in [MiniThread -> PCs] /\ DOMAIN lv' = MiniThread /\ \A u \in MiniThread : mpc'[u] = mpc[u] /\ lv'[u] = lv[u]
    /\ refc' \in [Ext -> Int] /\ \A e \in Ext : e # 1 => refc'[e] = refc[e]
    /\ refc'[1] = FirstCount'
    /\ held' \in [Rs -> Nat] /\ blocked' \in [MiniThread -> SUBSET Rs]
    /\ \/ ~keyed /\ blocked' = blocked /\ held[Whole] > 0 /\ \A r \in Rs : r # Whole => held'[r] = held[r]
       \/ /\ keyed /\ held' = held /\ life = "released" /\ Role("release") = {}
          /\ \A u \in MiniThread : \A r \in blocked'[u] : r \in blocked[u] \/ held[r] > 0

(* Such a step keeps the invariant, but for who keeps an unkeyed allocator *)
(* alive.                                                                  *)
LEMMA CountStep ==
    ASSUME NEW log, NEW start, NEW own, Inv(log, start, own), Counts
    PROVE  /\ TypeOK' /\ RoleInv' /\ ListInv(log, start)' /\ ClaimInv' /\ BatchInv(log)' /\ OwnInv(log, own)'
           /\ AddrInv(log)' /\ KeyInv(log)' /\ WalkInv(log, start)' /\ RefInv(log, start, own)' /\ BlockInv' /\ OrderInv(log, start)'
           /\ keyed => LiveInv'
           /\ \A op : Role(op)' = Role(op)
<1> USE DEF Inv
<1>1. /\ life # "gone"
      /\ UNCHANGED <<keyed, meta, meta_tail, next_addr, next_extent, num_extents, claim, given, life, allocs>>
      /\ mpc' \in [MiniThread -> PCs] /\ DOMAIN lv' = MiniThread /\ \A u \in MiniThread : mpc'[u] = mpc[u] /\ lv'[u] = lv[u]
      /\ refc' \in [Ext -> Int] /\ \A e \in Ext : e # 1 => refc'[e] = refc[e]
      /\ refc'[1] = FirstCount'
      /\ held' \in [Rs -> Nat] /\ blocked' \in [MiniThread -> SUBSET Rs]
  BY DEF Counts
<1>2. ~keyed => blocked' = blocked /\ held[Whole] > 0 /\ \A r \in Rs : r # Whole => held'[r] = held[r] BY DEF Counts
<1>3. keyed => /\ held' = held /\ life = "released" /\ Role("release") = {}
               /\ \A u \in MiniThread : \A r \in blocked'[u] : r \in blocked[u] \/ held[r] > 0
  BY DEF Counts
<1>4. \A op : Role(op)' = Role(op) BY <1>1 DEF Role
<1>5. TypeOK'
  <2>1. \A u \in MiniThread : LocalsAt(mpc'[u], lv'[u]) BY <1>1 DEF TypeOK
  <2>2. /\ next_addr' \in [Batch -> Nat] /\ next_extent' \in [Batch -> Ext] /\ claim' \in [DOMAIN claim' -> MiniThread]
        /\ allocs' \in [MiniThread -> Nat] /\ meta' \in [DOMAIN meta' -> PageRec]
    BY <1>1 DEF TypeOK
  <2> QED BY <1>1, <2>1, <2>2 DEF TypeOK
<1>6. BatchInv(log)' /\ OwnInv(log, own)' /\ AddrInv(log)' /\ KeyInv(log)'
      /\ (\A b \in Batch : Pending(b)' <=> Pending(b))
      /\ \A u \in MiniThread : (Flying(u)' <=> Flying(u)) /\ (Flying(u) => lv'[u].addr = lv[u].addr)
  <2>1. log \in Seq(EntryRec) BY DEF ListInv
  <2>2. Elsewhere BY <1>1 DEF Elsewhere
  <2> QED BY <2>1, <2>2, <1>1, <1>5, WalkFrame
<1>7. ListInv(log, start)'
  <2>1. Walkers' = Walkers BY <1>4 DEF Walkers
  <2>2. \A u \in Walkers : u \in MiniThread BY DEF Walkers, Role
  <2>3. \A u \in Walkers' : lv'[u].page \in DOMAIN meta /\ lv'[u].i \in 1 .. Len(meta[lv'[u].page].entries) + 1
    BY <2>1, <2>2, <1>1 DEF ListInv
  <2>4. \A u \in Role("deinit") : u \in MiniThread BY DEF Role
  <2>5. \A u \in Role("deinit")' : lv'[u].page \in DOMAIN meta BY <2>4, <1>1, <1>4 DEF ListInv
  <2> QED BY <2>3, <2>5, <1>1, ListFrame
<1>8. ClaimInv'
  <2>1. \A u \in Role("dec") : u \in MiniThread BY DEF Role
  <2>2. \A u \in MiniThread : mpc'[u] \in {"append", "append_new"} => mpc[u] = mpc'[u] /\ lv'[u] = lv[u] BY <1>1
  <2>3. \A u \in Role("dec")' : mpc'[u] = "walk" => u \in Role("dec") /\ mpc[u] = "walk" /\ lv'[u].page = lv[u].page
    BY <2>1, <1>1, <1>4
  <2> QED BY <2>2, <2>3, <1>1, ClaimFrame
<1>9. RoleInv'
  <2>1. keyed' => NoneHeld' \/ life' # "open" BY <1>1, <1>3
  <2>2. keyed' => life' # "open" /\ Role("release")' = {} BY <1>1, <1>3, <1>4
  <2>3. ~keyed' => NoBlocks' /\ \A r \in Rs : r # Whole => held'[r] = 0
    <3>1. ~keyed => NoBlocks /\ \A r \in Rs : r # Whole => held[r] = 0 BY DEF RoleInv
    <3> QED BY <3>1, <1>1, <1>2 DEF NoBlocks
  <2>4. Role("dealloc")' = {}
    <3>1. keyed => Role("dealloc") = {} BY DEF RoleInv
    <3>2. ~keyed => ~NoneHeld BY <1>2 DEF NoneHeld, Rs
    <3>3. ~keyed => Role("dealloc") = {} BY <3>2 DEF RoleInv
    <3> QED BY <3>1, <3>3, <1>4
  <2>5. \A u \in Role("release") \cup Role("inc") \cup Role("prefetch") : u \in MiniThread BY DEF Role
  <2>6. \A u \in MiniThread : mpc'[u] \in WaitPCs =>
           lv'[u].op = "dec" /\ lv'[u].page = meta_head /\ lv'[u].i = 1 /\ lv'[u].cleanup /\ lv'[u].range = lv'[u].mine
    BY <1>1 DEF RoleInv
  <2>7. \A u \in Role("inc")' : Within(lv'[u].range, lv'[u].mine) BY <2>5, <1>1, <1>4 DEF RoleInv
  <2>8. \A u \in Role("prefetch")' : lv'[u].mine = Whole BY <2>5, <1>1, <1>4 DEF RoleInv
  <2>9. \A u \in Role("release")' : mpc'[u] # "release" => keyed' /\ lv'[u].batch \in Batch BY <2>5, <1>1, <1>4 DEF RoleInv
  <2>10. /\ life' = "open" => \A u \in MiniThread : lv'[u].op \in {"none", "alloc"}
         /\ life' = "released" => Role("alloc")' \cup Role("deinit")' = {}
         /\ (\A u, v \in Role("release")' : u = v) /\ (\A u, v \in Role("deinit")' : u = v)
         /\ keyed' => Role("prefetch")' = {}
         /\ ~keyed' => Role("inc")' = {} /\ Role("dec")' = {}
    <3>1. life' = "open" => \A u \in MiniThread : lv'[u].op \in {"none", "alloc"} BY <1>1 DEF RoleInv
    <3>2. (\A u, v \in Role("release")' : u = v) /\ (\A u, v \in Role("deinit")' : u = v) BY <1>4 DEF RoleInv
    <3>3. life' = "released" => Role("alloc")' \cup Role("deinit")' = {} BY <1>1, <1>4 DEF RoleInv
    <3> QED BY <1>1, <1>4, <3>1, <3>2, <3>3 DEF RoleInv
  <2>11. keyed' => /\ \A u, v \in MiniThread : allocs'[u] > 0 /\ allocs'[v] > 0 => u = v
                   /\ \A u \in Role("alloc")' : allocs'[u] > 0
    BY <1>1, <1>4 DEF RoleInv
  <2>12. life' # "gone" BY <1>1
  <2> HIDE DEF Inv
  <2> QED BY <2>2, <2>3, <2>4, <2>6, <2>7, <2>8, <2>9, <2>10, <2>11, <2>12 DEF RoleInv
<1>10. \A u \in MiniThread : Pos(start, u)' = Pos(start, u) BY <1>1 DEF Pos
<1>11. WalkInv(log, start)'
  <2> SUFFICES ASSUME NEW u \in Role("inc") \cup Role("dec")
               PROVE /\ \A k \in DOMAIN log : k > Pos(start, u)' /\ FirstOf(log, k) =>
                           lv'[u].extent[log[k].batch] = TERMINAL_EXTENT_ADDR /\ lv'[u].state[log[k].batch] = "before_start"
                     /\ \A i, k \in DOMAIN log : i <= Pos(start, u)' /\ k > Pos(start, u)' /\ Pair(log, i, k) =>
                           lv'[u].extent[log[k].batch] = log[i].extent /\ lv'[u].state[log[k].batch] = StateAt(log, lv'[u].range, i)
                     /\ \A i, j \in DOMAIN log : Top(log, i, j) /\ j <= Pos(start, u)' => lv'[u].did_work
    BY <1>4 DEF WalkInv, FirstOf, Pair, Top, StateAt, Data
  <2>1. u \in MiniThread BY DEF Role
  <2>2. lv'[u] = lv[u] /\ Pos(start, u)' = Pos(start, u) BY <2>1, <1>1, <1>10
  <2> QED BY <2>2 DEF WalkInv
<1>12. RefInv(log, start, own)'
  <2>1. own[1] = Meta BY <1>1, FirstExtent
  <2>2. \A a \in DOMAIN meta : MetaRefs(start, ExtentOf(a))' BY <1>1, LiveMeta
  <2>3. ASSUME NEW i \in DOMAIN log, Data(log, i) PROVE DataRefs(log, start, i)'
    <3>1. DataRefs(log, start, i) BY <2>3 DEF RefInv
    <3>2. refc'[log[i].extent] = refc[log[i].extent]
      <4>1. log \in Seq(EntryRec) BY DEF ListInv
      <4>2. log[i].extent \in Ext /\ own[log[i].extent][1] = "data" BY <4>1, <2>3, EntryExtents
      <4> QED BY <4>2, <2>1, <1>1 DEF Meta
    <3>3. Freed(start, i)' <=> Freed(start, i)
      <4>1. \A u \in Role("dealloc") : u \in MiniThread BY DEF Role
      <4> QED BY <4>1, <1>1, <1>4, <1>10 DEF Freed
    <3>4. Building' <=> Building BY <1>1, <1>4 DEF Building
    <3>5. keyed => Tokens(log, start, i)' = Tokens(log, start, i)
      <4>1. \A u \in MiniThread : lv'[u].op = lv[u].op BY <1>1
      <4>2. \A u \in MiniThread : lv[u].op \in {"inc", "dec"} =>
               lv'[u].mine = lv[u].mine /\ lv'[u].range = lv[u].range /\ Pos(start, u)' = Pos(start, u)
        BY <1>1, <1>10
      <4> QED BY <4>1, <4>2, <1>3, <1>5, TokensStay
    <3> QED BY <3>1, <3>2, <3>3, <3>4, <3>5, <1>1 DEF DataRefs, Counted
  <2>4. next_extent \in [Batch -> Ext] BY DEF TypeOK
  <2>5. \A e \in Ext : own[e][1] \in {"free", "adv", "fly"} => refc'[e] = refc[e] BY <1>1, <2>1 DEF Meta
  <2> QED BY <2>2, <2>3, <2>4, <2>5, <1>1, <1>6, RefFrame
<1>13. BlockInv'
  <2>1. CASE ~keyed
    <3>1. NoBlocks' BY <2>1, <1>2 DEF RoleInv, NoBlocks
    <3> QED BY <3>1 DEF BlockInv, NoBlocks
  <2>2. CASE keyed
    <3> SUFFICES ASSUME NEW u \in MiniThread, NEW x \in blocked'[u]
                 PROVE \/ held'[x] > 0
                       \/ \E v \in Role("inc")' : lv'[v].mine = x
                       \/ \E v \in MiniThread : mpc'[v] = "wait_blockers" /\ lv'[v].range = x
      BY DEF BlockInv
    <3>1. x \in blocked[u] \/ held[x] > 0 BY <2>2, <1>3
    <3>2. \A v \in Role("inc") : v \in MiniThread BY DEF Role
    <3>3. CASE held[x] > 0 BY <2>2, <3>3, <1>3
    <3>4. CASE x \in blocked[u] BY <2>2, <3>2, <3>4, <1>1, <1>3, <1>4 DEF BlockInv
    <3> QED BY <3>1, <3>3, <3>4
  <2> QED BY <2>1, <2>2
<1>14. OrderInv(log, start)'
  <2> SUFFICES ASSUME NEW u \in Role("dec")
               PROVE /\ ~lv'[u].cleanup => Behind(start, u)'
                     /\ lv'[u].cleanup /\ (\E i, j \in DOMAIN log : Top(log, i, j) /\ j <= Pos(start, u)') => ~Behind(start, u)'
    BY <1>4 DEF OrderInv, Top, Pair, FirstOf, Data
  <2>1. u \in MiniThread /\ keyed BY DecAt
  <2>2. \A v \in Role("dec") : v \in MiniThread BY DEF Role
  <2>3. Behind(start, u)' <=> Behind(start, u) BY <2>1, <2>2, <1>1, <1>3, <1>4 DEF Behind
  <2>4. lv'[u] = lv[u] /\ Pos(start, u)' = Pos(start, u) BY <2>1, <1>1, <1>10
  <2> QED BY <2>3, <2>4 DEF OrderInv
<1>15. keyed => LiveInv' BY <1>1, <1>3, <1>4 DEF LiveInv, Building, Walkers
<1> HIDE DEF Inv
<1> QED BY <1>4, <1>5, <1>6, <1>7, <1>8, <1>9, <1>11, <1>12, <1>13, <1>14, <1>15

-----------------------------------------------------------------------------

\* The count of the first extent, and what a step adds to it.
FirstPlus(d) == refc' = [refc EXCEPT ![1] = @ + d]

(* The terms of the count are numbers.                                     *)
LEMMA FirstPlusStep ==
    ASSUME NEW log, NEW start, NEW own, Inv(log, start, own), life # "gone", NEW d \in Int, FirstPlus(d)
    PROVE  /\ refc' \in [Ext -> Int] /\ (\A e \in Ext : e # 1 => refc'[e] = refc[e]) /\ refc'[1] = FirstCount + d
           /\ held[Whole] \in Nat /\ IsFiniteSet(Role("prefetch")) /\ Cardinality(Role("prefetch")) \in Nat
           /\ IsFiniteSet({u \in MiniThread : blocked[u] # {}}) /\ Cardinality({u \in MiniThread : blocked[u] # {}}) \in Nat
           /\ FirstCount \in Int /\ FirstCount >= MINI_NO_REFS
<1> USE DEF Inv
<1>1. refc \in [Ext -> Int] /\ held[Whole] \in Nat BY DEF TypeOK, Rs
<1>2. refc[1] = FirstCount /\ 1 \in Ext BY FirstExtent
<1>3. refc[1] + d \in Int BY <1>1, <1>2
<1>4. refc' = [refc EXCEPT ![1] = refc[1] + d] BY DEF FirstPlus
<1>5. refc' \in [Ext -> Int] /\ (\A e \in Ext : e # 1 => refc'[e] = refc[e]) /\ refc'[1] = FirstCount + d
  BY <1>1, <1>2, <1>3, <1>4
<1>6. IsFiniteSet(Role("prefetch")) /\ Cardinality(Role("prefetch")) \in Nat
  <2>1. Role("prefetch") \subseteq MiniThread BY DEF Role
  <2> QED BY <2>1, MiniThreadAssumption, FS_Subset, FS_CardinalityType
<1>7. IsFiniteSet({u \in MiniThread : blocked[u] # {}}) /\ Cardinality({u \in MiniThread : blocked[u] # {}}) \in Nat
  BY MiniThreadAssumption, FS_Subset, FS_CardinalityType
<1>8. FirstCount \in Int /\ FirstCount >= MINI_NO_REFS
  <2> HIDE DEF Inv
  <2> QED BY <1>1, <1>6, <1>7 DEF FirstCount, MINI_NO_REFS
<1> QED BY <1>1, <1>5, <1>6, <1>7, <1>8

(* mini_unkeyed_inc_ref keeps the invariant, and its assertion holds:      *)
(* there was a reference.                                                  *)
LEMMA UnkeyedIncInv ==
    ASSUME NEW log, NEW start, NEW own, Inv(log, start, own), NEW t \in MiniThread, UnkeyedInc(t)
    PROVE  Inv(log, start, own)'
<1>0. TypeOK /\ failed = {} BY DEF Inv
<1>1. /\ ~keyed /\ life # "gone" /\ held[Whole] > 0
      /\ FirstPlus(1)
      /\ failed' = IF refc'[1] > MINI_NO_REFS THEN failed ELSE failed \cup {"mini_unkeyed_inc_ref"}
      /\ held' = [held EXCEPT ![Whole] = @ + 1]
      /\ UNCHANGED <<keyed, meta, meta_tail, next_addr, next_extent, num_extents, claim, mpc, lv, blocked, given, life, allocs, reloads>>
  BY DEF UnkeyedInc, Check, FirstPlus
<1>2. /\ refc' \in [Ext -> Int] /\ (\A e \in Ext : e # 1 => refc'[e] = refc[e]) /\ refc'[1] = FirstCount + 1
      /\ held[Whole] \in Nat /\ Cardinality(Role("prefetch")) \in Nat
      /\ FirstCount \in Int /\ FirstCount >= MINI_NO_REFS
  <2>1. 1 \in Int OBVIOUS
  <2> QED BY <2>1, <1>1, FirstPlusStep
<1>3. Whole \in Rs BY DEF Rs
<1>4. held'[Whole] = held[Whole] + 1 /\ (\A r \in Rs : r # Whole => held'[r] = held[r]) /\ held' \in [Rs -> Nat]
  <2>1. held \in [Rs -> Nat] /\ held[Whole] + 1 \in Nat BY <1>0, <1>2 DEF TypeOK
  <2>2. held' = [held EXCEPT ![Whole] = held[Whole] + 1] BY <1>1
  <2> QED BY <2>1, <2>2, <1>3
<1>5. refc'[1] = FirstCount'
  <2>1. PICK c \in Nat : c = Cardinality(Role("prefetch")) BY <1>2
  <2>2. FirstCount = MINI_NO_REFS + (held[Whole] + c) BY <2>1, <1>1 DEF FirstCount
  <2>3. Role("prefetch")' = Role("prefetch") BY <1>1 DEF Role
  <2>4. FirstCount' = MINI_NO_REFS + (held'[Whole] + c) BY <2>1, <2>3, <1>1 DEF FirstCount
  <2> QED BY <2>1, <2>2, <2>4, <1>2, <1>4 DEF MINI_NO_REFS
<1>6. failed' = {} BY <1>0, <1>1, <1>2 DEF MINI_NO_REFS
<1>7. Counts
  <2>1. mpc' \in [MiniThread -> PCs] /\ DOMAIN lv' = MiniThread /\ blocked' \in [MiniThread -> SUBSET Rs] BY <1>0, <1>1 DEF TypeOK
  <2> QED BY <2>1, <1>1, <1>2, <1>4, <1>5 DEF Counts
<1>8. /\ TypeOK' /\ RoleInv' /\ ListInv(log, start)' /\ ClaimInv' /\ BatchInv(log)' /\ OwnInv(log, own)'
      /\ AddrInv(log)' /\ KeyInv(log)' /\ WalkInv(log, start)' /\ RefInv(log, start, own)' /\ BlockInv' /\ OrderInv(log, start)'
  BY <1>7, CountStep
<1>9. LiveInv'
  <2>1. held'[Whole] > 0 BY <1>1, <1>2, <1>4
  <2> QED BY <2>1, <1>3 DEF LiveInv
<1> QED BY <1>6, <1>8, <1>9 DEF Inv

(* mini_unkeyed_dec_ref keeps the invariant: the last one finds that there *)
(* is none left, and frees.                                                *)
LEMMA UnkeyedDecInv ==
    ASSUME NEW log, NEW start, NEW own, Inv(log, start, own), NEW t \in MiniThread, UnkeyedDec(t)
    PROVE  Inv(log, start, own)'
<1>0. TypeOK /\ failed = {} BY DEF Inv
<1>1. PICK last : last = (refc'[1] = MINI_NO_REFS) OBVIOUS
<1>2. /\ ~keyed /\ life = "released" /\ held[Whole] > 0
      /\ refc' = [refc EXCEPT ![1] = @ - 1]
      /\ held' = [held EXCEPT ![Whole] = @ - 1]
      /\ Move(t, "idle", IF last THEN "walk" ELSE "idle", IF last THEN Walker("dealloc", Whole, Whole) ELSE NoLocals)
      /\ UNCHANGED <<keyed, meta, meta_tail, next_addr, next_extent, num_extents, claim, blocked, given, life, allocs, reloads, failed>>
  BY <1>1 DEF UnkeyedDec
<1>3. FirstPlus(-1)
  <2>1. refc[1] \in Int /\ 1 \in Ext BY <1>0, <1>2, FirstExtent DEF Inv, TypeOK
  <2> QED BY <2>1, <1>2 DEF FirstPlus
<1>4. /\ refc' \in [Ext -> Int] /\ (\A e \in Ext : e # 1 => refc'[e] = refc[e]) /\ refc'[1] = FirstCount + (-1)
      /\ held[Whole] \in Nat /\ IsFiniteSet(Role("prefetch")) /\ Cardinality(Role("prefetch")) \in Nat
  <2>1. -1 \in Int OBVIOUS
  <2> QED BY <2>1, <1>2, <1>3, FirstPlusStep
<1>5. Whole \in Rs BY DEF Rs
<1>6. held'[Whole] = held[Whole] - 1 /\ (\A r \in Rs : r # Whole => held'[r] = held[r]) /\ held' \in [Rs -> Nat]
  <2>1. held \in [Rs -> Nat] /\ held[Whole] - 1 \in Nat BY <1>0, <1>2, <1>4 DEF TypeOK
  <2>2. held' = [held EXCEPT ![Whole] = held[Whole] - 1] BY <1>2
  <2> QED BY <2>1, <2>2, <1>5
<1>7. PICK c \in Nat : c = Cardinality(Role("prefetch")) BY <1>4
<1>8. refc'[1] = MINI_NO_REFS + (held'[Whole] + c)
  <2>1. FirstCount = MINI_NO_REFS + (held[Whole] + c) BY <1>2, <1>7 DEF FirstCount
  <2> QED BY <2>1, <1>4, <1>6, <1>7 DEF MINI_NO_REFS
<1>9. CASE last
  <2>1. held'[Whole] = 0 /\ c = 0
    <3>1. refc'[1] = MINI_NO_REFS BY <1>1, <1>9
    <3>2. PICK h \in Nat : h = held'[Whole] BY <1>5, <1>6
    <3>3. MINI_NO_REFS = MINI_NO_REFS + (h + c) BY <3>1, <3>2, <1>8
    <3> QED BY <3>2, <3>3, <1>7 DEF MINI_NO_REFS
  <2>2. Role("prefetch") = {} BY <2>1, <1>4, <1>7, FS_EmptySet
  <2>3. NoneHeld'
    <3>1. \A r \in Rs : r # Whole => held[r] = 0 BY <1>2 DEF Inv, RoleInv
    <3> QED BY <3>1, <2>1, <1>6 DEF NoneHeld
  <2>4. Enters(t, "walk", "dealloc", Whole, Whole)
    <3>1. Within(Whole, Whole) BY <1>5, RangeBounds DEF Within
    <3> QED BY <3>1, <1>2, <1>4, <1>5, <1>9 DEF Enters
  <2>5. /\ TypeOK' /\ ListInv(log, start)' /\ ClaimInv' /\ BatchInv(log)' /\ OwnInv(log, own)' /\ AddrInv(log)' /\ KeyInv(log)'
        /\ \A x \in {"inc", "prefetch", "dec", "dealloc"} : Role(x)' = IF x = "dealloc" THEN Role(x) \cup {t} ELSE Role(x)
    BY <2>4, EnterStep
  <2>6. RoleInv' /\ WalkInv(log, start)' /\ BlockInv' /\ LiveInv' /\ OrderInv(log, start)' /\ failed' = {}
    BY <2>2, <2>3, <2>4, EnterWalk
  <2>7. refc'[1] = FirstCount'
    <3>1. Role("prefetch")' = Role("prefetch") BY <2>5
    <3>2. FirstCount' = MINI_NO_REFS + (held'[Whole] + c) BY <3>1, <1>2, <1>7 DEF FirstCount
    <3> QED BY <3>2, <1>8
  <2>8. RefInv(log, start, own)' BY <2>4, <2>7, <1>4, EnterRefs
  <2> QED BY <2>5, <2>6, <2>8 DEF Inv
<1>10. CASE ~last
  <2>1. /\ mpc' \in [MiniThread -> PCs] /\ DOMAIN lv' = MiniThread
        /\ mpc[t] = "idle" /\ mpc'[t] = "idle" /\ lv'[t] = NoLocals
        /\ \A u \in MiniThread \ {t} : mpc'[u] = mpc[u] /\ lv'[u] = lv[u]
    <3>1. LocalsAt("idle", NoLocals) BY DEF LocalsAt
    <3>2. Move(t, "idle", "idle", NoLocals) BY <1>2, <1>10
    <3> QED BY <3>1, <3>2, <1>0, Moved
  <2>2. lv[t] = NoLocals BY <2>1, <1>0, OpOfStep
  <2>3. \A u \in MiniThread : mpc'[u] = mpc[u] /\ lv'[u] = lv[u] BY <2>1, <2>2
  <2>4. Role("prefetch")' = Role("prefetch") BY <2>3 DEF Role
  <2>5. refc'[1] = FirstCount'
    <3>1. FirstCount' = MINI_NO_REFS + (held'[Whole] + c) BY <2>4, <1>2, <1>7 DEF FirstCount
    <3> QED BY <3>1, <1>8
  <2>6. Counts
    <3>1. blocked' \in [MiniThread -> SUBSET Rs] BY <1>0, <1>2 DEF TypeOK
    <3> QED BY <3>1, <2>1, <2>3, <2>5, <1>2, <1>4, <1>6 DEF Counts
  <2>7. /\ TypeOK' /\ RoleInv' /\ ListInv(log, start)' /\ ClaimInv' /\ BatchInv(log)' /\ OwnInv(log, own)'
        /\ AddrInv(log)' /\ KeyInv(log)' /\ WalkInv(log, start)' /\ RefInv(log, start, own)' /\ BlockInv' /\ OrderInv(log, start)'
    BY <2>6, CountStep
  <2>8. LiveInv'
    <3>1. held'[Whole] > 0 \/ c # 0
      <4>1. refc'[1] # MINI_NO_REFS /\ held'[Whole] \in Nat BY <1>1, <1>5, <1>6, <1>10
      <4> QED BY <4>1, <1>7, <1>8 DEF MINI_NO_REFS
    <3>2. CASE held'[Whole] > 0 BY <3>2, <1>5 DEF LiveInv
    <3>3. CASE c # 0
      <4>1. Role("prefetch")' # {} BY <3>3, <2>4, <1>7, FS_EmptySet
      <4> QED BY <4>1 DEF LiveInv, Walkers
    <3> QED BY <3>1, <3>2, <3>3
  <2> QED BY <2>7, <2>8, <1>0, <1>2 DEF Inv
<1> QED BY <1>1, <1>9, <1>10

(* mini_block_dec_ref keeps the invariant: the iterator reads under a      *)
(* reference.                                                              *)
LEMMA BlockStepInv ==
    ASSUME NEW log, NEW start, NEW own, Inv(log, start, own), NEW t \in MiniThread, NEW r \in DOMAIN held, Block(t, r)
    PROVE  Inv(log, start, own)'
<1>0. TypeOK /\ failed = {} /\ RoleInv BY DEF Inv
<1>1. /\ keyed /\ held[r] > 0 /\ blocked[t] = {}
      /\ FirstPlus(1)
      /\ failed' = IF refc'[1] > AL_ONE_REF THEN failed ELSE failed \cup {"mini_block_dec_ref"}
      /\ blocked' = [blocked EXCEPT ![t] = {r}]
      /\ UNCHANGED <<keyed, meta, meta_tail, next_addr, next_extent, num_extents, claim, mpc, lv, held, given, life, allocs, reloads>>
  BY DEF Block, Check, FirstPlus
<1>2. r \in Rs BY <1>0 DEF TypeOK
<1>3. life = "released" /\ Role("release") = {}
  <2>1. ~NoneHeld BY <1>1, <1>2 DEF NoneHeld
  <2> QED BY <2>1, <1>0, <1>1 DEF RoleInv, TypeOK
<1>4. PICK S : S = {u \in MiniThread : blocked[u] # {}} OBVIOUS
<1>5. /\ refc' \in [Ext -> Int] /\ (\A e \in Ext : e # 1 => refc'[e] = refc[e]) /\ refc'[1] = FirstCount + 1
      /\ IsFiniteSet(S) /\ Cardinality(S) \in Nat /\ FirstCount \in Int /\ FirstCount >= MINI_NO_REFS
  <2>1. 1 \in Int OBVIOUS
  <2> QED BY <2>1, <1>1, <1>3, <1>4, FirstPlusStep
<1>6. blocked' \in [MiniThread -> SUBSET Rs] /\ blocked'[t] = {r} /\ \A u \in MiniThread : u # t => blocked'[u] = blocked[u]
  BY <1>0, <1>1, <1>2 DEF TypeOK
<1>7. refc'[1] = FirstCount'
  <2>1. {u \in MiniThread : blocked'[u] # {}} = S \cup {t} /\ t \notin S BY <1>1, <1>4, <1>6
  <2>2. Cardinality(S \cup {t}) = Cardinality(S) + 1 BY <2>1, <1>5, FS_AddElement
  <2>3. FirstCount = MINI_NO_REFS + Cardinality(S) BY <1>1, <1>4 DEF FirstCount
  <2>4. FirstCount' = MINI_NO_REFS + Cardinality(S \cup {t}) BY <2>1, <1>1 DEF FirstCount
  <2> QED BY <2>2, <2>3, <2>4, <1>5 DEF MINI_NO_REFS
<1>8. failed' = {} BY <1>0, <1>1, <1>5 DEF MINI_NO_REFS, AL_ONE_REF
<1>9. Counts
  <2>1. mpc' \in [MiniThread -> PCs] /\ DOMAIN lv' = MiniThread /\ held' \in [Rs -> Nat] BY <1>0, <1>1 DEF TypeOK
  <2>2. \A u \in MiniThread : \A x \in blocked'[u] : x \in blocked[u] \/ held[x] > 0 BY <1>1, <1>6
  <2> QED BY <2>1, <2>2, <1>1, <1>3, <1>5, <1>6, <1>7 DEF Counts
<1> QED BY <1>1, <1>8, <1>9, CountStep DEF Inv

(* mini_unblock_dec_ref keeps the invariant, and its assertion holds: the  *)
(* blocker was counted.                                                    *)
LEMMA UnblockInv ==
    ASSUME NEW log, NEW start, NEW own, Inv(log, start, own), NEW t \in MiniThread, Unblock(t)
    PROVE  Inv(log, start, own)'
<1>0. TypeOK /\ failed = {} /\ RoleInv BY DEF Inv
<1>1. /\ blocked[t] # {}
      /\ refc' = [refc EXCEPT ![1] = @ - 1]
      /\ failed' = IF refc'[1] >= AL_ONE_REF THEN failed ELSE failed \cup {"mini_unblock_dec_ref"}
      /\ blocked' = [blocked EXCEPT ![t] = {}]
      /\ UNCHANGED <<keyed, meta, meta_tail, next_addr, next_extent, num_extents, claim, mpc, lv, held, given, life, allocs, reloads>>
  BY DEF Unblock, Check
<1>2. keyed /\ life = "released" /\ Role("release") = {}
  <2>1. ~NoBlocks BY <1>1 DEF NoBlocks
  <2> QED BY <2>1, <1>0 DEF RoleInv, TypeOK
<1>3. FirstPlus(-1)
  <2>1. refc[1] \in Int /\ 1 \in Ext BY <1>0, <1>2, FirstExtent DEF Inv, TypeOK
  <2> QED BY <2>1, <1>1 DEF FirstPlus
<1>4. PICK S : S = {u \in MiniThread : blocked[u] # {}} OBVIOUS
<1>5. /\ refc' \in [Ext -> Int] /\ (\A e \in Ext : e # 1 => refc'[e] = refc[e]) /\ refc'[1] = FirstCount + (-1)
      /\ IsFiniteSet(S) /\ Cardinality(S) \in Nat
  <2>1. -1 \in Int OBVIOUS
  <2> QED BY <2>1, <1>2, <1>3, <1>4, FirstPlusStep
<1>6. blocked' \in [MiniThread -> SUBSET Rs] /\ blocked'[t] = {} /\ \A u \in MiniThread : u # t => blocked'[u] = blocked[u]
  BY <1>0, <1>1 DEF TypeOK
<1>7. refc'[1] = FirstCount' /\ refc'[1] >= AL_ONE_REF
  <2>1. {u \in MiniThread : blocked'[u] # {}} = S \ {t} /\ t \in S BY <1>1, <1>4, <1>6
  <2>2. Cardinality(S \ {t}) = Cardinality(S) - 1 /\ Cardinality(S \ {t}) \in Nat
    BY <2>1, <1>5, FS_RemoveElement, FS_CardinalityType
  <2>3. FirstCount = MINI_NO_REFS + Cardinality(S) BY <1>2, <1>4 DEF FirstCount
  <2>4. FirstCount' = MINI_NO_REFS + Cardinality(S \ {t}) BY <2>1, <1>1, <1>2 DEF FirstCount
  <2> QED BY <2>2, <2>3, <2>4, <1>5 DEF MINI_NO_REFS, AL_ONE_REF
<1>8. failed' = {} BY <1>0, <1>1, <1>7
<1>9. Counts
  <2>1. mpc' \in [MiniThread -> PCs] /\ DOMAIN lv' = MiniThread /\ held' \in [Rs -> Nat] BY <1>0, <1>1 DEF TypeOK
  <2>2. \A u \in MiniThread : \A x \in blocked'[u] : x \in blocked[u] \/ held[x] > 0 BY <1>6
  <2> QED BY <2>1, <2>2, <1>1, <1>2, <1>5, <1>6, <1>7 DEF Counts
<1> QED BY <1>1, <1>2, <1>8, <1>9, CountStep DEF Inv

-----------------------------------------------------------------------------
(* Every step keeps the invariant.                                         *)

(* A step of the rest of the system changes nothing here.                  *)
LEMMA StutterInv ==
    ASSUME NEW log, NEW start, NEW own, Inv(log, start, own), UNCHANGED miniVars
    PROVE  Inv(log, start, own)'
<1>1. /\ keyed' = keyed /\ refc' = refc /\ meta' = meta /\ meta_tail' = meta_tail /\ next_addr' = next_addr
      /\ next_extent' = next_extent /\ num_extents' = num_extents /\ claim' = claim /\ mpc' = mpc /\ lv' = lv
      /\ held' = held /\ blocked' = blocked /\ given' = given /\ life' = life /\ allocs' = allocs /\ failed' = failed
  BY DEF miniVars
<1>2. \A op : Role(op)' = Role(op) BY <1>1 DEF Role
<1>3. NoneHeld' = NoneHeld /\ NoBlocks' = NoBlocks /\ (\A t : Pos(start, t)' = Pos(start, t)) /\ Leaves' = Leaves
      /\ (\A b : Pending(b)' <=> Pending(b)) /\ (\A b : Ended(b)' <=> Ended(b)) /\ (\A t : Flying(t)' <=> Flying(t))
  BY <1>1, <1>2 DEF NoneHeld, NoBlocks, Pos, Leaves, Pending, Ended, Flying
<1>4. TypeOK' BY <1>1 DEF Inv, TypeOK
<1>5. RoleInv' BY <1>1, <1>2, <1>3 DEF Inv, RoleInv
<1>6. ListInv(log, start)' BY <1>1, <1>2 DEF Inv, ListInv, PageInv, PageOrder, Walkers
<1>7. ClaimInv' BY <1>1, <1>2 DEF Inv, ClaimInv
<1>8. BatchInv(log)' /\ OwnInv(log, own)' /\ AddrInv(log)' /\ KeyInv(log)'
  <2>1. TypeOK /\ log \in Seq(EntryRec) /\ BatchInv(log) /\ OwnInv(log, own) /\ AddrInv(log) /\ KeyInv(log) BY DEF Inv, ListInv
  <2>2. Elsewhere BY <1>1 DEF Elsewhere
  <2> QED BY <2>1, <2>2, <1>1, <1>4, WalkFrame
<1>9. WalkInv(log, start)' BY <1>1, <1>2, <1>3 DEF Inv, WalkInv, FirstOf, Pair, Top, StateAt, Data
<1>10. RefInv(log, start, own)'
  <2>1. RefInv(log, start, own) /\ OwnInv(log, own) /\ TypeOK BY DEF Inv
  <2>2. next_extent \in [Batch -> Ext] BY <2>1 DEF TypeOK
  <2>3. \A a \in DOMAIN meta : MetaRefs(start, ExtentOf(a))'
    <3>1. FirstCount' = FirstCount /\ \A e : Unreached(start, e)' <=> Unreached(start, e)
      BY <1>1, <1>2 DEF FirstCount, Unreached
    <3> QED BY <3>1, <2>1, <1>1 DEF RefInv, MetaRefs
  <2>4. ASSUME NEW i \in DOMAIN log, Data(log, i) PROVE DataRefs(log, start, i)'
    <3>1. DataRefs(log, start, i) BY <2>1, <2>4 DEF RefInv
    <3>2. (Freed(start, i)' <=> Freed(start, i)) /\ (Building' <=> Building) BY <1>1, <1>2, <1>3 DEF Freed, Building
    <3>3. Tokens(log, start, i)' = Tokens(log, start, i) BY <2>1, <1>1, <1>3, <1>4, TokensStay
    <3> QED BY <3>1, <3>2, <3>3, <1>1 DEF DataRefs, Counted
  <2> QED BY <2>1, <2>2, <2>3, <2>4, <1>1, <1>3, RefFrame
<1>11. BlockInv' BY <1>1, <1>2 DEF Inv, BlockInv
<1>12. LiveInv' BY <1>1, <1>2 DEF Inv, LiveInv, Building, Walkers
<1>13. OrderInv(log, start)'
  <2>1. \A t : Behind(start, t)' <=> Behind(start, t) BY <1>1, <1>2 DEF Behind
  <2>2. \A i, j : Top(log, i, j)' <=> Top(log, i, j) BY DEF Top, Pair, FirstOf, Data
  <2> QED BY <2>1, <2>2, <1>1, <1>2, <1>3 DEF Inv, OrderInv
<1> QED BY <1>1, <1>4, <1>5, <1>6, <1>7, <1>8, <1>9, <1>10, <1>11, <1>12, <1>13 DEF Inv

(* Every step of a thread keeps the invariant.                             *)
LEMMA StepInv ==
    ASSUME NEW log, NEW start, NEW own, Inv(log, start, own), NEW t \in MiniThread, Step(t)
    PROVE  IInv'
<1>1. CASE \E b \in Batch : LockBatch(t, b) BY <1>1, LockBatchInv DEF IInv
<1>2. CASE NextExtent(t) BY <1>2, NextExtentInv DEF IInv
<1>3. CASE ReadTail(t) BY <1>3, ReadTailInv DEF IInv
<1>4. CASE LockTail(t) BY <1>4, LockTailInv DEF IInv
<1>5. CASE AppendFits(t) BY <1>5, AppendFitsInv DEF IInv
<1>6. CASE AppendPage(t) BY <1>6, AppendPageInv DEF IInv
<1>7. CASE AppendInNew(t) BY <1>7, AppendInNewInv DEF IInv
<1>8. CASE FinishAlloc(t) BY <1>8, FinishAllocInv DEF IInv
<1>9. CASE ReleaseCall(t) BY <1>9, ReleaseCallInv DEF IInv
<1>10. CASE ReleaseBatch(t) BY <1>10, ReleaseBatchInv DEF IInv
<1>11. CASE ReleaseDone(t) BY <1>11, ReleaseDoneInv DEF IInv
<1>12. CASE DestroyUnused(t) BY <1>12, DestroyUnusedInv DEF IInv
<1>13. CASE \E op \in {"inc", "prefetch"}, r, s \in DOMAIN held : WalkCall(t, op, r, s) BY <1>13, WalkCallInv DEF IInv
<1>14. CASE UnkeyedInc(t) BY <1>14, UnkeyedIncInv DEF IInv
<1>15. CASE UnkeyedDec(t) BY <1>15, UnkeyedDecInv DEF IInv
<1>16. CASE \E r \in DOMAIN held : KeyedDec(t, r) BY <1>16, KeyedDecInv DEF IInv
<1>17. CASE \E r \in DOMAIN held : Block(t, r) BY <1>17, BlockStepInv DEF IInv
<1>18. CASE WaitForBlockers(t) BY <1>18, WaitForBlockersInv DEF IInv
<1>19. CASE ClaimPage(t) BY <1>19, ClaimPageInv DEF IInv
<1>20. CASE WalkEntry(t) BY <1>20, WalkEntryInv DEF IInv
<1>21. CASE WalkPage(t) BY <1>21, WalkPageInv DEF IInv
<1>22. CASE WalkEnd(t) BY <1>22, WalkEndInv DEF IInv
<1>23. CASE Deinit(t) BY <1>23, DeinitInv DEF IInv
<1>24. CASE Unblock(t) BY <1>24, UnblockInv DEF IInv
<1> QED BY <1>1, <1>2, <1>3, <1>4, <1>5, <1>6, <1>7, <1>8, <1>9, <1>10, <1>11, <1>12, <1>13, <1>14, <1>15, <1>16,
           <1>17, <1>18, <1>19, <1>20, <1>21, <1>22, <1>23, <1>24 DEF Step

(* The invariant holds of every state of mini_allocator.c, for all sizes   *)
(* of extents and pages, ranges and threads: the list that the meta pages  *)
(* hold, the places of the pages in it and the owners of the extents are   *)
(* there at every step.                                                    *)
THEOREM MiniInvariance == MiniSpec => []IInv
<1>1. MiniInit => IInv BY InitInv DEF IInv
<1>2. IInv /\ [MiniNext]_miniVars => IInv'
  <2> SUFFICES ASSUME IInv, [MiniNext]_miniVars PROVE IInv' OBVIOUS
  <2>1. PICK log, start, own : Inv(log, start, own) BY DEF IInv
  <2>2. CASE Reload BY <2>1, <2>2, ReloadInv DEF IInv
  <2>3. CASE \E t \in MiniThread : Step(t) BY <2>1, <2>3, StepInv
  <2>4. CASE UNCHANGED miniVars BY <2>1, <2>4, StutterInv DEF IInv
  <2> QED BY <2>2, <2>3, <2>4 DEF MiniNext
<1> QED BY <1>1, <1>2, PTL DEF MiniSpec

(* The state of the mini allocator and the local variables of each thread  *)
(* have their types; a thread is only at a step of the operation that it   *)
(* is in.                                                                  *)
THEOREM MiniTypes == MiniSpec => []TypeOK
<1>1. IInv => TypeOK BY DEF IInv, Inv
<1> QED BY <1>1, MiniInvariance, PTL

-----------------------------------------------------------------------------
(* Pages in use stay.                                                      *)

(* In a branch that is released, the walk over a range with keys of a page *)
(* counts the extent of the page: the extent before it and the one behind  *)
(* it in its batch do not both lie on the same side of the range.          *)
LEMMA CoveredHit ==
    ASSUME NEW log, NEW start, NEW own, Inv(log, start, own), keyed, life = "released", Role("release") = {},
           NEW g \in given, NEW r \in Rs, Covers(g, r),
           NEW i \in DOMAIN log, Data(log, i), log[i].extent = ExtentOf(g.addr), log[i].batch = g.batch
    PROVE  Hit(log, r, i)
<1> USE DEF Inv
<1>1. log \in Seq(EntryRec) /\ DOMAIN log \subseteq Nat /\ Role("alloc") = {} BY LogEntries DEF ListInv, RoleInv
<1>2. PICK j \in DOMAIN log : Pair(log, i, j)
  <2>1. PICK b \in Batch : b = log[i].batch BY <1>1, LogEntries
  <2>2. PICK k \in DOMAIN log : log[k].batch = b /\ ~Data(log, k) BY <2>1 DEF BatchInv, Ended
  <2>3. i # k /\ LastOf(log, k) BY <2>2 DEF BatchInv
  <2>4. i < k BY <1>1, <2>1, <2>2, <2>3 DEF LastOf
  <2>5. ~LastOf(log, i) BY <2>1, <2>2, <2>4 DEF LastOf
  <2> QED BY <2>5, <1>1, NextEntry
<1>3. i < j /\ log[i].batch = log[j].batch /\ ~FirstOf(log, j) BY <1>1, <1>2, PairFacts
<1>4. PICK gk \in Nat, r1 \in Nat, r2 \in Nat : gk = g.key /\ r1 = r[1] /\ r2 = r[2] /\ r1 <= r2
  <2>1. g.key \in Nat BY DEF TypeOK, GivenRec
  <2> QED BY <2>1, RangeBounds
<1>5. PICK ki \in Nat, kj \in Nat : ki = log[i].key /\ kj = log[j].key BY <1>1, LogEntries
<1>6. ki <= gk /\ (Data(log, j) => gk < kj) BY <1>3, <1>4, <1>5 DEF KeyInv
<1>7. ASSUME NEW k \in DOMAIN log, Data(log, k) PROVE \E h \in given : h.batch = log[k].batch /\ h.key = log[k].key
  BY <1>7, <1>1 DEF KeyInv
<1>8. ~(StateAt(log, r, i) = "before_start" /\ StateAt(log, r, j) = "before_start")
  <2> SUFFICES ASSUME StateAt(log, r, j) = "before_start" PROVE FALSE OBVIOUS
  <2>1. Data(log, j) /\ kj < r1 BY <1>3, <1>4, <1>5 DEF StateAt, StateOf
  <2>2. PICK h \in given : h.batch = g.batch /\ h.key = kj BY <2>1, <1>7, <1>3, <1>5
  <2>3. h.key > g.key => h.key > r[1] BY <2>2 DEF Covers
  <2> QED BY <2>1, <2>2, <2>3, <1>4, <1>6
<1>9. ~(StateAt(log, r, i) = "after_end" /\ StateAt(log, r, j) = "after_end")
  <2> SUFFICES ASSUME StateAt(log, r, i) = "after_end" PROVE FALSE OBVIOUS
  <2>1. ~FirstOf(log, i) /\ ki > r2 BY <1>4, <1>5 DEF StateAt, StateOf
  <2>2. \A h \in given : h.batch = g.batch => g.key <= h.key BY <2>1, <1>4, <1>6 DEF Covers
  <2>3. PICK k \in DOMAIN log : k < i /\ log[k].batch = log[i].batch BY <2>1 DEF FirstOf
  <2>4. Data(log, k)
    <3>1. ~LastOf(log, k) BY <2>3, <1>1 DEF LastOf
    <3> QED BY <3>1 DEF BatchInv
  <2>5. PICK kk \in Nat : kk = log[k].key BY <1>1, LogEntries
  <2>6. kk < ki BY <2>3, <2>5, <1>5 DEF KeyInv
  <2>7. PICK h \in given : h.batch = g.batch /\ h.key = kk BY <2>3, <2>4, <2>5, <1>7
  <2> QED BY <2>2, <2>6, <2>7, <1>4, <1>6
<1>10. StateAt(log, r, i) \in WalkStates /\ StateAt(log, r, j) \in WalkStates BY DEF StateAt, StateOf, WalkStates
<1>11. Hits(log, r, i, j) BY <1>8, <1>9, <1>10 DEF Hits, Intersects, WalkStates
<1> QED BY <1>2, <1>11 DEF Hit

(* A range in use is one of those that references are counted for; nobody  *)
(* uses an allocator that is gone, or one whose extents are going back.    *)
LEMMA RangesInUse ==
    ASSUME NEW log, NEW start, NEW own, Inv(log, start, own), NEW r \in InUse
    PROVE  /\ r \in Rs /\ life # "gone" /\ Role("dealloc") = {}
           /\ \/ held[r] > 0
              \/ \E u \in MiniThread : r \in blocked[u]
              \/ \E u \in Role("inc") \cup Role("prefetch") : r = lv[u].mine
<1> USE DEF Inv
<1>1. \/ r \in Rs /\ held[r] > 0
      \/ \E u \in MiniThread : r \in blocked[u]
      \/ \E u \in Role("inc") \cup Role("prefetch") : r = lv[u].mine
  BY DEF InUse, TypeOK, Role
<1>2. \A u \in Role("inc") \cup Role("prefetch") : u \in MiniThread /\ lv[u].op \in {"inc", "prefetch"} /\ lv[u].mine \in Rs
  <2> SUFFICES ASSUME NEW u \in Role("inc") \cup Role("prefetch")
               PROVE u \in MiniThread /\ lv[u].op \in {"inc", "prefetch"} /\ lv[u].mine \in Rs
    OBVIOUS
  <2>1. u \in MiniThread /\ lv[u].op \in {"inc", "prefetch"} BY DEF Role
  <2>2. lv[u] \in WalkRec BY <2>1, OpOfStep
  <2> QED BY <2>1, <2>2 DEF WalkRec
<1>3. r \in Rs BY <1>1, <1>2 DEF TypeOK
<1>4. held[r] \in Nat BY <1>3 DEF TypeOK
<1>5. life # "gone"
  <2> SUFFICES ASSUME life = "gone" PROVE FALSE OBVIOUS
  <2>1. NoneHeld /\ NoBlocks /\ \A u \in MiniThread : lv[u].op \in {"none", "release", "deinit"} BY DEF RoleInv
  <2> QED BY <1>1, <1>2, <2>1 DEF NoneHeld, NoBlocks
<1>6. Role("dealloc") = {}
  <2> SUFFICES ASSUME Role("dealloc") # {} PROVE FALSE OBVIOUS
  <2>1. NoneHeld /\ Role("prefetch") = {} BY DEF RoleInv
  <2>2. ~keyed BY DEF RoleInv
  <2>3. Role("inc") = {} /\ NoBlocks BY <2>2 DEF RoleInv
  <2> QED BY <1>1, <2>1, <2>3 DEF NoneHeld, NoBlocks
<1> QED BY <1>1, <1>3, <1>5, <1>6

(* The use of a range is counted at every extent that a walk over the      *)
(* range counts: a dec_ref that waits for an iterator has counted nothing. *)
LEMMA UseCounts ==
    ASSUME NEW log, NEW start, NEW own, Inv(log, start, own), keyed, NEW r \in InUse, NEW i \in DOMAIN log, Hit(log, r, i)
    PROVE  Tokens(log, start, i) # {}
<1> USE DEF Inv
<1>1. \A k \in TokenSet : Active(log, start, i, k) => k \in Tokens(log, start, i) BY DEF Tokens, TokenSet
<1>2. r \in Rs BY RangesInUse
<1>3. CASE held[r] > 0
  <2>1. 1 \in 1 .. held[r] BY <1>2, <1>3 DEF TypeOK
  <2>2. Active(log, start, i, <<"held", <<r, 1>>>>) BY <2>1, <1>2, HeldToken
  <2>3. <<"held", <<r, 1>>>> \in TokenSet BY <1>2, TokenMembers
  <2> QED BY <2>2, <2>3, <1>1
<1>4. ASSUME NEW u \in Role("inc"), r = lv[u].mine PROVE Tokens(log, start, i) # {}
  <2>1. u \in MiniThread /\ lv[u].op = "inc" BY DEF Role
  <2>2. Active(log, start, i, <<"mine", u>>) BY <2>1, <1>4, ThreadTokens
  <2>3. <<"mine", u>> \in TokenSet BY <2>1, TokenMembers
  <2> QED BY <2>2, <2>3, <1>1
<1>5. ASSUME NEW u \in MiniThread, mpc[u] = "wait_blockers", lv[u].range = r PROVE Tokens(log, start, i) # {}
  <2>1. lv[u].op = "dec" /\ mpc[u] \in WaitPCs BY <1>5 DEF RoleInv, WaitPCs
  <2>2. u \in Role("dec") BY <2>1 DEF Role
  <2>3. Pos(start, u) = 0 BY <2>1, <2>2, DecAt
  <2>4. ~Passed(log, i, Pos(start, u))
    <3>1. DOMAIN log = 1 .. Len(log) BY LogEntries DEF ListInv
    <3> QED BY <2>3, <3>1 DEF Passed
  <2>5. Active(log, start, i, <<"dec", u>>) BY <1>5, <2>1, <2>4, ThreadTokens
  <2>6. <<"dec", u>> \in TokenSet BY TokenMembers
  <2> QED BY <2>5, <2>6, <1>1
<1>6. CASE \E u \in MiniThread : r \in blocked[u]
  BY <1>6, <1>3, <1>4, <1>5 DEF BlockInv
<1>7. CASE \E u \in Role("inc") \cup Role("prefetch") : r = lv[u].mine
  <2>1. Role("prefetch") = {} BY DEF RoleInv
  <2> QED BY <2>1, <1>7, <1>4
<1> QED BY <1>3, <1>6, <1>7, RangesInUse

(* The extents of the pages in use are allocated.                          *)
LEMMA UsedPages ==
    ASSUME NEW log, NEW start, NEW own, Inv(log, start, own), NEW r \in InUse, NEW g \in given, ~keyed \/ Covers(g, r)
    PROVE  refc[ExtentOf(g.addr)] # AL_FREE
<1> USE DEF Inv
<1>1. PICK i \in DOMAIN log : Data(log, i) /\ log[i].extent = ExtentOf(g.addr) /\ log[i].batch = g.batch BY DEF AddrInv
<1>2. DataRefs(log, start, i) BY <1>1 DEF RefInv
<1>3. r \in Rs /\ life # "gone" /\ Role("dealloc") = {} BY RangesInUse
<1>4. CASE Building BY <1>1, <1>2, <1>4 DEF DataRefs, AL_ONE_REF, AL_FREE
<1>5. CASE ~Building /\ ~keyed
  <2>1. ~Freed(start, i) BY <1>3 DEF Freed
  <2> QED BY <1>1, <1>2, <1>5, <2>1 DEF DataRefs, AL_ONE_REF, AL_FREE
<1>6. CASE ~Building /\ keyed
  <2>1. life = "released" /\ Role("release") = {} BY <1>3, <1>6 DEF Building, TypeOK
  <2>2. Hit(log, r, i) BY <1>1, <1>3, <1>6, <2>1, CoveredHit
  <2>3. Tokens(log, start, i) # {} BY <2>2, <1>6, UseCounts
  <2>4. IsFiniteSet(Tokens(log, start, i)) /\ refc[log[i].extent] = Counted(Cardinality(Tokens(log, start, i)))
    BY <1>2, <1>6 DEF DataRefs
  <2>5. Cardinality(Tokens(log, start, i)) \in Nat /\ Cardinality(Tokens(log, start, i)) # 0
    BY <2>3, <2>4, FS_CardinalityType, FS_EmptySet
  <2> QED BY <1>1, <2>4, <2>5, CountApplied
<1> QED BY <1>4, <1>5, <1>6

(* So are the meta pages that threads walk over.                           *)
LEMMA WalkedPages ==
    ASSUME NEW log, NEW start, NEW own, Inv(log, start, own), NEW t \in MiniThread,
           mpc[t] \in {"walk", "claim_page", "wait_blockers"}
    PROVE  refc[ExtentOf(lv[t].page)] # AL_FREE
<1> USE DEF Inv
<1>1. t \in Walkers
  <2>1. mpc[t] \in WaitPCs => lv[t].op = "dec" BY DEF RoleInv
  <2>2. mpc[t] = "walk" => lv[t].op \in {"inc", "prefetch", "dec", "dealloc"} BY OpOfStep
  <2>3. lv[t].op \in {"inc", "prefetch", "dec", "dealloc"} BY <2>1, <2>2 DEF WaitPCs
  <2> QED BY <2>3 DEF Walkers, Role
<1>2. PICK a \in DOMAIN meta : a = lv[t].page BY <1>1, WalkerAt
<1>3. life = "released" BY <1>1, WalksAfterRelease
<1>4. MetaRefs(start, ExtentOf(a)) BY DEF RefInv
<1>5. refc[ExtentOf(a)] = IF ExtentOf(a) = 1 THEN FirstCount ELSE AL_ONE_REF BY <1>3, <1>4 DEF MetaRefs
<1>6. FirstCount # AL_FREE
  <2>1. \A S : S \in SUBSET MiniThread => Cardinality(S) \in Nat BY MiniThreadAssumption, FS_Subset, FS_CardinalityType
  <2>2. Cardinality({u \in MiniThread : blocked[u] # {}}) \in Nat /\ Cardinality(Role("prefetch")) \in Nat
    BY <2>1 DEF Role
  <2>3. held[Whole] \in Nat BY DEF TypeOK, Rs
  <2> QED BY <2>2, <2>3 DEF FirstCount, MINI_NO_REFS, AL_FREE
<1> QED BY <1>2, <1>5, <1>6 DEF AL_ONE_REF, AL_FREE

(* A page that was handed out stays allocated while a reference to a range *)
(* of its keys is held or an iterator reads that range, in every order of  *)
(* mini_keyed_inc_ref, mini_keyed_dec_ref, blocks and their unkeyed forms; *)
(* so do the meta pages a walk reads.                                      *)
THEOREM PagesStay == MiniSpec => []PagesInUseStay
<1>1. IInv => PagesInUseStay
  <2> SUFFICES ASSUME NEW log, NEW start, NEW own, Inv(log, start, own) PROVE PagesInUseStay BY DEF IInv
  <2> QED BY UsedPages, WalkedPages DEF PagesInUseStay
<1> QED BY <1>1, MiniInvariance, PTL

-----------------------------------------------------------------------------
(* The extents in use are accounted for.                                   *)

(* The meta pages record the extents of the list.                          *)
LEMMA Recorded ==
    ASSUME NEW log, NEW start, NEW own, Inv(log, start, own)
    PROVE  /\ \A e \in RecordedExtents : \E i \in DOMAIN log : Data(log, i) /\ log[i].extent = e
           /\ \A i \in DOMAIN log : Data(log, i) => log[i].extent \in RecordedExtents
           /\ RecordedExtents \subseteq Ext
<1> USE DEF Inv
<1>1. log \in Seq(EntryRec) /\ DOMAIN log = 1 .. Len(log) /\ Len(log) \in Nat BY LogEntries DEF ListInv
<1>2. \A a \in DOMAIN meta : DOMAIN meta[a].entries = 1 .. Len(meta[a].entries)
  <2> SUFFICES ASSUME NEW a \in DOMAIN meta PROVE DOMAIN meta[a].entries = 1 .. Len(meta[a].entries) OBVIOUS
  <2>1. meta[a] \in PageRec BY DEF TypeOK
  <2>2. meta[a].entries \in Seq(EntryRec) BY <2>1 DEF PageRec
  <2> QED BY <2>2
<1>3. ASSUME NEW e \in RecordedExtents PROVE \E i \in DOMAIN log : Data(log, i) /\ log[i].extent = e
  <2>1. PICK a \in DOMAIN meta : \E k \in DOMAIN meta[a].entries : meta[a].entries[k].extent = e BY DEF RecordedExtents
  <2>6. PICK k \in DOMAIN meta[a].entries : meta[a].entries[k].extent = e BY <2>1
  <2>2. e # TERMINAL_EXTENT_ADDR BY DEF RecordedExtents
  <2>3. PICK s \in Nat, n \in Nat : s = start[a] /\ n = Len(meta[a].entries) /\ s + n <= Len(log) BY PageBounds
  <2>4. k \in 1 .. n /\ meta[a].entries[k] = log[s + k] BY <2>3, <2>6, <1>2, PageBounds
  <2>5. s + k \in DOMAIN log BY <2>3, <2>4, <1>1
  <2> QED BY <2>6, <2>2, <2>4, <2>5 DEF Data
<1>4. ASSUME NEW i \in DOMAIN log, Data(log, i) PROVE log[i].extent \in RecordedExtents
  <2>1. PICK a \in DOMAIN meta : start[a] < i /\ i <= start[a] + Len(meta[a].entries) BY <1>1 DEF ListInv
  <2>2. PICK s \in Nat, n \in Nat : s = start[a] /\ n = Len(meta[a].entries) BY PageBounds
  <2>3. PICK k \in 1 .. n : s + k = i
    <3>1. i - s \in 1 .. n /\ s + (i - s) = i BY <2>1, <2>2, <1>1
    <3> QED BY <3>1
  <2>4. k \in DOMAIN meta[a].entries /\ meta[a].entries[k] = log[i] BY <2>2, <2>3, <1>2, PageBounds
  <2>5. meta[a].entries[k].extent = log[i].extent /\ log[i].extent # TERMINAL_EXTENT_ADDR BY <2>4, <1>4 DEF Data
  <2> QED BY <2>4, <2>5 DEF RecordedExtents
<1>5. RecordedExtents \subseteq Ext BY <1>1, <1>3, LogEntries
<1> QED BY <1>3, <1>4, <1>5

(* Without references and without walks nothing is counted.                *)
LEMMA NothingCounted ==
    ASSUME TypeOK, NoneHeld, NEW log, NEW start, NEW i, \A u \in MiniThread : lv[u].op \notin {"inc", "dec"}
    PROVE  Tokens(log, start, i) = {}
<1>1. ASSUME NEW k \in TokenSet PROVE ~Active(log, start, i, k)
  <2>1. CASE \E r \in Rs, m \in Nat : k = <<"held", <<r, m>>>>
    <3>1. PICK r \in Rs, m \in Nat : k = <<"held", <<r, m>>>> BY <2>1
    <3>2. held[r] = 0 BY DEF NoneHeld
    <3> QED BY <3>1, <3>2, HeldToken
  <2>2. CASE \E u \in MiniThread : k = <<"mine", u>> \/ k = <<"new", u>> \/ k = <<"dec", u>> BY <2>2, ThreadTokens
  <2> QED BY <2>1, <2>2, EveryToken
<1> QED BY <1>1 DEF Tokens

(* There are finitely many references.                                     *)
LEMMA HeldFinite ==
    ASSUME TypeOK
    PROVE  IsFiniteSet(HeldRefs) /\ NumHeld \in Nat
<1> DEFINE f == [r \in Rs |-> {r} \X (1 .. held[r])]  S == {f[r] : r \in Rs}
<1>1. IsFiniteSet(Rs)
  <2>1. IsFiniteSet({Whole}) BY FS_Singleton
  <2> QED BY <2>1, MiniKeyAssumption, FS_Union DEF Rs
<1>2. f \in Surjection(Rs, S) BY DEF Surjection
<1>3. IsFiniteSet(S) BY <1>1, <1>2, FS_Surjection
<1>4. ASSUME NEW r \in Rs PROVE IsFiniteSet(f[r])
  <2>1. held[r] \in Int BY DEF TypeOK
  <2>2. IsFiniteSet(1 .. held[r]) BY <2>1, FS_Interval
  <2>3. IsFiniteSet({r}) BY FS_Singleton
  <2> QED BY <2>2, <2>3, FS_Product
<1>5. HeldRefs = UNION S
  <2>1. DOMAIN held = Rs BY DEF TypeOK
  <2> QED BY <2>1 DEF HeldRefs
<1>6. IsFiniteSet(UNION S) BY <1>3, <1>4, FS_UNION
<1> QED BY <1>5, <1>6, FS_CardinalityType DEF NumHeld

(* Between the calls: who has an extent, and whether it is allocated.      *)
LEMMA IdleExtents ==
    ASSUME NEW log, NEW start, NEW own, Inv(log, start, own), AllIdle, NEW e \in Ext
    PROVE  /\ life = "gone" => refc[e] = AL_FREE
           /\ refc[e] # AL_FREE => \/ e \in MetaExtents \cup RecordedExtents
                                   \/ life = "open" /\ \E b \in Batch : next_extent[b] = e
           /\ life # "gone" /\ e \in MetaExtents => refc[e] # AL_FREE
           /\ e \in RecordedExtents /\ (life = "open" \/ (life = "released" /\ ~keyed)) => refc[e] # AL_FREE
           /\ life = "open" /\ (\E b \in Batch : next_extent[b] = e) => refc[e] # AL_FREE
<1> USE DEF Inv
<1>1. \A t \in MiniThread : lv[t].op = "none" /\ ~Flying(t)
  <2>1. \A t \in MiniThread : lv[t].op = "none" BY OpOfStep DEF AllIdle
  <2> QED BY <2>1 DEF Flying
<1>2. \A op : op # "none" => Role(op) = {} BY <1>1 DEF Role
<1>3. Building <=> keyed /\ life = "open" BY <1>2 DEF Building
<1>4. \A i : Freed(start, i) <=> life = "gone" BY <1>2 DEF Freed
<1>5. \A b \in Batch : Pending(b) <=> life = "open" BY <1>2 DEF Pending
<1>6. FirstCount # AL_FREE
  <2>1. \A S : S \in SUBSET MiniThread => Cardinality(S) \in Nat BY MiniThreadAssumption, FS_Subset, FS_CardinalityType
  <2>2. Cardinality({u \in MiniThread : blocked[u] # {}}) \in Nat /\ Cardinality(Role("prefetch")) \in Nat
    BY <2>1 DEF Role
  <2>3. held[Whole] \in Nat BY DEF TypeOK, Rs
  <2> QED BY <2>2, <2>3 DEF FirstCount, MINI_NO_REFS, AL_FREE
<1>7. ASSUME NEW i \in DOMAIN log, Data(log, i), log[i].extent = e
      PROVE  /\ life = "gone" => refc[e] = AL_FREE
             /\ life = "open" \/ (life = "released" /\ ~keyed) => refc[e] # AL_FREE
  <2>1. DataRefs(log, start, i) BY <1>7 DEF RefInv
  <2>2. CASE life = "gone" /\ keyed
    <3>1. NoneHeld BY <2>2 DEF RoleInv
    <3>2. Tokens(log, start, i) = {} BY <3>1, <1>1, NothingCounted
    <3>3. Cardinality({}) = 0 BY FS_EmptySet
    <3> QED BY <2>1, <2>2, <3>2, <3>3, <1>3, <1>7 DEF DataRefs, Counted
  <2>3. CASE ~(life = "gone" /\ keyed)
    BY <2>1, <2>3, <1>3, <1>4, <1>7 DEF DataRefs, AL_ONE_REF, AL_FREE
  <2> QED BY <2>2, <2>3
<1>8. ASSUME NEW a \in DOMAIN meta, ExtentOf(a) = e PROVE refc[e] = AL_FREE <=> life = "gone"
  <2>1. MetaRefs(start, e) BY <1>8 DEF RefInv
  <2>2. ~Unreached(start, e) BY <1>2 DEF Unreached
  <2> QED BY <2>1, <2>2, <1>6 DEF MetaRefs, AL_ONE_REF, AL_FREE
<1>9. ASSUME NEW b \in Batch, next_extent[b] = e, life = "open" PROVE refc[e] # AL_FREE
  BY <1>5, <1>9 DEF RefInv, AL_ONE_REF, AL_FREE
<1>10. \/ own[e] = Free
       \/ \E i \in DOMAIN log : own[e] = <<"data", i>> /\ log[i].extent = e
       \/ \E a \in DOMAIN meta : ExtentOf(a) = e
       \/ life = "open" /\ \E b \in Batch : next_extent[b] = e
  BY <1>1, <1>5 DEF OwnInv
<1>11. own[e] = Free => refc[e] = AL_FREE BY DEF RefInv
<1>12. \A i \in DOMAIN log : log[i].extent = e => Data(log, i) BY DEF Data, TERMINAL_EXTENT_ADDR, Ext
<1>13. e \in MetaExtents <=> \E a \in DOMAIN meta : ExtentOf(a) = e BY DEF MetaExtents
<1>14. e \in RecordedExtents <=> \E i \in DOMAIN log : Data(log, i) /\ log[i].extent = e BY Recorded
<1> HIDE DEF Inv
<1>15. life = "gone" => refc[e] = AL_FREE BY <1>7, <1>8, <1>10, <1>11, <1>12
<1>16. refc[e] # AL_FREE => \/ e \in MetaExtents \cup RecordedExtents
                            \/ life = "open" /\ \E b \in Batch : next_extent[b] = e
  BY <1>10, <1>11, <1>12, <1>13, <1>14
<1> QED BY <1>7, <1>8, <1>9, <1>13, <1>14, <1>15, <1>16

(* The parts of the property.                                              *)
LEMMA IdleAccount ==
    ASSUME NEW log, NEW start, NEW own, Inv(log, start, own)
    PROVE  ExtentsAreAccounted
<1>1. failed = {} BY DEF Inv
<1>2. RecordedExtents \subseteq Ext BY Recorded
<1>3. MetaExtents \subseteq Ext BY DEF Inv, OwnInv, MetaExtents
<1>4. {next_extent[b] : b \in Batch} \subseteq Ext BY DEF Inv, TypeOK
<1>5. life \in {"open", "released", "gone"} BY DEF Inv, TypeOK
<1>6. ASSUME AllIdle
      PROVE  Ext \ FreeExts = IF life = "gone" THEN {}
                              ELSE IF life = "open" THEN MetaExtents \cup RecordedExtents \cup {next_extent[b] : b \in Batch}
                              ELSE MetaExtents \cup {e \in RecordedExtents : keyed => refc[e] # AL_FREE}
  <2>1. \A e \in Ext : e \in Ext \ FreeExts <=> refc[e] # AL_FREE BY DEF FreeExts
  <2>2. CASE life = "gone" BY <1>6, <2>1, <2>2, IdleExtents
  <2>3. CASE life = "open"
    <3>1. ASSUME NEW e \in Ext
          PROVE  refc[e] # AL_FREE <=> e \in MetaExtents \cup RecordedExtents \cup {next_extent[b] : b \in Batch}
      BY <1>6, <2>3, IdleExtents
    <3> QED BY <2>1, <2>3, <3>1, <1>2, <1>3, <1>4
  <2>4. CASE life = "released"
    <3>1. ASSUME NEW e \in Ext
          PROVE  refc[e] # AL_FREE <=> e \in MetaExtents \cup {x \in RecordedExtents : keyed => refc[x] # AL_FREE}
      BY <1>6, <2>4, IdleExtents
    <3> QED BY <2>1, <2>4, <3>1, <1>2, <1>3
  <2> QED BY <2>2, <2>3, <2>4, <1>5
<1>7. ASSUME AllIdle, life = "released" PROVE NumHeld > 0
  <2>1. \A t \in MiniThread : lv[t].op = "none" BY <1>7, OpOfStep DEF Inv, AllIdle
  <2>2. ~Building /\ Walkers = {} BY <2>1, <1>7 DEF Building, Walkers, Role
  <2>3. PICK r \in Rs : held[r] > 0 BY <2>2, <1>7 DEF Inv, LiveInv
  <2>4. 1 \in 1 .. held[r] BY <2>3 DEF Inv, TypeOK
  <2>5. <<r, 1>> \in HeldRefs BY <2>4, HeldPairs DEF Inv
  <2>6. IsFiniteSet(HeldRefs) /\ NumHeld \in Nat BY HeldFinite DEF Inv
  <2>7. NumHeld # 0 BY <2>5, <2>6, FS_EmptySet DEF NumHeld
  <2> QED BY <2>6, <2>7
<1>8. ASSUME NEW g \in given PROVE ExtentOf(g.addr) \in RecordedExtents
  <2>1. PICK i \in DOMAIN log : Data(log, i) /\ log[i].extent = ExtentOf(g.addr) BY DEF Inv, AddrInv
  <2>2. log[i].extent \in RecordedExtents BY <2>1, Recorded
  <2> QED BY <2>1, <2>2
<1> QED BY <1>1, <1>6, <1>7, <1>8 DEF ExtentsAreAccounted

(* Whenever no call is in progress, mini_init, mini_alloc, mini_release,   *)
(* mini_keyed_dec_ref and mini_deinit have left exactly the extents of the *)
(* pages handed out, of the meta pages and, before the release, those in   *)
(* advance allocated, and none at all after the last reference; the        *)
(* assertions of mini_allocator.c hold and no page is handed out twice.    *)
THEOREM ExtentsAccounted == MiniSpec => []ExtentsAreAccounted
<1>1. IInv => ExtentsAreAccounted BY IdleAccount DEF IInv
<1> QED BY <1>1, MiniInvariance, PTL
=============================================================================
