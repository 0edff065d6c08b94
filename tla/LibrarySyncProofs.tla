--------------------------- MODULE LibrarySyncProofs ---------------------------
(* Theorems about LibrarySync for libraries, pages, overlaps and bounds of any    *)
(* size: type correctness, and what the watermark, the cursor, the history and    *)
(* the full scans promise about what is stored.                                   *)
EXTENDS LibrarySync, FiniteSetTheorems, WellFoundedInduction, TLAPS

-------------------------------------------------------------------------------
(* Positions and pages of a listing.                                             *)

\* A set of natural numbers that is not empty has a least element.
LEMMA Least ==
  ASSUME NEW S \in SUBSET Nat, S # {}
  PROVE  \E x \in S : \A y \in S : x <= y
<1>1. PICK x \in S : \A y \in S : ~(<<y, x>> \in OpToRel(<, Nat))
  BY WFMin, NatLessThanWellFounded, Zenon
<1>2. \A y \in S : ~(y < x)
  BY <1>1, Zenon DEF OpToRel
<1> QED
  BY <1>2

\* One that is bounded has a greatest element.
LEMMA Greatest ==
  ASSUME NEW n \in Nat, NEW S \in SUBSET (1 .. n), S # {}
  PROVE  \E x \in S : \A y \in S : y <= x
<1> DEFINE Bounds == {k \in Nat : \A y \in S : y <= k}
<1>1. n \in Bounds
  OBVIOUS
<1>2. PICK k \in Bounds : \A m \in Bounds : k <= m
  <2>1. Bounds \in SUBSET Nat /\ Bounds # {}
    BY <1>1
  <2> HIDE DEF Bounds
  <2> QED
    BY <2>1, Least
<1>3. k \in S
  <2>1. SUFFICES ASSUME k \notin S PROVE FALSE
    OBVIOUS
  <2>2. \A y \in S : y \in Nat /\ y < k
    BY <1>2, <2>1
  <2>3. k > 0
    <3>1. PICK y \in S : TRUE
      OBVIOUS
    <3> QED
      BY <1>2, <2>2, <3>1
  <2>4. k - 1 \in Bounds
    BY <1>2, <2>2, <2>3
  <2> QED
    BY <1>2, <2>3, <2>4
<1> QED
  BY <1>2, <1>3

\* The position of an element, in a listing that may grow.
LEMMA PositionFacts ==
  ASSUME NEW n \in Nat, NEW L \in SUBSET (1 .. n), NEW x \in Nat
  PROVE  /\ IsFiniteSet(L)
         /\ Position(x, L) \in Nat
         /\ x \in L => Position(x, L) > 0
         /\ \A K \in SUBSET L : Position(x, K) <= Position(x, L)
<1>1. IsFiniteSet(L)
  <2>1. IsFiniteSet(1 .. n)
    BY FS_Interval
  <2> QED
    BY <2>1, FS_Subset
<1> DEFINE upto(K) == {y \in K : y <= x}
<1>2. IsFiniteSet(upto(L)) /\ Cardinality(upto(L)) \in Nat
  BY <1>1, FS_Subset, FS_CardinalityType
<1>3. ASSUME x \in L PROVE Cardinality(upto(L)) > 0
  <2>1. upto(L) # {}
    BY <1>3
  <2> QED
    BY <1>2, <2>1, FS_EmptySet
<1>4. ASSUME NEW K \in SUBSET L PROVE Cardinality(upto(K)) <= Cardinality(upto(L))
  <2>1. upto(K) \in SUBSET upto(L)
    OBVIOUS
  <2> QED
    BY <1>2, <2>1, FS_Subset
<1> QED
  BY <1>1, <1>2, <1>3, <1>4 DEF Position

\* The elements of a listing up to a position.
Upto(L, k) == {y \in L : Position(y, L) <= k}

\* There are as many as the position says, and fewer only at the end of the listing.
LEMMA UptoCount ==
  ASSUME NEW n \in Nat, NEW L \in SUBSET (1 .. n), NEW k \in Nat
  PROVE  /\ IsFiniteSet(Upto(L, k)) /\ Cardinality(Upto(L, k)) \in Nat
         /\ Cardinality(Upto(L, k)) <= k
         /\ (\E x \in L : Position(x, L) > k) => Cardinality(Upto(L, k)) = k
<1>1. IsFiniteSet(L) /\ Upto(L, k) \in SUBSET L
  BY PositionFacts DEF Upto
<1>2. IsFiniteSet(Upto(L, k)) /\ Cardinality(Upto(L, k)) \in Nat
  BY <1>1, FS_Subset, FS_CardinalityType
<1>3. \A x \in L : x \in Nat /\ Position(x, L) \in Nat
  <2>1. \A x \in L : x \in Nat
    OBVIOUS
  <2> QED
    BY <2>1, PositionFacts
<1>4. Cardinality(Upto(L, k)) <= k
  <2>1. CASE Upto(L, k) = {}
    BY <2>1, FS_EmptySet
  <2>2. CASE Upto(L, k) # {}
    <3>1. PICK z \in Upto(L, k) : \A y \in Upto(L, k) : y <= z
      BY <1>1, <2>2, Greatest
    <3> DEFINE B == {y \in L : y <= z}
    <3>2. Upto(L, k) \in SUBSET B /\ IsFiniteSet(B)
      BY <1>1, <3>1, FS_Subset
    <3>3. Cardinality(Upto(L, k)) <= Cardinality(B)
      BY <3>2, FS_Subset
    <3>4. Cardinality(B) = Position(z, L) /\ Position(z, L) <= k /\ z \in L
      BY <3>1 DEF Position, Upto
    <3> HIDE DEF B
    <3> QED
      BY <1>2, <1>3, <3>3, <3>4
  <2> QED
    BY <2>1, <2>2
<1>5. ASSUME \E x \in L : Position(x, L) > k PROVE Cardinality(Upto(L, k)) >= k
  <2> DEFINE S == {y \in L : Position(y, L) > k}
  <2>1. S \in SUBSET Nat /\ S # {}
    BY <1>3, <1>5
  <2>2. PICK x \in S : \A y \in S : x <= y
    <3> HIDE DEF S
    <3> QED
      BY <2>1, Least
  <2> DEFINE B == {y \in L : y <= x}
  <2>3. IsFiniteSet(B) /\ x \in B /\ Cardinality(B) = Position(x, L)
    BY <1>1, <1>3, FS_Subset DEF Position
  <2>4. IsFiniteSet(B \ {x}) /\ Cardinality(B \ {x}) = Position(x, L) - 1
    <3> HIDE DEF B
    <3> QED
      BY <2>3, FS_RemoveElement
  <2>5. B \ {x} \in SUBSET Upto(L, k)
    <3>1. ASSUME NEW y \in L, y <= x, y # x PROVE Position(y, L) <= k
      <4>1. y \notin S
        BY <1>3, <2>1, <2>2, <3>1
      <4> QED
        BY <1>3, <4>1
    <3> QED
      BY <3>1 DEF Upto
  <2>6. Cardinality(B \ {x}) <= Cardinality(Upto(L, k))
    BY <1>2, <2>5, FS_Subset
  <2>7. Position(x, L) \in Nat /\ Position(x, L) > k
    BY <1>3
  <2> HIDE DEF B, S
  <2> QED
    BY <1>2, <2>4, <2>6, <2>7
<1> QED
  BY <1>2, <1>4, <1>5

\* A page is full unless the listing ends on it: only then has it less than PageSize.
LEMMA FullPage ==
  ASSUME NEW n \in Nat, NEW L \in SUBSET (1 .. n), NEW start \in Nat,
         NEW x \in L, Position(x, L) > start + PageSize
  PROVE  Cardinality(PageOf(L, start)) = PageSize
<1>1. PageSize \in Nat /\ start + PageSize \in Nat
  BY LibraryAssumption
<1>2. \A y \in L : Position(y, L) \in Nat
  <2>1. \A y \in L : y \in Nat
    OBVIOUS
  <2> QED
    BY <2>1, PositionFacts
<1> DEFINE A == Upto(L, start)
           B == Upto(L, start + PageSize)
<1>3. PageOf(L, start) = B \ A /\ A \subseteq B
  <2>1. ASSUME NEW y \in L
        PROVE  /\ start < Position(y, L) <=> ~(Position(y, L) <= start)
               /\ Position(y, L) <= start => Position(y, L) <= start + PageSize
    BY <1>1, <1>2
  <2> QED
    BY <2>1 DEF PageOf, Upto
<1>4. IsFiniteSet(B) /\ Cardinality(B) = start + PageSize
  BY <1>1, UptoCount
<1>5. Cardinality(A) = start
  <2>1. Position(x, L) > start
    BY <1>1, <1>2
  <2> QED
    BY <2>1, UptoCount
<1>6. B \cap A = A
  BY <1>3
<1> HIDE DEF A, B
<1>7. Cardinality(B \ A) = Cardinality(B) - Cardinality(B \cap A)
  BY <1>4, FS_Difference
<1> QED
  BY <1>1, <1>3, <1>4, <1>5, <1>6, <1>7

\* A page holds what lies in its window, no more of it than the listing.
LEMMA PageWindow ==
  ASSUME NEW n \in Nat, NEW L \in SUBSET (1 .. n), NEW start \in Nat
  PROVE  /\ PageOf(L, start) \subseteq L
         /\ \A x \in L : Position(x, L) > start /\ x \notin PageOf(L, start)
                           => Position(x, L) > start + PageSize /\ Cardinality(PageOf(L, start)) = PageSize
<1>1. \A y \in L : Position(y, L) \in Nat
  <2>1. \A y \in L : y \in Nat
    OBVIOUS
  <2> QED
    BY <2>1, PositionFacts
<1>2. PageSize \in Nat
  BY LibraryAssumption
<1>3. \A x \in L : Position(x, L) > start /\ x \notin PageOf(L, start) => Position(x, L) > start + PageSize
  BY <1>1, <1>2 DEF PageOf
<1> QED
  BY <1>3, FullPage DEF PageOf

-------------------------------------------------------------------------------
(* The inductive invariant.                                                      *)

Active == run.pc # "idle"

\* Nothing is later than now: changes, plays, watermarks, scans.
TimeInv ==
  /\ Overlap < clock
  /\ \A i \in Items : server[i].at <= clock /\ (server[i].here => server[i].at > Never)
  /\ \A t \in Time : plays[t] # 0 => t <= clock /\ (server[plays[t]].here \/ plays[t] \in gone)
  /\ cp.wm < clock
  /\ cp.full # Never => cp.full + Overlap <= clock
  /\ cp.stage = "none" => cp.start = 0
  /\ cp.stage = "media" => cp.start > 0
  /\ cp.stage # "none" => writer.since < clock /\ writer.scan <= clock

\* What a run remembers of its beginning, and how it disturbs the checkpoint.
RunInv ==
  Active =>
    /\ Overlap < run.scan /\ run.scan <= clock
    /\ run.wm = cp.wm /\ run.wm < run.scan
    /\ run.since = IF run.periodic THEN Never ELSE run.wm
    /\ cp.full # Never => cp.full + Overlap <= run.scan
    /\ run.full => run.periodic
    /\ run.periodic /\ ~run.dirty => run.full
    /\ run.dirty => ~clean.catalog
    /\ run.pc = "mark" => /\ run.full /\ run.start = 0
                          /\ writer.scan = run.scan /\ (run.dirty => writer.dirty)

\* What a run saw was there, and the page in hand is what the server had.
SeenInv ==
  /\ Active => \A i \in run.seen : server[i].here \/ server[i].at >= run.scan
  /\ run.pc = "save" => \A i \in DOMAIN run.page :
        /\ i \in run.seen /\ run.page[i] > Never
        /\ (run.page[i] = server[i].at /\ server[i].here) \/ server[i].at >= run.scan
  /\ run.pc = "store" => \A t \in DOMAIN run.page : run.page[t] = plays[t]
  /\ run.pc \in {"history", "store", "complete"} /\ run.full =>
        \A i \in Items : ~server[i].here /\ server[i].at < run.scan => ~ref[i].available

\* The listing from a position that the scan has not read yet.
Ahead(i) ==
  \/ run.pc = "media" /\ Position(i, Listed(run.since)) > run.start
  \/ run.pc = "save" /\ run.more /\ Position(i, Listed(run.since)) > run.start + PageSize
InHand(i) == run.pc = "save" /\ i \in DOMAIN run.page

\* A run that nothing disturbed has stored what it has read, as it is.
ReadInv ==
  Active /\ ~run.dirty =>
    \A i \in Listed(run.since) : server[i].at < run.scan /\ ~Ahead(i) =>
        i \in run.seen /\ (Current(i) \/ InHand(i))

\* Items played before the scan are known before their plays are stored.
KnownInv ==
  /\ clean.history => clean.catalog
  /\ Active /\ clean.history =>
       \A t \in Time : plays[t] # 0 /\ plays[t] \notin gone /\ t < run.scan =>
          \/ ref[plays[t]].version # Never
          \/ plays[t] \in Listed(run.since) /\ Ahead(plays[t])
          \/ InHand(plays[t])

\* The plays before the scan that the history has read are stored.
Due(t) ==
  \/ run.pc = "history" /\ Position(t, Played(run.wm)) > run.start
  \/ run.pc = "store" /\ (t \in DOMAIN run.page \/ (run.more /\ Position(t, Played(run.wm)) > run.start + PageSize))
PlaysInv ==
  clean.history /\ run.pc \in {"history", "store", "complete"} =>
    \A t \in Played(run.wm) : plays[t] \notin gone /\ t < run.scan => t \in events \/ Due(t)

Inv == /\ TypeOK /\ TimeInv /\ RunInv /\ SeenInv /\ ReadInv /\ KnownInv /\ PlaysInv
       /\ WatermarkCovers /\ CursorCovers /\ HistoryCovers /\ RemovedRetire

-------------------------------------------------------------------------------
(* Types.                                                                        *)

RunRec(p) ==
  [pc : {"idle", "media", "save", "mark", "history", "store", "complete"},
   start : Nat, scan : AnyTime, since : AnyTime, wm : AnyTime,
   periodic : BOOLEAN, full : BOOLEAN, seen : SUBSET Items,
   page : {p}, last : SUBSET (Items \cup Time), more : BOOLEAN, dirty : BOOLEAN]
PageType(r) ==
  /\ r.pc = "save" => r.page \in [DOMAIN r.page -> Time] /\ DOMAIN r.page \subseteq Items
  /\ r.pc = "store" => r.page \in [DOMAIN r.page -> Items] /\ DOMAIN r.page \subseteq Time

\* The types of the run in progress, which the page it holds depends on.
LEMMA RunType ==
  TypeOK <=> /\ clock \in Time
             /\ server \in [Items -> [here : BOOLEAN, at : AnyTime]]
             /\ gone \subseteq Items
             /\ plays \in [Time -> {0} \cup Items]
             /\ ref \in [Items -> [version : AnyTime, available : BOOLEAN]]
             /\ events \subseteq Time
             /\ cp \in [stage : {"none", "media", "history"}, start : Nat, wm : AnyTime, full : AnyTime]
             /\ run \in RunRec(run.page) /\ PageType(run)
             /\ clean \in [catalog : BOOLEAN, history : BOOLEAN]
             /\ writer \in [scan : AnyTime, since : AnyTime, dirty : BOOLEAN]
             /\ edits \in 0..MaxEdits /\ removals \in 0..MaxRemovals
             /\ ends \in 0..MaxEnds /\ faults \in 0..MaxFaults
  BY DEF TypeOK, RunRec, PageType

\* Nothing is in progress.
LEMMA IdleType ==
  /\ Idle \in RunRec(Idle.page) /\ PageType(Idle)
  /\ Idle.pc = "idle" /\ Idle.page = <<>> /\ Idle.seen = {} /\ ~Idle.dirty /\ Idle.start = 0
  /\ NoCheckpoint.stage = "none" /\ NoCheckpoint.start = 0
  /\ NoCheckpoint.wm = Never /\ NoCheckpoint.full = Never
<1>1. 0 \in AnyTime
  BY LibraryAssumption DEF AnyTime
<1> QED
  BY <1>1 DEF Idle, RunRec, PageType, Never, NoCheckpoint

\* The times of the model are natural numbers.
LEMMA TimeNat ==
  /\ MaxTime \in Nat /\ Overlap \in Nat /\ Overlap > 0 /\ Overlap < MaxTime
  /\ PageSize \in Nat /\ PageSize > 0 /\ NumItems \in Nat
  /\ Time \subseteq Nat /\ AnyTime \subseteq Nat /\ Time \subseteq AnyTime /\ Items \subseteq Nat
  /\ Never \in AnyTime /\ Never = 0 /\ Never \notin Time
  /\ \A t \in AnyTime : t # Never => t \in Time
  BY LibraryAssumption DEF Time, AnyTime, Items, Never

\* What fails is counted.
LEMMA FaultsType ==
  ASSUME TypeOK, NEW bad, Faults(bad), IsFiniteSet(bad)
  PROVE  /\ faults' \in 0..MaxFaults
         /\ clean' \in [catalog : BOOLEAN, history : BOOLEAN]
         /\ clean' = clean \/ clean' = Disturbed
         /\ bad # {} => clean' = Disturbed
<1>1. Cardinality(bad) \in Nat
  BY FS_CardinalityType
<1>2. faults' \in 0..MaxFaults
  BY <1>1, LibraryAssumption DEF Faults, TypeOK
<1> QED
  BY <1>2 DEF Faults, TypeOK, Disturbed

\* The server and its users, and a run that begins, completes or ends early.
LEMMA OutsideType ==
  ASSUME TypeOK,
         \/ Tick \/ Begin \/ Complete \/ EndEarly \/ MarkMissing
         \/ \E i \in Items : Edit(i) \/ Remove(i) \/ Play(i),
         Complete => Overlap <= run.scan
  PROVE  TypeOK'
<1> USE TimeNat DEF outside
<1>t. run \in RunRec(run.page) /\ PageType(run)
  BY RunType
<1>1. ASSUME Tick PROVE TypeOK'
  <2>1. clock' \in Time
    <3>1. clock \in 1 .. MaxTime /\ clock' = clock + 1 /\ clock < MaxTime /\ MaxTime \in Nat
      BY <1>1 DEF Tick, TypeOK, Time
    <3> QED
      BY <3>1 DEF Time
  <2> QED
    BY <1>1, <2>1 DEF Tick, TypeOK
<1>2. ASSUME NEW i \in Items, Edit(i) PROVE TypeOK'
  <2>1. edits' \in 0..MaxEdits
    BY <1>2, LibraryAssumption DEF Edit, TypeOK
  <2>2. server' \in [Items -> [here : BOOLEAN, at : AnyTime]]
    BY <1>2 DEF Edit, TypeOK
  <2> QED
    BY <1>2, <2>1, <2>2 DEF Edit, TypeOK
<1>3. ASSUME NEW i \in Items, Remove(i) PROVE TypeOK'
  <2>1. removals' \in 0..MaxRemovals
    BY <1>3, LibraryAssumption DEF Remove, TypeOK
  <2>2. server' \in [Items -> [here : BOOLEAN, at : AnyTime]] /\ gone' \subseteq Items
    BY <1>3 DEF Remove, TypeOK
  <2> DEFINE dirty == run.dirty \/ run.pc \in {"media", "save"}
  <2>3. run' = [run EXCEPT !.dirty = dirty] /\ dirty \in BOOLEAN
    BY <1>3, <1>t DEF Remove, RunRec
  <2>4. run' \in RunRec(run.page) /\ run'.page = run.page /\ run'.pc = run.pc
    <3> HIDE DEF dirty
    <3> QED
      BY <1>t, <2>3 DEF RunRec
  <2>5. PageType(run')
    BY <1>t, <2>4 DEF PageType
  <2>6. clean' \in [catalog : BOOLEAN, history : BOOLEAN]
    BY <1>3 DEF Remove, TypeOK, Disturbed
  <2>7. writer' \in [scan : AnyTime, since : AnyTime, dirty : BOOLEAN]
    BY <1>3 DEF Remove, TypeOK
  <2>8. UNCHANGED <<clock, plays, ref, events, cp, edits, ends, faults>>
    BY <1>3 DEF Remove
  <2> QED
    BY <2>1, <2>2, <2>4, <2>5, <2>6, <2>7, <2>8 DEF TypeOK, RunRec, PageType
<1>4. ASSUME NEW i \in Items, Play(i) PROVE TypeOK'
  <2>1. plays' \in [Time -> {0} \cup Items]
    BY <1>4 DEF Play, TypeOK
  <2> QED
    BY <1>4, <2>1 DEF Play, TypeOK
<1>5. ASSUME Begin PROVE TypeOK'
  <2> DEFINE stage == IF cp.stage = "history" THEN "history" ELSE "media"
             since == IF Periodic THEN Never ELSE cp.wm
             full == Periodic /\ stage = "media" /\ cp.start = 0
             periodic == Periodic
             resumed == cp.stage # "none"
  <2>1. run' = [Idle EXCEPT !.pc = stage, !.start = cp.start, !.scan = clock, !.since = since, !.wm = cp.wm,
                            !.periodic = periodic, !.full = full, !.dirty = resumed]
    BY <1>5 DEF Begin
  <2>2. /\ stage \in {"history", "media"} /\ cp.start \in Nat /\ clock \in AnyTime /\ since \in AnyTime
        /\ cp.wm \in AnyTime /\ periodic \in BOOLEAN /\ full \in BOOLEAN /\ resumed \in BOOLEAN
    BY DEF TypeOK, Periodic
  <2> HIDE DEF stage, since, full, periodic, resumed
  <2>3. run' \in RunRec(Idle.page) /\ run'.page = Idle.page /\ run'.pc = stage
    BY <2>1, <2>2, IdleType DEF RunRec
  <2>4. PageType(run')
    BY <2>2, <2>3 DEF PageType
  <2>5. clean' \in [catalog : BOOLEAN, history : BOOLEAN]
    BY <1>5 DEF Begin, TypeOK, Disturbed
  <2>6. UNCHANGED <<outside, ref, events, cp, writer, ends, faults>>
    BY <1>5 DEF Begin
  <2> QED
    BY <2>3, <2>4, <2>5, <2>6 DEF TypeOK, RunRec, PageType
<1>6. ASSUME Complete, Overlap <= run.scan PROVE TypeOK'
  <2>1. Watermark \in AnyTime
    BY <1>t, <1>6 DEF Watermark, RunRec, AnyTime
  <2>2. cp' \in [stage : {"none", "media", "history"}, start : Nat, wm : AnyTime, full : AnyTime]
    BY <1>6, <2>1 DEF Complete, TypeOK
  <2>3. clean' \in [catalog : BOOLEAN, history : BOOLEAN]
    BY <1>6 DEF Complete, TypeOK
  <2> QED
    BY <1>6, <2>2, <2>3, IdleType DEF Complete, TypeOK, RunRec, PageType
<1>7. ASSUME EndEarly PROVE TypeOK'
  <2>1. ends' \in 0..MaxEnds
    BY <1>7, LibraryAssumption DEF EndEarly, TypeOK
  <2> QED
    BY <1>7, <2>1, IdleType DEF EndEarly, TypeOK, RunRec, PageType
<1>8. ASSUME MarkMissing PROVE TypeOK'
  <2>1. run' = [run EXCEPT !.pc = "history"]
    BY <1>8 DEF MarkMissing
  <2>2. run' \in RunRec(run.page) /\ run'.page = run.page /\ run'.pc = "history"
    BY <1>t, <2>1 DEF RunRec
  <2>3. PageType(run')
    BY <2>2 DEF PageType
  <2>4. ref' \in [Items -> [version : AnyTime, available : BOOLEAN]]
    <3>1. \A i \in Items : [ref[i] EXCEPT !.available = FALSE] \in [version : AnyTime, available : BOOLEAN]
      <4>1. \A i \in Items : ref[i] \in [version : AnyTime, available : BOOLEAN]
        BY DEF TypeOK
      <4> QED
        BY <4>1
    <3>2. ref' = [i \in Items |-> IF i \in Missing THEN [ref[i] EXCEPT !.available = FALSE] ELSE ref[i]]
      BY <1>8 DEF MarkMissing
    <3> QED
      BY <3>1, <3>2 DEF TypeOK
  <2>5. UNCHANGED <<outside, events, cp, clean, writer, ends, faults>>
    BY <1>8 DEF MarkMissing
  <2> QED
    BY <2>2, <2>3, <2>4, <2>5 DEF TypeOK, RunRec, PageType
<1> QED
  BY <1>1, <1>2, <1>3, <1>4, <1>5, <1>6, <1>7, <1>8

\* The fields of a run that its steps leave alone.
SameScan ==
  /\ run'.scan = run.scan /\ run'.since = run.since /\ run'.wm = run.wm
  /\ run'.periodic = run.periodic /\ run'.full = run.full

\* The listings are sets of numbers up to a bound.
LEMMA ListingsBounded ==
  ASSUME TypeOK, NEW since
  PROVE  /\ Listed(since) \in SUBSET (1 .. NumItems) /\ Listed(since) \subseteq Items
         /\ Played(since) \in SUBSET (1 .. MaxTime) /\ Played(since) \subseteq Time
         /\ \A S \in SUBSET Items : IsFiniteSet(S)
         /\ \A S \in SUBSET Time : IsFiniteSet(S)
<1>1. IsFiniteSet(1 .. NumItems) /\ IsFiniteSet(1 .. MaxTime)
  BY TimeNat, FS_Interval
<1>2. (\A S \in SUBSET (1 .. NumItems) : IsFiniteSet(S)) /\ (\A S \in SUBSET (1 .. MaxTime) : IsFiniteSet(S))
  BY <1>1, FS_Subset
<1> QED
  BY <1>2 DEF Listed, Played, Items, Time

\* A page of items: what it holds, what it leaves out and what it remembers.
LEMMA MediaFetched ==
  ASSUME TypeOK, FetchMedia
  PROVE  LET page == PageOf(Listed(run.since), run.start)
         IN  /\ run.pc = "media" /\ UNCHANGED <<outside, ref, events, cp, writer, ends>>
             /\ \E bad \in SUBSET page :
                  /\ Faults(bad) /\ IsFiniteSet(bad)
                  /\ \/ run' = Idle
                     \/ /\ run' \in RunRec(run'.page) /\ PageType(run') /\ SameScan
                        /\ run'.pc = "save" /\ run'.start = run.start
                        /\ run'.more = (Cardinality(page) = PageSize)
                        /\ run'.dirty = (run.dirty \/ bad # {})
                        /\ run'.seen = run.seen \cup (page \ bad)
                        /\ DOMAIN run'.page = page \ bad
                        /\ \A x \in page \ bad : run'.page[x] = server[x].at
<1> USE TimeNat
<1> DEFINE page == PageOf(Listed(run.since), run.start)
           more == Cardinality(page) = PageSize
           what == [i \in Items |-> server[i].at]
<1>t. run \in RunRec(run.page) /\ PageType(run)
  BY RunType
<1>1. PICK bad \in SUBSET page : Faults(bad) /\ Fetched("save", page \ bad, bad, more, what)
  BY DEF FetchMedia
<1>2. page \subseteq Listed(run.since) /\ page \subseteq Items /\ IsFiniteSet(bad)
  <2>1. page \subseteq Listed(run.since)
    BY DEF PageOf
  <2> HIDE DEF page
  <2> QED
    BY <2>1, ListingsBounded
<1> DEFINE entries == page \ bad
           f == [x \in entries |-> what[x]]
           dirty == run.dirty \/ bad # {}
<1>3. run' = Idle \/ run' = [run EXCEPT !.pc = "save", !.page = f, !.last = entries, !.more = more,
                                        !.dirty = dirty, !.seen = run.seen \cup entries]
  BY <1>1 DEF Fetched
<1>4. \A x \in entries : x \in Items /\ f[x] = server[x].at /\ server[x].at \in Time
  <2>1. \A x \in Listed(run.since) : server[x].at > run.since /\ server[x].at \in AnyTime /\ run.since \in AnyTime
    BY <1>t DEF Listed, TypeOK, RunRec
  <2>2. \A x \in entries : x \in Listed(run.since) /\ x \in Items
    BY <1>2
  <2> HIDE DEF page, entries, more
  <2>3. \A x \in Listed(run.since) : server[x].at # Never
    BY <2>1 DEF AnyTime
  <2>4. \A x \in entries : server[x].at \in Time
    BY <2>1, <2>2, <2>3
  <2> QED
    BY <2>2, <2>4
<1>5. entries \subseteq Items /\ more \in BOOLEAN /\ dirty \in BOOLEAN /\ run.seen \cup entries \in SUBSET Items
  BY <1>2, <1>t DEF RunRec
<1>6. f \in [entries -> Time] /\ DOMAIN f = entries
  <2> HIDE DEF page, entries, more
  <2> QED
    BY <1>4
<1> HIDE DEF entries, f, dirty, more, page
<1>7. ASSUME run' # Idle
      PROVE  /\ run' \in RunRec(f) /\ run'.page = f /\ run'.pc = "save" /\ run'.start = run.start
             /\ run'.more = more /\ run'.dirty = dirty /\ run'.seen = run.seen \cup entries /\ SameScan
  <2> HIDE TimeNat
  <2>1. /\ run \in RunRec(run.page)
        /\ run' = [run EXCEPT !.pc = "save", !.page = f, !.last = entries, !.more = more,
                              !.dirty = dirty, !.seen = run.seen \cup entries]
    BY <1>t, <1>3, <1>7
  <2>2. /\ run'.page = f /\ run'.pc = "save" /\ run'.start = run.start
        /\ run'.more = more /\ run'.dirty = dirty /\ run'.seen = run.seen \cup entries /\ SameScan
    BY <2>1 DEF RunRec, SameScan
  <2>3. run' \in RunRec(f)
    BY <1>5, <2>1 DEF RunRec
  <2> QED
    BY <2>2, <2>3
<1>8. ASSUME run' # Idle PROVE PageType(run')
  BY <1>5, <1>6, <1>7, <1>8 DEF PageType
<1>9. run.pc = "media" /\ UNCHANGED <<outside, ref, events, cp, writer, ends>>
  BY DEF FetchMedia
<1>10. ASSUME run' # Idle PROVE \A x \in page \ bad : run'.page[x] = server[x].at
  BY <1>4, <1>7, <1>10 DEF entries
<1>11. \/ run' = Idle
       \/ /\ run' \in RunRec(run'.page) /\ PageType(run') /\ SameScan
          /\ run'.pc = "save" /\ run'.start = run.start
          /\ run'.more = (Cardinality(page) = PageSize)
          /\ run'.dirty = (run.dirty \/ bad # {})
          /\ run'.seen = run.seen \cup (page \ bad)
          /\ DOMAIN run'.page = page \ bad
          /\ \A x \in page \ bad : run'.page[x] = server[x].at
  BY <1>6, <1>7, <1>8, <1>10 DEF entries, dirty, more
<1>12. bad \in SUBSET page /\ Faults(bad) /\ IsFiniteSet(bad)
  BY <1>1, <1>2
<1> QED
  BY <1>9, <1>11, <1>12 DEF page

\* A page of plays.
LEMMA HistoryFetched ==
  ASSUME TypeOK, FetchHistory
  PROVE  LET page == PageOf(Played(run.wm), run.start)
         IN  /\ run.pc = "history" /\ UNCHANGED <<outside, ref, events, cp, writer, ends>>
             /\ \E bad \in SUBSET page :
                  /\ Faults(bad) /\ IsFiniteSet(bad)
                  /\ \/ run' = Idle
                     \/ /\ bad # {} /\ run' \in RunRec(run'.page) /\ PageType(run') /\ SameScan
                        /\ run'.pc = "history" /\ run'.dirty /\ run'.seen = run.seen
                     \/ /\ run' \in RunRec(run'.page) /\ PageType(run') /\ SameScan
                        /\ run'.pc = "store" /\ run'.start = run.start
                        /\ run'.more = (Cardinality(page) = PageSize)
                        /\ run'.dirty = (run.dirty \/ bad # {}) /\ run'.seen = run.seen
                        /\ DOMAIN run'.page = page \ bad
                        /\ \A x \in page \ bad : run'.page[x] = plays[x]
<1> USE TimeNat
<1> DEFINE page == PageOf(Played(run.wm), run.start)
           more == Cardinality(page) = PageSize
<1>t. run \in RunRec(run.page) /\ PageType(run)
  BY RunType
<1>1. PICK bad \in SUBSET page :
        /\ Faults(bad)
        /\ IF bad = page /\ more THEN run' = [run EXCEPT !.start = @ + PageSize, !.dirty = TRUE]
           ELSE Fetched("store", page \ bad, bad, more, plays)
  BY DEF FetchHistory, HistorySince
<1>2. page \subseteq Played(run.wm) /\ page \subseteq Time /\ IsFiniteSet(bad)
  <2>1. page \subseteq Played(run.wm)
    BY DEF PageOf
  <2> HIDE DEF page
  <2> QED
    BY <2>1, ListingsBounded
<1>0. run.pc = "history"
  BY DEF FetchHistory
<1> DEFINE entries == page \ bad
           f == [x \in entries |-> plays[x]]
           dirty == run.dirty \/ bad # {}
<1>3. \/ bad = page /\ more /\ run' = [run EXCEPT !.start = run.start + PageSize, !.dirty = TRUE]
      \/ run' = Idle
      \/ run' = [run EXCEPT !.pc = "store", !.page = f, !.last = entries, !.more = more, !.dirty = dirty,
                            !.seen = run.seen]
  BY <1>1 DEF Fetched
<1>4. \A x \in entries : f[x] = plays[x] /\ plays[x] \in Items
  BY <1>2 DEF Played, TypeOK
<1>5. entries \subseteq Time /\ more \in BOOLEAN /\ dirty \in BOOLEAN /\ run.start + PageSize \in Nat
  BY <1>2, <1>t DEF RunRec
<1>6. f \in [entries -> Items] /\ DOMAIN f = entries
  <2> HIDE DEF page, entries, more
  <2> QED
    BY <1>4
<1>e. more => page # {}
  <2>1. page = {} => Cardinality(page) = 0
    BY FS_EmptySet
  <2> HIDE DEF page
  <2> QED
    BY <2>1
<1> HIDE DEF entries, f, dirty, more, page
<1>7. ASSUME run' = [run EXCEPT !.pc = "store", !.page = f, !.last = entries, !.more = more, !.dirty = dirty,
                               !.seen = run.seen]
      PROVE  /\ run' \in RunRec(f) /\ run'.page = f /\ run'.pc = "store" /\ run'.start = run.start
             /\ run'.more = more /\ run'.dirty = dirty /\ SameScan /\ run'.seen = run.seen
  <2> HIDE TimeNat
  <2>1. /\ run'.page = f /\ run'.pc = "store" /\ run'.start = run.start
        /\ run'.more = more /\ run'.dirty = dirty /\ SameScan /\ run'.seen = run.seen
    BY <1>t, <1>7 DEF RunRec, SameScan
  <2>2. run' \in RunRec(f)
    BY <1>t, <1>5, <1>7 DEF RunRec
  <2> QED
    BY <2>1, <2>2
<1>8. ASSUME run' = [run EXCEPT !.pc = "store", !.page = f, !.last = entries, !.more = more, !.dirty = dirty,
                               !.seen = run.seen]
      PROVE PageType(run') /\ \A x \in page \ bad : run'.page[x] = plays[x]
  <2>1. PageType(run')
    BY <1>5, <1>6, <1>7, <1>8 DEF PageType
  <2>2. \A x \in page \ bad : run'.page[x] = plays[x]
    BY <1>4, <1>7, <1>8 DEF entries
  <2> QED
    BY <2>1, <2>2
<1>9. ASSUME bad = page, more, run' = [run EXCEPT !.start = run.start + PageSize, !.dirty = TRUE]
      PROVE  /\ bad # {} /\ run' \in RunRec(run'.page) /\ PageType(run') /\ SameScan
             /\ run'.pc = "history" /\ run'.dirty /\ run'.seen = run.seen
  <2>1. run' \in RunRec(run.page) /\ run'.page = run.page /\ SameScan /\ run'.pc = "history" /\ run'.dirty
        /\ run'.seen = run.seen
    BY <1>0, <1>t, <1>5, <1>9 DEF RunRec, SameScan
  <2> QED
    BY <1>e, <1>9, <2>1 DEF PageType
<1>10. run.pc = "history" /\ UNCHANGED <<outside, ref, events, cp, writer, ends>>
  BY DEF FetchHistory
<1>11. bad \in SUBSET page /\ Faults(bad) /\ IsFiniteSet(bad)
  BY <1>1, <1>2
<1>12. \/ run' = Idle
       \/ /\ bad # {} /\ run' \in RunRec(run'.page) /\ PageType(run') /\ SameScan
          /\ run'.pc = "history" /\ run'.dirty /\ run'.seen = run.seen
       \/ /\ run' \in RunRec(run'.page) /\ PageType(run') /\ SameScan
          /\ run'.pc = "store" /\ run'.start = run.start
          /\ run'.more = (Cardinality(page) = PageSize)
          /\ run'.dirty = (run.dirty \/ bad # {}) /\ run'.seen = run.seen
          /\ DOMAIN run'.page = page \ bad
          /\ \A x \in page \ bad : run'.page[x] = plays[x]
  <2>1. CASE run' = Idle
    BY <2>1
  <2>2. CASE bad = page /\ more /\ run' = [run EXCEPT !.start = run.start + PageSize, !.dirty = TRUE]
    BY <1>9, <2>2
  <2>3. CASE run' = [run EXCEPT !.pc = "store", !.page = f, !.last = entries, !.more = more, !.dirty = dirty,
                               !.seen = run.seen]
    BY <1>6, <1>7, <1>8, <2>3 DEF entries, dirty, more
  <2> QED
    BY <1>3, <2>1, <2>2, <2>3
<1> QED
  BY <1>10, <1>11, <1>12 DEF page

\* The cursor that a page moves, and who moved it.
Moved(stage, dirty) ==
  /\ cp' \in [stage : {"none", "media", "history"}, start : Nat, wm : AnyTime, full : AnyTime]
  /\ cp'.stage = stage /\ cp'.start = NextStart /\ cp'.wm = cp.wm /\ cp'.full = cp.full
  /\ writer' \in [scan : AnyTime, since : AnyTime, dirty : BOOLEAN]
  /\ writer'.scan = run.scan /\ writer'.since = run.since /\ writer'.dirty = dirty

\* What _set_checkpoint does to the checkpoint and to who wrote it.
LEMMA CursorMoved ==
  ASSUME TypeOK, NEW stage \in {"media", "history", "complete"}, NEW dirty \in BOOLEAN,
         SetCheckpoint(stage, NextStart, dirty)
  PROVE  Moved(IF stage = "complete" THEN "none" ELSE stage, dirty) /\ NextStart \in Nat
<1>t. run \in RunRec(run.page) /\ cp \in [stage : {"none", "media", "history"}, start : Nat, wm : AnyTime, full : AnyTime]
  BY RunType
<1>1. NextStart \in Nat
  BY <1>t, TimeNat DEF NextStart, RunRec
<1> DEFINE st == IF stage = "complete" THEN "none" ELSE stage
           n == NextStart
<1>2. st \in {"none", "media", "history"} /\ n \in Nat
  BY <1>1
<1>3. cp' = [cp EXCEPT !.stage = st, !.start = n] /\ writer' = [scan |-> run.scan, since |-> run.since, dirty |-> dirty]
  BY DEF SetCheckpoint, Cursor
<1> HIDE DEF st, n
<1>4. /\ cp' \in [stage : {"none", "media", "history"}, start : Nat, wm : AnyTime, full : AnyTime]
      /\ cp'.stage = st /\ cp'.start = n /\ cp'.wm = cp.wm /\ cp'.full = cp.full
  BY <1>t, <1>2, <1>3
<1>5. /\ writer' \in [scan : AnyTime, since : AnyTime, dirty : BOOLEAN]
      /\ writer'.scan = run.scan /\ writer'.since = run.since /\ writer'.dirty = dirty
  BY <1>t, <1>3 DEF RunRec
<1> QED
  BY <1>1, <1>4, <1>5 DEF Moved, st, n

\* A page of items is stored with the cursor behind it.
LEMMA MediaSaved ==
  ASSUME TypeOK, SaveMedia
  PROVE  /\ run.pc = "save" /\ UNCHANGED <<outside, events, ends>>
         /\ \E bad \in SUBSET DOMAIN run.page :
              /\ Faults(bad) /\ IsFiniteSet(bad)
              /\ ref' \in [Items -> [version : AnyTime, available : BOOLEAN]]
              /\ \A i \in Items : ref'[i] = IF i \in DOMAIN run.page \ bad
                                            THEN [version |-> run.page[i], available |-> TRUE] ELSE ref[i]
              /\ Moved(IF run.more THEN "media" ELSE "history", run.dirty \/ bad # {})
              /\ run' \in RunRec(run'.page) /\ PageType(run') /\ SameScan
              /\ run'.seen = run.seen /\ run'.dirty = (run.dirty \/ bad # {}) /\ run'.start = NextStart
              /\ run'.pc = IF run.more THEN "media" ELSE IF run.full THEN "mark" ELSE "history"
<1> USE TimeNat
<1>t. run \in RunRec(run.page) /\ PageType(run)
  BY RunType
<1>0. run.pc = "save" /\ UNCHANGED <<outside, events, ends>>
  BY DEF SaveMedia
<1> DEFINE next == IF run.more THEN "media" ELSE IF run.full THEN "mark" ELSE "history"
           stage == IF run.more THEN "media" ELSE "history"
           start == NextStart
           last == IF run.more THEN run.last ELSE {}
<1>1. PICK bad \in SUBSET DOMAIN run.page :
        /\ Faults(bad)
        /\ ref' = [i \in Items |-> IF i \in DOMAIN run.page \ bad
                                   THEN [version |-> run.page[i], available |-> TRUE] ELSE ref[i]]
        /\ SetCheckpoint(stage, start, run.dirty \/ bad # {})
        /\ run' = [run EXCEPT !.pc = next, !.start = start, !.page = <<>>, !.dirty = run.dirty \/ bad # {}, !.last = last]
  BY DEF SaveMedia
<1> DEFINE dirty == run.dirty \/ bad # {}
<1>2. DOMAIN run.page \subseteq Items /\ \A i \in DOMAIN run.page : run.page[i] \in AnyTime
  BY <1>0, <1>t DEF PageType
<1>3. IsFiniteSet(bad)
  BY <1>2, ListingsBounded
<1>4. stage \in {"media", "history", "complete"} /\ dirty \in BOOLEAN /\ stage # "complete"
  BY <1>t DEF RunRec
<1>5. Moved(stage, dirty) /\ NextStart \in Nat
  <2> HIDE DEF stage, dirty
  <2>1. SetCheckpoint(stage, NextStart, dirty)
    BY <1>1 DEF dirty
  <2> QED
    BY <1>4, <2>1, CursorMoved
<1>6. next \in {"media", "mark", "history"} /\ start \in Nat /\ last \in SUBSET (Items \cup Time)
  BY <1>5, <1>t DEF RunRec
<1>7. run' = [run EXCEPT !.pc = next, !.start = start, !.page = <<>>, !.dirty = dirty, !.last = last]
  BY <1>1
<1>8. /\ run' \in RunRec(<<>>) /\ SameScan /\ run'.page = <<>> /\ run'.seen = run.seen
      /\ run'.dirty = dirty /\ run'.start = start /\ run'.pc = next
  <2> HIDE TimeNat DEF next, start, dirty, last
  <2>1. SameScan /\ run'.page = <<>> /\ run'.dirty = dirty /\ run'.start = start /\ run'.pc = next /\ run'.seen = run.seen
    BY <1>t, <1>7 DEF RunRec, SameScan
  <2>2. run' \in RunRec(<<>>)
    BY <1>t, <1>4, <1>6, <1>7 DEF RunRec
  <2> QED
    BY <2>1, <2>2
<1>9. PageType(run')
  BY <1>6, <1>8 DEF PageType
<1>10. ref' \in [Items -> [version : AnyTime, available : BOOLEAN]]
  <2>1. \A i \in Items : ref[i] \in [version : AnyTime, available : BOOLEAN]
    BY DEF TypeOK
  <2>2. \A i \in Items : (IF i \in DOMAIN run.page \ bad THEN [version |-> run.page[i], available |-> TRUE] ELSE ref[i])
                         \in [version : AnyTime, available : BOOLEAN]
    BY <1>2, <2>1
  <2> QED
    BY <1>1, <2>2
<1>11. \A i \in Items : ref'[i] = IF i \in DOMAIN run.page \ bad
                                  THEN [version |-> run.page[i], available |-> TRUE] ELSE ref[i]
  BY <1>1
<1> HIDE DEF next, stage, start, dirty, last
<1>12. /\ run' \in RunRec(run'.page) /\ PageType(run') /\ SameScan
       /\ run'.seen = run.seen /\ run'.dirty = dirty /\ run'.start = start /\ run'.pc = next
  BY <1>8, <1>9
<1>13. Moved(stage, dirty) /\ Faults(bad) /\ bad \in SUBSET DOMAIN run.page
  BY <1>1, <1>5
<1> QED
  BY <1>0, <1>3, <1>10, <1>11, <1>12, <1>13 DEF next, stage, start, dirty

\* A page of plays is stored with the cursor behind it.
LEMMA HistoryStored ==
  ASSUME TypeOK, StoreHistory
  PROVE  /\ run.pc = "store" /\ UNCHANGED <<outside, ref, ends>>
         /\ \E bad \in SUBSET DOMAIN run.page :
              /\ Faults(bad) /\ IsFiniteSet(bad)
              /\ events' = events \cup ({t \in DOMAIN run.page : ref[run.page[t]].version # Never} \ bad)
              /\ events' \subseteq Time
              /\ Moved(IF run.more THEN "history" ELSE "none", run.dirty \/ bad # {})
              /\ run' \in RunRec(run'.page) /\ PageType(run') /\ SameScan
              /\ run'.dirty = (run.dirty \/ bad # {}) /\ run'.start = NextStart /\ run'.seen = run.seen
              /\ run'.pc = IF run.more THEN "history" ELSE "complete"
<1> USE TimeNat
<1>t. run \in RunRec(run.page) /\ PageType(run)
  BY RunType
<1>0. run.pc = "store" /\ UNCHANGED <<outside, ref, ends>>
  BY DEF StoreHistory
<1> DEFINE next == IF run.more THEN "history" ELSE "complete"
           start == NextStart
<1>1. PICK bad \in SUBSET DOMAIN run.page :
        /\ Faults(bad)
        /\ events' = events \cup ({t \in DOMAIN run.page : ref[run.page[t]].version # Never} \ bad)
        /\ SetCheckpoint(next, start, run.dirty \/ bad # {})
        /\ run' = [run EXCEPT !.pc = next, !.start = start, !.page = <<>>, !.dirty = run.dirty \/ bad # {}]
  BY DEF StoreHistory
<1> DEFINE dirty == run.dirty \/ bad # {}
<1>2. DOMAIN run.page \subseteq Time
  BY <1>0, <1>t DEF PageType
<1>3. IsFiniteSet(bad)
  BY <1>2, ListingsBounded
<1>4. next \in {"media", "history", "complete"} /\ dirty \in BOOLEAN
  BY <1>t DEF RunRec
<1>5. Moved(IF next = "complete" THEN "none" ELSE next, dirty) /\ NextStart \in Nat
  <2> HIDE DEF next, dirty
  <2>1. SetCheckpoint(next, NextStart, dirty)
    BY <1>1 DEF dirty
  <2> QED
    BY <1>4, <2>1, CursorMoved
<1>6. next \in {"history", "complete"} /\ start \in Nat
      /\ (IF next = "complete" THEN "none" ELSE next) = IF run.more THEN "history" ELSE "none"
  BY <1>5
<1>7. run' = [run EXCEPT !.pc = next, !.start = start, !.page = <<>>, !.dirty = dirty]
  BY <1>1
<1>8. /\ run' \in RunRec(<<>>) /\ SameScan /\ run'.page = <<>> /\ run'.dirty = dirty
      /\ run'.start = start /\ run'.pc = next /\ run'.seen = run.seen
  <2> HIDE TimeNat DEF next, start, dirty
  <2>1. SameScan /\ run'.page = <<>> /\ run'.dirty = dirty /\ run'.start = start /\ run'.pc = next /\ run'.seen = run.seen
    BY <1>t, <1>7 DEF RunRec, SameScan
  <2>2. run' \in RunRec(<<>>)
    BY <1>t, <1>4, <1>6, <1>7 DEF RunRec
  <2> QED
    BY <2>1, <2>2
<1>9. PageType(run')
  BY <1>6, <1>8 DEF PageType
<1>10. events' \subseteq Time
  BY <1>1, <1>2 DEF TypeOK
<1> HIDE DEF next, start, dirty
<1>11. Moved(IF run.more THEN "history" ELSE "none", dirty)
  BY <1>5, <1>6
<1> QED
  BY <1>0, <1>1, <1>3, <1>8, <1>9, <1>10, <1>11 DEF next, start, dirty

\* The pages are well typed.
LEMMA PagesType ==
  ASSUME TypeOK, FetchMedia \/ SaveMedia \/ FetchHistory \/ StoreHistory
  PROVE  TypeOK'
<1> USE RunType DEF outside
<1>1. CASE FetchMedia
  <2>1. faults' \in 0..MaxFaults /\ clean' \in [catalog : BOOLEAN, history : BOOLEAN]
    BY <1>1, MediaFetched, FaultsType
  <2>2. run' \in RunRec(run'.page) /\ PageType(run')
    BY <1>1, MediaFetched, IdleType
  <2>3. UNCHANGED <<outside, ref, events, cp, writer, ends>>
    BY <1>1, MediaFetched
  <2> QED
    BY <2>1, <2>2, <2>3 DEF TypeOK, RunRec, PageType
<1>2. CASE SaveMedia
  <2>1. faults' \in 0..MaxFaults /\ clean' \in [catalog : BOOLEAN, history : BOOLEAN]
    BY <1>2, MediaSaved, FaultsType
  <2>2. /\ run' \in RunRec(run'.page) /\ PageType(run')
        /\ ref' \in [Items -> [version : AnyTime, available : BOOLEAN]]
        /\ cp' \in [stage : {"none", "media", "history"}, start : Nat, wm : AnyTime, full : AnyTime]
        /\ writer' \in [scan : AnyTime, since : AnyTime, dirty : BOOLEAN]
    BY <1>2, MediaSaved DEF Moved
  <2>3. UNCHANGED <<outside, events, ends>>
    BY <1>2, MediaSaved
  <2> QED
    BY <2>1, <2>2, <2>3 DEF TypeOK, RunRec, PageType
<1>3. CASE FetchHistory
  <2>1. faults' \in 0..MaxFaults /\ clean' \in [catalog : BOOLEAN, history : BOOLEAN]
    BY <1>3, HistoryFetched, FaultsType
  <2>2. run' \in RunRec(run'.page) /\ PageType(run')
    BY <1>3, HistoryFetched, IdleType
  <2>3. UNCHANGED <<outside, ref, events, cp, writer, ends>>
    BY <1>3, HistoryFetched
  <2> QED
    BY <2>1, <2>2, <2>3 DEF TypeOK, RunRec, PageType
<1>4. CASE StoreHistory
  <2>1. faults' \in 0..MaxFaults /\ clean' \in [catalog : BOOLEAN, history : BOOLEAN]
    BY <1>4, HistoryStored, FaultsType
  <2>2. /\ run' \in RunRec(run'.page) /\ PageType(run') /\ events' \subseteq Time
        /\ cp' \in [stage : {"none", "media", "history"}, start : Nat, wm : AnyTime, full : AnyTime]
        /\ writer' \in [scan : AnyTime, since : AnyTime, dirty : BOOLEAN]
    BY <1>4, HistoryStored DEF Moved
  <2>3. UNCHANGED <<outside, ref, ends>>
    BY <1>4, HistoryStored
  <2> QED
    BY <2>1, <2>2, <2>3 DEF TypeOK, RunRec, PageType
<1> QED
  BY <1>1, <1>2, <1>3, <1>4

-------------------------------------------------------------------------------
(* The server and its users.                                                     *)

Rest == /\ TimeInv /\ RunInv /\ SeenInv /\ ReadInv /\ KnownInv /\ PlaysInv
        /\ WatermarkCovers /\ CursorCovers /\ HistoryCovers /\ RemovedRetire

\* The numbers of a well-typed state.
TypeNumbers ==
         /\ clock \in Nat /\ cp.wm \in Nat /\ cp.full \in Nat /\ cp.start \in Nat
         /\ run.scan \in Nat /\ run.since \in Nat /\ run.wm \in Nat /\ run.start \in Nat
         /\ writer.scan \in Nat /\ writer.since \in Nat
         /\ run.pc \in {"idle", "media", "save", "mark", "history", "store", "complete"}
         /\ run.dirty \in BOOLEAN /\ run.full \in BOOLEAN /\ run.periodic \in BOOLEAN /\ run.more \in BOOLEAN
         /\ run.seen \subseteq Items
         /\ \A i \in Items : server[i].at \in Nat /\ server[i].here \in BOOLEAN
         /\ \A t \in Time : t \in Nat /\ (plays[t] # 0 => plays[t] \in Items)
         /\ \A i \in Items : i \in Nat
\* The typed state speaks of numbers only, where it is compared.
LEMMA Numbers == TypeOK => TypeNumbers
  BY TimeNat DEF TypeOK, TypeNumbers

\* Nothing but the clock and the server's items changed, and none of these went away.
LEMMA GrowthKeeps ==
  ASSUME TypeOK, TypeOK', Rest, Tick \/ \E i \in Items : Edit(i) \/ Play(i)
  PROVE  Rest'
<1>n. TypeNumbers
  BY Numbers
<1> USE <1>n, TimeNat DEF TypeNumbers
<1>r. TimeInv /\ RunInv /\ SeenInv /\ ReadInv /\ KnownInv /\ PlaysInv
      /\ WatermarkCovers /\ CursorCovers /\ HistoryCovers /\ RemovedRetire
  BY DEF Rest
<1>1. UNCHANGED <<gone, ref, events, cp, run, clean, writer>> /\ clock' \in Nat /\ clock' >= clock
  <2>1. UNCHANGED <<gone, ref, events, cp, run, clean, writer>> /\ (clock' = clock \/ clock' = clock + 1)
    BY DEF Tick, Edit, Play
  <2> QED
    BY <2>1
<1>2. \A i \in Items : /\ server'[i] = server[i] \/ (server'[i].here /\ server'[i].at = clock)
                       /\ server'[i].at \in Nat
  <2>1. ASSUME NEW j \in Items, Edit(j), NEW i \in Items
        PROVE  server'[i] = server[i] \/ (server'[i].here /\ server'[i].at = clock)
    <3>1. server' = [server EXCEPT ![j] = [here |-> TRUE, at |-> clock]]
      BY <2>1 DEF Edit
    <3> QED
      BY <3>1 DEF TypeOK
  <2>2. UNCHANGED server \/ \E j \in Items : Edit(j)
    BY DEF Tick, Play
  <2>3. \A i \in Items : server'[i] = server[i] \/ (server'[i].here /\ server'[i].at = clock)
    BY <2>1, <2>2
  <2> QED
    BY <2>3
<1>3. \A t \in Time : plays'[t] = plays[t] \/ (t = clock /\ plays[t] = 0 /\ plays'[t] \in Items /\ server'[plays'[t]].here)
  <2>1. CASE UNCHANGED plays
    BY <2>1
  <2>2. ASSUME NEW i \in Items, Play(i), NEW t \in Time
        PROVE  plays'[t] = plays[t] \/ (t = clock /\ plays[t] = 0 /\ plays'[t] \in Items /\ server'[plays'[t]].here)
    BY <2>2 DEF Play, TypeOK
  <2>3. UNCHANGED plays \/ \E i \in Items : Play(i)
    BY DEF Tick, Edit
  <2> QED
    BY <2>1, <2>2, <2>3
<1>s. Active => run.scan <= clock /\ run.since < clock /\ run.wm < clock
  BY <1>r DEF RunInv, Never
<1> DEFINE L == Listed(run.since)
           W == Listed(writer.since)
           P == Played(run.wm)
<1>4. Active => /\ L \subseteq L' /\ L' \in SUBSET (1 .. NumItems)
                /\ \A i \in L' : server'[i].at < clock => i \in L /\ server'[i] = server[i]
  BY <1>1, <1>2, <1>s DEF Listed, Items
<1>5. cp.stage # "none" => /\ W \subseteq W' /\ W' \in SUBSET (1 .. NumItems)
                           /\ \A i \in W' : server'[i].at < clock => i \in W /\ server'[i] = server[i]
  BY <1>r, <1>1, <1>2 DEF Listed, Items, TimeInv
<1>6. P \subseteq P' /\ P' \in SUBSET (1 .. MaxTime) /\ \A t \in P' : t < clock => t \in P /\ plays'[t] = plays[t]
  BY <1>1, <1>3 DEF Played, Time
<1> HIDE DEF L, W, P
<1>7. /\ Active => \A i \in Items : Position(i, L) <= Position(i, L') /\ Position(i, L) \in Nat /\ Position(i, L') \in Nat
      /\ cp.stage # "none" =>
           \A i \in Items : Position(i, W) <= Position(i, W') /\ Position(i, W) \in Nat /\ Position(i, W') \in Nat
      /\ \A t \in Time : Position(t, P) <= Position(t, P') /\ Position(t, P) \in Nat /\ Position(t, P') \in Nat
  <2>1. ASSUME NEW n \in Nat, NEW K, NEW M \in SUBSET (1 .. n), K \subseteq M, NEW x \in Nat
        PROVE  Position(x, K) <= Position(x, M) /\ Position(x, K) \in Nat /\ Position(x, M) \in Nat
    <3>1. K \in SUBSET (1 .. n) /\ K \in SUBSET M
      BY <2>1
    <3> QED
      BY <2>1, <3>1, PositionFacts
  <2> QED
    BY <1>4, <1>5, <1>6, <2>1
<1>t. TimeInv'
  <2>1. \A i \in Items : server'[i].at <= clock' /\ (server'[i].here => server'[i].at > Never)
                         /\ (server[i].here => server'[i].here)
    <3>1. ASSUME NEW i \in Items
          PROVE  /\ server'[i].at <= clock' /\ (server'[i].here => server'[i].at > Never)
                 /\ (server[i].here => server'[i].here)
      <4>1. /\ server[i].at \in Nat /\ server[i].at <= clock /\ (server[i].here => server[i].at > Never)
            /\ Overlap < clock
        BY <1>r DEF TimeInv
      <4>2. CASE server'[i] = server[i]
        BY <1>1, <4>1, <4>2
      <4>3. CASE server'[i].here /\ server'[i].at = clock
        BY <1>1, <4>1, <4>3
      <4> QED
        BY <1>2, <4>2, <4>3
    <3> QED
      BY <3>1
  <2>2. ASSUME NEW t \in Time, plays'[t] # 0 PROVE t <= clock' /\ (server'[plays'[t]].here \/ plays'[t] \in gone')
    <3>1. CASE plays'[t] = plays[t]
      <4>1. PICK i \in Items : i = plays[t]
        BY <2>2, <3>1
      <4>2. t <= clock /\ (server[i].here \/ i \in gone)
        BY <1>r, <2>2, <3>1, <4>1 DEF TimeInv
      <4>3. t <= clock' /\ (server'[i].here \/ i \in gone')
        BY <1>1, <2>1, <4>2
      <4> QED
        BY <3>1, <4>1, <4>3
    <3>2. CASE t = clock /\ server'[plays'[t]].here
      BY <1>1, <3>2
    <3> QED
      BY <1>3, <3>1, <3>2
  <2> QED
    BY <1>r, <1>1, <2>1, <2>2 DEF TimeInv
<1>u. RunInv'
  BY <1>r, <1>1 DEF RunInv, Active
<1>v. SeenInv'
  <2>1. Active => \A i \in Items : server'[i] = server[i] \/ (server'[i].here /\ server'[i].at >= run.scan)
    BY <1>2, <1>s
  <2>2. Active' => \A i \in run'.seen : server'[i].here \/ server'[i].at >= run'.scan
    BY <1>r, <1>1, <2>1 DEF SeenInv, Active
  <2>3. run'.pc = "save" => \A i \in DOMAIN run'.page :
           /\ i \in run'.seen /\ run'.page[i] > Never
           /\ (run'.page[i] = server'[i].at /\ server'[i].here) \/ server'[i].at >= run'.scan
    BY <1>r, <1>1, <2>1 DEF SeenInv, Active
  <2>4. run'.pc = "store" => \A t \in DOMAIN run'.page : run'.page[t] = plays'[t]
    <3>1. ASSUME run.pc = "store", NEW t \in DOMAIN run.page PROVE run.page[t] = plays'[t]
      <4>1. run.page[t] \in Items /\ t \in Time /\ run.page[t] = plays[t]
        BY <1>r, <3>1 DEF SeenInv, TypeOK
      <4>2. plays[t] # 0
        BY <4>1 DEF Items
      <4> QED
        BY <1>3, <4>1, <4>2
    <3> QED
      BY <1>1, <3>1
  <2>5. run'.pc \in {"history", "store", "complete"} /\ run'.full =>
          \A i \in Items : ~server'[i].here /\ server'[i].at < run'.scan => ~ref'[i].available
    BY <1>r, <1>1, <2>1 DEF SeenInv, Active
  <2> QED
    BY <2>2, <2>3, <2>4, <2>5 DEF SeenInv
<1>a. \A i \in Items : Active /\ Ahead(i) => Ahead(i)'
  BY <1>1, <1>7 DEF Ahead, L
<1>b. ReadInv'
  <2>1. ASSUME Active', ~run'.dirty, NEW i \in Listed(run.since)', server'[i].at < run'.scan, ~Ahead(i)'
        PROVE  i \in run'.seen /\ (Current(i)' \/ InHand(i)')
    <3>1. Active /\ ~run.dirty /\ i \in Items /\ server'[i].at < run.scan
      BY <1>1, <2>1 DEF Active, Listed
    <3>2. i \in Listed(run.since) /\ server'[i] = server[i]
      <4>1. server'[i].at < clock
        BY <1>2, <1>s, <3>1
      <4> QED
        BY <1>4, <2>1, <3>1, <4>1 DEF L
    <3>3. ~Ahead(i)
      BY <1>a, <2>1, <3>1
    <3>4. i \in run.seen /\ (Current(i) \/ InHand(i))
      BY <1>r, <3>1, <3>2, <3>3 DEF ReadInv
    <3> QED
      BY <1>1, <3>2, <3>4 DEF Current, InHand
  <2> QED
    BY <2>1 DEF ReadInv
<1>k. KnownInv'
  <2>1. clean'.history => clean'.catalog
    BY <1>r, <1>1 DEF KnownInv
  <2>2. ASSUME Active', clean'.history, NEW t \in Time, plays'[t] # 0, plays'[t] \notin gone', t < run'.scan
        PROVE  \/ ref'[plays'[t]].version # Never
               \/ plays'[t] \in Listed(run.since)' /\ Ahead(plays[t])'
               \/ InHand(plays[t])'
    <3>1. plays'[t] = plays[t] /\ plays[t] \in Items
      BY <1>1, <1>3, <1>s, <2>2 DEF Active
    <3>i. PICK i \in Items : i = plays[t]
      BY <3>1
    <3>2. ref[i].version # Never \/ (i \in Listed(run.since) /\ Ahead(i)) \/ InHand(i)
      BY <1>r, <1>1, <2>2, <3>1, <3>i DEF KnownInv, Active
    <3>3. i \in Listed(run.since) => i \in Listed(run.since)'
      BY <1>1, <1>4, <2>2 DEF L, Active
    <3>4. Ahead(i) => Ahead(i)'
      BY <1>1, <1>a, <2>2, <3>1 DEF Active
    <3>5. InHand(i) => InHand(i)'
      BY <1>1 DEF InHand
    <3>6. ref'[i].version # Never \/ (i \in Listed(run.since)' /\ Ahead(i)') \/ InHand(i)'
      BY <1>1, <3>2, <3>3, <3>4, <3>5
    <3> QED
      BY <3>1, <3>6, <3>i
  <2> QED
    BY <2>1, <2>2 DEF KnownInv, Active
<1>p. PlaysInv'
  <2>1. ASSUME clean'.history, run'.pc \in {"history", "store", "complete"}, NEW t \in Played(run.wm)',
               plays'[t] \notin gone', t < run'.scan
        PROVE  t \in events' \/ Due(t)'
    <3>0. Active /\ t < clock /\ t \in Time
      BY <1>1, <1>s, <1>6, <2>1 DEF Active, P, Played
    <3>1. plays'[t] = plays[t] /\ t \in Played(run.wm)
      BY <1>6, <2>1, <3>0 DEF P
    <3>2. t \in events \/ Due(t)
      BY <1>r, <1>1, <2>1, <3>1 DEF PlaysInv
    <3>3. Due(t) => Due(t)'
      BY <1>1, <1>7, <3>0 DEF Due, P
    <3> QED
      BY <1>1, <3>2, <3>3
  <2> QED
    BY <2>1 DEF PlaysInv
<1>w. WatermarkCovers'
  <2>1. \A i \in Items : server'[i].here /\ server'[i].at <= cp.wm => server'[i] = server[i]
    <3>1. cp.wm < clock /\ cp.wm \in Nat
      BY <1>r DEF TimeInv
    <3>2. ASSUME NEW i \in Items, server'[i].at <= cp.wm PROVE server'[i] = server[i]
      <4>1. server'[i].at # clock
        BY <1>2, <3>1, <3>2
      <4> QED
        BY <1>2, <4>1
    <3> QED
      BY <3>2
  <2> QED
    BY <1>r, <1>1, <2>1 DEF WatermarkCovers, Current
<1>c. CursorCovers'
  <2>1. ASSUME cp'.stage # "none", ~writer'.dirty, NEW i \in Listed(writer.since)', server'[i].at < writer'.scan,
               cp'.stage = "media" => Position(i, Listed(writer.since)') <= cp'.start
        PROVE  Current(i)'
    <3>1. writer.since < clock /\ writer.scan <= clock /\ cp.stage # "none" /\ ~writer.dirty /\ i \in Items
      BY <1>r, <1>1, <2>1 DEF TimeInv, Listed
    <3>2. server'[i] = server[i] /\ i \in Listed(writer.since)
      <4>1. server'[i].at < clock
        BY <1>1, <1>2, <2>1, <3>1
      <4> QED
        BY <1>5, <2>1, <3>1, <4>1 DEF W
    <3>3. /\ Position(i, Listed(writer.since)) <= Position(i, Listed(writer.since)')
          /\ Position(i, Listed(writer.since)) \in Nat /\ Position(i, Listed(writer.since)') \in Nat
      BY <1>7, <3>1 DEF W
    <3>4. cp.stage = "media" => Position(i, Listed(writer.since)) <= cp.start
      BY <1>1, <2>1, <3>3
    <3>5. Current(i)
      BY <1>r, <1>1, <2>1, <3>1, <3>2, <3>4 DEF CursorCovers
    <3> QED
      BY <1>1, <3>2, <3>5 DEF Current
  <2> QED
    BY <2>1 DEF CursorCovers
<1>h. HistoryCovers'
  <2>1. ASSUME NEW t \in Time, t <= cp.wm, plays'[t] # 0 PROVE plays'[t] = plays[t]
    BY <1>r, <1>3, <2>1 DEF TimeInv
  <2> QED
    BY <1>r, <1>1, <2>1 DEF HistoryCovers
<1>d. RemovedRetire'
  <2>1. \A i \in Items : ~server'[i].here => server'[i] = server[i]
    BY <1>2
  <2> QED
    BY <1>r, <1>1, <2>1 DEF RemovedRetire
<1> QED
  BY <1>t, <1>u, <1>v, <1>b, <1>k, <1>p, <1>w, <1>c, <1>h, <1>d DEF Rest

\* An item goes away: a scan in progress, and a cursor in the media stage, are disturbed.
LEMMA RemovalKeeps ==
  ASSUME TypeOK, TypeOK', Rest, NEW k \in Items, Remove(k)
  PROVE  Rest'
<1>n. TypeNumbers
  BY Numbers
<1> USE <1>n, TimeNat DEF TypeNumbers
<1>r. TimeInv /\ RunInv /\ SeenInv /\ ReadInv /\ KnownInv /\ PlaysInv
      /\ WatermarkCovers /\ CursorCovers /\ HistoryCovers /\ RemovedRetire
  BY DEF Rest
<1>t. run \in RunRec(run.page) /\ writer \in [scan : AnyTime, since : AnyTime, dirty : BOOLEAN]
      /\ clean \in [catalog : BOOLEAN, history : BOOLEAN]
  BY RunType
<1> DEFINE scanning == run.pc \in {"media", "save"}
<1>1. UNCHANGED <<clock, plays, ref, events, cp>> /\ gone' = gone \cup {k}
  BY DEF Remove
<1>2. /\ \A i \in Items : server'[i] = server[i] \/ (i = k /\ ~server'[i].here /\ server'[i].at = clock)
      /\ \A i \in Items : server'[i].at \in Nat
  <2>1. server' = [server EXCEPT ![k] = [here |-> FALSE, at |-> clock]]
    BY DEF Remove
  <2> QED
    BY <2>1 DEF TypeOK
<1>3. /\ run'.pc = run.pc /\ run'.start = run.start /\ SameScan /\ run'.seen = run.seen /\ run'.page = run.page
      /\ run'.more = run.more /\ run'.dirty = (run.dirty \/ scanning)
      /\ run' \in RunRec(run.page)
  <2>1. run' = [run EXCEPT !.dirty = run.dirty \/ scanning]
    BY DEF Remove
  <2> HIDE DEF scanning
  <2>2. (run.dirty \/ scanning) \in BOOLEAN
    BY DEF scanning
  <2> QED
    BY <1>t, <2>1, <2>2 DEF RunRec, SameScan
<1>4. /\ scanning => clean' = Disturbed /\ ~clean'.catalog /\ ~clean'.history
      /\ ~scanning => clean' = clean
  BY DEF Remove, Disturbed
<1>5. /\ writer'.scan = writer.scan /\ writer'.since = writer.since
      /\ writer'.dirty = (writer.dirty \/ cp.stage = "media")
  <2>1. writer' = [writer EXCEPT !.dirty = writer.dirty \/ cp.stage = "media"]
    BY DEF Remove
  <2> QED
    BY <1>t, <2>1
<1> HIDE DEF scanning
<1>s. Active => run.scan <= clock /\ run.since < clock /\ run.wm < clock
  BY <1>r DEF RunInv, Never
<1>a. TimeInv'
  <2>1. \A t \in Time : plays'[t] # 0 => t <= clock' /\ (server'[plays'[t]].here \/ plays'[t] \in gone')
    <3>1. ASSUME NEW t \in Time, plays[t] # 0 PROVE t <= clock /\ (server'[plays[t]].here \/ plays[t] \in gone')
      <4>1. PICK i \in Items : i = plays[t]
        BY <3>1
      <4>2. t <= clock /\ (server[i].here \/ i \in gone)
        BY <1>r, <3>1, <4>1 DEF TimeInv
      <4>3. t <= clock /\ (server'[i].here \/ i \in gone')
        BY <1>1, <1>2, <4>2
      <4> QED
        BY <4>1, <4>3
    <3> QED
      BY <1>1, <3>1
  <2>2. \A i \in Items : server'[i].at <= clock' /\ (server'[i].here => server'[i].at > Never)
    BY <1>r, <1>1, <1>2 DEF TimeInv
  <2> QED
    BY <1>r, <1>1, <1>5, <2>1, <2>2 DEF TimeInv
<1>b. RunInv'
  <2>1. scanning => ~clean'.catalog /\ run.pc # "mark"
    BY <1>4 DEF scanning
  <2> QED
    BY <1>r, <1>1, <1>3, <1>4, <1>5, <2>1 DEF RunInv, Active, SameScan
<1>v. SeenInv'
  <2>1. Active => \A i \in Items : server'[i] = server[i] \/ server'[i].at >= run.scan
    BY <1>2, <1>s
  <2>2. Active' => \A i \in run'.seen : server'[i].here \/ server'[i].at >= run'.scan
    BY <1>r, <1>3, <2>1 DEF SeenInv, Active, SameScan
  <2>3. run'.pc = "save" => \A i \in DOMAIN run'.page :
           /\ i \in run'.seen /\ run'.page[i] > Never
           /\ (run'.page[i] = server'[i].at /\ server'[i].here) \/ server'[i].at >= run'.scan
    BY <1>r, <1>3, <2>1 DEF SeenInv, Active, SameScan
  <2>4. run'.pc = "store" => \A t \in DOMAIN run'.page : run'.page[t] = plays'[t]
    BY <1>r, <1>1, <1>3 DEF SeenInv
  <2>5. run'.pc \in {"history", "store", "complete"} /\ run'.full =>
          \A i \in Items : ~server'[i].here /\ server'[i].at < run'.scan => ~ref'[i].available
    <3>1. ASSUME run.pc \in {"history", "store", "complete"}, run.full, NEW i \in Items,
                 ~server'[i].here, server'[i].at < run.scan
          PROVE  ~ref[i].available
      <4>1. Active /\ server'[i].at \in Nat
        BY <1>2, <3>1 DEF Active
      <4>2. server'[i] = server[i]
        BY <2>1, <3>1, <4>1
      <4>3. ~server[i].here /\ server[i].at < run.scan
        BY <3>1, <4>2
      <4> QED
        BY <1>r, <3>1, <4>3 DEF SeenInv
    <3> QED
      BY <1>1, <1>3, <3>1 DEF SameScan
  <2> QED
    BY <2>2, <2>3, <2>4, <2>5 DEF SeenInv
<1>c. ReadInv'
  <2>1. ASSUME Active', ~run'.dirty, NEW i \in Listed(run.since)', server'[i].at < run'.scan
        PROVE  i \in run'.seen /\ (Current(i)' \/ InHand(i)')
    <3>1. Active /\ ~run.dirty /\ ~scanning /\ i \in Items /\ server'[i].at < run.scan
      BY <1>3, <2>1 DEF Active, Listed, SameScan
    <3>2. server'[i] = server[i]
      <4>1. server'[i].at < clock
        BY <1>2, <1>s, <3>1
      <4> QED
        BY <1>2, <3>1, <4>1
    <3>3. i \in Listed(run.since)
      BY <1>3, <2>1, <3>1, <3>2 DEF Listed, SameScan
    <3>4. ~Ahead(i)
      BY <3>1 DEF Ahead, scanning
    <3>5. i \in run.seen /\ Current(i)
      BY <1>r, <3>1, <3>2, <3>3, <3>4 DEF ReadInv, InHand, scanning
    <3> QED
      BY <1>1, <1>3, <3>2, <3>5 DEF Current
  <2> QED
    BY <2>1 DEF ReadInv
<1>d. KnownInv'
  <2>1. clean'.history => ~scanning /\ clean'.catalog /\ clean.history
    BY <1>r, <1>4 DEF KnownInv
  <2>2. ASSUME Active', clean'.history, NEW t \in Time, plays[t] # 0, plays[t] \notin gone', t < run'.scan
        PROVE  ref[plays[t]].version # Never
    <3>1. ~Ahead(plays[t]) /\ ~InHand(plays[t])
      BY <2>1, <2>2 DEF Ahead, InHand, scanning
    <3> QED
      BY <1>r, <1>1, <1>3, <2>1, <2>2, <3>1 DEF KnownInv, Active, SameScan
  <2> QED
    BY <1>1, <2>1, <2>2 DEF KnownInv
<1>e. PlaysInv'
  <2>1. ASSUME clean'.history, run'.pc \in {"history", "store", "complete"}, NEW t \in Played(run.wm)',
               plays'[t] \notin gone', t < run'.scan
        PROVE  t \in events' \/ Due(t)'
    <3>1. clean.history
      BY <1>4, <2>1
    <3>2. Played(run.wm)' = Played(run.wm)
      BY <1>1, <1>3 DEF Played, SameScan
    <3>3. t \in events \/ Due(t)
      BY <1>r, <1>1, <1>3, <2>1, <3>1, <3>2 DEF PlaysInv, SameScan
    <3>4. Due(t)' <=> Due(t)
      BY <1>3, <3>2 DEF Due
    <3> QED
      BY <1>1, <3>3, <3>4
  <2> QED
    BY <2>1 DEF PlaysInv
<1>w. WatermarkCovers'
  <2>1. clean'.catalog => clean.catalog
    BY <1>4
  <2>2. \A i \in Items : server'[i].here => server'[i] = server[i]
    BY <1>2
  <2> QED
    BY <1>r, <1>1, <2>1, <2>2 DEF WatermarkCovers, Current
<1>x. CursorCovers'
  <2>1. ASSUME cp'.stage # "none", ~writer'.dirty, NEW i \in Listed(writer.since)', server'[i].at < writer'.scan
        PROVE  Current(i)'
    <3>1. cp.stage # "none" /\ cp.stage # "media" /\ ~writer.dirty /\ i \in Items
      BY <1>1, <1>5, <2>1 DEF Listed
    <3>2. server'[i] = server[i] /\ i \in Listed(writer.since)
      BY <1>2, <1>5, <2>1 DEF Listed
    <3>3. Current(i)
      BY <1>r, <1>5, <2>1, <3>1, <3>2 DEF CursorCovers
    <3> QED
      BY <1>1, <3>2, <3>3 DEF Current
  <2> QED
    BY <2>1 DEF CursorCovers
<1>h. HistoryCovers'
  <2>1. clean'.history => clean.history
    BY <1>4
  <2> QED
    BY <1>r, <1>1, <2>1 DEF HistoryCovers
<1>z. RemovedRetire'
  <2>1. clean'.catalog => clean.catalog
    BY <1>4
  <2>2. cp.full # Never => \A i \in Items : server'[i].at < cp.full + Overlap => server'[i] = server[i]
    <3>1. cp.full # Never => cp.full + Overlap <= clock
      BY <1>r DEF TimeInv
    <3> QED
      BY <1>2, <3>1
  <2> QED
    BY <1>r, <1>1, <2>1, <2>2 DEF RemovedRetire
<1> QED
  BY <1>a, <1>b, <1>v, <1>c, <1>d, <1>e, <1>w, <1>x, <1>h, <1>z DEF Rest

-------------------------------------------------------------------------------
(* The run.                                                                      *)

\* What a step may do to the marks of the checkpoint: leave them, or take both away.
LEMMA MarksWeaken ==
  ASSUME KnownInv, clean' = clean \/ clean' = Disturbed
  PROVE  /\ clean'.catalog => clean.catalog
         /\ clean'.history => clean.history /\ clean'.catalog
         /\ clean' = Disturbed => ~clean'.catalog /\ ~clean'.history
  BY DEF KnownInv, Disturbed

\* A run that stops leaves what was committed: it was cancelled, failed or died.
LEMMA StopKeeps ==
  ASSUME TypeOK, Rest, run' = Idle, clean' = clean \/ clean' = Disturbed,
         UNCHANGED <<clock, server, gone, plays, ref, events, cp, writer>>
  PROVE  Rest'
<1>r. TimeInv /\ RunInv /\ SeenInv /\ ReadInv /\ KnownInv /\ PlaysInv
      /\ WatermarkCovers /\ CursorCovers /\ HistoryCovers /\ RemovedRetire
  BY DEF Rest
<1>1. run'.pc = "idle" /\ ~Active'
  BY IdleType DEF Active
<1>2. /\ clean'.catalog => clean.catalog
      /\ clean'.history => clean.history /\ clean'.catalog
  BY <1>r, MarksWeaken
<1>3. TimeInv' /\ RunInv' /\ ReadInv' /\ KnownInv'
  BY <1>r, <1>1, <1>2 DEF TimeInv, RunInv, ReadInv, KnownInv
<1>4. SeenInv' /\ PlaysInv'
  BY <1>1 DEF SeenInv, PlaysInv, Active
<1>5. WatermarkCovers' /\ CursorCovers' /\ HistoryCovers' /\ RemovedRetire'
  BY <1>r, <1>2 DEF WatermarkCovers, CursorCovers, HistoryCovers, RemovedRetire, Current, Listed, Position
<1> QED
  BY <1>3, <1>4, <1>5 DEF Rest

\* A run begins where the cursor points.
LEMMA BeginKeeps ==
  ASSUME TypeOK, TypeOK', Rest, Begin
  PROVE  Rest'
<1>n. TypeNumbers /\ TypeNumbers'
  BY Numbers, PTL
<1> USE <1>n, TimeNat DEF TypeNumbers
<1>r. TimeInv /\ RunInv /\ SeenInv /\ ReadInv /\ KnownInv /\ PlaysInv
      /\ WatermarkCovers /\ CursorCovers /\ HistoryCovers /\ RemovedRetire
  BY DEF Rest
<1> DEFINE stage == IF cp.stage = "history" THEN "history" ELSE "media"
           resumed == cp.stage # "none"
<1>1. UNCHANGED <<clock, server, gone, plays, ref, events, cp, writer>>
  BY DEF Begin, outside
<1>2. /\ run'.pc = stage /\ run'.start = cp.start /\ run'.scan = clock /\ run'.wm = cp.wm
      /\ run'.since = (IF run'.periodic THEN Never ELSE cp.wm)
      /\ run'.full = (run'.periodic /\ stage = "media" /\ cp.start = 0)
      /\ run'.dirty = resumed /\ run'.seen = {}
  BY DEF Begin, Idle
<1>3. /\ clean' = clean \/ clean' = Disturbed
      /\ resumed => clean' = Disturbed
  BY DEF Begin
<1>4. /\ clean'.catalog => clean.catalog /\ ~resumed
      /\ clean'.history => clean.history /\ clean'.catalog
  BY <1>r, <1>3, MarksWeaken
<1>5. ~resumed => stage = "media" /\ cp.start = 0
  BY <1>r DEF TimeInv
<1>6. stage \in {"media", "history"}
  OBVIOUS
<1> HIDE DEF stage, resumed
<1>7. ~resumed => \A i \in Listed(run.since)' : Ahead(i)'
  <2>1. ASSUME ~resumed, NEW i \in Listed(run.since)' PROVE Ahead(i)'
    <3>1. Listed(run'.since) \in SUBSET (1 .. NumItems) /\ i \in Listed(run'.since) /\ i \in Nat
      BY <1>1, <2>1 DEF Listed, Items
    <3>2. Position(i, Listed(run'.since)) > 0
      BY <3>1, PositionFacts
    <3>3. Position(i, Listed(run.since)') > 0
      BY <1>1, <3>2 DEF Listed
    <3> QED
      BY <1>2, <1>5, <2>1, <3>3 DEF Ahead
  <2> QED
    BY <2>1
<1>a. TimeInv'
  BY <1>r, <1>1 DEF TimeInv
<1>b. RunInv'
  BY <1>r, <1>1, <1>2, <1>4, <1>5, <1>6 DEF RunInv, TimeInv
<1>c. SeenInv'
  BY <1>2, <1>6 DEF SeenInv
<1>d. ReadInv'
  BY <1>2, <1>7 DEF ReadInv
<1>e. KnownInv'
  <2>1. ASSUME clean'.history, NEW t \in Time, plays[t] # 0, plays[t] \notin gone
        PROVE  ref[plays[t]].version # Never \/ (plays[t] \in Listed(run.since)' /\ Ahead(plays[t])')
    <3>1. PICK i \in Items : i = plays[t]
      BY <2>1
    <3>2. server[i].here /\ server[i].at > Never
      BY <1>r, <2>1, <3>1 DEF TimeInv
    <3>3. CASE server[i].at > run'.since
      <4>1. i \in Listed(run.since)'
        BY <1>1, <3>2, <3>3 DEF Listed
      <4>2. Ahead(i)'
        BY <1>4, <1>7, <2>1, <4>1
      <4> QED
        BY <1>1, <3>1, <4>1, <4>2
    <3>4. CASE server[i].at <= run'.since
      <4>1. server[i].at <= cp.wm
        BY <1>2, <3>2, <3>4
      <4>2. Current(i)
        BY <1>r, <1>4, <2>1, <3>2, <4>1 DEF WatermarkCovers
      <4> QED
        BY <3>1, <3>2, <4>2 DEF Current
    <3> QED
      BY <3>3, <3>4
  <2> QED
    BY <1>1, <1>4, <2>1 DEF KnownInv
<1>f. PlaysInv'
  BY <1>2, <1>4, <1>5 DEF PlaysInv
<1>g. WatermarkCovers' /\ CursorCovers' /\ HistoryCovers' /\ RemovedRetire'
  BY <1>r, <1>1, <1>4 DEF WatermarkCovers, CursorCovers, HistoryCovers, RemovedRetire, Current, Listed, Position
<1> QED
  BY <1>a, <1>b, <1>c, <1>d, <1>e, <1>f, <1>g DEF Rest

\* A page of items is fetched: what it holds leaves the listing ahead for the hand.
LEMMA FetchMediaKeeps ==
  ASSUME TypeOK, TypeOK', Rest, FetchMedia
  PROVE  Rest'
<1>n. TypeNumbers /\ TypeNumbers'
  BY Numbers, PTL
<1> USE <1>n, TimeNat DEF TypeNumbers
<1>r. TimeInv /\ RunInv /\ SeenInv /\ ReadInv /\ KnownInv /\ PlaysInv
      /\ WatermarkCovers /\ CursorCovers /\ HistoryCovers /\ RemovedRetire
  BY DEF Rest
<1> DEFINE L == Listed(run.since)
           page == PageOf(L, run.start)
<1>0. run.pc = "media" /\ UNCHANGED <<clock, server, gone, plays, ref, events, cp, writer>>
  BY MediaFetched DEF outside
<1>1. PICK bad \in SUBSET page :
        /\ Faults(bad) /\ IsFiniteSet(bad)
        /\ \/ run' = Idle
           \/ /\ run' \in RunRec(run'.page) /\ PageType(run') /\ SameScan
              /\ run'.pc = "save" /\ run'.start = run.start
              /\ run'.more = (Cardinality(page) = PageSize)
              /\ run'.dirty = (run.dirty \/ bad # {})
              /\ run'.seen = run.seen \cup (page \ bad)
              /\ DOMAIN run'.page = page \ bad
              /\ \A x \in page \ bad : run'.page[x] = server[x].at
  BY MediaFetched
<1>2. (clean' = clean \/ clean' = Disturbed) /\ (bad # {} => clean' = Disturbed)
  BY <1>1, FaultsType
<1>3. CASE run' = Idle
  BY <1>0, <1>2, <1>3, StopKeeps
<1>4. CASE run' # Idle
  <2> DEFINE more == Cardinality(page) = PageSize
  <2>1. /\ SameScan /\ run'.pc = "save" /\ run'.start = run.start /\ run'.more = more
        /\ run'.dirty = (run.dirty \/ bad # {}) /\ run'.seen = run.seen \cup (page \ bad)
        /\ DOMAIN run'.page = page \ bad /\ \A x \in page \ bad : run'.page[x] = server[x].at
    BY <1>1, <1>4
  <2>2. /\ clean'.catalog => clean.catalog
        /\ clean'.history => clean.history /\ clean'.catalog
        /\ bad # {} => ~clean'.catalog /\ ~clean'.history
    BY <1>r, <1>2, MarksWeaken
  <2>3. L \in SUBSET (1 .. NumItems) /\ \A i \in L : i \in Items /\ server[i].here /\ server[i].at > run.since
    BY DEF Listed, Items
  <2>4. /\ page \subseteq L
        /\ \A i \in L : Position(i, L) > run.start /\ i \notin page => Position(i, L) > run.start + PageSize /\ more
    BY <2>3, PageWindow
  <2>5. \A i \in page : i \in Items /\ server[i].here /\ server[i].at > Never
    BY <2>3, <2>4
  <2>6. L = Listed(run.since)' /\ \A i \in L : Position(i, Listed(run.since)') = Position(i, L) /\ Position(i, L) \in Nat
    <3>1. L = Listed(run.since)'
      BY <1>0, <2>1 DEF Listed, SameScan
    <3> QED
      BY <2>3, <3>1, PositionFacts
  <2>7. /\ \A i \in L : Ahead(i) <=> Position(i, L) > run.start
        /\ \A i \in L : Ahead(i)' <=> more /\ Position(i, L) > run.start + PageSize
        /\ \A i \in L : InHand(i)' <=> i \in page \ bad
        /\ \A i \in Items : ~InHand(i)
    BY <1>0, <2>1, <2>6 DEF Ahead, InHand
  <2>8. \A i \in L : Ahead(i) => Ahead(i)' \/ i \in page
    BY <2>4, <2>7
  <2> HIDE DEF L, page, more
  <2>a. TimeInv'
    BY <1>r, <1>0 DEF TimeInv
  <2>b. RunInv'
    BY <1>r, <1>0, <2>1, <2>2 DEF RunInv, Active, SameScan
  <2>c. SeenInv'
    <3>1. Active' => \A i \in run'.seen : server'[i].here \/ server'[i].at >= run'.scan
      BY <1>r, <1>0, <2>1, <2>5 DEF SeenInv, Active, SameScan
    <3>2. run'.pc = "save" => \A i \in DOMAIN run'.page :
             /\ i \in run'.seen /\ run'.page[i] > Never
             /\ (run'.page[i] = server'[i].at /\ server'[i].here) \/ server'[i].at >= run'.scan
      BY <1>0, <2>1, <2>5
    <3> QED
      BY <2>1, <3>1, <3>2 DEF SeenInv
  <2>d. ReadInv'
    <3>1. ASSUME ~run'.dirty, NEW i \in L, server[i].at < run.scan, ~Ahead(i)'
          PROVE  i \in run'.seen /\ (Current(i) \/ InHand(i)')
      <4>1. CASE Ahead(i)
        BY <2>1, <2>7, <2>8, <3>1, <4>1
      <4>2. CASE ~Ahead(i)
        BY <1>r, <1>0, <2>1, <2>3, <2>7, <3>1, <4>2 DEF ReadInv, Active, L
      <4> QED
        BY <4>1, <4>2
    <3>2. \A i \in Items : Current(i)' <=> Current(i)
      BY <1>0 DEF Current
    <3> QED
      BY <1>0, <2>1, <2>3, <2>6, <3>1, <3>2 DEF ReadInv, SameScan
  <2>e. KnownInv'
    <3>1. ASSUME clean'.history, NEW t \in Time, plays[t] # 0, plays[t] \notin gone, t < run.scan
          PROVE  ref[plays[t]].version # Never \/ (plays[t] \in L /\ Ahead(plays[t])') \/ InHand(plays[t])'
      <4>1. PICK i \in Items : i = plays[t]
        BY <3>1
      <4>2. ref[i].version # Never \/ (i \in L /\ Ahead(i))
        BY <1>r, <1>0, <2>2, <2>7, <3>1, <4>1 DEF KnownInv, Active, L
      <4>3. i \in page => InHand(i)'
        BY <2>2, <2>4, <2>7, <3>1
      <4>4. ref[i].version # Never \/ (i \in L /\ Ahead(i)') \/ InHand(i)'
        BY <2>8, <4>2, <4>3
      <4> QED
        BY <1>0, <4>1, <4>4
    <3> QED
      BY <1>0, <2>1, <2>2, <2>6, <3>1 DEF KnownInv, SameScan
  <2>f. PlaysInv'
    BY <2>1 DEF PlaysInv
  <2>g. WatermarkCovers' /\ CursorCovers' /\ HistoryCovers' /\ RemovedRetire'
    BY <1>r, <1>0, <2>2 DEF WatermarkCovers, CursorCovers, HistoryCovers, RemovedRetire, Current, Listed, Position
  <2> QED
    BY <2>a, <2>b, <2>c, <2>d, <2>e, <2>f, <2>g DEF Rest
<1> QED
  BY <1>3, <1>4

\* A page of items is stored with the cursor behind it: what was in hand is current.
LEMMA SaveMediaKeeps ==
  ASSUME TypeOK, TypeOK', Rest, SaveMedia
  PROVE  Rest'
<1>n. TypeNumbers /\ TypeNumbers'
  BY Numbers, PTL
<1> USE <1>n, TimeNat DEF TypeNumbers
<1>r. TimeInv /\ RunInv /\ SeenInv /\ ReadInv /\ KnownInv /\ PlaysInv
      /\ WatermarkCovers /\ CursorCovers /\ HistoryCovers /\ RemovedRetire
  BY DEF Rest
<1> DEFINE L == Listed(run.since)
           P == Played(run.wm)
<1>0. run.pc = "save" /\ UNCHANGED <<clock, server, gone, plays, events>>
  BY MediaSaved DEF outside
<1>1. PICK bad \in SUBSET DOMAIN run.page :
        /\ Faults(bad) /\ IsFiniteSet(bad)
        /\ \A i \in Items : ref'[i] = IF i \in DOMAIN run.page \ bad
                                      THEN [version |-> run.page[i], available |-> TRUE] ELSE ref[i]
        /\ Moved(IF run.more THEN "media" ELSE "history", run.dirty \/ bad # {})
        /\ SameScan /\ run'.seen = run.seen /\ run'.dirty = (run.dirty \/ bad # {}) /\ run'.start = NextStart
        /\ run'.pc = IF run.more THEN "media" ELSE IF run.full THEN "mark" ELSE "history"
  BY MediaSaved
<1> DEFINE dirty == run.dirty \/ bad # {}
<1>2. /\ clean'.catalog => clean.catalog /\ bad = {}
      /\ clean'.history => clean.history /\ clean'.catalog /\ bad = {}
      /\ dirty => ~clean'.catalog
  <2>1. (clean' = clean \/ clean' = Disturbed) /\ (bad # {} => clean' = Disturbed)
    BY <1>1, FaultsType
  <2>2. run.dirty => ~clean.catalog
    BY <1>r, <1>0 DEF RunInv, Active
  <2> QED
    BY <1>r, <2>1, <2>2, MarksWeaken
<1>3. /\ run'.pc = (IF run.more THEN "media" ELSE IF run.full THEN "mark" ELSE "history")
      /\ run'.start = (IF run.more THEN run.start + PageSize ELSE 0)
      /\ run'.dirty = dirty /\ run'.seen = run.seen /\ SameScan
      /\ cp'.stage = (IF run.more THEN "media" ELSE "history") /\ cp'.start = run'.start
      /\ cp'.wm = cp.wm /\ cp'.full = cp.full
      /\ writer'.scan = run.scan /\ writer'.since = run.since /\ writer'.dirty = dirty
  BY <1>1 DEF Moved, NextStart
<1>4. /\ Overlap < run.scan /\ run.scan <= clock /\ run.wm = cp.wm /\ run.wm < run.scan /\ run.since < run.scan
      /\ cp.full # Never => cp.full + Overlap <= run.scan
  BY <1>r, <1>0 DEF RunInv, Active
<1>5. L \in SUBSET (1 .. NumItems) /\ L = Listed(run.since)' /\ \A i \in L : i \in Items /\ Position(i, L) \in Nat
  <2>1. L \in SUBSET (1 .. NumItems) /\ L = Listed(run.since)'
    BY <1>0, <1>3 DEF Listed, Items, SameScan
  <2>2. \A i \in L : i \in Items
    BY DEF Listed
  <2> HIDE DEF L
  <2> QED
    BY <2>1, <2>2, PositionFacts
<1>6. /\ \A i \in L : Ahead(i) <=> run.more /\ Position(i, L) > run.start + PageSize
      /\ \A i \in L : Ahead(i)' <=> run.more /\ Position(i, L) > run.start + PageSize
      /\ \A i \in Items : InHand(i) <=> i \in DOMAIN run.page
      /\ \A i \in Items : ~InHand(i)'
  <2>1. L = Listed(run.since)'
    BY <1>5
  <2> QED
    BY <1>0, <1>3, <2>1 DEF Ahead, InHand
<1> HIDE DEF L, dirty
<1>p. \A i \in DOMAIN run.page :
         /\ run.page[i] > Never
         /\ (run.page[i] = server[i].at /\ server[i].here) \/ server[i].at >= run.scan
  BY <1>r, <1>0 DEF SeenInv
\* What is stored now is what the server has, or had when the scan began.
<1>7. ASSUME bad = {}, NEW i \in Items, server[i].at < run.scan, Current(i) \/ InHand(i)
      PROVE  Current(i)'
  <2>1. CASE i \in DOMAIN run.page
    <3>0. server[i].at \in Nat /\ run.scan \in Nat /\ server[i].at < run.scan
      BY <1>7
    <3>1. run.page[i] = server[i].at /\ server[i].here
      <4>1. ~(server[i].at >= run.scan)
        BY <3>0
      <4> QED
        BY <1>p, <2>1, <4>1, Zenon
    <3>2. ref'[i] = [version |-> run.page[i], available |-> TRUE]
      BY <1>1, <1>7, <2>1
    <3> QED
      BY <1>0, <3>1, <3>2 DEF Current
  <2>2. CASE i \notin DOMAIN run.page
    <3>1. ref'[i] = ref[i] /\ Current(i)
      BY <1>1, <1>6, <1>7, <2>2
    <3> QED
      BY <1>0, <3>1 DEF Current
  <2> QED
    BY <2>1, <2>2
<1>8. ASSUME ~dirty, NEW i \in L, server[i].at < run.scan, ~Ahead(i)'
      PROVE  i \in run.seen /\ Current(i)'
  <2>1. i \in run.seen /\ (Current(i) \/ InHand(i)) /\ bad = {}
    BY <1>r, <1>0, <1>6, <1>8 DEF ReadInv, Active, L, dirty
  <2> QED
    BY <1>5, <1>7, <1>8, <2>1
<1>a. TimeInv'
  BY <1>r, <1>0, <1>3, <1>4 DEF TimeInv
<1>b. RunInv'
  <2>1. run'.pc = "mark" => run'.start = 0 /\ run'.full
    BY <1>3 DEF SameScan
  <2> QED
    BY <1>r, <1>0, <1>2, <1>3, <2>1 DEF RunInv, Active, SameScan, dirty
<1>c. SeenInv'
  <2>1. Active' => \A i \in run'.seen : server'[i].here \/ server'[i].at >= run'.scan
    BY <1>r, <1>0, <1>3 DEF SeenInv, Active, SameScan
  <2>2. run'.pc = "history" => ~run'.full
    BY <1>3 DEF SameScan
  <2> QED
    BY <1>3, <2>1, <2>2 DEF SeenInv
<1>d. ReadInv'
  BY <1>0, <1>3, <1>5, <1>8 DEF ReadInv, SameScan
<1>e. KnownInv'
  <2>1. ASSUME clean'.history, NEW t \in Time, plays[t] # 0, plays[t] \notin gone, t < run.scan
        PROVE  ref'[plays[t]].version # Never \/ (plays[t] \in L /\ Ahead(plays[t])')
    <3>1. PICK i \in Items : i = plays[t]
      BY <2>1
    <3>2. ref[i].version # Never \/ (i \in L /\ Ahead(i)) \/ InHand(i)
      BY <1>r, <1>0, <1>2, <2>1, <3>1 DEF KnownInv, Active, L
    <3>3. ASSUME i \in DOMAIN run.page PROVE ref'[i].version # Never
      <4>1. run.page[i] > Never
        BY <1>p, <3>3
      <4>2. ref'[i] = [version |-> run.page[i], available |-> TRUE]
        BY <1>1, <1>2, <2>1, <3>3
      <4>3. ref'[i].version = run.page[i]
        BY <4>2
      <4> QED
        BY <4>1, <4>3
    <3>4. i \notin DOMAIN run.page => ref'[i] = ref[i]
      BY <1>1
    <3>5. ref'[i].version # Never \/ (i \in L /\ Ahead(i)')
      BY <1>6, <3>2, <3>3, <3>4
    <3> QED
      BY <1>0, <3>1, <3>5
  <2> QED
    BY <1>0, <1>2, <1>3, <1>5, <2>1 DEF KnownInv, SameScan
<1>f. PlaysInv'
  <2>1. ASSUME run'.pc = "history", NEW t \in Played(run.wm)' PROVE Due(t)'
    <3>1. P = Played(run.wm)' /\ P \in SUBSET (1 .. MaxTime) /\ t \in P /\ t \in Nat
      BY <1>0, <1>3, <2>1 DEF Played, Time, SameScan
    <3>2. Position(t, P) > 0
      BY <3>1, PositionFacts
    <3>3. run'.start = 0
      BY <1>3, <2>1
    <3> QED
      BY <2>1, <3>1, <3>2, <3>3 DEF Due
  <2> QED
    BY <1>3, <2>1 DEF PlaysInv
<1>g. WatermarkCovers'
  <2>1. ASSUME clean'.catalog, NEW i \in Items, server[i].here, server[i].at <= cp.wm PROVE Current(i)'
    <3>1. Current(i) /\ server[i].at < run.scan
      BY <1>r, <1>2, <1>4, <2>1 DEF WatermarkCovers
    <3> QED
      BY <1>2, <1>7, <2>1, <3>1
  <2> QED
    BY <1>0, <1>3, <2>1 DEF WatermarkCovers
<1>h. CursorCovers'
  <2>1. ASSUME ~dirty, NEW i \in L, server[i].at < run.scan, run.more => Position(i, L) <= run.start + PageSize
        PROVE  Current(i)'
    <3>1. ~Ahead(i)'
      BY <1>5, <1>6, <2>1
    <3> QED
      BY <1>8, <2>1, <3>1
  <2>2. Listed(writer.since)' = L
    BY <1>3, <1>5 DEF SameScan
  <2>3. run.more => cp'.stage = "media" /\ cp'.start = run.start + PageSize
    BY <1>3
  <2> QED
    BY <1>0, <1>3, <2>1, <2>2, <2>3 DEF CursorCovers
<1>i. HistoryCovers'
  BY <1>r, <1>0, <1>2, <1>3 DEF HistoryCovers
<1>j. RemovedRetire'
  <2>1. ASSUME clean'.catalog, cp.full # Never, NEW i \in Items, ~server[i].here, server[i].at < cp.full + Overlap
        PROVE  ~ref'[i].available
    <3>1. server[i].at < run.scan
      BY <1>4, <2>1
    <3>2. i \notin DOMAIN run.page
      BY <1>r, <1>0, <2>1, <3>1 DEF SeenInv
    <3>3. ~ref[i].available
      BY <1>r, <1>2, <2>1 DEF RemovedRetire
    <3> QED
      BY <1>1, <3>2, <3>3
  <2> QED
    BY <1>0, <1>3, <2>1 DEF RemovedRetire
<1> QED
  BY <1>a, <1>b, <1>c, <1>d, <1>e, <1>f, <1>g, <1>h, <1>i, <1>j DEF Rest

\* The marking takes from the catalog only what was gone before the scan began.
LEMMA MarkMissingKeeps ==
  ASSUME TypeOK, TypeOK', Rest, MarkMissing
  PROVE  Rest'
<1>n. TypeNumbers /\ TypeNumbers'
  BY Numbers, PTL
<1> USE <1>n, TimeNat DEF TypeNumbers
<1>r. TimeInv /\ RunInv /\ SeenInv /\ ReadInv /\ KnownInv /\ PlaysInv
      /\ WatermarkCovers /\ CursorCovers /\ HistoryCovers /\ RemovedRetire
  BY DEF Rest
<1>t. run \in RunRec(run.page) /\ ref \in [Items -> [version : AnyTime, available : BOOLEAN]]
  BY RunType
<1>0. run.pc = "mark" /\ UNCHANGED <<clock, server, gone, plays, events, cp, clean, writer>>
  BY DEF MarkMissing, outside
<1>1. /\ run'.pc = "history" /\ run'.start = run.start /\ run'.seen = run.seen /\ run'.dirty = run.dirty /\ SameScan
  <2>1. run' = [run EXCEPT !.pc = "history"]
    BY DEF MarkMissing
  <2> QED
    BY <1>t, <2>1 DEF RunRec, SameScan
<1>2. \A i \in Items : /\ ref'[i].version = ref[i].version
                       /\ i \in run.seen => ref'[i] = ref[i]
                       /\ i \notin run.seen => ~ref'[i].available
                       /\ ref'[i].available => ref[i].available
  <2>1. ref' = [i \in Items |-> IF i \in Missing THEN [ref[i] EXCEPT !.available = FALSE] ELSE ref[i]]
    BY DEF MarkMissing
  <2>2. ASSUME NEW i \in Items
        PROVE  /\ ref'[i].version = ref[i].version
               /\ i \in run.seen => ref'[i] = ref[i]
               /\ i \notin run.seen => ~ref'[i].available
               /\ ref'[i].available => ref[i].available
    <3>1. CASE i \in run.seen
      <4>1. ref'[i] = ref[i]
        BY <2>1, <3>1 DEF Missing
      <4> QED
        BY <3>1, <4>1
    <3>2. CASE i \notin run.seen
      <4>1. ref'[i] = [ref[i] EXCEPT !.available = FALSE] /\ ref[i] \in [version : AnyTime, available : BOOLEAN]
        BY <1>t, <2>1, <3>2 DEF Missing
      <4>2. ref'[i].version = ref[i].version /\ ref'[i].available = FALSE
        BY <4>1
      <4> QED
        BY <3>2, <4>2
    <3> QED
      BY <3>1, <3>2
  <2> QED
    BY <2>2
<1>3. /\ Overlap < run.scan /\ run.scan <= clock /\ run.wm = cp.wm /\ run.wm < run.scan
      /\ run.full /\ run.start = 0 /\ writer.scan = run.scan /\ (run.dirty => writer.dirty /\ ~clean.catalog)
      /\ run.periodic /\ run.since = Never
  BY <1>r, <1>0 DEF RunInv, Active
\* An undisturbed full scan has seen every item that was there before it began.
<1>4. ASSUME ~run.dirty, NEW i \in Items, server[i].here, server[i].at < run.scan
      PROVE  i \in run.seen /\ Current(i)
  <2>1. i \in Listed(run.since)
    BY <1>r, <1>3, <1>4 DEF Listed, TimeInv
  <2>2. ~Ahead(i) /\ ~InHand(i)
    BY <1>0 DEF Ahead, InHand
  <2> QED
    BY <1>r, <1>0, <1>4, <2>1, <2>2 DEF ReadInv, Active
<1>5. \A i \in Items : i \in run.seen /\ Current(i) => Current(i)'
  BY <1>0, <1>2 DEF Current
<1>a. TimeInv'
  BY <1>r, <1>0 DEF TimeInv
<1>b. RunInv'
  BY <1>r, <1>0, <1>1, <1>3 DEF RunInv, Active, SameScan
<1>c. SeenInv'
  <2>1. \A i \in run.seen : server[i].here \/ server[i].at >= run.scan
    BY <1>r, <1>0 DEF SeenInv, Active
  <2>2. ASSUME NEW i \in Items, ~server[i].here, server[i].at < run.scan PROVE ~ref'[i].available
    <3>1. i \notin run.seen
      BY <2>1, <2>2
    <3> QED
      BY <1>2, <3>1
  <2> QED
    BY <1>0, <1>1, <2>1, <2>2 DEF SeenInv, SameScan
<1>d. ReadInv'
  <2>1. ASSUME ~run'.dirty, NEW i \in Listed(run.since)', server'[i].at < run'.scan
        PROVE  i \in run'.seen /\ Current(i)'
    <3>1. i \in Items /\ server[i].here /\ server[i].at < run.scan /\ ~run.dirty
      BY <1>0, <1>1, <2>1 DEF Listed, SameScan
    <3> QED
      BY <1>1, <1>4, <1>5, <3>1
  <2> QED
    BY <2>1 DEF ReadInv
<1>e. KnownInv'
  <2>1. ASSUME clean.history, NEW t \in Time, plays[t] # 0, plays[t] \notin gone, t < run.scan
        PROVE  ref'[plays[t]].version # Never
    <3>1. ~Ahead(plays[t]) /\ ~InHand(plays[t]) /\ plays[t] \in Items
      BY <1>0, <2>1 DEF Ahead, InHand
    <3>2. ref[plays[t]].version # Never
      BY <1>r, <1>0, <2>1, <3>1 DEF KnownInv, Active
    <3> QED
      BY <1>2, <3>1, <3>2
  <2>2. clean'.history => clean'.catalog
    BY <1>r, <1>0 DEF KnownInv
  <2> QED
    BY <1>0, <1>1, <2>1, <2>2 DEF KnownInv, SameScan
<1>f. PlaysInv'
  <2>1. ASSUME NEW t \in Played(run.wm)' PROVE Due(t)'
    <3>1. Played(run.wm)' \in SUBSET (1 .. MaxTime) /\ t \in Nat
      BY <1>0, <2>1 DEF Played, Time
    <3>2. Position(t, Played(run.wm)') > 0
      BY <2>1, <3>1, PositionFacts
    <3> QED
      BY <1>1, <1>3, <3>2 DEF Due
  <2> QED
    BY <2>1 DEF PlaysInv
<1>g. WatermarkCovers'
  <2>1. ASSUME clean.catalog, NEW i \in Items, server[i].here, server[i].at <= cp.wm PROVE Current(i)'
    <3>1. ~run.dirty /\ server[i].at < run.scan
      BY <1>3, <2>1
    <3> QED
      BY <1>4, <1>5, <2>1, <3>1
  <2> QED
    BY <1>0, <2>1 DEF WatermarkCovers
<1>h. CursorCovers'
  <2>1. ASSUME ~writer.dirty, NEW i \in Listed(writer.since), server[i].at < writer.scan PROVE Current(i)'
    <3>1. ~run.dirty /\ i \in Items /\ server[i].here /\ server[i].at < run.scan
      BY <1>3, <2>1 DEF Listed
    <3> QED
      BY <1>4, <1>5, <3>1
  <2>2. Listed(writer.since)' = Listed(writer.since)
    BY <1>0 DEF Listed
  <2> QED
    BY <1>0, <2>1, <2>2 DEF CursorCovers
<1>i. HistoryCovers' /\ RemovedRetire'
  BY <1>r, <1>0, <1>2 DEF HistoryCovers, RemovedRetire
<1> QED
  BY <1>a, <1>b, <1>c, <1>d, <1>e, <1>f, <1>g, <1>h, <1>i DEF Rest

\* A page of plays is fetched: what it holds leaves the listing ahead for the hand.
LEMMA FetchHistoryKeeps ==
  ASSUME TypeOK, TypeOK', Rest, FetchHistory
  PROVE  Rest'
<1>n. TypeNumbers /\ TypeNumbers'
  BY Numbers, PTL
<1> USE <1>n, TimeNat DEF TypeNumbers
<1>r. TimeInv /\ RunInv /\ SeenInv /\ ReadInv /\ KnownInv /\ PlaysInv
      /\ WatermarkCovers /\ CursorCovers /\ HistoryCovers /\ RemovedRetire
  BY DEF Rest
<1> DEFINE P == Played(run.wm)
           page == PageOf(P, run.start)
<1>0. run.pc = "history" /\ UNCHANGED <<clock, server, gone, plays, ref, events, cp, writer>>
  BY HistoryFetched DEF outside
<1>1. PICK bad \in SUBSET page :
        /\ Faults(bad) /\ IsFiniteSet(bad)
        /\ \/ run' = Idle
           \/ /\ bad # {} /\ run' \in RunRec(run'.page) /\ PageType(run') /\ SameScan
              /\ run'.pc = "history" /\ run'.dirty /\ run'.seen = run.seen
           \/ /\ run' \in RunRec(run'.page) /\ PageType(run') /\ SameScan
              /\ run'.pc = "store" /\ run'.start = run.start
              /\ run'.more = (Cardinality(page) = PageSize)
              /\ run'.dirty = (run.dirty \/ bad # {}) /\ run'.seen = run.seen
              /\ DOMAIN run'.page = page \ bad
              /\ \A x \in page \ bad : run'.page[x] = plays[x]
  BY HistoryFetched
<1>2. (clean' = clean \/ clean' = Disturbed) /\ (bad # {} => clean' = Disturbed)
  BY <1>1, FaultsType
<1>3. CASE run' = Idle
  BY <1>0, <1>2, <1>3, StopKeeps
<1>4. CASE run' # Idle
  <2> DEFINE more == Cardinality(page) = PageSize
  <2>1. /\ SameScan /\ run'.pc \in {"history", "store"} /\ run'.seen = run.seen
        /\ run'.dirty \in BOOLEAN /\ (run'.dirty => run.dirty \/ bad # {}) /\ (run.dirty => run'.dirty)
        /\ run'.pc = "history" => bad # {}
        /\ run'.pc = "store" => /\ run'.start = run.start /\ run'.more = more /\ DOMAIN run'.page = page \ bad
                                /\ \A x \in page \ bad : run'.page[x] = plays[x]
    BY <1>1, <1>4
  <2>2. /\ clean'.catalog => clean.catalog
        /\ clean'.history => clean.history /\ clean'.catalog /\ bad = {}
        /\ bad # {} => ~clean'.catalog /\ ~clean'.history
    BY <1>r, <1>2, MarksWeaken
  <2>3. P \in SUBSET (1 .. MaxTime) /\ P = Played(run.wm)'
    BY <1>0, <2>1 DEF Played, Time, SameScan
  <2>4. \A t \in P : Position(t, P) > run.start /\ t \notin page => Position(t, P) > run.start + PageSize /\ more
    <3>1. MaxTime \in Nat /\ run.start \in Nat
      OBVIOUS
    <3> HIDE <1>n, TimeNat DEF P, TypeNumbers
    <3>2. \A t \in P : Position(t, P) > run.start /\ t \notin PageOf(P, run.start)
                        => Position(t, P) > run.start + PageSize /\ Cardinality(PageOf(P, run.start)) = PageSize
      BY <2>3, <3>1, PageWindow
    <3> QED
      BY <3>2
  <2>5. \A i \in Items : ~Ahead(i) /\ ~InHand(i) /\ ~Ahead(i)' /\ ~InHand(i)'
    BY <1>0, <2>1 DEF Ahead, InHand
  <2> HIDE DEF P, page, more
  <2>a. TimeInv'
    BY <1>r, <1>0 DEF TimeInv
  <2>b. RunInv'
    BY <1>r, <1>0, <2>1, <2>2 DEF RunInv, Active, SameScan
  <2>c. SeenInv'
    BY <1>r, <1>0, <2>1 DEF SeenInv, Active, SameScan
  <2>d. ReadInv'
    <3>1. Listed(run.since)' = Listed(run.since) /\ \A i \in Listed(run.since) : i \in Items
      BY <1>0, <2>1 DEF Listed, SameScan
    <3>2. \A i \in Items : Current(i)' <=> Current(i)
      BY <1>0 DEF Current
    <3> QED
      BY <1>r, <1>0, <2>1, <2>5, <3>1, <3>2 DEF ReadInv, Active, SameScan
  <2>e. KnownInv'
    BY <1>r, <1>0, <2>1, <2>2, <2>5 DEF KnownInv, Active, SameScan
  <2>f. PlaysInv'
    <3>1. ASSUME clean'.history, NEW t \in P, plays[t] \notin gone, t < run.scan
          PROVE  t \in events \/ Due(t)'
      <4>1. clean.history /\ bad = {} /\ run'.pc = "store"
        BY <2>1, <2>2, <3>1
      <4>2. t \in events \/ Position(t, P) > run.start
        BY <1>r, <1>0, <3>1, <4>1 DEF PlaysInv, Due, P
      <4>3. Position(t, P) > run.start => t \in DOMAIN run'.page \/ (run'.more /\ Position(t, P) > run'.start + PageSize)
        BY <2>1, <2>4, <3>1, <4>1
      <4> QED
        BY <2>3, <4>1, <4>2, <4>3 DEF Due
    <3> QED
      BY <1>0, <2>1, <2>3, <3>1 DEF PlaysInv, SameScan
  <2>g. WatermarkCovers' /\ CursorCovers' /\ HistoryCovers' /\ RemovedRetire'
    BY <1>r, <1>0, <2>2 DEF WatermarkCovers, CursorCovers, HistoryCovers, RemovedRetire, Current, Listed, Position
  <2> QED
    BY <2>a, <2>b, <2>c, <2>d, <2>e, <2>f, <2>g DEF Rest
<1> QED
  BY <1>3, <1>4

\* A page of plays is stored with the cursor behind it: the plays in hand become events.
LEMMA StoreHistoryKeeps ==
  ASSUME TypeOK, TypeOK', Rest, StoreHistory
  PROVE  Rest'
<1>n. TypeNumbers /\ TypeNumbers'
  BY Numbers, PTL
<1> USE <1>n, TimeNat DEF TypeNumbers
<1>r. TimeInv /\ RunInv /\ SeenInv /\ ReadInv /\ KnownInv /\ PlaysInv
      /\ WatermarkCovers /\ CursorCovers /\ HistoryCovers /\ RemovedRetire
  BY DEF Rest
<1> DEFINE P == Played(run.wm)
           L == Listed(run.since)
<1>0. run.pc = "store" /\ UNCHANGED <<clock, server, gone, plays, ref>>
  BY HistoryStored DEF outside
<1>1. PICK bad \in SUBSET DOMAIN run.page :
        /\ Faults(bad) /\ IsFiniteSet(bad)
        /\ events' = events \cup ({t \in DOMAIN run.page : ref[run.page[t]].version # Never} \ bad)
        /\ Moved(IF run.more THEN "history" ELSE "none", run.dirty \/ bad # {})
        /\ SameScan /\ run'.dirty = (run.dirty \/ bad # {}) /\ run'.start = NextStart /\ run'.seen = run.seen
        /\ run'.pc = IF run.more THEN "history" ELSE "complete"
  BY HistoryStored
<1> DEFINE dirty == run.dirty \/ bad # {}
<1>2. /\ clean'.catalog => clean.catalog /\ bad = {}
      /\ clean'.history => clean.history /\ clean'.catalog /\ bad = {}
      /\ dirty => ~clean'.catalog
  <2>1. (clean' = clean \/ clean' = Disturbed) /\ (bad # {} => clean' = Disturbed)
    BY <1>1, FaultsType
  <2>2. run.dirty => ~clean.catalog
    BY <1>r, <1>0 DEF RunInv, Active
  <2> QED
    BY <1>r, <2>1, <2>2, MarksWeaken
<1>3. /\ run'.pc = (IF run.more THEN "history" ELSE "complete")
      /\ run'.start = (IF run.more THEN run.start + PageSize ELSE 0)
      /\ run'.dirty = dirty /\ run'.seen = run.seen /\ SameScan
      /\ cp'.stage = (IF run.more THEN "history" ELSE "none") /\ cp'.start = run'.start
      /\ cp'.wm = cp.wm /\ cp'.full = cp.full
      /\ writer'.scan = run.scan /\ writer'.since = run.since /\ writer'.dirty = dirty
      /\ events \subseteq events'
  BY <1>1 DEF Moved, NextStart
<1>4. /\ run.scan <= clock /\ run.wm = cp.wm /\ run.since < run.scan
  BY <1>r, <1>0 DEF RunInv, Active
<1>5. /\ P = Played(run.wm)' /\ \A t \in P : t \in Time
      /\ L = Listed(run.since)' /\ \A i \in L : i \in Items
  BY <1>0, <1>3 DEF Played, Listed, SameScan
<1>6. \A i \in Items : ~Ahead(i) /\ ~InHand(i) /\ ~Ahead(i)' /\ ~InHand(i)' /\ (Current(i)' <=> Current(i))
  BY <1>0, <1>3 DEF Ahead, InHand, Current
<1> HIDE DEF P, L, dirty
\* What the run has stored from the listing is there.
<1>7. ASSUME ~dirty, NEW i \in L, server[i].at < run.scan
      PROVE  i \in run.seen /\ Current(i)
  <2>1. ~run.dirty
    BY <1>7 DEF dirty
  <2> QED
    BY <1>r, <1>0, <1>5, <1>6, <1>7, <2>1 DEF ReadInv, Active, L
\* The items of the page are known when nothing was disturbed.
<1>8. ASSUME clean'.history, NEW t \in DOMAIN run.page, plays[t] \notin gone, t < run.scan
      PROVE  t \in events'
  <2>1. t \in Time /\ run.page[t] \in Items /\ run.page[t] = plays[t] /\ plays[t] # 0
    <3>1. t \in Time /\ run.page[t] \in Items /\ run.page[t] = plays[t]
      BY <1>r, <1>0, RunType DEF PageType, SeenInv
    <3> QED
      BY <3>1 DEF Items
  <2>2. ref[plays[t]].version # Never
    BY <1>r, <1>0, <1>2, <1>6, <1>8, <2>1 DEF KnownInv, Active
  <2> QED
    BY <1>1, <1>2, <1>8, <2>1, <2>2
<1>a. TimeInv'
  BY <1>r, <1>0, <1>3, <1>4 DEF TimeInv
<1>b. RunInv'
  <2>1. run'.pc # "mark"
    BY <1>3
  <2> QED
    BY <1>r, <1>0, <1>2, <1>3, <2>1 DEF RunInv, Active, SameScan, dirty
<1>c. SeenInv'
  BY <1>r, <1>0, <1>3 DEF SeenInv, Active, SameScan
<1>d. ReadInv'
  BY <1>0, <1>3, <1>5, <1>6, <1>7 DEF ReadInv, SameScan
<1>e. KnownInv'
  <2>1. ASSUME clean'.history, NEW t \in Time, plays[t] # 0, plays[t] \notin gone, t < run.scan
        PROVE  ref[plays[t]].version # Never
    BY <1>r, <1>0, <1>2, <1>6, <2>1 DEF KnownInv, Active
  <2> QED
    BY <1>0, <1>2, <1>3, <2>1 DEF KnownInv, SameScan
<1>f. PlaysInv'
  <2>1. ASSUME clean'.history, NEW t \in P, plays[t] \notin gone, t < run.scan
        PROVE  t \in events' \/ Due(t)'
    <3>1. t \in events \/ t \in DOMAIN run.page \/ (run.more /\ Position(t, P) > run.start + PageSize)
      BY <1>r, <1>0, <1>2, <2>1 DEF PlaysInv, Due, P
    <3>2. CASE t \in events
      BY <1>3, <3>2
    <3>3. CASE t \in DOMAIN run.page
      BY <1>8, <2>1, <3>3
    <3>4. CASE run.more /\ Position(t, P) > run.start + PageSize
      BY <1>3, <1>5, <3>4 DEF Due
    <3> QED
      BY <3>1, <3>2, <3>3, <3>4
  <2> QED
    BY <1>0, <1>3, <1>5, <2>1 DEF PlaysInv, SameScan
<1>g. WatermarkCovers' /\ HistoryCovers' /\ RemovedRetire'
  BY <1>r, <1>0, <1>2, <1>3 DEF WatermarkCovers, HistoryCovers, RemovedRetire, Current
<1>h. CursorCovers'
  <2>1. Listed(writer.since)' = L
    BY <1>3, <1>5 DEF SameScan
  <2> QED
    BY <1>0, <1>3, <1>5, <1>6, <1>7, <2>1 DEF CursorCovers
<1> QED
  BY <1>a, <1>b, <1>c, <1>d, <1>e, <1>f, <1>g, <1>h DEF Rest

\* The run is over: what it has read lets the watermark move to its beginning.
LEMMA CompleteKeeps ==
  ASSUME TypeOK, TypeOK', Rest, Complete
  PROVE  Rest'
<1>n. TypeNumbers /\ TypeNumbers'
  BY Numbers, PTL
<1> USE <1>n, TimeNat DEF TypeNumbers
<1>r. TimeInv /\ RunInv /\ SeenInv /\ ReadInv /\ KnownInv /\ PlaysInv
      /\ WatermarkCovers /\ CursorCovers /\ HistoryCovers /\ RemovedRetire
  BY DEF Rest
<1>0. run.pc = "complete" /\ UNCHANGED <<clock, server, gone, plays, ref, events, writer>> /\ run' = Idle
  BY DEF Complete, outside
<1>1. run'.pc = "idle" /\ ~Active'
  BY <1>0, IdleType DEF Active
<1>2. /\ Overlap < run.scan /\ run.scan <= clock /\ run.wm = cp.wm
      /\ run.since = (IF run.periodic THEN Never ELSE cp.wm)
      /\ run.full => run.periodic
      /\ run.periodic /\ ~run.dirty => run.full
      /\ run.dirty => ~clean.catalog
  BY <1>r, <1>0 DEF RunInv, Active
<1>3. /\ cp'.stage = "none" /\ cp'.start = 0 /\ cp'.wm = run.scan - Overlap
      /\ cp'.full = IF run.periodic THEN run.scan - Overlap ELSE cp.full
  BY DEF Complete, Watermark
<1>4. /\ clean'.catalog => clean.catalog \/ (run.full /\ ~run.dirty)
      /\ clean.catalog => clean'.catalog
      /\ clean'.history = clean.history
  <2>1. clean' = [clean EXCEPT !.catalog = clean.catalog \/ (run.full /\ ~run.dirty)]
    BY DEF Complete
  <2>2. clean \in [catalog : BOOLEAN, history : BOOLEAN]
    BY RunType
  <2> QED
    BY <2>1, <2>2
<1>5. clean'.catalog => ~run.dirty /\ (run.periodic => run.full) /\ (~run.periodic => clean.catalog)
  BY <1>2, <1>4
<1>6. \A i \in Items : ~Ahead(i) /\ ~InHand(i) /\ (Current(i)' <=> Current(i))
  BY <1>0 DEF Ahead, InHand, Current
<1>a. TimeInv'
  <2>1. cp'.wm < clock /\ (cp'.full # Never => cp'.full + Overlap <= clock)
    BY <1>r, <1>2, <1>3 DEF TimeInv
  <2> QED
    BY <1>r, <1>0, <1>3, <2>1 DEF TimeInv
<1>b. RunInv' /\ ReadInv'
  BY <1>1 DEF RunInv, ReadInv
<1>c. SeenInv' /\ PlaysInv'
  BY <1>1 DEF SeenInv, PlaysInv
<1>e. KnownInv'
  BY <1>r, <1>1, <1>4 DEF KnownInv
<1>g. WatermarkCovers'
  <2>1. ASSUME clean'.catalog, NEW i \in Items, server[i].here, server[i].at <= run.scan - Overlap
        PROVE  Current(i)
    <3>1. server[i].at > Never /\ server[i].at < run.scan
      BY <1>r, <1>2, <2>1 DEF TimeInv
    <3>2. CASE server[i].at > run.since
      <4>1. i \in Listed(run.since)
        BY <2>1, <3>2 DEF Listed
      <4> QED
        BY <1>r, <1>0, <1>5, <1>6, <2>1, <3>1, <4>1 DEF ReadInv, Active
    <3>3. CASE server[i].at <= run.since
      BY <1>r, <1>2, <1>5, <2>1, <3>1, <3>3 DEF WatermarkCovers
    <3> QED
      BY <3>2, <3>3
  <2> QED
    BY <1>0, <1>3, <1>6, <2>1 DEF WatermarkCovers
<1>h. CursorCovers'
  BY <1>3 DEF CursorCovers
<1>i. HistoryCovers'
  <2>1. ASSUME clean.history, NEW t \in Time, t <= run.scan - Overlap, plays[t] # 0, plays[t] \notin gone
        PROVE  t \in events
    <3>1. t < run.scan
      BY <2>1
    <3>2. CASE t > run.wm
      <4>1. t \in Played(run.wm)
        BY <2>1, <3>2 DEF Played
      <4>2. ~Due(t)
        BY <1>0 DEF Due
      <4> QED
        BY <1>r, <1>0, <2>1, <3>1, <4>1, <4>2 DEF PlaysInv
    <3>3. CASE t <= run.wm
      BY <1>r, <1>2, <2>1, <3>3 DEF HistoryCovers
    <3> QED
      BY <3>2, <3>3
  <2> QED
    BY <1>0, <1>3, <1>4, <2>1 DEF HistoryCovers
<1>j. RemovedRetire'
  <2>1. CASE run.periodic
    <3>1. ASSUME clean'.catalog, NEW i \in Items, ~server[i].here, server[i].at < run.scan PROVE ~ref[i].available
      BY <1>r, <1>0, <1>5, <2>1, <3>1 DEF SeenInv
    <3>2. cp'.full + Overlap = run.scan
      BY <1>2, <1>3, <2>1
    <3> QED
      BY <1>0, <3>1, <3>2 DEF RemovedRetire
  <2>2. CASE ~run.periodic
    BY <1>r, <1>0, <1>3, <1>5, <2>2 DEF RemovedRetire
  <2> QED
    BY <2>1, <2>2
<1> QED
  BY <1>a, <1>b, <1>c, <1>e, <1>g, <1>h, <1>i, <1>j DEF Rest

-------------------------------------------------------------------------------
(* The theorems.                                                                 *)

\* The invariant, apart from the types.
LEMMA RestIsInv == Inv <=> TypeOK /\ Rest
  BY DEF Inv, Rest

\* A library that was never synchronized satisfies the invariant.
LEMMA InitInv == Init => Inv
<1> SUFFICES ASSUME Init PROVE Inv
  OBVIOUS
<1> USE TimeNat
<1>1. Overlap + 1 \in Time
  BY DEF Time
<1>2. TypeOK
  <2>1. /\ run = Idle /\ Idle \in RunRec(run.page) /\ PageType(run)
    BY IdleType DEF Init
  <2>2. cp \in [stage : {"none", "media", "history"}, start : Nat, wm : AnyTime, full : AnyTime]
    BY DEF Init, NoCheckpoint
  <2>3. /\ edits \in 0..MaxEdits /\ removals \in 0..MaxRemovals
        /\ ends \in 0..MaxEnds /\ faults \in 0..MaxFaults
    BY LibraryAssumption DEF Init
  <2>4. /\ server \in [Items -> [here : BOOLEAN, at : AnyTime]]
        /\ ref \in [Items -> [version : AnyTime, available : BOOLEAN]]
        /\ plays \in [Time -> {0} \cup Items]
        /\ writer \in [scan : AnyTime, since : AnyTime, dirty : BOOLEAN]
        /\ clean \in [catalog : BOOLEAN, history : BOOLEAN]
        /\ gone \subseteq Items /\ events \subseteq Time
    BY DEF Init
  <2>5. clock \in Time
    BY <1>1 DEF Init
  <2> QED
    BY <2>1, <2>2, <2>3, <2>4, <2>5, RunType
<1>3. /\ clock = Overlap + 1 /\ run.pc = "idle" /\ cp.stage = "none" /\ cp.start = 0 /\ cp.wm = Never /\ cp.full = Never
      /\ clean.history /\ clean.catalog
      /\ \A i \in Items : ~server[i].here /\ server[i].at = Never
      /\ \A t \in Time : plays[t] = 0
  BY IdleType DEF Init
<1>4. TimeInv
  BY <1>3 DEF TimeInv
<1>5. RunInv /\ SeenInv /\ ReadInv /\ KnownInv /\ PlaysInv
  BY <1>3 DEF RunInv, SeenInv, ReadInv, KnownInv, PlaysInv, Active
<1>6. WatermarkCovers /\ CursorCovers /\ HistoryCovers /\ RemovedRetire
  BY <1>3 DEF WatermarkCovers, CursorCovers, HistoryCovers, RemovedRetire
<1> QED
  BY <1>2, <1>4, <1>5, <1>6 DEF Inv

\* One step of the server, its users or a run.
LEMMA NextInv == Inv /\ [Next]_vars => Inv'
<1> SUFFICES ASSUME TypeOK, Rest, [Next]_vars PROVE TypeOK' /\ Rest'
  BY RestIsInv, PTL
<1>1. CASE UNCHANGED vars
  <2>1. TypeOK'
    BY <1>1 DEF vars, TypeOK
  <2>2. Rest'
    BY <1>1 DEF vars, Rest, TimeInv, RunInv, SeenInv, ReadInv, KnownInv, PlaysInv, WatermarkCovers, CursorCovers,
                HistoryCovers, RemovedRetire, Active, Ahead, InHand, Due, Current, Listed, Played, Position
  <2> QED
    BY <2>1, <2>2
<1>2. Complete => Overlap <= run.scan
  <2>1. Complete => Overlap < run.scan /\ run.scan \in Nat
    BY Numbers DEF Complete, Rest, RunInv, Active, TypeNumbers
  <2> QED
    BY <2>1, TimeNat
<1>3. CASE Tick \/ \E i \in Items : Edit(i) \/ Play(i)
  <2>1. TypeOK'
    BY <1>2, <1>3, OutsideType
  <2> QED
    BY <1>3, <2>1, GrowthKeeps
<1>4. CASE \E i \in Items : Remove(i)
  <2>1. TypeOK'
    BY <1>2, <1>4, OutsideType
  <2> QED
    BY <1>4, <2>1, RemovalKeeps
<1>5. CASE Begin
  <2>1. TypeOK'
    BY <1>2, <1>5, OutsideType
  <2> QED
    BY <1>5, <2>1, BeginKeeps
<1>6. CASE FetchMedia \/ SaveMedia \/ FetchHistory \/ StoreHistory
  <2>1. TypeOK'
    BY <1>6, PagesType
  <2> QED
    BY <1>6, <2>1, FetchMediaKeeps, SaveMediaKeeps, FetchHistoryKeeps, StoreHistoryKeeps
<1>7. CASE MarkMissing
  <2>1. TypeOK'
    BY <1>2, <1>7, OutsideType
  <2> QED
    BY <1>7, <2>1, MarkMissingKeeps
<1>8. CASE Complete
  <2>1. TypeOK'
    BY <1>2, <1>8, OutsideType
  <2> QED
    BY <1>8, <2>1, CompleteKeeps
<1>9. CASE EndEarly
  <2>1. TypeOK'
    BY <1>2, <1>9, OutsideType
  <2>2. run' = Idle /\ UNCHANGED <<clock, server, gone, plays, ref, events, cp, clean, writer>>
    BY <1>9 DEF EndEarly, outside
  <2> QED
    BY <2>1, <2>2, StopKeeps
<1> QED
  BY <1>1, <1>3, <1>4, <1>5, <1>6, <1>7, <1>8, <1>9 DEF Next

\* The invariant of the synchronization.
LEMMA Invariant == Spec => []Inv
  BY InitInv, NextInv, PTL DEF Spec

\* The state is well typed; in particular the cursor is absent or names one of the two
\* stages that _resume_position accepts.
THEOREM TypeCorrect == Spec => []TypeOK
<1>1. Inv => TypeOK
  BY DEF Inv
<1> QED
  BY <1>1, Invariant, PTL

\* _complete_checkpoint: the watermark, Overlap before the scan began, hides nothing
\* from the incremental scans to come that the catalog does not hold as it is.
THEOREM WatermarkHolds == Spec => []WatermarkCovers
<1>1. Inv => WatermarkCovers
  BY DEF Inv
<1> QED
  BY <1>1, Invariant, PTL

\* _set_checkpoint in the transaction of the page: what lies before the cursor is stored,
\* wherever the run that wrote it was cut off.
THEOREM CursorHolds == Spec => []CursorCovers
<1>1. Inv => CursorCovers
  BY DEF Inv
<1> QED
  BY <1>1, Invariant, PTL

\* The media stage comes before the history stage: every play older than the watermark
\* finds its item known and is in the history.
THEOREM HistoryHolds == Spec => []HistoryCovers
<1>1. Inv => HistoryCovers
  BY DEF Inv
<1> QED
  BY <1>1, Invariant, PTL

\* _mark_missing_unavailable: what was gone before the last full scan began is not
\* available.
THEOREM RemovedAreRetired == Spec => []RemovedRetire
<1>1. Inv => RemovedRetire
  BY DEF Inv
<1> QED
  BY <1>1, Invariant, PTL
===============================================================================
