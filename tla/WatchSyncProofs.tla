---------------------------- MODULE WatchSyncProofs ----------------------------
(* Theorems about WatchSync for any libraries, identifiers, files, batches and   *)
(* bounds: type correctness, what the catalog records is true, a completion is   *)
(* neither lost nor sent again without a fault, the propagation implements the   *)
(* promise of WatchPromise, and its checkpoints lose no completion that is due.  *)
EXTENDS WatchSync, WellFoundedInduction, TLAPS

-------------------------------------------------------------------------------
(* What a scan decides.                                                          *)

\* The largest of some resume positions is one of them.
LEMMA MaxPosition ==
  ASSUME NEW S \in SUBSET (0 .. MaxPos), S # {}
  PROVE  Max(S) \in S
<1> DEFINE Bounds == {n \in Nat : \A y \in S : y <= n}
<1>1. MaxPos \in Bounds
  BY BoundsAssumption
<1>2. PICK n \in Bounds : \A m \in Bounds : n <= m
  <2> HIDE DEF Bounds
  <2>1. Bounds \in SUBSET Nat
    BY DEF Bounds
  <2> QED
    <3>1. PICK n \in Bounds : \A m \in Bounds : ~(<<m, n>> \in OpToRel(<, Nat))
      BY <1>1, <2>1, WFMin, NatLessThanWellFounded, Zenon
    <3>2. \A m \in Bounds : ~(m < n)
      BY <2>1, <3>1, Zenon DEF OpToRel
    <3> QED
      BY <2>1, <3>2
<1>3. n \in S
  <2>1. SUFFICES ASSUME n \notin S PROVE FALSE
    OBVIOUS
  <2>2. \A y \in S : y \in Nat /\ y < n
    BY <1>2, <2>1
  <2>3. n \in Nat /\ n > 0
    <3>1. PICK y \in S : TRUE
      OBVIOUS
    <3> QED
      BY <1>2, <2>2, <3>1
  <2>4. n - 1 \in Bounds
    BY <2>2, <2>3
  <2> QED
    BY <1>2, <2>3, <2>4
<1>4. \A y \in S : n >= y
  BY <1>2
<1> QED
  BY <1>3, <1>4 DEF Max

\* Two servers, each the other's other.
LEMMA OtherServer ==
  ASSUME NEW s \in Servers
  PROVE  Other(s) \in Servers /\ Other(s) # s
  BY DEF Other, Servers

\* The groups of a scan are made of rows of entries it lists.
LEMMA GroupRows ==
  ASSUME NEW scope, NEW G \in Groups(scope)
  PROVE  G # {} /\ G \subseteq {ItemOf[r] : r \in Listed(scope)}
  BY DEF Groups

\* The groups of a scan are disjoint.
LEMMA GroupsDisjoint ==
  ASSUME NEW scope, NEW G \in Groups(scope), NEW H \in Groups(scope), G \cap H # {}
  PROVE  G = H
<1> DEFINE rows == {ItemOf[r] : r \in Listed(scope)}
           K == G \cap H
<1>1. /\ Closed(G, rows) /\ \A S \in SUBSET G : S # {} /\ Closed(S, rows) => S = G
      /\ Closed(H, rows) /\ \A S \in SUBSET H : S # {} /\ Closed(S, rows) => S = H
  BY DEF Groups
<1>2. Closed(K, rows)
  BY <1>1 DEF Closed
<1>3. K \in SUBSET G /\ K \in SUBSET H /\ K # {}
  OBVIOUS
<1> HIDE DEF K, rows
<1> QED
  BY <1>1, <1>2, <1>3

\* What a scan offers to a group on one of its servers.
Offer(d, G, t) ==
  LET completions == {u \in IF d = "both" THEN Servers ELSE {Other(d)} : CompletionDue(G, u)}
  IN  [to |-> t, refs |-> Entries(G, t), done |-> t \in completions,
       pos |-> IF t \in completions THEN 0 ELSE Position(G, Other(t))]

\* A candidate of a scan is what it offers to one group.
LEMMA CandidateGroup ==
  ASSUME NEW d \in Directions, NEW scope, NEW c \in Candidates(d, scope)
  PROVE  /\ c.to \in Servers
         /\ \E G \in Groups(scope) : c = Offer(d, G, c.to) /\ Entries(G, c.to) # {}
<1>1. PICK G \in Groups(scope) : (\A s \in Servers : Entries(G, s) # {}) /\ c \in Decided(d, G)
  BY Zenon DEF Candidates
<1>2. (IF d = "both" THEN Servers ELSE {Other(d)}) \subseteq Servers
  BY OtherServer DEF Directions
<1>3. \E t \in Servers : c = Offer(d, G, t)
  BY <1>1, <1>2 DEF Decided, Offer
<1>4. PICK t \in Servers : c = Offer(d, G, t)
  BY <1>3
<1>5. c.to = t
  BY <1>4 DEF Offer
<1> QED
  BY <1>1, <1>4, <1>5

\* Its targets are entries of the server it is for, on the rows of the group.
LEMMA OfferParts ==
  ASSUME NEW d \in Directions, NEW scope, NEW G \in Groups(scope), NEW t \in Servers
  PROVE  /\ Offer(d, G, t).to = t
         /\ Offer(d, G, t).refs = Entries(G, t)
         /\ Offer(d, G, t).done => CompletionDue(G, t)
         /\ \A r \in Offer(d, G, t).refs : ServerOf[r] = t /\ ItemOf[r] \in G
  BY DEF Offer, Entries

\* Two candidates of a scan for the same server, with a row in common, are one.
LEMMA CandidatesDistinct ==
  ASSUME NEW d \in Directions, NEW scope, NEW c \in Candidates(d, scope), NEW e \in Candidates(d, scope),
         c.to = e.to, NEW q \in c.refs, NEW r \in e.refs, ItemOf[q] = ItemOf[r]
  PROVE  c = e
<1>1. c.to \in Servers
  BY CandidateGroup
<1>2. PICK G \in Groups(scope) : c = Offer(d, G, c.to)
  BY CandidateGroup
<1>3. PICK H \in Groups(scope) : e = Offer(d, H, e.to)
  BY CandidateGroup
<1>4. ItemOf[q] \in G /\ ItemOf[r] \in H
  BY <1>1, <1>2, <1>3, OfferParts
<1>5. G = H
  BY <1>4, GroupsDisjoint
<1> QED
  BY <1>2, <1>3, <1>5

\* Candidates are candidates, for rows that are well typed.
LEMMA CandidateType ==
  ASSUME TypeOK, NEW d \in Directions, NEW scope
  PROVE  Candidates(d, scope) \subseteq Candidate
<1>1. SUFFICES ASSUME NEW c \in Candidates(d, scope) PROVE c \in Candidate
  OBVIOUS
<1>2. c.to \in Servers
  BY CandidateGroup
<1>3. PICK G \in Groups(scope) : c = Offer(d, G, c.to)
  BY CandidateGroup
<1>4. G # {} /\ G \subseteq Items
  BY GroupRows DEF Listed, Items, TypeOK
<1>5. Entries(G, c.to) \subseteq Refs
  BY DEF Entries, TypeOK
<1>6. ASSUME NEW s \in Servers PROVE Position(G, s) \in 0 .. MaxPos
  <2> DEFINE S == {IF local[i][s].done THEN 0 ELSE local[i][s].pos : i \in G}
  <2>1. S \in SUBSET (0 .. MaxPos)
    BY <1>4, BoundsAssumption DEF TypeOK
  <2>2. S # {}
    BY <1>4
  <2>3. Position(G, s) = Max(S)
    BY DEF Position
  <2> HIDE DEF S
  <2> QED
    BY <2>1, <2>2, <2>3, MaxPosition
<1>7. Position(G, Other(c.to)) \in 0 .. MaxPos
  BY <1>2, <1>6, OtherServer
<1> DEFINE due == c.to \in {u \in IF d = "both" THEN Servers ELSE {Other(d)} : CompletionDue(G, u)}
<1>8. c = [to |-> c.to, refs |-> Entries(G, c.to), done |-> due,
           pos |-> IF due THEN 0 ELSE Position(G, Other(c.to))]
  BY <1>3 DEF Offer
<1>9. due \in BOOLEAN
  OBVIOUS
<1>10. (IF due THEN 0 ELSE Position(G, Other(c.to))) \in 0 .. MaxPos
  BY <1>7, BoundsAssumption
<1> HIDE DEF Position, due
<1> QED
  BY <1>2, <1>5, <1>8, <1>9, <1>10 DEF Candidate

-------------------------------------------------------------------------------
(* Types, and what a run holds.                                                  *)

Run == [pc : {"idle", "pick", "call"}, dir : Directions, full : BOOLEAN,
        since : SUBSET Items, late : BOOLEAN, cands : SUBSET Candidate,
        cur : Candidate \cup {NoCandidate}, left : SUBSET Refs, hits : BOOLEAN,
        won : SUBSET Candidate, failed : BOOLEAN, old : SUBSET Servers]

\* The candidates a run has not forgotten.
Held == run.cands \cup run.won \cup (IF run.pc = "call" THEN {run.cur} ELSE {})

\* No run holds nothing; a call is for a target of its candidate, whose targets are
\* entries of its server; and a title has one candidate for a server, in one place.
RunInv ==
  /\ run.pc = "idle" => run = Idle
  /\ run.pc = "call" => run.cur \in Candidate /\ run.left \subseteq run.cur.refs
  /\ \A c \in Held : \A r \in c.refs : ServerOf[r] = c.to
  /\ \A c, e \in Held :
       c.to = e.to /\ (\E q \in c.refs, r \in e.refs : ItemOf[q] = ItemOf[r]) => c = e
  /\ run.cands \cap run.won = {}
  /\ run.pc = "call" => run.cur \notin run.cands \cup run.won

Base == TypeOK /\ RunInv

\* Between two runs nothing is held.
LEMMA IdleRun ==
  /\ Idle \in Run
  /\ Idle.pc = "idle" /\ Idle.cands = {} /\ Idle.won = {} /\ Idle.hits = FALSE
<1>1. Idle.pc = "idle" /\ Idle.cands = {} /\ Idle.won = {} /\ Idle.hits = FALSE
  BY DEF Idle
<1>2. Idle \in Run
  BY DEF Idle, Run, Directions
<1> QED
  BY <1>1, <1>2

\* Rows written while a run is under way only widen what the next scan looks at.
LEMMA SinceOnly ==
  ASSUME Base, NEW rows \in SUBSET Items, NEW late \in BOOLEAN,
         \/ run' = run
         \/ run.pc # "idle" /\ run' = [run EXCEPT !.since = @ \cup rows]
         \/ run.pc # "idle" /\ run' = [run EXCEPT !.late = late]
         \/ \E s \in Servers : run.pc # "idle" /\ run' = [run EXCEPT !.old = @ \cup {s}, !.since = @ \cup rows]
  PROVE  /\ run' \in Run /\ RunInv'
         /\ run'.pc = run.pc /\ run'.dir = run.dir /\ run'.cands = run.cands /\ run'.cur = run.cur
         /\ run'.left = run.left /\ run'.hits = run.hits /\ run'.won = run.won
         /\ run.old \subseteq run'.old
<1>1. run \in Run
  BY DEF Base, TypeOK, Run
<1>2. /\ run' \in Run
      /\ run'.pc = run.pc /\ run'.dir = run.dir /\ run'.cands = run.cands /\ run'.cur = run.cur
      /\ run'.left = run.left /\ run'.hits = run.hits /\ run'.won = run.won
      /\ run.old \subseteq run'.old
      /\ run.pc = "idle" => run' = run
  <2>1. CASE run' = run
    BY <1>1, <2>1
  <2>2. CASE run.pc # "idle" /\ run' = [run EXCEPT !.since = @ \cup rows]
    <3>1. run.since \cup rows \in SUBSET Items
      BY <1>1 DEF Run
    <3> QED
      BY <1>1, <2>2, <3>1 DEF Run
  <2>3. CASE run.pc # "idle" /\ run' = [run EXCEPT !.late = late]
    BY <1>1, <2>3 DEF Run
  <2>4. ASSUME NEW s \in Servers, run.pc # "idle", run' = [run EXCEPT !.old = @ \cup {s}, !.since = @ \cup rows]
        PROVE  run' \in Run /\ run'.pc = run.pc /\ run'.dir = run.dir /\ run'.cands = run.cands
               /\ run'.cur = run.cur /\ run'.left = run.left /\ run'.hits = run.hits /\ run'.won = run.won
               /\ run.old \subseteq run'.old
    <3>1. run.since \cup rows \in SUBSET Items /\ run.old \cup {s} \in SUBSET Servers
      BY <1>1 DEF Run
    <3> QED
      BY <1>1, <2>4, <3>1 DEF Run
  <2> QED
    BY <2>1, <2>2, <2>3, <2>4
<1>3. Held' = Held
  BY <1>2 DEF Held
<1>4. RunInv'
  BY <1>2, <1>3 DEF RunInv, Base
<1> QED
  BY <1>2, <1>4

\* What Wrote does to the run and to the checkpoints.
LEMMA WroteType ==
  ASSUME Base, NEW rows \in SUBSET Items, NEW s \in Servers, NEW all \in BOOLEAN, Wrote(rows, s, all)
  PROVE  /\ run' \in Run /\ RunInv' /\ fresh' \in [Directions -> SUBSET Items]
         /\ run'.pc = run.pc /\ run'.dir = run.dir /\ run'.cands = run.cands /\ run'.cur = run.cur
         /\ run'.left = run.left /\ run'.hits = run.hits /\ run'.won = run.won
         /\ run.old \subseteq run'.old
<1>1. run' = run \/ (run.pc # "idle" /\ run' = [run EXCEPT !.since = @ \cup rows])
  BY DEF Wrote
<1>2. fresh' \in [Directions -> SUBSET Items]
  BY DEF Wrote, Base, TypeOK
<1> QED
  BY <1>1, <1>2, SinceOnly

\* The writers, and the servers that change, leave what a run holds alone.
LEMMA WritersKeepBase ==
  ASSUME Base,
         \/ \E r \in Refs : UserPlays(r) \/ Vanish(r) \/ ImportBegin(r)
         \/ \E r \in Refs, all \in BOOLEAN : Observe(r, all)
         \/ ImportCommit
         \/ \E s \in Servers : Replace(s)
  PROVE  /\ Base'
         /\ run'.pc = run.pc /\ run'.dir = run.dir /\ run'.cands = run.cands /\ run'.cur = run.cur
         /\ run'.left = run.left /\ run'.hits = run.hits /\ run'.won = run.won
         /\ run.old \subseteq run'.old
<1> USE DEF world, book, history
<1> DEFINE Kept == /\ run' \in Run /\ RunInv'
                   /\ run'.pc = run.pc /\ run'.dir = run.dir /\ run'.cands = run.cands /\ run'.cur = run.cur
                   /\ run'.left = run.left /\ run'.hits = run.hits /\ run'.won = run.won
                   /\ run.old \subseteq run'.old
<1>t. TypeOK
  BY DEF Base
<1>i. \A r \in Refs : ItemOf[r] \in Items /\ ServerOf[r] \in Servers
  BY CatalogAssumption DEF Items, Servers
<1>1. ASSUME NEW r \in Refs, UserPlays(r) \/ Vanish(r) \/ ImportBegin(r) PROVE Base' /\ Kept
  <2>1. UNCHANGED run
    BY <1>1 DEF UserPlays, Vanish, ImportBegin
  <2>2. Kept
    BY <2>1, SinceOnly
  <2>3. UNCHANGED <<avail, local, evented, fresh, marked, pending, blind, mixed, sent>>
    BY <1>1 DEF UserPlays, Vanish, ImportBegin
  <2>4. remote' \in [Refs -> [done : BOOLEAN, pos : 0 .. MaxPos]]
    BY <1>1, <1>t DEF UserPlays, Vanish, ImportBegin, TypeOK
  <2>5. gone' \subseteq Refs /\ finished' \subseteq Items /\ known' \subseteq Items \X Servers /\ import' \subseteq Items
    BY <1>1, <1>t, <1>i DEF UserPlays, Vanish, ImportBegin, TypeOK
  <2>6. TypeOK'
    BY <1>t, <2>2, <2>3, <2>4, <2>5 DEF TypeOK, Run
  <2> QED
    BY <2>2, <2>6 DEF Base
<1>2. ASSUME NEW r \in Refs, NEW all \in BOOLEAN, Observe(r, all) PROVE Base' /\ Kept
  <2> DEFINE i == ItemOf[r]
             s == ServerOf[r]
  <2>1. i \in Items /\ s \in Servers
    BY <1>i
  <2>2. Wrote({i}, s, all)
    BY <1>2 DEF Observe
  <2>3. Kept /\ fresh' \in [Directions -> SUBSET Items]
    BY <2>1, <2>2, WroteType
  <2>4. Collected(r, local[i][s]) \in [row : BOOLEAN, done : BOOLEAN, pos : 0 .. MaxPos]
    BY <1>t, <2>1 DEF Collected, TypeOK
  <2>5. local' = [local EXCEPT ![i][s] = Collected(r, local[i][s])]
    BY <1>2 DEF Observe
  <2>6. local' \in [Items -> [Servers -> [row : BOOLEAN, done : BOOLEAN, pos : 0 .. MaxPos]]]
    <3> HIDE DEF i, s
    <3> QED
      BY <1>t, <2>1, <2>4, <2>5 DEF TypeOK
  <2>7. evented' \subseteq Items \X Servers /\ avail' \subseteq Refs
    BY <1>2, <1>t, <2>1 DEF Observe, TypeOK
  <2>8. UNCHANGED <<remote, gone, marked, pending, import, finished, known, blind, sent, mixed>>
    BY <1>2 DEF Observe
  <2>9. TypeOK'
    BY <1>t, <2>3, <2>6, <2>7, <2>8 DEF TypeOK, Run
  <2> QED
    BY <2>3, <2>9 DEF Base
<1>3. ASSUME ImportCommit PROVE Base' /\ Kept
  <2>1. \/ run' = run
        \/ run.pc # "idle" /\ run' = [run EXCEPT !.since = @ \cup import]
        \/ run.pc # "idle" /\ run' = [run EXCEPT !.late = FALSE]
    <3>1. run.pc = "idle" => run.late = FALSE
      BY DEF Base, RunInv, Idle
    <3>2. run.pc = "idle" => [run EXCEPT !.late = FALSE] = run
      BY <1>t, <3>1 DEF TypeOK
    <3> QED
      BY <1>3, <3>2 DEF ImportCommit
  <2>2. import \in SUBSET Items /\ FALSE \in BOOLEAN
    BY <1>t DEF TypeOK
  <2>3. Kept
    BY <2>1, <2>2, SinceOnly
  <2>4. local' \in [Items -> [Servers -> [row : BOOLEAN, done : BOOLEAN, pos : 0 .. MaxPos]]]
    <3>1. ASSUME NEW i \in Items
          PROVE  (IF i \notin import THEN local[i] ELSE
                    [local[i] EXCEPT !["plex"] = [row |-> TRUE, done |-> TRUE, pos |-> local[i]["plex"].pos]])
                 \in [Servers -> [row : BOOLEAN, done : BOOLEAN, pos : 0 .. MaxPos]]
      <4>1. local[i] \in [Servers -> [row : BOOLEAN, done : BOOLEAN, pos : 0 .. MaxPos]]
        BY <1>t DEF TypeOK
      <4>2. [row |-> TRUE, done |-> TRUE, pos |-> local[i]["plex"].pos] \in [row : BOOLEAN, done : BOOLEAN, pos : 0 .. MaxPos]
        BY <4>1 DEF Servers
      <4> QED
        BY <4>1, <4>2
    <3> QED
      BY <1>3, <3>1 DEF ImportCommit
  <2>5. fresh' \in [Directions -> SUBSET Items]
    BY <1>3, <1>t DEF ImportCommit, TypeOK
  <2>6. /\ evented' \subseteq Items \X Servers /\ known' \subseteq Items \X Servers
        /\ finished' \subseteq Items /\ blind' \subseteq Items /\ import' \subseteq Items /\ pending' \in BOOLEAN
    BY <1>3, <1>t DEF ImportCommit, TypeOK, Servers
  <2>7. UNCHANGED <<remote, gone, avail, marked, sent, mixed>>
    BY <1>3 DEF ImportCommit
  <2>8. TypeOK'
    BY <1>t, <2>3, <2>4, <2>5, <2>6, <2>7 DEF TypeOK, Run
  <2> QED
    BY <2>3, <2>8 DEF Base
<1>4. ASSUME NEW s \in Servers, Replace(s) PROVE Base' /\ Kept
  <2> DEFINE retired == {r \in Refs : ServerOf[r] = s}
             rows == {ItemOf[r] : r \in retired}
  <2>1. rows \in SUBSET Items
    BY <1>i
  <2>2. run' = run \/ (run.pc # "idle" /\ run' = [run EXCEPT !.old = @ \cup {s}, !.since = @ \cup rows])
    BY <1>4 DEF Replace
  <2>3. Kept
    BY <2>1, <2>2, SinceOnly
  <2>4. remote' \in [Refs -> [done : BOOLEAN, pos : 0 .. MaxPos]]
    <3>1. remote' = [r \in Refs |-> IF r \in retired THEN Blank ELSE remote[r]]
      BY <1>4 DEF Replace
    <3>2. Blank \in [done : BOOLEAN, pos : 0 .. MaxPos]
      BY BoundsAssumption DEF Blank
    <3> HIDE DEF retired
    <3> QED
      BY <1>t, <3>1, <3>2 DEF TypeOK
  <2>5. local' \in [Items -> [Servers -> [row : BOOLEAN, done : BOOLEAN, pos : 0 .. MaxPos]]]
    <3>1. NoRow \in [row : BOOLEAN, done : BOOLEAN, pos : 0 .. MaxPos]
      BY BoundsAssumption DEF NoRow
    <3>2. local' = [i \in Items |-> [local[i] EXCEPT ![s] = NoRow]]
      BY <1>4 DEF Replace
    <3> QED
      BY <1>t, <3>1, <3>2 DEF TypeOK
  <2>6. sent' \in [Refs -> 0 .. MaxEvents + 2]
    <3>1. sent' = [r \in Refs |-> IF r \in retired THEN 0 ELSE sent[r]]
      BY <1>4 DEF Replace
    <3>2. 0 \in 0 .. MaxEvents + 2
      BY BoundsAssumption
    <3> HIDE DEF retired
    <3> QED
      BY <1>t, <3>1, <3>2 DEF TypeOK
  <2>7. /\ gone' \subseteq Refs /\ avail' \subseteq Refs /\ known' \subseteq Items \X Servers
        /\ marked' \subseteq Directions /\ fresh' \in [Directions -> SUBSET Items]
    BY <1>4, <1>t DEF Replace, TypeOK
  <2>8. UNCHANGED <<evented, pending, import, finished, blind, mixed>>
    BY <1>4 DEF Replace
  <2>9. TypeOK'
    BY <1>t, <2>3, <2>4, <2>5, <2>6, <2>7, <2>8 DEF TypeOK, Run
  <2> QED
    BY <2>3, <2>9 DEF Base
<1> QED
  BY <1>1, <1>2, <1>3, <1>4

\* The smaller of two numbers.
LEMMA MinOfTwo ==
  ASSUME NEW a \in Nat, NEW b \in Nat
  PROVE  Min({a, b}) \in Nat /\ Min({a, b}) <= a /\ Min({a, b}) <= b /\ Min({a, b}) \in {a, b}
<1>1. \E x \in {a, b} : \A y \in {a, b} : x =< y
  <2>1. CASE a <= b
    BY <2>1
  <2>2. CASE b <= a
    BY <2>2
  <2> QED
    BY <2>1, <2>2
<1>2. Min({a, b}) \in {a, b} /\ \A y \in {a, b} : Min({a, b}) =< y
  BY <1>1 DEF Min
<1> QED
  BY <1>2

\* The scan of a new run.
LEMMA StartKeepsBase ==
  ASSUME Base, NEW d \in Directions, NEW full \in BOOLEAN, Start(d, full)
  PROVE  Base'
<1> DEFINE C == Candidates(d, IF full THEN Items ELSE Scope(d))
           late == import # {}
<1> USE DEF world, book, history
<1>1. run' = [Idle EXCEPT !.pc = "pick", !.dir = d, !.full = full, !.late = late, !.cands = C]
  BY DEF Start
<1>2. C \subseteq Candidate
  BY CandidateType DEF Base
<1>3. \A c \in C : \A r \in c.refs : ServerOf[r] = c.to
  <2>1. ASSUME NEW c \in C, NEW r \in c.refs PROVE ServerOf[r] = c.to
    <3>1. c.to \in Servers
      BY CandidateGroup
    <3>2. \E scope : \E G \in Groups(scope) : c = Offer(d, G, c.to)
      BY CandidateGroup
    <3> QED
      BY <3>1, <3>2, OfferParts
  <2> QED
    BY <2>1
<1>4. \A c, e \in C : c.to = e.to /\ (\E q \in c.refs, r \in e.refs : ItemOf[q] = ItemOf[r]) => c = e
  BY CandidatesDistinct
<1> HIDE DEF C, late
<1>5. run' \in Run
  <2>1. late \in BOOLEAN
    BY DEF late
  <2> QED
    BY <1>1, <1>2, <2>1, IdleRun DEF Run
<1>6. run'.pc = "pick" /\ run'.cands = C /\ run'.won = {}
  BY <1>1, IdleRun DEF Run
<1>7. Held' = C
  BY <1>6 DEF Held
<1>8. RunInv'
  BY <1>3, <1>4, <1>6, <1>7 DEF RunInv
<1>9. TypeOK'
  BY <1>5 DEF Base, TypeOK, Start, Run
<1> QED
  BY <1>8, <1>9 DEF Base

\* A batch of successes: what it writes, it writes for one of them.
LEMMA RecordRows ==
  ASSUME Base, Record
  PROVE  /\ \A i \in Items, s \in Servers :
              \/ /\ local'[i][s] = local[i][s]
                 /\ ~\E c \in run.won : c.to = s /\ i \in RowsOf(c)
              \/ \E c \in run.won : /\ c.to = s /\ i \in RowsOf(c)
                                    /\ local'[i][s] = Recorded(c, local[i][s])
         /\ local' \in [Items -> [Servers -> [row : BOOLEAN, done : BOOLEAN, pos : 0 .. MaxPos]]]
<1> DEFINE ownOf(i, s) == {c \in run.won : c.to = s /\ i \in RowsOf(c)}
           W(i, s) == IF ownOf(i, s) = {} THEN local[i][s]
                      ELSE Recorded(CHOOSE c \in ownOf(i, s) : TRUE, local[i][s])
<1>1. local' = [i \in Items |-> [s \in Servers |-> W(i, s)]]
  BY DEF Record
<1>2. ASSUME NEW i \in Items, NEW s \in Servers
      PROVE  \/ W(i, s) = local[i][s] /\ ownOf(i, s) = {}
             \/ \E c \in ownOf(i, s) : W(i, s) = Recorded(c, local[i][s])
  <2> HIDE DEF ownOf
  <2> QED
    OBVIOUS
<1>3. ASSUME NEW i \in Items, NEW s \in Servers
      PROVE  W(i, s) \in [row : BOOLEAN, done : BOOLEAN, pos : 0 .. MaxPos]
  <2>1. local[i][s] \in [row : BOOLEAN, done : BOOLEAN, pos : 0 .. MaxPos]
    BY DEF Base, TypeOK
  <2>2. ASSUME NEW c \in ownOf(i, s)
        PROVE  Recorded(c, local[i][s]) \in [row : BOOLEAN, done : BOOLEAN, pos : 0 .. MaxPos]
    <3>1. c \in Candidate
      BY DEF Base, TypeOK
    <3> QED
      BY <2>1, <3>1 DEF Recorded, Candidate
  <2> HIDE DEF W, ownOf
  <2> QED
    BY <1>2, <2>1, <2>2
<1>4. \A i \in Items, s \in Servers : local'[i][s] = W(i, s)
  BY <1>1
<1>5. local' \in [Items -> [Servers -> [row : BOOLEAN, done : BOOLEAN, pos : 0 .. MaxPos]]]
  <2> HIDE DEF W
  <2> QED
    BY <1>1, <1>3
<1>6. ASSUME NEW i \in Items, NEW s \in Servers
      PROVE  \/ /\ local'[i][s] = local[i][s]
                /\ ~\E c \in run.won : c.to = s /\ i \in RowsOf(c)
             \/ \E c \in run.won : /\ c.to = s /\ i \in RowsOf(c)
                                   /\ local'[i][s] = Recorded(c, local[i][s])
  <2>1. \A c \in run.won : c \in ownOf(i, s) <=> c.to = s /\ i \in RowsOf(c)
    OBVIOUS
  <2>2. ownOf(i, s) \subseteq run.won
    OBVIOUS
  <2> HIDE DEF W, ownOf
  <2> QED
    BY <1>2, <1>4, <2>1, <2>2
<1> QED
  BY <1>5, <1>6

\* The run after a batch was recorded.
LEMMA RecordRun ==
  ASSUME Base, Record
  PROVE  /\ run' \in Run /\ run.pc = "pick" /\ run'.pc = "pick" /\ run'.won = {}
         /\ run'.cands = run.cands /\ run'.old = run.old
         /\ fresh' \in [Directions -> SUBSET Items]
         /\ mixed' = mixed \cup ({c.to : c \in run.won} \cap run.old)
         /\ UNCHANGED <<remote, gone, avail, evented, marked, pending, import, finished, known, blind,
                        plays, sent, faults>>
<1> DEFINE rows(d) == UNION {RowsOf(c) : c \in {x \in run.won : d \in {"both", x.to}}}
<1>t. TypeOK /\ run \in Run
  BY DEF Base, TypeOK, Run
<1>1. \A c \in run.won : RowsOf(c) \subseteq Items
  <2>1. \A c \in run.won : c.refs \subseteq Refs
    BY <1>t DEF Run, Candidate
  <2> QED
    BY <2>1 DEF RowsOf, Items
<1>2. \A d \in Directions : rows(d) \in SUBSET Items
  BY <1>1
<1>3. /\ run.pc = "pick"
      /\ run' = [run EXCEPT !.won = {}, !.since = @ \cup rows(run.dir)]
      /\ fresh' = [d \in Directions |-> IF d \in marked THEN fresh[d] \cup rows(d) ELSE {}]
  BY DEF Record
<1> HIDE DEF rows
<1>4. run.since \cup rows(run.dir) \in SUBSET Items /\ {} \in SUBSET Candidate
  BY <1>t, <1>2 DEF Run
<1>5. run' \in Run /\ run'.pc = "pick" /\ run'.won = {} /\ run'.cands = run.cands /\ run'.old = run.old
  BY <1>t, <1>3, <1>4 DEF Run
<1>6. fresh' \in [Directions -> SUBSET Items]
  BY <1>t, <1>2, <1>3 DEF TypeOK
<1> QED
  BY <1>3, <1>5, <1>6 DEF Record, history

\* The calls of a run, its successes and its end.
LEMMA RunKeepsBase ==
  ASSUME Base,
         \/ \E c \in run.cands : Pick(c)
         \/ \E r \in run.left : CallAnswered(r) \/ CallNotFound(r)
         \/ Tried \/ Record \/ Finish \/ CallFails \/ Stops
  PROVE  Base'
<1> USE DEF world, book, history
<1>t. TypeOK /\ RunInv /\ run \in Run
  BY DEF Base, TypeOK, Run
<1>i. \A r \in Refs : ItemOf[r] \in Items /\ ServerOf[r] \in Servers
  BY CatalogAssumption DEF Items, Servers
<1>1. ASSUME NEW c \in run.cands, Pick(c) PROVE Base'
  <2>1. /\ c \in Candidate /\ c.refs \in SUBSET Refs
        /\ run' = [run EXCEPT !.pc = "call", !.cur = c, !.left = c.refs, !.hits = FALSE,
                             !.cands = run.cands \ {c}]
        /\ run.pc = "pick"
    BY <1>1, <1>t DEF Pick, Rest, Run, Candidate
  <2>2. run' \in Run
    BY <1>t, <2>1 DEF Run
  <2>3. /\ run'.pc = "call" /\ run'.cur = c /\ run'.left = c.refs /\ run'.won = run.won
        /\ run'.cands = run.cands \ {c}
    BY <1>t, <2>1 DEF Run
  <2>4. Held' = Held /\ c \notin run.won
    BY <1>1, <1>t, <2>1, <2>3 DEF Held, RunInv
  <2>5. RunInv'
    BY <1>t, <2>1, <2>3, <2>4 DEF RunInv
  <2>6. TypeOK'
    BY <1>1, <1>t, <2>2 DEF Pick, TypeOK, Run
  <2> QED
    BY <2>5, <2>6 DEF Base
<1>2. ASSUME NEW r \in run.left, CallAnswered(r) PROVE Base'
  <2>1. r \in Refs /\ run.pc = "call" /\ run' = [run EXCEPT !.left = run.left \ {r}, !.hits = TRUE]
    BY <1>2, <1>t DEF CallAnswered, Run
  <2>2. run' \in Run
    BY <1>t, <2>1 DEF Run
  <2>3. /\ run'.pc = run.pc /\ run'.cur = run.cur /\ run'.left \subseteq run.left
        /\ run'.won = run.won /\ run'.cands = run.cands
    BY <1>t, <2>1 DEF Run
  <2>4. Held' = Held
    BY <2>3 DEF Held
  <2>5. RunInv'
    BY <1>t, <2>1, <2>3, <2>4 DEF RunInv
  <2>6. remote' \in [Refs -> [done : BOOLEAN, pos : 0 .. MaxPos]]
    <3>1. run.cur \in Candidate
      BY <1>t, <2>1 DEF RunInv
    <3>2. Written(r) \in [done : BOOLEAN, pos : 0 .. MaxPos]
      <4>1. remote[r].done \in BOOLEAN
        BY <1>t, <2>1 DEF TypeOK
      <4>2. run.cur.pos \in 0 .. MaxPos /\ 0 \in 0 .. MaxPos
        BY <3>1, BoundsAssumption DEF Candidate
      <4> QED
        BY <4>1, <4>2 DEF Written
    <3> QED
      BY <1>2, <1>t, <2>1, <3>2 DEF CallAnswered, TypeOK
  <2>7. sent' \in [Refs -> 0 .. MaxEvents + 2]
    <3>1. sent[r] + 1 \in Nat /\ MaxEvents + 2 \in Nat
      BY <1>t, <2>1, BoundsAssumption DEF TypeOK
    <3>2. Min({sent[r] + 1, MaxEvents + 2}) \in 0 .. MaxEvents + 2
      BY <3>1, MinOfTwo
    <3>3. sent' = sent \/ sent' = [sent EXCEPT ![r] = Min({sent[r] + 1, MaxEvents + 2})]
      BY <1>2 DEF CallAnswered
    <3> QED
      BY <1>t, <2>1, <3>2, <3>3 DEF TypeOK
  <2>8. TypeOK'
    BY <1>2, <1>t, <2>2, <2>6, <2>7 DEF CallAnswered, TypeOK, Run
  <2> QED
    BY <2>5, <2>8 DEF Base
<1>3. ASSUME NEW r \in run.left, CallNotFound(r) PROVE Base'
  <2>1. /\ r \in Refs /\ ItemOf[r] \in Items /\ run.pc = "call"
        /\ run' = [run EXCEPT !.left = run.left \ {r}, !.since = run.since \cup {ItemOf[r]}]
    BY <1>3, <1>t, <1>i DEF CallNotFound, Run
  <2>2. run.since \cup {ItemOf[r]} \in SUBSET Items /\ run.left \ {r} \in SUBSET Refs
    BY <1>t, <2>1 DEF Run
  <2>3. run' \in Run
    BY <1>t, <2>1, <2>2 DEF Run
  <2>4. /\ run'.pc = run.pc /\ run'.cur = run.cur /\ run'.left \subseteq run.left
        /\ run'.won = run.won /\ run'.cands = run.cands
    BY <1>t, <2>1 DEF Run
  <2>5. Held' = Held
    BY <2>4 DEF Held
  <2>6. RunInv'
    BY <1>t, <2>1, <2>4, <2>5 DEF RunInv
  <2>7. fresh' \in [Directions -> SUBSET Items] /\ avail' \subseteq Refs
    BY <1>3, <1>t, <2>1 DEF CallNotFound, TypeOK
  <2>8. TypeOK'
    BY <1>3, <1>t, <2>3, <2>7 DEF CallNotFound, TypeOK, Run
  <2> QED
    BY <2>6, <2>8 DEF Base
<1>4. ASSUME Tried \/ CallFails PROVE Base'
  <2>1. run.pc = "call" /\ run.cur \in Candidate
    BY <1>4, <1>t DEF Tried, CallFails, RunInv
  <2>2. \/ run' = [run EXCEPT !.pc = "pick", !.won = run.won \cup {run.cur}]
        \/ run' = [run EXCEPT !.pc = "pick", !.failed = TRUE]
        \/ run' = [run EXCEPT !.pc = "pick", !.left = {}, !.failed = TRUE]
    BY <1>4 DEF Tried, CallFails
  <2>3. run.won \cup {run.cur} \in SUBSET Candidate /\ {} \in SUBSET Refs
    BY <1>t, <2>1 DEF Run
  <2>4. run' \in Run /\ run'.pc = "pick" /\ run'.cands = run.cands
        /\ run'.won \subseteq run.won \cup {run.cur}
    <3>1. CASE run' = [run EXCEPT !.pc = "pick", !.won = run.won \cup {run.cur}]
      BY <1>t, <2>3, <3>1 DEF Run
    <3>2. CASE run' = [run EXCEPT !.pc = "pick", !.failed = TRUE]
      BY <1>t, <3>2 DEF Run
    <3>3. CASE run' = [run EXCEPT !.pc = "pick", !.left = {}, !.failed = TRUE]
      BY <1>t, <2>3, <3>3 DEF Run
    <3> QED
      BY <2>2, <3>1, <3>2, <3>3
  <2>5. Held' \subseteq Held
    BY <2>1, <2>4 DEF Held
  <2>6. RunInv'
    BY <1>t, <2>1, <2>4, <2>5 DEF RunInv
  <2>7. TypeOK'
    BY <1>4, <1>t, <2>4 DEF Tried, CallFails, TypeOK, Run
  <2> QED
    BY <2>6, <2>7 DEF Base
<1>5. ASSUME Finish \/ Stops PROVE Base'
  <2>1. run' = Idle
    BY <1>5 DEF Finish, Stops
  <2>2. Held' = {}
    BY <2>1, IdleRun DEF Held
  <2>3. RunInv'
    BY <2>1, <2>2, IdleRun DEF RunInv
  <2>4. pending' \in BOOLEAN /\ marked' \subseteq Directions /\ fresh' \in [Directions -> SUBSET Items]
    BY <1>5, <1>t DEF Finish, Stops, StillPending, Checkpoint, TypeOK, Run
  <2>5. TypeOK'
    BY <1>5, <1>t, <2>1, <2>4, IdleRun DEF Finish, Stops, TypeOK, Run
  <2> QED
    BY <2>3, <2>5 DEF Base
<1>6. ASSUME Record PROVE Base'
  <2>1. Held' \subseteq Held
    BY <1>6, RecordRun DEF Held
  <2>2. RunInv'
    BY <1>6, <1>t, <2>1, RecordRun DEF RunInv
  <2>3. mixed' \subseteq Servers
    BY <1>6, <1>t, RecordRun DEF TypeOK, Run, Candidate
  <2>4. TypeOK'
    BY <1>6, <1>t, <2>3, RecordRun, RecordRows DEF TypeOK, Run
  <2> QED
    BY <2>2, <2>4 DEF Base
<1> QED
  BY <1>1, <1>2, <1>3, <1>4, <1>5, <1>6

\* A run starts from nothing.
LEMMA InitBase ==
  ASSUME Init
  PROVE  Base
<1>1. RunInv
  BY IdleRun DEF Init, RunInv, Held
<1>2. Blank \in [done : BOOLEAN, pos : 0 .. MaxPos] /\ NoRow \in [row : BOOLEAN, done : BOOLEAN, pos : 0 .. MaxPos]
      /\ 0 \in 0 .. MaxEvents + 2
  BY BoundsAssumption DEF Blank, NoRow
<1>3. TypeOK
  BY <1>2, IdleRun DEF Init, TypeOK, Run
<1> QED
  BY <1>1, <1>3 DEF Base

\* Every step keeps the types and what a run holds.
LEMMA NextBase ==
  ASSUME Base, [Next]_vars
  PROVE  Base'
<1>1. CASE UNCHANGED vars
  BY <1>1 DEF vars, Base, TypeOK, RunInv, Held, Candidate
<1>2. CASE Next
  BY <1>2, WritersKeepBase, StartKeepsBase, RunKeepsBase DEF Next, RunSteps
<1> QED
  BY <1>1, <1>2

\* Base holds in every reachable state.
LEMMA BaseInvariant == Spec => []Base
<1>1. Init => Base
  BY InitBase
<1>2. Base /\ [Next]_vars => Base'
  BY NextBase
<1> QED
  BY <1>1, <1>2, PTL DEF Spec

\* Every reachable state of the propagation is well typed (watch_sync.py).
THEOREM TypeCorrect == Spec => []TypeOK
<1>1. Base => TypeOK
  BY DEF Base
<1> QED
  BY <1>1, BaseInvariant, PTL

-------------------------------------------------------------------------------
(* Completions the catalog records.                                              *)

\* A row that a collector, an import or a batch writes is done if it was: only the
\* replacement of its server takes it away.
LEMMA DoneStays ==
  ASSUME Base, [Next]_vars, NEW i \in Items, NEW s \in Servers, local[i][s].done
  PROVE  local'[i][s].done \/ (Replace(s) /\ ~local'[i][s].row)
<1> USE DEF world, book, history
<1>t. /\ local \in [Items -> [Servers -> [row : BOOLEAN, done : BOOLEAN, pos : 0 .. MaxPos]]]
      /\ \A r \in Refs : ItemOf[r] \in Items /\ ServerOf[r] \in Servers
  BY CatalogAssumption DEF Base, TypeOK, Items, Servers
<1>1. CASE UNCHANGED local
  BY <1>1
<1>2. ASSUME NEW r \in Refs, NEW all \in BOOLEAN, Observe(r, all) PROVE local'[i][s].done
  <2> DEFINE j == ItemOf[r]
             u == ServerOf[r]
  <2>1. local' = [local EXCEPT ![j][u] = Collected(r, local[j][u])] /\ j \in Items /\ u \in Servers
    BY <1>2, <1>t DEF Observe
  <2>2. local[j][u].done => Collected(r, local[j][u]).done
    BY DEF Collected
  <2> HIDE DEF j, u
  <2> QED
    BY <1>t, <2>1, <2>2
<1>3. ASSUME ImportCommit PROVE local'[i][s].done
  <2>1. local'[i] = IF i \notin import THEN local[i] ELSE
                      [local[i] EXCEPT !["plex"] = [row |-> TRUE, done |-> TRUE, pos |-> local[i]["plex"].pos]]
    BY <1>3 DEF ImportCommit
  <2> QED
    BY <1>t, <2>1
<1>4. ASSUME NEW u \in Servers, Replace(u) PROVE local'[i][s].done \/ (Replace(s) /\ ~local'[i][s].row)
  <2>1. local'[i] = [local[i] EXCEPT ![u] = NoRow]
    BY <1>4 DEF Replace
  <2> QED
    BY <1>4, <1>t, <2>1 DEF NoRow
<1>5. ASSUME Record PROVE local'[i][s].done
  <2>1. \A c : Recorded(c, local[i][s]).done
    BY DEF Recorded
  <2> QED
    BY <1>5, <2>1, RecordRows
<1>6. UNCHANGED local \/ (\E r \in Refs, all \in BOOLEAN : Observe(r, all)) \/ ImportCommit
      \/ (\E u \in Servers : Replace(u)) \/ Record
  BY DEF Next, RunSteps, UserPlays, Vanish, ImportBegin, Start, Pick, CallAnswered, CallNotFound, Tried,
         Finish, CallFails, Stops, vars
<1> QED
  BY <1>1, <1>2, <1>3, <1>4, <1>5, <1>6

\* What runs record never erases a completion, not even one that a webhook or a page wrote
\* between the scan and the record (_record_successes); only a replaced server's rows go.
THEOREM CompletionsKept == Spec => CompletionKept
<1>1. Base /\ [Next]_vars
        => [\A i \in Items, s \in Servers : local[i][s].done /\ local'[i][s].row => local'[i][s].done]_vars
  BY DoneStays
<1> QED
  BY <1>1, BaseInvariant, PTL DEF Spec, CompletionKept

\* Some entry of a server was sent a completion, and not before it was last replaced.
WasSent(s) == \E r \in Refs : ServerOf[r] = s /\ sent[r] > 0

\* A completed entry was finished by its user or sent the completion; a row that is done
\* has such an entry, or was recorded by a run that outlived its server; and a candidate
\* that was answered talked to its server or to the one it replaced.
TrueInv ==
  /\ \A r \in Refs : remote[r].done => <<ItemOf[r], ServerOf[r]>> \in known \/ sent[r] > 0
  /\ RecordedIsTrue
  /\ \A c \in run.won : c.done => c.to \in run.old \/ WasSent(c.to)
  /\ run.pc = "call" /\ run.hits /\ run.cur.done => run.cur.to \in run.old \/ WasSent(run.cur.to)

\* What the writers and the servers do to it.
LEMMA WritersKeepTrue ==
  ASSUME Base, TrueInv,
         \/ \E r \in Refs : UserPlays(r) \/ Vanish(r) \/ ImportBegin(r)
         \/ \E r \in Refs, all \in BOOLEAN : Observe(r, all)
         \/ ImportCommit
         \/ \E s \in Servers : Replace(s)
  PROVE  TrueInv'
<1> USE DEF world, book, history
<1>t. TypeOK /\ \A r \in Refs : ItemOf[r] \in Items /\ ServerOf[r] \in Servers
  BY CatalogAssumption DEF Base, TypeOK, Items, Servers
<1>r. /\ run'.pc = run.pc /\ run'.cur = run.cur /\ run'.hits = run.hits /\ run'.won = run.won
      /\ run.old \subseteq run'.old
  BY WritersKeepBase
<1>1. ASSUME UNCHANGED <<sent, mixed>>, known \subseteq known',
             \A r \in Refs : remote'[r].done => remote[r].done \/ <<ItemOf[r], ServerOf[r]>> \in known',
             \A i \in Items, s \in Servers : local'[i][s].done =>
                 \/ local[i][s].done \/ <<i, s>> \in known'
                 \/ \E r \in Refs : ItemOf[r] = i /\ ServerOf[r] = s /\ remote[r].done
      PROVE  TrueInv'
  <2>1. \A s : WasSent(s)' = WasSent(s)
    BY <1>1 DEF WasSent
  <2>2. RecordedIsTrue'
    BY <1>1, <1>t DEF TrueInv, RecordedIsTrue
  <2> QED
    BY <1>1, <1>r, <2>1, <2>2 DEF TrueInv
<1>2. ASSUME NEW r \in Refs, UserPlays(r) \/ Vanish(r) \/ ImportBegin(r) PROVE TrueInv'
  <2>1. UNCHANGED <<sent, mixed, local>>
    BY <1>2 DEF UserPlays, Vanish, ImportBegin
  <2>2. known \subseteq known'
    BY <1>2 DEF UserPlays, Vanish, ImportBegin
  <2>3. \A q \in Refs : remote'[q].done => remote[q].done \/ <<ItemOf[q], ServerOf[q]>> \in known'
    BY <1>2, <1>t DEF UserPlays, Vanish, ImportBegin, TypeOK
  <2> QED
    BY <1>1, <2>1, <2>2, <2>3
<1>3. ASSUME NEW r \in Refs, NEW all \in BOOLEAN, Observe(r, all) PROVE TrueInv'
  <2> DEFINE j == ItemOf[r]
             u == ServerOf[r]
  <2>1. UNCHANGED <<sent, mixed, known, remote>>
    BY <1>3 DEF Observe
  <2>2. local' = [local EXCEPT ![j][u] = Collected(r, local[j][u])] /\ j \in Items /\ u \in Servers
    BY <1>3, <1>t DEF Observe
  <2>3. Collected(r, local[j][u]).done => local[j][u].done \/ remote[r].done
    BY DEF Collected
  <2>4. ASSUME NEW i \in Items, NEW s \in Servers, local'[i][s].done
        PROVE  \/ local[i][s].done
               \/ \E q \in Refs : ItemOf[q] = i /\ ServerOf[q] = s /\ remote[q].done
    <3>1. CASE i = j /\ s = u
      <4>1. local'[i][s] = Collected(r, local[j][u])
        <5> HIDE DEF j, u
        <5> QED
          BY <1>t, <2>2, <3>1 DEF TypeOK
      <4> QED
        BY <2>3, <2>4, <3>1, <4>1
    <3>2. CASE ~(i = j /\ s = u)
      <4>1. local'[i][s] = local[i][s]
        <5> HIDE DEF j, u
        <5> QED
          BY <1>t, <2>2, <3>2 DEF TypeOK
      <4> QED
        BY <2>4, <4>1
    <3> QED
      BY <3>1, <3>2
  <2> QED
    BY <1>1, <2>1, <2>4
<1>4. ASSUME ImportCommit PROVE TrueInv'
  <2>1. UNCHANGED <<sent, mixed, remote>> /\ known' = known \cup (import \X {"plex"})
    BY <1>4 DEF ImportCommit
  <2>2. ASSUME NEW i \in Items, NEW s \in Servers, local'[i][s].done
        PROVE  local[i][s].done \/ <<i, s>> \in known'
    <3>1. local'[i] = IF i \notin import THEN local[i] ELSE
                        [local[i] EXCEPT !["plex"] = [row |-> TRUE, done |-> TRUE, pos |-> local[i]["plex"].pos]]
      BY <1>4 DEF ImportCommit
    <3>2. s = "plex" \/ local'[i][s] = local[i][s]
      BY <1>t, <3>1 DEF TypeOK
    <3> QED
      BY <2>1, <2>2, <3>1, <3>2
  <2> QED
    BY <1>1, <2>1, <2>2
<1>5. ASSUME NEW u \in Servers, Replace(u) PROVE TrueInv'
  <2> DEFINE retired == {r \in Refs : ServerOf[r] = u}
  <2>1. /\ \A r \in Refs : remote'[r] = IF r \in retired THEN Blank ELSE remote[r]
        /\ \A r \in Refs : sent'[r] = IF r \in retired THEN 0 ELSE sent[r]
        /\ known' = {k \in known : k[2] # u} /\ UNCHANGED mixed
        /\ \A i \in Items : local'[i] = [local[i] EXCEPT ![u] = NoRow]
        /\ run.pc # "idle" => run'.old = run.old \cup {u}
    BY <1>5, <1>t DEF Replace, TypeOK
  <2>2. \A i \in Items, s \in Servers : local'[i][s] = IF s = u THEN NoRow ELSE local[i][s]
    <3>1. ASSUME NEW i \in Items, NEW s \in Servers
          PROVE  local'[i][s] = IF s = u THEN NoRow ELSE local[i][s]
      <4>1. local'[i] = [local[i] EXCEPT ![u] = NoRow]
        BY <2>1
      <4>2. local[i] \in [Servers -> [row : BOOLEAN, done : BOOLEAN, pos : 0 .. MaxPos]]
        BY <1>t DEF TypeOK
      <4> QED
        BY <4>1, <4>2
    <3> QED
      BY <3>1
  <2>3. \A r \in Refs : ServerOf[r] # u => sent'[r] = sent[r] /\ remote'[r] = remote[r]
    BY <2>1
  <2>4. \A r \in Refs : ServerOf[r] = u => ~remote'[r].done
    BY <2>1 DEF Blank
  <2>5. \A s : s # u => WasSent(s)' = WasSent(s)
    BY <2>3 DEF WasSent
  <2>6. \A i \in Items, s \in Servers : s # u /\ <<i, s>> \in known => <<i, s>> \in known'
    BY <2>1
  <2> HIDE DEF retired
  <2>7. \A r \in Refs : remote'[r].done => <<ItemOf[r], ServerOf[r]>> \in known' \/ sent'[r] > 0
    BY <1>t, <2>3, <2>4, <2>6 DEF TrueInv
  <2>8. RecordedIsTrue'
    <3>1. ASSUME NEW i \in Items, NEW s \in Servers, local'[i][s].done
          PROVE  \/ <<i, s>> \in known' \/ s \in mixed'
                 \/ \E r \in Refs : ServerOf[r] = s /\ sent'[r] > 0
      <4>1. s # u /\ local[i][s].done
        BY <2>2, <3>1 DEF NoRow
      <4> QED
        BY <2>1, <2>3, <2>6, <4>1 DEF TrueInv, RecordedIsTrue
    <3> QED
      BY <3>1 DEF RecordedIsTrue
  <2>9. run.pc = "idle" => run.won = {}
    BY IdleRun DEF Base, RunInv
  <2>10. \A c \in run.won : c.done => c.to \in run'.old \/ WasSent(c.to)'
    BY <1>r, <2>1, <2>5, <2>9 DEF TrueInv
  <2>11. run.pc = "call" /\ run.hits /\ run.cur.done => run.cur.to \in run'.old \/ WasSent(run.cur.to)'
    BY <1>r, <2>1, <2>5 DEF TrueInv
  <2> QED
    BY <1>r, <2>7, <2>8, <2>10, <2>11 DEF TrueInv
<1> QED
  BY <1>2, <1>3, <1>4, <1>5

\* What a run does to it.
LEMMA RunKeepsTrue ==
  ASSUME Base, TrueInv,
         \/ \E d \in Directions, full \in BOOLEAN : Start(d, full)
         \/ RunSteps \/ CallFails \/ Stops
  PROVE  TrueInv'
<1> USE DEF world, book, history
<1>t. TypeOK /\ run \in Run /\ \A r \in Refs : ItemOf[r] \in Items /\ ServerOf[r] \in Servers
  BY CatalogAssumption DEF Base, TypeOK, Run, Items, Servers
<1>1. ASSUME UNCHANGED <<remote, local, known, mixed, sent>>,
             run'.won = {} \/ (run'.won = run.won /\ run'.old = run.old),
             run'.pc # "call" \/ run'.hits = FALSE
      PROVE  TrueInv'
  <2>1. \A s : WasSent(s)' = WasSent(s)
    BY <1>1 DEF WasSent
  <2>2. RecordedIsTrue'
    BY <1>1 DEF TrueInv, RecordedIsTrue
  <2> QED
    BY <1>1, <2>1, <2>2 DEF TrueInv
<1>2. ASSUME NEW d \in Directions, NEW full \in BOOLEAN, Start(d, full) PROVE TrueInv'
  <2>1. UNCHANGED <<remote, local, known, mixed, sent>> /\ run'.won = {} /\ run'.pc = "pick"
    BY <1>2, IdleRun DEF Start, Idle
  <2> QED
    BY <1>1, <2>1
<1>3. ASSUME NEW c \in run.cands, Pick(c) PROVE TrueInv'
  <2>1. UNCHANGED <<remote, local, known, mixed, sent>> /\ run'.won = run.won /\ run'.old = run.old
        /\ run'.hits = FALSE
    BY <1>3, <1>t DEF Pick, Run
  <2> QED
    BY <1>1, <2>1
<1>4. ASSUME Finish \/ Stops PROVE TrueInv'
  <2>1. UNCHANGED <<remote, local, known, mixed, sent>> /\ run' = Idle
    BY <1>4 DEF Finish, Stops
  <2> QED
    BY <1>1, <2>1, IdleRun
<1>5. ASSUME CallFails PROVE TrueInv'
  <2>1. UNCHANGED <<remote, local, known, mixed, sent>> /\ run'.won = run.won /\ run'.old = run.old
        /\ run'.pc = "pick"
    BY <1>5, <1>t DEF CallFails, Run
  <2> QED
    BY <1>1, <2>1
<1>6. ASSUME Tried PROVE TrueInv'
  <2>1. UNCHANGED <<remote, local, known, mixed, sent>> /\ run'.old = run.old /\ run'.pc = "pick"
        /\ run.pc = "call" /\ run'.won = IF run.hits THEN run.won \cup {run.cur} ELSE run.won
    BY <1>6, <1>t DEF Tried, Success, Run
  <2>2. \A s : WasSent(s)' = WasSent(s)
    BY <2>1 DEF WasSent
  <2>3. RecordedIsTrue'
    BY <2>1 DEF TrueInv, RecordedIsTrue
  <2> QED
    BY <2>1, <2>2, <2>3 DEF TrueInv
<1>7. ASSUME NEW r \in run.left, CallNotFound(r) PROVE TrueInv'
  <2>1. UNCHANGED <<remote, local, known, mixed, sent>> /\ run'.old = run.old /\ run'.pc = run.pc
        /\ run'.won = run.won /\ run'.hits = run.hits /\ run'.cur = run.cur
    BY <1>7, <1>t DEF CallNotFound, Run
  <2>2. \A s : WasSent(s)' = WasSent(s)
    BY <2>1 DEF WasSent
  <2>3. RecordedIsTrue'
    BY <2>1 DEF TrueInv, RecordedIsTrue
  <2> QED
    BY <2>1, <2>2, <2>3 DEF TrueInv
<1>8. ASSUME NEW r \in run.left, CallAnswered(r) PROVE TrueInv'
  <2>1. /\ r \in Refs /\ run.pc = "call" /\ r \in run.cur.refs /\ run.cur \in Held
    BY <1>8, <1>t DEF CallAnswered, Base, RunInv, Run, Held
  <2>2. ServerOf[r] = run.cur.to
    BY <2>1 DEF Base, RunInv
  <2>3. run' = [run EXCEPT !.left = run.left \ {r}, !.hits = TRUE]
    BY <1>8 DEF CallAnswered
  <2>4. run'.won = run.won /\ run'.old = run.old /\ run'.cur = run.cur
    BY <1>t, <2>3 DEF Run
  <2>5. UNCHANGED <<local, known, mixed>>
    BY <1>8 DEF CallAnswered
  <2>6. CASE run.cur.to \in run.old
    <3>1. UNCHANGED <<remote, sent>>
      BY <1>8, <2>6 DEF CallAnswered
    <3>2. \A s : WasSent(s)' = WasSent(s)
      BY <3>1 DEF WasSent
    <3>3. RecordedIsTrue'
      BY <2>5, <3>1 DEF TrueInv, RecordedIsTrue
    <3> QED
      BY <2>4, <2>5, <2>6, <3>1, <3>2, <3>3 DEF TrueInv
  <2>7. CASE run.cur.to \notin run.old
    <3>1. /\ remote' = [remote EXCEPT ![r] = Written(r)]
          /\ sent' = IF run.cur.done THEN [sent EXCEPT ![r] = Min({sent[r] + 1, MaxEvents + 2})] ELSE sent
      BY <1>8, <2>7 DEF CallAnswered
    <3>2. sent[r] \in Nat /\ Min({sent[r] + 1, MaxEvents + 2}) > 0
      <4>1. sent[r] \in Nat /\ sent[r] + 1 \in Nat /\ MaxEvents + 2 \in Nat
        BY <1>t, <2>1, BoundsAssumption DEF TypeOK
      <4>2. Min({sent[r] + 1, MaxEvents + 2}) \in {sent[r] + 1, MaxEvents + 2}
        BY <4>1, MinOfTwo
      <4> QED
        BY <4>1, <4>2, BoundsAssumption
    <3>3. \A q \in Refs : sent[q] > 0 => sent'[q] > 0
      <4> DEFINE n == Min({sent[r] + 1, MaxEvents + 2})
      <4>1. sent' = sent \/ sent' = [sent EXCEPT ![r] = n]
        BY <3>1
      <4> HIDE DEF n
      <4>2. n > 0
        BY <3>2 DEF n
      <4> QED
        BY <1>t, <2>1, <4>1, <4>2 DEF TypeOK
    <3>4. run.cur.done => sent'[r] > 0
      BY <1>t, <2>1, <3>1, <3>2 DEF TypeOK
    <3>5. \A q \in Refs : remote'[q].done => remote[q].done \/ (q = r /\ run.cur.done)
      <4>1. Written(r).done => run.cur.done \/ remote[r].done
        BY DEF Written
      <4>2. ASSUME NEW q \in Refs, q # r PROVE remote'[q] = remote[q]
        BY <1>t, <3>1, <4>2 DEF TypeOK
      <4>3. remote'[r] = Written(r)
        BY <1>t, <2>1, <3>1 DEF TypeOK
      <4> QED
        BY <4>1, <4>2, <4>3
    <3>6. \A s : WasSent(s) => WasSent(s)'
      BY <3>3 DEF WasSent
    <3>7. run.cur.done => WasSent(run.cur.to)'
      BY <2>1, <2>2, <2>4, <3>4 DEF WasSent
    <3>8. RecordedIsTrue'
      BY <2>5, <3>3 DEF TrueInv, RecordedIsTrue
    <3>9. \A q \in Refs : remote'[q].done => <<ItemOf[q], ServerOf[q]>> \in known' \/ sent'[q] > 0
      BY <2>5, <3>3, <3>4, <3>5 DEF TrueInv
    <3> QED
      BY <2>4, <3>6, <3>7, <3>8, <3>9 DEF TrueInv
  <2> QED
    BY <2>6, <2>7
<1>9. ASSUME Record PROVE TrueInv'
  <2>1. /\ UNCHANGED <<remote, known, sent>> /\ run'.won = {} /\ run'.pc = "pick"
        /\ mixed' = mixed \cup ({c.to : c \in run.won} \cap run.old)
    BY <1>9, RecordRun
  <2>2. ASSUME NEW i \in Items, NEW s \in Servers, local'[i][s].done
        PROVE  <<i, s>> \in known' \/ s \in mixed' \/ \E r \in Refs : ServerOf[r] = s /\ sent'[r] > 0
    <3>1. CASE local[i][s].done
      BY <2>1, <3>1 DEF TrueInv, RecordedIsTrue
    <3>2. ASSUME NEW c \in run.won, c.to = s, local'[i][s] = Recorded(c, local[i][s]), ~local[i][s].done
          PROVE  s \in mixed' \/ WasSent(s)
      <4>1. c.done
        BY <2>2, <3>2 DEF Recorded
      <4> QED
        BY <2>1, <3>2, <4>1 DEF TrueInv
    <3>3. local'[i][s] = local[i][s] \/ \E c \in run.won : c.to = s /\ local'[i][s] = Recorded(c, local[i][s])
      BY <1>9, RecordRows
    <3> QED
      BY <2>1, <2>2, <3>1, <3>2, <3>3 DEF WasSent
  <2>3. RecordedIsTrue'
    BY <2>2 DEF RecordedIsTrue
  <2> QED
    BY <2>1, <2>3 DEF TrueInv
<1> QED
  BY <1>2, <1>3, <1>4, <1>5, <1>6, <1>7, <1>8, <1>9 DEF RunSteps

\* A completion the catalog records on a server happened there or was sent there, unless
\* the run that recorded it had outlived the replacement of the server.
THEOREM RecordedCompletionsTrue == Spec => []RecordedIsTrue
<1>1. Init => TrueInv
  BY IdleRun DEF Init, TrueInv, RecordedIsTrue, Blank, NoRow
<1>2. Base /\ TrueInv /\ [Next]_vars => TrueInv'
  <2>1. ASSUME TrueInv, UNCHANGED vars PROVE TrueInv'
    BY <2>1 DEF vars, TrueInv, RecordedIsTrue, WasSent
  <2> QED
    BY <2>1, WritersKeepTrue, RunKeepsTrue DEF Next
<1>3. TrueInv => RecordedIsTrue
  BY DEF TrueInv
<1> QED
  BY <1>1, <1>2, <1>3, BaseInvariant, PTL DEF Spec

-------------------------------------------------------------------------------
(* A completion is sent again only after a fault.                                *)

\* An entry is waiting to be sent a completion, or is being sent it.
Waiting(r) ==
  \/ \E c \in run.cands : c.done /\ r \in c.refs
  \/ run.pc = "call" /\ run.cur.done /\ r \in run.left

\* The row of an entry is done, or a run holds the answer that will make it done.
Settled(r) ==
  \/ local[ItemOf[r]][ServerOf[r]].done
  \/ \E c \in run.won : c.done /\ r \in c.refs
  \/ run.pc = "call" /\ run.cur.done /\ run.hits /\ r \in run.cur.refs

\* Each fault pays for one completion more.  An entry that has used them all up is
\* settled, and one that waits has not.
BudgetInv ==
  \A r \in Refs : /\ sent[r] <= 1 + faults
                  /\ Waiting(r) => sent[r] <= faults
                  /\ sent[r] > faults => Settled(r)

\* A fault pays for what it makes the program send again.
LEMMA FaultPays ==
  ASSUME TypeOK, BudgetInv, faults \in Nat, faults' = faults + 1,
         \A r \in Refs : sent'[r] \in Nat /\ sent'[r] <= sent[r]
  PROVE  BudgetInv'
<1>1. ASSUME NEW r \in Refs PROVE sent'[r] <= faults'
  <2>1. sent[r] \in Nat /\ sent[r] <= 1 + faults
    BY BoundsAssumption DEF TypeOK, BudgetInv
  <2> QED
    BY <2>1
<1> QED
  BY <1>1 DEF BudgetInv

\* A step that sends nothing, makes nobody wait and unsettles nobody.
LEMMA BudgetStays ==
  ASSUME BudgetInv, UNCHANGED <<sent, faults>>,
         \A r \in Refs : /\ Waiting(r)' => Waiting(r)
                         /\ Settled(r) => Settled(r)'
  PROVE  BudgetInv'
  BY DEF BudgetInv

\* How many things went wrong.
CountInv == faults \in Nat

\* The writers and the servers.
LEMMA WritersKeepBudget ==
  ASSUME Base, BudgetInv, CountInv,
         \/ \E r \in Refs : UserPlays(r) \/ Vanish(r) \/ ImportBegin(r)
         \/ \E r \in Refs, all \in BOOLEAN : Observe(r, all)
         \/ ImportCommit
         \/ \E s \in Servers : Replace(s)
  PROVE  BudgetInv'
<1> USE DEF world, book, history
<1>t. TypeOK /\ \A r \in Refs : ItemOf[r] \in Items /\ ServerOf[r] \in Servers
  BY CatalogAssumption DEF Base, TypeOK, Items, Servers
<1>n. \A r \in Refs : sent[r] \in Nat
  BY <1>t, BoundsAssumption DEF TypeOK
<1>r. /\ run'.pc = run.pc /\ run'.cands = run.cands /\ run'.cur = run.cur
      /\ run'.left = run.left /\ run'.hits = run.hits /\ run'.won = run.won
  BY WritersKeepBase
<1>1. ASSUME NEW s \in Servers, Replace(s) PROVE BudgetInv'
  <2> DEFINE retired == {r \in Refs : ServerOf[r] = s}
  <2>1. faults' = faults + 1 /\ sent' = [r \in Refs |-> IF r \in retired THEN 0 ELSE sent[r]]
    BY <1>1 DEF Replace
  <2> HIDE DEF retired
  <2>2. \A r \in Refs : sent'[r] \in Nat /\ sent'[r] <= sent[r]
    BY <1>n, <2>1
  <2> QED
    BY <1>t, <2>1, <2>2, FaultPays DEF CountInv
<1>2. CASE \E r \in Refs : Vanish(r)
  <2>1. faults' = faults + 1 /\ UNCHANGED sent
    BY <1>2 DEF Vanish
  <2> QED
    BY <1>t, <1>n, <2>1, FaultPays DEF CountInv
<1>3. ASSUME UNCHANGED <<sent, faults>>, [Next]_vars, \A s \in Servers : ~Replace(s) PROVE BudgetInv'
  <2>1. ASSUME NEW r \in Refs, local[ItemOf[r]][ServerOf[r]].done
        PROVE  local'[ItemOf[r]][ServerOf[r]].done
    BY <1>3, <1>t, <2>1, DoneStays
  <2>2. \A r \in Refs : (Waiting(r)' => Waiting(r)) /\ (Settled(r) => Settled(r)')
    BY <1>r, <2>1 DEF Waiting, Settled
  <2> QED
    BY <1>3, <2>2, BudgetStays
<1>4. CASE (\A s \in Servers : ~Replace(s)) /\ (\A r \in Refs : ~Vanish(r))
  <2>1. UNCHANGED <<sent, faults>>
    BY <1>4 DEF UserPlays, ImportBegin, Observe, ImportCommit
  <2>2. [Next]_vars
    BY <1>4 DEF Next
  <2> QED
    BY <1>3, <1>4, <2>1, <2>2
<1> QED
  BY <1>1, <1>2, <1>4

\* A run: what it scans is not settled, what it sends was waiting, and what it recorded
\* was answered.
LEMMA RunKeepsBudget ==
  ASSUME Base, BudgetInv, CountInv,
         \/ \E d \in Directions, full \in BOOLEAN : Start(d, full)
         \/ RunSteps \/ CallFails \/ Stops
  PROVE  BudgetInv'
<1> USE DEF world, book, history
<1>t. TypeOK /\ RunInv /\ run \in Run /\ \A r \in Refs : ItemOf[r] \in Items /\ ServerOf[r] \in Servers
  BY CatalogAssumption DEF Base, TypeOK, Run, Items, Servers
<1>n. \A r \in Refs : sent[r] \in Nat
  BY <1>t, BoundsAssumption DEF TypeOK
<1>1. ASSUME NEW d \in Directions, NEW full \in BOOLEAN, Start(d, full) PROVE BudgetInv'
  <2> DEFINE scope == IF full THEN Items ELSE Scope(d)
  <2>1. /\ UNCHANGED <<local, sent, faults>> /\ run = Idle
        /\ run' = [Idle EXCEPT !.pc = "pick", !.dir = d, !.full = full, !.late = import # {},
                             !.cands = Candidates(d, scope)]
    BY <1>1, <1>t DEF Start, RunInv
  <2> HIDE DEF scope
  <2>2. run'.pc = "pick" /\ run'.cands = Candidates(d, scope)
    BY <2>1 DEF Idle
  <2>3. ASSUME NEW r \in Refs, NEW c \in Candidates(d, scope), c.done, r \in c.refs
        PROVE  ~local[ItemOf[r]][ServerOf[r]].done
    <3>1. c.to \in Servers
      BY CandidateGroup
    <3>2. PICK G \in Groups(scope) : c = Offer(d, G, c.to)
      BY CandidateGroup
    <3>3. CompletionDue(G, c.to) /\ ServerOf[r] = c.to /\ ItemOf[r] \in G
      BY <2>3, <3>1, <3>2, OfferParts
    <3> QED
      BY <3>3 DEF CompletionDue, Watched
  <2>4. \A r \in Refs : Settled(r) => local[ItemOf[r]][ServerOf[r]].done
    BY <2>1, IdleRun DEF Settled
  <2>5. ASSUME NEW r \in Refs
        PROVE  /\ sent'[r] <= 1 + faults'
               /\ Waiting(r)' => sent'[r] <= faults'
               /\ sent'[r] > faults' => Settled(r)'
    <3>1. Waiting(r)' => ~local[ItemOf[r]][ServerOf[r]].done
      BY <2>2, <2>3 DEF Waiting
    <3>2. local[ItemOf[r]][ServerOf[r]].done => Settled(r)'
      BY <2>1 DEF Settled
    <3>3. sent[r] <= 1 + faults /\ (sent[r] > faults => Settled(r)) /\ sent[r] \in Nat
      BY <1>n DEF BudgetInv
    <3> QED
      BY <2>1, <2>4, <3>1, <3>2, <3>3 DEF CountInv
  <2> QED
    BY <2>5 DEF BudgetInv
<1>2. ASSUME NEW c \in run.cands, Pick(c) PROVE BudgetInv'
  <2>1. /\ UNCHANGED <<local, sent, faults>> /\ run.pc = "pick"
        /\ run' = [run EXCEPT !.pc = "call", !.cur = c, !.left = c.refs, !.hits = FALSE,
                             !.cands = run.cands \ {c}]
    BY <1>2 DEF Pick, Rest
  <2>2. /\ run'.pc = "call" /\ run'.cur = c /\ run'.left = c.refs /\ run'.won = run.won
        /\ run'.cands = run.cands \ {c}
    BY <1>t, <2>1 DEF Run
  <2>3. \A r \in Refs : (Waiting(r)' => Waiting(r)) /\ (Settled(r) => Settled(r)')
    BY <2>1, <2>2 DEF Waiting, Settled
  <2> QED
    BY <2>1, <2>3, BudgetStays
<1>3. ASSUME CallFails \/ Stops PROVE BudgetInv'
  <2>1. faults' = faults + 1 /\ UNCHANGED sent
    BY <1>3 DEF CallFails, Stops
  <2> QED
    BY <1>t, <1>n, <2>1, FaultPays DEF CountInv
<1>4. ASSUME Finish PROVE BudgetInv'
  <2>1. UNCHANGED <<local, sent, faults>> /\ run' = Idle /\ run.pc = "pick" /\ run.won = {}
    BY <1>4 DEF Finish
  <2>2. \A r \in Refs : (Waiting(r)' => Waiting(r)) /\ (Settled(r) => Settled(r)')
    BY <2>1, IdleRun DEF Waiting, Settled
  <2> QED
    BY <2>1, <2>2, BudgetStays
<1>5. ASSUME Tried PROVE BudgetInv'
  <2>1. /\ UNCHANGED <<local, sent, faults>> /\ run.pc = "call" /\ run'.pc = "pick" /\ run'.cands = run.cands
        /\ run'.won = IF run.hits THEN run.won \cup {run.cur} ELSE run.won
    BY <1>5, <1>t DEF Tried, Success, Run
  <2>2. \A r \in Refs : (Waiting(r)' => Waiting(r)) /\ (Settled(r) => Settled(r)')
    BY <2>1 DEF Waiting, Settled
  <2> QED
    BY <2>1, <2>2, BudgetStays
<1>6. ASSUME NEW q \in run.left, CallNotFound(q) PROVE BudgetInv'
  <2>1. /\ UNCHANGED <<local, sent, faults>> /\ run'.pc = run.pc /\ run'.cands = run.cands
        /\ run'.won = run.won /\ run'.cur = run.cur /\ run'.hits = run.hits /\ run'.left \subseteq run.left
    BY <1>6, <1>t DEF CallNotFound, Run
  <2>2. \A r \in Refs : (Waiting(r)' => Waiting(r)) /\ (Settled(r) => Settled(r)')
    BY <2>1 DEF Waiting, Settled
  <2> QED
    BY <2>1, <2>2, BudgetStays
<1>7. ASSUME NEW q \in run.left, CallAnswered(q) PROVE BudgetInv'
  <2>1. /\ q \in Refs /\ run.pc = "call" /\ q \in run.cur.refs /\ run.cur \in Held
        /\ run.left \subseteq run.cur.refs
    BY <1>7, <1>t DEF CallAnswered, RunInv, Run, Held
  <2>2. UNCHANGED <<local, faults>> /\ run' = [run EXCEPT !.left = run.left \ {q}, !.hits = TRUE]
    BY <1>7 DEF CallAnswered
  <2>3. /\ run'.pc = "call" /\ run'.cands = run.cands /\ run'.left = run.left \ {q} /\ run'.hits
        /\ run'.won = run.won /\ run'.cur = run.cur
    BY <1>t, <2>1, <2>2 DEF Run
  <2>4. \A r \in Refs : (Waiting(r)' => Waiting(r)) /\ (Settled(r) => Settled(r)')
    BY <2>1, <2>2, <2>3 DEF Waiting, Settled
  <2>5. CASE UNCHANGED sent
    BY <2>2, <2>4, <2>5, BudgetStays
  <2>6. CASE run.cur.done /\ sent' = [sent EXCEPT ![q] = Min({sent[q] + 1, MaxEvents + 2})]
    <3>1. sent[q] \in Nat /\ sent[q] <= faults
      BY <1>n, <2>1, <2>6 DEF BudgetInv, Waiting
    <3>2. sent'[q] \in Nat /\ sent'[q] <= sent[q] + 1
      <4>1. sent[q] + 1 \in Nat /\ MaxEvents + 2 \in Nat
        BY <3>1, BoundsAssumption
      <4>2. sent'[q] = Min({sent[q] + 1, MaxEvents + 2})
        BY <1>t, <2>1, <2>6 DEF TypeOK
      <4> QED
        BY <4>1, <4>2, MinOfTwo
    <3>3. Settled(q)'
      BY <2>1, <2>3, <2>6 DEF Settled
    <3>4. ~Waiting(q)'
      <4>1. ASSUME NEW c \in run.cands, q \in c.refs PROVE FALSE
        <5>1. c \in Held /\ c.to = ServerOf[q] /\ run.cur.to = ServerOf[q]
          BY <1>t, <2>1, <4>1 DEF Held, RunInv
        <5>2. c = run.cur
          BY <1>t, <2>1, <4>1, <5>1 DEF RunInv
        <5> QED
          BY <1>t, <2>1, <4>1, <5>2 DEF RunInv
      <4> QED
        BY <2>3, <4>1 DEF Waiting
    <3>5. \A r \in Refs : r # q => sent'[r] = sent[r]
      BY <1>t, <2>6 DEF TypeOK
    <3>6. ASSUME NEW r \in Refs
          PROVE  /\ sent'[r] <= 1 + faults'
                 /\ Waiting(r)' => sent'[r] <= faults'
                 /\ sent'[r] > faults' => Settled(r)'
      <4>1. CASE r = q
        BY <2>2, <3>1, <3>2, <3>3, <3>4, <4>1 DEF CountInv
      <4>2. CASE r # q
        BY <2>2, <2>4, <3>5, <4>2 DEF BudgetInv
      <4> QED
        BY <4>1, <4>2
    <3> QED
      BY <3>6 DEF BudgetInv
  <2> QED
    BY <1>7, <2>5, <2>6 DEF CallAnswered
<1>8. ASSUME Record PROVE BudgetInv'
  <2>1. /\ UNCHANGED <<sent, faults>> /\ run.pc = "pick" /\ run'.pc = "pick" /\ run'.cands = run.cands
    BY <1>8, RecordRun
  <2>2. ASSUME NEW r \in Refs, NEW c \in run.won, c.done, r \in c.refs
        PROVE  local'[ItemOf[r]][ServerOf[r]].done
    <3>1. c.to = ServerOf[r] /\ ItemOf[r] \in RowsOf(c) /\ c \in Held
      BY <1>t, <2>2 DEF Held, RunInv, RowsOf
    <3>2. PICK e \in run.won : /\ e.to = ServerOf[r] /\ ItemOf[r] \in RowsOf(e)
                               /\ local'[ItemOf[r]][ServerOf[r]] = Recorded(e, local[ItemOf[r]][ServerOf[r]])
      BY <1>8, <1>t, <2>2, <3>1, RecordRows
    <3>3. e = c
      BY <1>t, <2>2, <3>1, <3>2 DEF Held, RunInv, RowsOf
    <3> QED
      BY <2>2, <3>2, <3>3 DEF Recorded
  <2>3. ASSUME NEW r \in Refs, local[ItemOf[r]][ServerOf[r]].done PROVE local'[ItemOf[r]][ServerOf[r]].done
    <3>1. \A c, old : old.done => Recorded(c, old).done
      BY DEF Recorded
    <3> QED
      BY <1>8, <1>t, <2>3, <3>1, RecordRows
  <2>4. \A r \in Refs : (Waiting(r)' => Waiting(r)) /\ (Settled(r) => Settled(r)')
    BY <2>1, <2>2, <2>3 DEF Waiting, Settled
  <2> QED
    BY <2>1, <2>4, BudgetStays
<1> QED
  BY <1>1, <1>2, <1>3, <1>4, <1>5, <1>6, <1>7, <1>8 DEF RunSteps

\* A completion is sent again only after something went wrong, once for each time it did:
\* no batch, no cancelled scan and no second direction sends one twice (_record_successes
\* after the calls).
THEOREM SentOnceEach == Spec => []SentOnce
<1>1. Init => BudgetInv /\ CountInv
  BY DEF Init, BudgetInv, CountInv, Waiting, Settled, Idle
<1>2. Base /\ BudgetInv /\ CountInv /\ [Next]_vars => BudgetInv' /\ CountInv'
  <2>1. ASSUME BudgetInv, UNCHANGED vars PROVE BudgetInv'
    BY <2>1 DEF vars, BudgetInv, Waiting, Settled
  <2>2. ASSUME CountInv, [Next]_vars PROVE CountInv'
    <3>1. UNCHANGED faults \/ faults' = faults + 1
      BY <2>2 DEF vars, Next, RunSteps, UserPlays, Vanish, Observe, ImportBegin, ImportCommit, Start,
                  Pick, CallAnswered, CallNotFound, Tried, Record, Finish, CallFails, Stops, Replace
    <3> QED
      BY <2>2, <3>1 DEF CountInv
  <2> QED
    BY <2>1, <2>2, WritersKeepBudget, RunKeepsBudget DEF Next
<1>3. BudgetInv => SentOnce
  BY DEF BudgetInv, SentOnce
<1> QED
  BY <1>1, <1>2, <1>3, BaseInvariant, PTL DEF Spec
-------------------------------------------------------------------------------
(* Titles, and the groups a scan makes of them.                                  *)

\* A title holds its row, and what is alike one of its rows.
LEMMA TitleHolds ==
  ASSUME NEW i \in Items
  PROVE  /\ i \in Title(i)
         /\ \A j \in Title(i), k \in Items : Alike(j, k) => k \in Title(i)
<1>1. i \in Title(i)
  BY DEF Title
<1>2. ASSUME NEW j \in Title(i), NEW k \in Items, Alike(j, k) PROVE k \in Title(i)
  <2>1. ASSUME NEW S \in SUBSET Items, i \in S, Complete(S) PROVE k \in S
    <3>1. j \in S
      BY <2>1 DEF Title
    <3> QED
      BY <1>2, <2>1, <3>1 DEF Complete
  <2> QED
    BY <2>1 DEF Title
<1> QED
  BY <1>1, <1>2

\* The titles part the rows: each row of a title has that title.
LEMMA TitleShared ==
  ASSUME NEW i \in Items, NEW j \in Title(i)
  PROVE  j \in Items /\ Title(j) = Title(i)
<1>1. j \in Items
  BY DEF Title
<1>2. ASSUME NEW a \in Items, NEW b \in Title(a) PROVE Title(b) \subseteq Title(a)
  BY <1>2 DEF Title
<1>3. i \in Title(j)
  <2>1. SUFFICES ASSUME NEW S \in SUBSET Items, j \in S, Complete(S), i \notin S PROVE FALSE
    BY DEF Title
  <2>2. Complete(Items \ S)
    <3>1. \A a, b : Alike(a, b) => Alike(b, a)
      BY DEF Alike
    <3> QED
      BY <2>1, <3>1 DEF Complete
  <2>3. i \in Items \ S /\ Items \ S \in SUBSET Items
    BY <2>1
  <2>4. j \in Items \ S
    BY <2>2, <2>3 DEF Title
  <2> QED
    BY <2>1, <2>4
<1> QED
  BY <1>1, <1>2, <1>3

\* The groups of a scan, as they follow from what is available and what it looks at.
FilesIn(av, i) == UNION {Paths[r] : r \in {q \in av : ItemOf[q] = i}}
JoinedIn(av, rows, i, j) ==
  \/ FilesIn(av, i) \cap FilesIn(av, j) # {}
  \/ /\ FilesIn(av, i) = {} \/ FilesIn(av, j) = {}
     /\ \E id \in Ids[i] \cap Ids[j] : FirstOf({k \in rows : id \in Ids[k]}) \in {i, j}
ClosedIn(av, S, rows) == \A i \in S, j \in rows : JoinedIn(av, rows, i, j) => j \in S
RowsIn(av, scope) == {ItemOf[r] : r \in {q \in av : ItemOf[q] \in scope}}
GroupsIn(av, scope) ==
  {G \in SUBSET RowsIn(av, scope) :
     /\ G # {} /\ ClosedIn(av, G, RowsIn(av, scope))
     /\ \A H \in SUBSET G : H # {} /\ ClosedIn(av, H, RowsIn(av, scope)) => H = G}

\* A scan has these groups, now and after a step.
LEMMA GroupsFollow ==
  ASSUME NEW scope
  PROVE  /\ Groups(scope) = GroupsIn(avail, scope)
         /\ Groups(scope)' = GroupsIn(avail', scope)
<1>1. /\ \A i : Files(i) = FilesIn(avail, i)
      /\ \A i : Files(i)' = FilesIn(avail', i)
  BY DEF Files, FilesIn
<1>2. /\ \A rows, i, j : Joined(rows, i, j) <=> JoinedIn(avail, rows, i, j)
      /\ \A rows, i, j : Joined(rows, i, j)' <=> JoinedIn(avail', rows, i, j)
  BY <1>1 DEF Joined, JoinedIn, Conflicting
<1>3. /\ \A S, rows : Closed(S, rows) <=> ClosedIn(avail, S, rows)
      /\ \A S, rows : Closed(S, rows)' <=> ClosedIn(avail', S, rows)
  BY <1>2 DEF Closed, ClosedIn
<1> DEFINE A == {ItemOf[r] : r \in Listed(scope)}
<1>4. A = RowsIn(avail, scope) /\ A' = RowsIn(avail', scope)
  BY DEF Listed, RowsIn
<1>5. \A G : G \in Groups(scope) <=> /\ G \in SUBSET A /\ G # {} /\ Closed(G, A)
                                     /\ \A H \in SUBSET G : H # {} /\ Closed(H, A) => H = G
  BY DEF Groups
<1>6. \A G : G \in Groups(scope)' <=> /\ G \in SUBSET A' /\ G # {} /\ Closed(G, A)'
                                      /\ \A H \in SUBSET G : H # {} /\ Closed(H, A)' => H = G
  BY DEF Groups
<1>7. \A av, G : G \in GroupsIn(av, scope) <=>
        /\ G \in SUBSET RowsIn(av, scope) /\ G # {} /\ ClosedIn(av, G, RowsIn(av, scope))
        /\ \A H \in SUBSET G : H # {} /\ ClosedIn(av, H, RowsIn(av, scope)) => H = G
  BY DEF GroupsIn
<1> HIDE DEF A
<1>8. Groups(scope) = GroupsIn(avail, scope)
  <2>1. \A G : G \in Groups(scope) <=> G \in GroupsIn(avail, scope)
    BY <1>3, <1>4, <1>5, <1>7
  <2> QED
    BY <2>1
<1>9. Groups(scope)' = GroupsIn(avail', scope)
  <2>1. \A S : Closed(S, A)' <=> ClosedIn(avail', S, A')
    BY DEF Closed, ClosedIn, Joined, JoinedIn, Files, FilesIn, Conflicting
  <2>2. \A G : G \in Groups(scope)' <=> G \in GroupsIn(avail', scope)
    BY <2>1, <1>4, <1>6, <1>7
  <2> QED
    BY <2>2
<1> QED
  BY <1>8, <1>9

\* Rows that are joined are alike, whatever the scan.
LEMMA JoinedInAlike ==
  ASSUME NEW av \in SUBSET Refs, NEW rows, NEW i, NEW j, JoinedIn(av, rows, i, j)
  PROVE  Alike(i, j)
<1>1. CASE FilesIn(av, i) \cap FilesIn(av, j) # {}
  <2>1. PICK p : p \in FilesIn(av, i) /\ p \in FilesIn(av, j)
    BY <1>1
  <2>2. PICK q \in av : ItemOf[q] = i /\ p \in Paths[q]
    BY <2>1 DEF FilesIn
  <2>3. PICK r \in av : ItemOf[r] = j /\ p \in Paths[r]
    BY <2>1 DEF FilesIn
  <2> QED
    BY <2>2, <2>3 DEF Alike
<1>2. CASE \E id \in Ids[i] \cap Ids[j] : TRUE
  BY <1>2 DEF Alike
<1> QED
  BY <1>1, <1>2 DEF JoinedIn

\* A group of any scan stays within the title of each of its rows.
LEMMA GroupInWithinTitle ==
  ASSUME NEW av \in SUBSET Refs, NEW scope, NEW G \in GroupsIn(av, scope), NEW i \in G
  PROVE  i \in Items /\ G \subseteq Title(i) /\ G \subseteq Items
<1> DEFINE rows == RowsIn(av, scope)
           H == G \cap Title(i)
<1>1. G \subseteq rows /\ ClosedIn(av, G, rows) /\ \A S \in SUBSET G : S # {} /\ ClosedIn(av, S, rows) => S = G
  BY DEF GroupsIn
<1>2. rows \subseteq Items
  BY DEF RowsIn, Items
<1> HIDE DEF rows
<1>3. i \in H
  BY <1>1, <1>2, TitleHolds
<1>4. ClosedIn(av, H, rows)
  <2>1. ASSUME NEW a \in H, NEW b \in rows, JoinedIn(av, rows, a, b) PROVE b \in H
    <3>1. b \in G
      BY <1>1, <2>1 DEF ClosedIn
    <3>2. Alike(a, b)
      BY <2>1, JoinedInAlike
    <3> QED
      BY <1>1, <1>2, <3>1, <3>2, TitleHolds
  <2> QED
    BY <2>1 DEF ClosedIn
<1>5. H = G
  BY <1>1, <1>3, <1>4
<1> QED
  BY <1>1, <1>2, <1>5

\* What a scan makes of the rows of a title depends on the entries of the title alone,
\* as long as the scan looks at all of its rows.
LEMMA SameGroup ==
  ASSUME NEW av \in SUBSET Refs, NEW bv \in SUBSET Refs, NEW i \in Items,
         NEW scope, NEW other, Title(i) \subseteq scope, Title(i) \subseteq other,
         \A r \in Refs : ItemOf[r] \in Title(i) => (r \in av <=> r \in bv),
         NEW G \in GroupsIn(av, scope), G \subseteq Title(i)
  PROVE  G \in GroupsIn(bv, other)
<1> DEFINE K == Title(i)
           A == RowsIn(av, scope)
           B == RowsIn(bv, other)
<1>1. \A k \in K : k \in A <=> k \in B
  BY DEF RowsIn
<1>2. A \subseteq Items /\ B \subseteq Items /\ K \subseteq Items
  <2>1. A \subseteq Items
    BY DEF RowsIn, Items
  <2>2. B \subseteq Items
    BY DEF RowsIn, Items
  <2> QED
    BY <2>1, <2>2 DEF Title
<1>3. \A k \in K : FilesIn(av, k) = FilesIn(bv, k)
  BY DEF FilesIn
<1> HIDE DEF A, B
<1>4. ASSUME NEW k \in K, NEW j \in K PROVE JoinedIn(av, A, k, j) <=> JoinedIn(bv, B, k, j)
  <2>1. ASSUME NEW id \in Ids[k] \cap Ids[j] PROVE {x \in A : id \in Ids[x]} = {x \in B : id \in Ids[x]}
    <3>1. ASSUME NEW x \in Items, id \in Ids[x] PROVE x \in K
      <4>1. Alike(k, x)
        BY <2>1, <3>1 DEF Alike
      <4> QED
        BY <3>1, <4>1, TitleHolds
    <3> QED
      BY <1>1, <1>2, <3>1
  <2>2. FilesIn(av, k) = FilesIn(bv, k) /\ FilesIn(av, j) = FilesIn(bv, j)
    BY <1>3
  <2>3. ASSUME NEW id \in Ids[k] \cap Ids[j]
        PROVE  FirstOf({x \in A : id \in Ids[x]}) = FirstOf({x \in B : id \in Ids[x]})
    BY <2>1
  <2> HIDE DEF K
  <2> QED
    BY <2>2, <2>3 DEF JoinedIn
<1>5. ASSUME NEW av1 \in SUBSET Refs, NEW rows, rows \subseteq Items, NEW k \in K, NEW j \in rows, JoinedIn(av1, rows, k, j)
      PROVE  j \in K
  <2>1. Alike(k, j)
    BY <1>5, JoinedInAlike
  <2> QED
    BY <1>5, <2>1, TitleHolds
<1>6. ASSUME NEW H \in SUBSET K PROVE ClosedIn(av, H, A) <=> ClosedIn(bv, H, B)
  <2>1. ASSUME ClosedIn(av, H, A), NEW k \in H, NEW j \in B, JoinedIn(bv, B, k, j) PROVE j \in H
    <3>1. j \in K /\ k \in K
      BY <1>2, <1>5, <2>1
    <3>2. j \in A /\ JoinedIn(av, A, k, j)
      BY <1>1, <1>4, <2>1, <3>1
    <3> QED
      BY <2>1, <3>2 DEF ClosedIn
  <2>2. ASSUME ClosedIn(bv, H, B), NEW k \in H, NEW j \in A, JoinedIn(av, A, k, j) PROVE j \in H
    <3>1. j \in K /\ k \in K
      BY <1>2, <1>5, <2>2
    <3>2. j \in B /\ JoinedIn(bv, B, k, j)
      BY <1>1, <1>4, <2>2, <3>1
    <3> QED
      BY <2>2, <3>2 DEF ClosedIn
  <2> QED
    BY <2>1, <2>2 DEF ClosedIn
<1>7. G \subseteq A /\ G # {} /\ ClosedIn(av, G, A) /\ \A H \in SUBSET G : H # {} /\ ClosedIn(av, H, A) => H = G
  BY DEF GroupsIn, A
<1>8. G \subseteq B
  BY <1>1, <1>7
<1>9. ClosedIn(bv, G, B)
  BY <1>6, <1>7
<1>10. ASSUME NEW H \in SUBSET G, H # {}, ClosedIn(bv, H, B) PROVE H = G
  <2>1. ClosedIn(av, H, A)
    BY <1>6, <1>10
  <2> QED
    BY <1>7, <1>10, <2>1
<1> QED
  BY <1>7, <1>8, <1>9, <1>10 DEF GroupsIn, B

\* A group of a scan stays within a title.
LEMMA GroupInTitle ==
  ASSUME TypeOK, NEW scope, NEW G \in Groups(scope), NEW i \in G, NEW j \in G
  PROVE  i \in Items /\ j \in Items /\ Title(j) = Title(i)
<1>1. i \in Items /\ j \in Title(i)
  BY GroupsFollow, GroupInWithinTitle DEF TypeOK
<1> QED
  BY <1>1, TitleShared

-------------------------------------------------------------------------------
(* The propagation implements its promise.                                       *)

\* Somebody finished the title a row shows.
Fin(i) == \E j \in finished : Title(j) = Title(i)

\* All that says a title is watched says it of one that was finished: the servers, the
\* rows, the history, and the candidates in hand.
FinInv ==
  /\ \A r \in Refs : remote[r].done => Fin(ItemOf[r])
  /\ \A i \in Items, s \in Servers : local[i][s].done => Fin(i)
  /\ \A i \in Items, s \in Servers : <<i, s>> \in evented => Fin(i)
  /\ \A c \in Held : c.done => \A r \in c.refs : Fin(ItemOf[r])
  /\ plays \in Nat /\ faults \in Nat

\* What was finished stays so.
LEMMA FinStays ==
  ASSUME NEW i, Fin(i), finished \subseteq finished'
  PROVE  Fin(i)'
  BY DEF Fin

\* Users, collectors, the import and the servers.
LEMMA WritersKeepFin ==
  ASSUME Base, FinInv,
         \/ \E r \in Refs : UserPlays(r) \/ Vanish(r) \/ ImportBegin(r)
         \/ \E r \in Refs, all \in BOOLEAN : Observe(r, all)
         \/ ImportCommit
         \/ \E s \in Servers : Replace(s)
  PROVE  FinInv' /\ finished \subseteq finished'
<1> USE DEF world, book, history
<1>t. TypeOK /\ \A r \in Refs : ItemOf[r] \in Items /\ ServerOf[r] \in Servers
  BY CatalogAssumption DEF Base, TypeOK, Items, Servers
<1>1. finished \subseteq finished'
  BY DEF UserPlays, Vanish, ImportBegin, Observe, ImportCommit, Replace
<1>2. \A i : Fin(i) => Fin(i)'
  BY <1>1, FinStays
<1>3. \A i \in finished' : Fin(i)'
  BY DEF Fin
<1>4. Held' = Held
  BY WritersKeepBase DEF Held
<1>5. \A c \in Held' : c.done => \A r \in c.refs : Fin(ItemOf[r])'
  BY <1>2, <1>4 DEF FinInv
<1>6. plays' \in Nat /\ faults' \in Nat
  <2>1. (plays' = plays \/ plays' = plays + 1) /\ (faults' = faults \/ faults' = faults + 1)
    BY DEF UserPlays, Vanish, ImportBegin, Observe, ImportCommit, Replace
  <2> QED
    BY <2>1 DEF FinInv
<1>7. ASSUME NEW r \in Refs, remote'[r].done PROVE Fin(ItemOf[r])'
  <2>1. CASE remote[r].done
    BY <1>2, <2>1 DEF FinInv
  <2>2. ASSUME NEW q \in Refs, UserPlays(q), ~remote[r].done PROVE ItemOf[r] \in finished'
    <3>1. PICK now \in [done : BOOLEAN, pos : 0 .. MaxPos] :
             /\ remote' = [remote EXCEPT ![q] = now]
             /\ now.done => finished' = finished \cup {ItemOf[q]}
      BY <2>2 DEF UserPlays
    <3>2. r = q /\ now.done
      BY <1>7, <1>t, <2>2, <3>1 DEF TypeOK
    <3> QED
      BY <3>1, <3>2
  <2>3. ASSUME NEW s \in Servers, Replace(s) PROVE remote[r].done
    <3>1. remote'[r] = Blank \/ remote'[r] = remote[r]
      BY <2>3 DEF Replace
    <3> QED
      BY <1>7, <3>1 DEF Blank
  <2>4. (\A q \in Refs : ~UserPlays(q)) /\ (\A s \in Servers : ~Replace(s)) => UNCHANGED remote
    BY DEF Vanish, ImportBegin, Observe, ImportCommit
  <2> QED
    BY <1>3, <1>7, <2>1, <2>2, <2>3, <2>4
<1>8. ASSUME NEW i \in Items, NEW s \in Servers, local'[i][s].done PROVE Fin(i)'
  <2>1. CASE local[i][s].done
    BY <1>2, <2>1 DEF FinInv
  <2>2. ASSUME NEW r \in Refs, NEW all \in BOOLEAN, Observe(r, all), ~local[i][s].done PROVE Fin(i)
    <3> DEFINE j == ItemOf[r]
               u == ServerOf[r]
    <3>1. local' = [local EXCEPT ![j][u] = Collected(r, local[j][u])] /\ j \in Items /\ u \in Servers
      BY <2>2, <1>t DEF Observe
    <3>2. Collected(r, local[j][u]).done => local[j][u].done \/ remote[r].done
      BY DEF Collected
    <3>3. i = j /\ remote[r].done
      <4> HIDE DEF j, u
      <4> QED
        BY <1>8, <1>t, <2>2, <3>1, <3>2 DEF TypeOK
    <3> QED
      BY <3>3 DEF FinInv
  <2>3. ASSUME ImportCommit, ~local[i][s].done PROVE i \in finished'
    <3>1. i \notin import => local'[i] = local[i]
      BY <2>3 DEF ImportCommit
    <3> QED
      BY <1>8, <2>3, <3>1 DEF ImportCommit
  <2>4. ASSUME NEW u \in Servers, Replace(u) PROVE local[i][s].done
    <3>1. local'[i] = [local[i] EXCEPT ![u] = NoRow]
      BY <2>4 DEF Replace
    <3> QED
      BY <1>8, <1>t, <3>1 DEF NoRow, TypeOK
  <2>5. \/ UNCHANGED local
        \/ \E r \in Refs, all \in BOOLEAN : Observe(r, all)
        \/ ImportCommit
        \/ \E u \in Servers : Replace(u)
    BY DEF UserPlays, Vanish, ImportBegin
  <2> QED
    BY <1>2, <1>3, <1>8, <2>1, <2>2, <2>3, <2>4, <2>5
<1>9. ASSUME NEW i \in Items, NEW s \in Servers, <<i, s>> \in evented' PROVE Fin(i)'
  <2>1. CASE <<i, s>> \in evented
    BY <1>2, <2>1 DEF FinInv
  <2>2. ASSUME NEW r \in Refs, NEW all \in BOOLEAN, Observe(r, all), <<i, s>> \notin evented PROVE Fin(i)
    <3>1. i = ItemOf[r] /\ remote[r].done
      BY <1>9, <2>2 DEF Observe
    <3> QED
      BY <3>1 DEF FinInv
  <2>3. ASSUME ImportCommit, <<i, s>> \notin evented PROVE i \in finished'
    BY <1>9, <2>3 DEF ImportCommit
  <2>4. \/ UNCHANGED evented
        \/ \E r \in Refs, all \in BOOLEAN : Observe(r, all)
        \/ ImportCommit
    BY DEF UserPlays, Vanish, ImportBegin, Replace
  <2> QED
    BY <1>2, <1>3, <1>9, <2>1, <2>2, <2>3, <2>4
<1> QED
  BY <1>1, <1>5, <1>6, <1>7, <1>8, <1>9 DEF FinInv

\* A completion that is due belongs to a title somebody finished.
LEMMA OfferedFin ==
  ASSUME Base, FinInv, NEW d \in Directions, NEW scope, NEW c \in Candidates(d, scope), c.done,
         NEW r \in c.refs
  PROVE  Fin(ItemOf[r])
<1>1. c.to \in Servers
  BY CandidateGroup
<1>2. PICK G \in Groups(scope) : c = Offer(d, G, c.to)
  BY CandidateGroup
<1>3. Watched(G, Other(c.to)) /\ ItemOf[r] \in G
  BY <1>1, <1>2, OfferParts DEF CompletionDue
<1>4. PICK i \in G : local[i][Other(c.to)].done \/ <<i, Other(c.to)>> \in evented
  BY <1>3 DEF Watched
<1>5. i \in Items /\ Title(ItemOf[r]) = Title(i)
  BY <1>3, GroupInTitle DEF Base
<1>6. Fin(i)
  BY <1>1, <1>4, <1>5, OtherServer DEF FinInv
<1> QED
  BY <1>5, <1>6 DEF Fin

\* A run finishes nothing: what it sends, holds and records was finished.
LEMMA RunKeepsFin ==
  ASSUME Base, FinInv,
         \/ \E d \in Directions, full \in BOOLEAN : Start(d, full)
         \/ RunSteps \/ CallFails \/ Stops
  PROVE  FinInv' /\ finished' = finished
<1> USE DEF world, book, history
<1>t. TypeOK /\ RunInv /\ run \in Run /\ \A r \in Refs : ItemOf[r] \in Items /\ ServerOf[r] \in Servers
  BY CatalogAssumption DEF Base, TypeOK, Run, Items, Servers
<1>1. UNCHANGED <<finished, plays>> /\ (faults' = faults \/ faults' = faults + 1)
  BY DEF Start, RunSteps, Pick, CallAnswered, CallNotFound, Tried, Record, Finish, CallFails, Stops
<1>2. \A i : Fin(i)' <=> Fin(i)
  BY <1>1 DEF Fin
<1>3. UNCHANGED evented
  BY DEF Start, RunSteps, Pick, CallAnswered, CallNotFound, Tried, Record, Finish, CallFails, Stops
<1>4. ASSUME NEW c \in Held', c.done, NEW r \in c.refs PROVE Fin(ItemOf[r])
  <2>1. ASSUME NEW d \in Directions, NEW full \in BOOLEAN, Start(d, full)
        PROVE  c \in Candidates(d, IF full THEN Items ELSE Scope(d))
    <3> DEFINE C == Candidates(d, IF full THEN Items ELSE Scope(d))
    <3>1. run' = [Idle EXCEPT !.pc = "pick", !.dir = d, !.full = full, !.late = import # {}, !.cands = C]
      BY <2>1 DEF Start
    <3> HIDE DEF C
    <3>2. run'.pc = "pick" /\ run'.cands = C /\ run'.won = {}
      BY <3>1 DEF Idle
    <3> QED
      BY <1>4, <3>2 DEF Held, C
  <2>2. ASSUME RunSteps \/ CallFails \/ Stops PROVE c \in Held
    <3>1. Held' \subseteq Held
      <4>1. ASSUME NEW e \in run.cands, Pick(e) PROVE Held' \subseteq Held
        <5>1. run'.cands = run.cands \ {e} /\ run'.won = run.won /\ run'.cur = e
          BY <1>t, <4>1 DEF Pick, Rest, Run
        <5> QED
          BY <4>1, <5>1 DEF Held
      <4>2. ASSUME NEW q \in run.left, CallAnswered(q) \/ CallNotFound(q) PROVE Held' \subseteq Held
        <5>1. run'.cands = run.cands /\ run'.won = run.won /\ run'.cur = run.cur /\ run'.pc = run.pc
          BY <1>t, <4>2 DEF CallAnswered, CallNotFound, Run
        <5> QED
          BY <5>1 DEF Held
      <4>3. ASSUME Tried \/ CallFails PROVE Held' \subseteq Held
        <5>1. run'.cands = run.cands /\ run'.won \subseteq run.won \cup {run.cur} /\ run'.pc = "pick" /\ run.pc = "call"
          BY <1>t, <4>3 DEF Tried, CallFails, Run
        <5> QED
          BY <5>1 DEF Held
      <4>4. ASSUME Finish \/ Stops PROVE Held' \subseteq Held
        BY <4>4, IdleRun DEF Finish, Stops, Held
      <4>5. ASSUME Record PROVE Held' \subseteq Held
        BY <4>5, RecordRun DEF Held
      <4> QED
        BY <2>2, <4>1, <4>2, <4>3, <4>4, <4>5 DEF RunSteps
    <3> QED
      BY <1>4, <3>1
  <2>3. c \in Held => Fin(ItemOf[r])
    BY <1>4 DEF FinInv
  <2>4. ASSUME NEW d \in Directions, NEW full \in BOOLEAN, Start(d, full) PROVE Fin(ItemOf[r])
    BY <1>4, <2>1, <2>4, OfferedFin
  <2> QED
    BY <2>2, <2>3, <2>4
<1>5. ASSUME NEW r \in Refs, remote'[r].done PROVE Fin(ItemOf[r])
  <2>1. ASSUME NEW q \in run.left, CallAnswered(q), ~remote[r].done PROVE r \in run.cur.refs /\ run.cur.done
    <3>1. q \in Refs /\ run.left \subseteq run.cur.refs /\ run.cur \in Candidate
      BY <1>t, <2>1 DEF CallAnswered, RunInv, Run
    <3>2. remote' = [remote EXCEPT ![q] = Written(q)]
      BY <1>5, <2>1 DEF CallAnswered
    <3>3. Written(q).done => run.cur.done \/ remote[q].done
      BY DEF Written
    <3>4. r = q /\ run.cur.done
      BY <1>5, <1>t, <2>1, <3>1, <3>2, <3>3 DEF TypeOK
    <3> QED
      BY <3>1, <3>4
  <2>2. run.pc = "call" => run.cur \in Held
    BY DEF Held
  <2>3. (\A q \in run.left : ~CallAnswered(q)) => UNCHANGED remote
    BY DEF Start, RunSteps, Pick, CallNotFound, Tried, Record, Finish, CallFails, Stops
  <2>4. \A q \in run.left : CallAnswered(q) => run.pc = "call"
    BY DEF CallAnswered
  <2> QED
    BY <1>5, <2>1, <2>2, <2>3, <2>4 DEF FinInv
<1>6. ASSUME NEW i \in Items, NEW s \in Servers, local'[i][s].done PROVE Fin(i)
  <2>1. CASE local[i][s].done
    BY <2>1 DEF FinInv
  <2>2. ASSUME Record, ~local[i][s].done PROVE Fin(i)
    <3>1. PICK c \in run.won : c.to = s /\ i \in RowsOf(c) /\ local'[i][s] = Recorded(c, local[i][s])
      BY <1>6, <2>2, RecordRows
    <3>2. c.done
      BY <1>6, <2>2, <3>1 DEF Recorded
    <3>3. PICK r \in c.refs : i = ItemOf[r]
      BY <3>1 DEF RowsOf
    <3> QED
      BY <3>2, <3>3 DEF FinInv, Held
  <2>3. ~Record => UNCHANGED local
    BY DEF Start, RunSteps, Pick, CallAnswered, CallNotFound, Tried, Finish, CallFails, Stops
  <2> QED
    BY <1>6, <2>1, <2>2, <2>3
<1>7. plays' \in Nat /\ faults' \in Nat
  BY <1>1 DEF FinInv
<1>8. \A c \in Held' : c.done => \A r \in c.refs : Fin(ItemOf[r])'
  BY <1>2, <1>4
<1> QED
  BY <1>1, <1>2, <1>3, <1>5, <1>6, <1>7, <1>8 DEF FinInv

\* Every step keeps it.
LEMMA NextFin ==
  ASSUME Base, FinInv, [Next]_vars
  PROVE  FinInv'
<1>1. CASE UNCHANGED vars
  BY <1>1 DEF vars, FinInv, Fin, Held
<1>2. CASE Next
  BY <1>2, WritersKeepFin, RunKeepsFin DEF Next
<1> QED
  BY <1>1, <1>2

\* The titles of some rows, as the promise counts them.
TitlesOf(rows) == {TitleOf[r] : r \in {q \in Refs : ItemOf[q] \in rows}}

\* The title of an entry is among those of the rows that show it.
LEMMA TitleCounted ==
  ASSUME NEW rows \in SUBSET Items, NEW r \in Refs, NEW j \in rows, Title(j) = Title(ItemOf[r])
  PROVE  TitleOf[r] \in TitlesOf(rows)
<1>1. PICK q \in Refs : ItemOf[q] = j
  BY DEF Items
<1>2. TitleOf[q] = TitleOf[r]
  BY <1>1 DEF TitleOf
<1> QED
  BY <1>1, <1>2 DEF TitlesOf

\* One step of the propagation is a step of the promise, or none.
LEMMA StepKeepsPromise ==
  ASSUME Base, FinInv, [Next]_vars
  PROVE  [Promise!Next]_(Promise!vars)
<1> USE DEF world, book, history
<1> DEFINE D == {r \in Refs : remote[r].done}
           T == {TitleOf[r] : r \in {q \in Refs : ItemOf[q] \in finished}}
<1>t. TypeOK /\ RunInv /\ run \in Run /\ \A r \in Refs : ItemOf[r] \in Items /\ ServerOf[r] \in Servers
  BY CatalogAssumption DEF Base, TypeOK, Run, Items, Servers
<1>n. Base' /\ FinInv'
  BY NextBase, NextFin
<1>f. finished \in SUBSET Items /\ finished' \in SUBSET Items /\ plays \in Nat /\ faults \in Nat
  BY <1>n DEF Base, TypeOK, FinInv
<1>s. ASSUME UNCHANGED <<finished, remote, plays, faults>> PROVE UNCHANGED Promise!vars
  BY <1>s DEF Promise!vars
<1>w. ASSUME plays' + faults' = plays + faults + 1, finished \subseteq finished' PROVE Promise!World
  <2>1. T \subseteq T' /\ T' \in SUBSET Promise!Titles
    BY <1>f, <1>w DEF Promise!Titles
  <2>2. T' = T \cup T'
    BY <2>1
  <2>3. ASSUME NEW r \in D' PROVE TitleOf[r] \in T'
    <3>1. PICK j \in finished' : Title(j) = Title(ItemOf[r])
      BY <1>n, <2>3 DEF FinInv, Fin
    <3>2. TitleOf[r] \in TitlesOf(finished')
      BY <1>f, <3>1, TitleCounted
    <3> QED
      BY <3>2 DEF TitlesOf
  <2>4. D' \in SUBSET Refs
    OBVIOUS
  <2> QED
    BY <1>w, <2>1, <2>2, <2>3, <2>4 DEF Promise!World
<1>1. CASE UNCHANGED vars
  BY <1>1, <1>s DEF vars
<1>2. ASSUME \/ \E r \in Refs : UserPlays(r) \/ Vanish(r)
             \/ ImportCommit \/ CallFails \/ Stops
             \/ \E s \in Servers : Replace(s)
      PROVE  Promise!World
  <2>1. \/ plays' = plays + 1 /\ faults' = faults
        \/ plays' = plays /\ faults' = faults + 1
    BY <1>2 DEF UserPlays, Vanish, ImportCommit, CallFails, Stops, Replace
  <2>2. finished \subseteq finished'
    BY <1>2 DEF UserPlays, Vanish, ImportCommit, CallFails, Stops, Replace
  <2> QED
    BY <1>f, <1>w, <2>1, <2>2
<1>3. ASSUME \/ \E r \in Refs, all \in BOOLEAN : Observe(r, all)
             \/ \E r \in Refs : ImportBegin(r)
             \/ \E d \in Directions, full \in BOOLEAN : Start(d, full)
             \/ \E c \in run.cands : Pick(c)
             \/ \E r \in run.left : CallNotFound(r)
             \/ Tried \/ Record \/ Finish
      PROVE  UNCHANGED Promise!vars
  <2>1. UNCHANGED <<finished, remote, plays, faults>>
    BY <1>3 DEF Observe, ImportBegin, Start, Pick, CallNotFound, Tried, Record, Finish
  <2> QED
    BY <1>s, <2>1
<1>4. ASSUME NEW r \in run.left, CallAnswered(r) PROVE [Promise!Next]_(Promise!vars)
  <2>1. /\ UNCHANGED <<finished, plays, faults>>
        /\ r \in Refs /\ r \in run.cur.refs /\ run.cur \in Held
    BY <1>4, <1>t DEF CallAnswered, RunInv, Run, Held
  <2>2. T' = T /\ UNCHANGED (plays + faults)
    BY <2>1
  <2>3. CASE UNCHANGED remote
    BY <1>s, <2>1, <2>3
  <2>4. ASSUME remote' = [remote EXCEPT ![r] = Written(r)], run.cur.done PROVE Promise!Propagate(r)
    <3>1. D' = D \cup {r}
      BY <1>t, <2>1, <2>4 DEF Written, TypeOK
    <3>2. PICK j \in finished : Title(j) = Title(ItemOf[r])
      BY <2>1, <2>4 DEF FinInv, Fin
    <3>3. TitleOf[r] \in TitlesOf(finished)
      BY <1>f, <2>1, <3>2, TitleCounted
    <3> QED
      BY <2>2, <3>1, <3>3 DEF Promise!Propagate, TitlesOf
  <2>5. ASSUME remote' = [remote EXCEPT ![r] = Written(r)], ~run.cur.done, ServerOf[r] = "jellyfin"
        PROVE  Promise!TakeBack(r)
    <3>1. D' = D \ {r}
      BY <1>t, <2>1, <2>5 DEF Written, TypeOK
    <3> QED
      BY <2>1, <2>2, <2>5, <3>1 DEF Promise!TakeBack
  <2>6. ASSUME remote' = [remote EXCEPT ![r] = Written(r)], ~run.cur.done, ServerOf[r] # "jellyfin"
        PROVE  UNCHANGED Promise!vars
    <3>1. D' = D
      BY <1>t, <2>1, <2>6 DEF Written, TypeOK, Servers
    <3> QED
      BY <2>2, <3>1 DEF Promise!vars
  <2> QED
    BY <1>4, <2>1, <2>3, <2>4, <2>5, <2>6 DEF CallAnswered, Promise!Next
<1> QED
  BY <1>1, <1>2, <1>3, <1>4 DEF Next, RunSteps, Promise!Next

\* The propagation completes an entry only when a user or an imported history finished
\* its title, and takes no completion back but by a resume position on Jellyfin
\* (watch_sync.py against WatchPromise).
THEOREM ImplementsPromise == Spec => KeepsPromise
<1>1. Init => Promise!Init
  BY DEF Init, Promise!Init, Blank
<1>2. Init => FinInv
  BY IdleRun DEF Init, FinInv, Held, Blank, NoRow
<1>3. Base /\ FinInv /\ [Next]_vars => FinInv'
  BY NextFin
<1>4. Base /\ FinInv /\ [Next]_vars => [Promise!Next]_(Promise!vars)
  BY StepKeepsPromise
<1> QED
  BY <1>1, <1>2, <1>3, <1>4, BaseInvariant, PTL DEF Spec, KeepsPromise, Promise!Spec

-------------------------------------------------------------------------------
(* What is due, and who remembers it.                                            *)

Targets(d) == IF d = "both" THEN Servers ELSE {Other(d)}
Due(G, t) == (\A s \in Servers : Entries(G, s) # {}) /\ CompletionDue(G, t)
Completion(G, t) == [to |-> t, refs |-> Entries(G, t), done |-> TRUE, pos |-> 0]

\* A completion due in a direction is on rows written since, or invisible, or was
\* hidden by an older history of its target; or its title has not one identity.
Told(d, rows, G, t) ==
  \/ \E i \in G : ~OneIdentity(i) \/ Title(i) \cap (rows \cup blind) # {}
  \/ d # "both" /\ \E r \in Entries(G, t) : <<ItemOf[r], t>> \in evented

\* The rows written since tell of every completion due that is not held.
Cover(d, rows, held) ==
  \A G \in Groups(Items), t \in Targets(d) :
    Due(G, t) => Told(d, rows, G, t) \/ Completion(G, t) \in held

\* The checkpoints cover what is due, the run in progress what its checkpoint will, and
\* a target of a candidate that is no longer available shows in both.
CoverInv ==
  /\ \A d \in marked : Cover(d, fresh[d], {})
  /\ run.pc # "idle" /\ ~run.failed => Cover(run.dir, run.since, Held)
  /\ \A c \in Held : \A r \in c.refs :
       r \in avail \/ (ItemOf[r] \in run.since /\ \A d \in marked : ItemOf[r] \in fresh[d])

\* The completions a scan finds are those due in its groups.
LEMMA CompletionsFound ==
  ASSUME NEW d \in Directions, NEW scope
  PROVE  /\ \A c \in Candidates(d, scope) : c.done =>
              \E G \in Groups(scope), t \in Targets(d) : Due(G, t) /\ c = Completion(G, t)
         /\ \A G \in Groups(scope), t \in Targets(d) :
              Due(G, t) => Completion(G, t) \in Candidates(d, scope)
<1>1. ASSUME NEW c \in Candidates(d, scope), c.done
      PROVE  \E G \in Groups(scope), t \in Targets(d) : Due(G, t) /\ c = Completion(G, t)
  <2>1. PICK G \in Groups(scope) : (\A s \in Servers : Entries(G, s) # {}) /\ c \in Decided(d, G)
    BY <1>1, Zenon DEF Candidates
  <2> DEFINE due == {u \in Targets(d) : CompletionDue(G, u)}
  <2>2. PICK t \in Targets(d) : c = [to |-> t, refs |-> Entries(G, t), done |-> t \in due,
                                     pos |-> IF t \in due THEN 0 ELSE Position(G, Other(t))]
    BY <2>1 DEF Decided, Targets
  <2>3. t \in due
    BY <1>1, <2>2
  <2>4. c = Completion(G, t)
    BY <2>2, <2>3 DEF Completion
  <2> QED
    BY <2>1, <2>3, <2>4 DEF Due
<1>2. ASSUME NEW G \in Groups(scope), NEW t \in Targets(d), Due(G, t)
      PROVE  Completion(G, t) \in Candidates(d, scope)
  <2> DEFINE due == {u \in Targets(d) : CompletionDue(G, u)}
             Offered(u) == [to |-> u, refs |-> Entries(G, u), done |-> u \in due,
                            pos |-> IF u \in due THEN 0 ELSE Position(G, Other(u))]
  <2>1. t \in due
    BY <1>2 DEF Due
  <2>2. Completion(G, t) = Offered(t)
    BY <2>1 DEF Completion
  <2>3. Offered(t) \in Decided(d, G)
    BY <2>1 DEF Decided, Targets
  <2>4. G \in {H \in Groups(scope) : \A s \in Servers : Entries(H, s) # {}}
    BY <1>2 DEF Due
  <2> HIDE DEF Offered
  <2>5. Completion(G, t) \in Decided(d, G)
    BY <2>2, <2>3
  <2> QED
    BY <2>4, <2>5, Zenon DEF Candidates
<1> QED
  BY <1>1, <1>2

\* A group that is due names its entries, on rows of the title of each of its rows.
LEMMA DueGroup ==
  ASSUME TypeOK, NEW G \in Groups(Items), NEW t \in Servers, NEW i \in G
  PROVE  /\ i \in Items /\ G \subseteq Title(i) /\ G \subseteq Items
         /\ RowsOf(Completion(G, t)) \subseteq G
         /\ Due(G, t) => RowsOf(Completion(G, t)) # {}
<1>1. i \in Items /\ G \subseteq Title(i) /\ G \subseteq Items
  BY GroupsFollow, GroupInWithinTitle DEF TypeOK
<1>2. Completion(G, t).refs = Entries(G, t)
  BY DEF Completion
<1>3. RowsOf(Completion(G, t)) = {ItemOf[r] : r \in Entries(G, t)}
  BY <1>2 DEF RowsOf
<1>4. \A r \in Entries(G, t) : ItemOf[r] \in G
  BY DEF Entries
<1>5. Due(G, t) => Entries(G, t) # {}
  BY DEF Due
<1> QED
  BY <1>1, <1>3, <1>4, <1>5

\* A row of a title that identifiers tell brings the whole title into a scan.
LEMMA TitleRelated ==
  ASSUME NEW i \in Items, OneIdentity(i), NEW rows, Title(i) \cap rows # {}
  PROVE  Title(i) \subseteq Related(rows)
<1>1. PICK j \in rows : j \in Title(i)
  OBVIOUS
<1>2. \A k \in Title(i) : k \in Items /\ (k = j \/ Ids[k] \cap Ids[j] # {})
  BY <1>1, TitleShared DEF OneIdentity
<1> QED
  BY <1>1, <1>2 DEF Related

\* What a full scan finds due on such rows is found by the scan of the rows written.
LEMMA ScanFinds ==
  ASSUME TypeOK, NEW d \in Directions, NEW rows, NEW G \in Groups(Items), NEW t \in Targets(d), Due(G, t),
         NEW i \in G, OneIdentity(i), Title(i) \cap rows # {}
  PROVE  Completion(G, t) \in Candidates(d, Related(rows))
<1>1. t \in Servers
  BY OtherServer DEF Targets, Directions
<1>2. i \in Items /\ G \subseteq Title(i) /\ Title(i) \subseteq Items
  BY <1>1, DueGroup DEF Title
<1>3. Title(i) \subseteq Related(rows)
  BY <1>2, TitleRelated
<1>4. G \in GroupsIn(avail, Items) /\ avail \in SUBSET Refs
  BY GroupsFollow DEF TypeOK
<1>5. G \in GroupsIn(avail, Related(rows))
  BY <1>2, <1>3, <1>4, SameGroup
<1>6. G \in Groups(Related(rows))
  BY <1>5, GroupsFollow
<1> QED
  BY <1>6, CompletionsFound

-------------------------------------------------------------------------------
(* What a step makes due.                                                        *)

\* A completion due after a step was due before it, for the same entries.
Kept(G, t) ==
  G \in Groups(Items) /\ Due(G, t) /\ Entries(G, t)' = Entries(G, t)

\* A step that leaves the rows of a title alone makes nothing due there.
LEMMA Undisturbed ==
  ASSUME TypeOK, TypeOK', NEW W,
         \A r \in Refs : ItemOf[r] \notin W => (r \in avail' <=> r \in avail),
         \A j \in Items : j \notin W =>
            \A s \in Servers : /\ local'[j][s] = local[j][s]
                               /\ <<j, s>> \in evented' <=> <<j, s>> \in evented,
         NEW G \in Groups(Items)', NEW t \in Servers, Due(G, t)',
         NEW i \in G, Title(i) \cap W = {}
  PROVE  Kept(G, t)
<1>1. avail \in SUBSET Refs /\ avail' \in SUBSET Refs /\ G \in GroupsIn(avail', Items)
  BY GroupsFollow DEF TypeOK
<1>2. i \in Items /\ G \subseteq Title(i) /\ G \subseteq Items /\ Title(i) \subseteq Items
  BY <1>1, GroupInWithinTitle DEF Title
<1>3. G \in Groups(Items)
  <2>1. G \in GroupsIn(avail, Items)
    BY <1>1, <1>2, SameGroup
  <2> QED
    BY <2>1, GroupsFollow
<1>4. \A s \in Servers : Entries(G, s)' = Entries(G, s)
  BY <1>1, <1>2 DEF Entries
<1>5. \A j \in G : j \in Items /\ j \notin W
  BY <1>2
<1>6. \A s \in Servers : Watched(G, s)' <=> Watched(G, s)
  BY <1>5 DEF Watched
<1>7. Due(G, t)
  BY <1>4, <1>6, OtherServer DEF Due, CompletionDue
<1> QED
  BY <1>3, <1>4, <1>7 DEF Kept

\* A step that changes only what the target of a group knows makes a completion due
\* only where the row of the target turns up unfinished, over an older history.
LEMMA DueAgain ==
  ASSUME TypeOK, avail' = avail, evented \subseteq evented',
         NEW G \in Groups(Items)', NEW t \in Servers, Due(G, t)',
         \A j \in G : /\ local'[j][Other(t)] = local[j][Other(t)]
                      /\ <<j, Other(t)>> \in evented' => <<j, Other(t)>> \in evented
  PROVE  \/ Kept(G, t)
         \/ \E j \in G : ~local'[j][t].done /\ local[j][t].done
         \/ \E j \in G : /\ ~local'[j][t].done /\ local'[j][t].row
                         /\ ~local[j][t].row /\ <<j, t>> \in evented
<1>1. G \in Groups(Items)
  BY GroupsFollow
<1>2. \A s \in Servers : Entries(G, s)' = Entries(G, s)
  BY DEF Entries
<1>3. Watched(G, Other(t))
  BY DEF Due, CompletionDue, Watched
<1>4. CASE Watched(G, t)
  <2>1. PICK j \in G : local[j][t].done \/ (~local[j][t].row /\ <<j, t>> \in evented)
    BY <1>4 DEF Watched
  <2>2. ~local'[j][t].done /\ (local'[j][t].row \/ <<j, t>> \notin evented')
    BY <2>1 DEF Due, CompletionDue, Watched
  <2> QED
    BY <2>1, <2>2
<1>5. CASE ~Watched(G, t)
  <2>1. Due(G, t)
    BY <1>2, <1>3, <1>5 DEF Due, CompletionDue
  <2> QED
    BY <1>1, <1>2, <2>1 DEF Kept
<1> QED
  BY <1>4, <1>5

\* A page or a webhook makes a completion due on a title it wrote, for the server it
\* did not read, or over the history of the server it read.
LEMMA ObserveDue ==
  ASSUME Base, Base', NEW r \in Refs, NEW all \in BOOLEAN, Observe(r, all),
         NEW G \in Groups(Items)', NEW t \in Servers, Due(G, t)'
  PROVE  \/ Kept(G, t)
         \/ \E i \in G : /\ ItemOf[r] \in Title(i)
                         /\ \/ all \/ t = Other(ServerOf[r])
                            \/ \E q \in Entries(G, t)' : <<ItemOf[q], t>> \in evented'
<1> DEFINE i == ItemOf[r]
           s == ServerOf[r]
<1>t. TypeOK /\ TypeOK' /\ i \in Items /\ s \in Servers
  BY CatalogAssumption DEF Base, Items, Servers
<1>1. /\ local' = [local EXCEPT ![i][s] = Collected(r, local[i][s])]
      /\ avail' = avail \cup {r} /\ (all \/ r \in avail)
      /\ evented' = IF remote[r].done THEN evented \cup {<<i, s>>} ELSE evented
  BY DEF Observe
<1>2. \A j \in Items, u \in Servers : (j # i \/ u # s) =>
         local'[j][u] = local[j][u] /\ (<<j, u>> \in evented' <=> <<j, u>> \in evented)
  <2> HIDE DEF i, s
  <2> QED
    BY <1>t, <1>1 DEF TypeOK
<1>3. G # {}
  BY GroupsFollow DEF GroupsIn
<1>4. PICK g \in G : TRUE
  BY <1>3
<1>5. CASE i \notin Title(g)
  <2>1. \A q \in Refs : ItemOf[q] \notin {i} => (q \in avail' <=> q \in avail)
    BY <1>1
  <2>2. \A j \in Items : j \notin {i} =>
          \A u \in Servers : local'[j][u] = local[j][u] /\ (<<j, u>> \in evented' <=> <<j, u>> \in evented)
    BY <1>2
  <2>3. Title(g) \cap {i} = {}
    BY <1>5
  <2> HIDE DEF i
  <2> QED
    BY <1>t, <2>1, <2>2, <2>3, Undisturbed
<1>6. CASE i \in Title(g) /\ ~all /\ t = s
  <2>1. avail' = avail /\ evented \subseteq evented'
    BY <1>1, <1>6
  <2>2. Other(t) \in Servers /\ Other(t) # s /\ G \subseteq Items
    BY <1>t, <1>6, OtherServer, GroupsFollow, GroupInWithinTitle, <1>4 DEF TypeOK
  <2>3. \A j \in G : /\ local'[j][Other(t)] = local[j][Other(t)]
                     /\ <<j, Other(t)>> \in evented' => <<j, Other(t)>> \in evented
    BY <1>2, <2>2
  <2>4. ASSUME NEW j \in G, local[j][t].done PROVE local'[j][t].done
    <3>1. Collected(r, local[i][s]).done \/ ~local[i][s].done
      BY DEF Collected
    <3>2. local'[i][s] = Collected(r, local[i][s])
      <4> HIDE DEF i, s
      <4> QED
        BY <1>t, <1>1 DEF TypeOK
    <3> QED
      BY <1>2, <1>6, <2>2, <2>4, <3>1, <3>2
  <2>5. ASSUME NEW j \in G, local'[j][t].row, ~local[j][t].row, <<j, t>> \in evented
        PROVE  \E q \in Entries(G, t)' : <<ItemOf[q], t>> \in evented'
    <3>1. j = i
      BY <1>2, <1>6, <2>2, <2>5
    <3>2. r \in Entries(G, t)'
      BY <1>1, <1>6, <2>5, <3>1 DEF Entries
    <3> QED
      BY <2>1, <2>5, <3>1, <3>2
  <2> QED
    BY <1>t, <1>6, <2>1, <2>3, <2>4, <2>5, DueAgain
<1>7. CASE i \in Title(g) /\ (all \/ t # s)
  <2>1. t # s => t = Other(s)
    BY <1>t DEF Other, Servers
  <2> QED
    BY <1>7, <2>1
<1> QED
  BY <1>5, <1>6, <1>7

\* An import makes a completion due for Jellyfin, on a title it finished on Plex.
LEMMA ImportDue ==
  ASSUME Base, Base', ImportCommit, NEW G \in Groups(Items)', NEW t \in Servers, Due(G, t)'
  PROVE  \/ Kept(G, t)
         \/ t = "jellyfin" /\ \E i \in G : Title(i) \cap import # {}
<1>t. TypeOK /\ TypeOK'
  BY DEF Base
<1>1. /\ local' = [i \in Items |-> IF i \notin import THEN local[i] ELSE
                    [local[i] EXCEPT !["plex"] = [row |-> TRUE, done |-> TRUE, pos |-> local[i]["plex"].pos]]]
      /\ evented' = evented \cup (import \X {"plex"}) /\ avail' = avail
  BY DEF ImportCommit
<1>2. PICK g \in G : TRUE
  BY GroupsFollow DEF GroupsIn
<1>3. G \subseteq Items
  BY <1>t, <1>2, GroupsFollow, GroupInWithinTitle DEF TypeOK
<1>4. CASE t = "plex"
  <2>1. Other(t) = "jellyfin"
    BY <1>4 DEF Other, Servers
  <2>2. \A j \in G : /\ local'[j][Other(t)] = local[j][Other(t)]
                     /\ <<j, Other(t)>> \in evented' => <<j, Other(t)>> \in evented
    BY <1>t, <1>1, <1>3, <2>1 DEF TypeOK, Servers
  <2>3. ASSUME NEW j \in G PROVE local'[j][t].done \/ local'[j] = local[j]
    <3>1. local[j] \in [Servers -> [row : BOOLEAN, done : BOOLEAN, pos : 0 .. MaxPos]]
      BY <1>t, <1>3 DEF TypeOK
    <3> QED
      BY <1>1, <1>3, <1>4, <3>1 DEF Servers
  <2>4. avail' = avail /\ evented \subseteq evented'
    BY <1>1
  <2>5. ~\E j \in G : ~local'[j][t].done /\ (local[j][t].done \/ (local'[j][t].row /\ ~local[j][t].row))
    BY <2>3
  <2> QED
    BY <1>t, <2>2, <2>4, <2>5, DueAgain
<1>5. CASE t # "plex" /\ Title(g) \cap import # {}
  BY <1>5 DEF Servers
<1>6. CASE Title(g) \cap import = {}
  <2>1. \A r \in Refs : ItemOf[r] \notin import => (r \in avail' <=> r \in avail)
    BY <1>1
  <2>2. \A j \in Items : j \notin import =>
          \A u \in Servers : local'[j][u] = local[j][u] /\ (<<j, u>> \in evented' <=> <<j, u>> \in evented)
    BY <1>1
  <2> QED
    BY <1>t, <1>6, <2>1, <2>2, Undisturbed
<1> QED
  BY <1>4, <1>5, <1>6

\* What a run records makes a completion due on a row it finished on the other server,
\* or over the history of a target; what it has recorded is due no more.
LEMMA RecordDue ==
  ASSUME Base, Base', Record, NEW G \in Groups(Items)', NEW t \in Servers, Due(G, t)'
  PROVE  \/ Kept(G, t) /\ Completion(G, t) \notin run.won
         \/ \E c \in run.won : c.to = Other(t) /\ G \cap RowsOf(c) # {}
         \/ \E c \in run.won : c.to = t /\ \E q \in c.refs :
              ItemOf[q] \in G /\ <<ItemOf[q], t>> \in evented
<1>t. TypeOK /\ TypeOK' /\ RunInv /\ Other(t) \in Servers /\ Other(t) # t
  BY OtherServer DEF Base
<1>1. avail' = avail /\ evented' = evented
  BY RecordRun
<1>2. PICK g \in G : TRUE
  BY GroupsFollow DEF GroupsIn
<1>3. G \subseteq Items
  BY <1>t, <1>2, GroupsFollow, GroupInWithinTitle DEF TypeOK
<1>4. CASE \E j \in G : local'[j][Other(t)] # local[j][Other(t)]
  BY <1>t, <1>3, <1>4, RecordRows
<1>5. CASE \A j \in G : local'[j][Other(t)] = local[j][Other(t)]
  <2>1. ASSUME NEW j \in G, local[j][t].done PROVE local'[j][t].done
    <3>1. \/ local'[j][t] = local[j][t]
          \/ \E c \in run.won : local'[j][t] = Recorded(c, local[j][t])
      BY <1>3, RecordRows
    <3>2. ASSUME NEW c \in run.won PROVE Recorded(c, local[j][t]).done
      <4>1. CASE c.done
        BY <4>1 DEF Recorded
      <4>2. CASE ~c.done
        BY <2>1, <4>2 DEF Recorded
      <4> QED
        BY <4>1, <4>2
    <3> QED
      BY <2>1, <3>1, <3>2
  <2>2. ASSUME NEW j \in G, local'[j][t].row, ~local[j][t].row, <<j, t>> \in evented
        PROVE  \E c \in run.won : c.to = t /\ \E q \in c.refs :
                 ItemOf[q] \in G /\ <<ItemOf[q], t>> \in evented
    <3>1. PICK c \in run.won : c.to = t /\ j \in RowsOf(c)
      BY <1>3, <2>2, RecordRows
    <3>2. PICK q \in c.refs : ItemOf[q] = j
      BY <3>1 DEF RowsOf
    <3> QED
      BY <2>2, <3>1, <3>2
  <2>3. Kept(G, t) \/ \E c \in run.won : c.to = t /\ \E q \in c.refs :
                        ItemOf[q] \in G /\ <<ItemOf[q], t>> \in evented
    BY <1>t, <1>1, <1>5, <2>1, <2>2, DueAgain
  <2>4. ASSUME Kept(G, t), Completion(G, t) \in run.won PROVE FALSE
    <3> DEFINE c == Completion(G, t)
    <3>1. c.to = t /\ c.done /\ c.refs = Entries(G, t)
      BY DEF Completion
    <3>2. PICK q \in c.refs : ItemOf[q] \in G
      BY <2>4, <3>1 DEF Kept, Due, Entries
    <3>3. ItemOf[q] \in RowsOf(c)
      BY DEF RowsOf
    <3> HIDE DEF c
    <3>4. PICK e \in run.won : /\ e.to = t /\ ItemOf[q] \in RowsOf(e)
                               /\ local'[ItemOf[q]][t] = Recorded(e, local[ItemOf[q]][t])
      BY <1>3, <2>4, <3>1, <3>2, <3>3, RecordRows DEF c
    <3>5. PICK p \in e.refs : ItemOf[p] = ItemOf[q]
      BY <3>4 DEF RowsOf
    <3>6. c \in Held /\ e \in Held
      BY <2>4 DEF Held, c
    <3>7. e = c
      BY <1>t, <3>1, <3>2, <3>4, <3>5, <3>6 DEF RunInv
    <3>8. local'[ItemOf[q]][t].done
      BY <3>1, <3>4, <3>7 DEF Recorded
    <3> QED
      BY <3>2, <3>8 DEF Due, CompletionDue, Watched
  <2> QED
    BY <2>3, <2>4
<1> QED
  BY <1>4, <1>5

\* An entry that is no longer found makes a completion due on its title alone.
LEMMA NotFoundDue ==
  ASSUME Base, Base', NEW r \in Refs, CallNotFound(r), NEW G \in Groups(Items)', NEW t \in Servers, Due(G, t)'
  PROVE  Kept(G, t) \/ \E i \in G : ItemOf[r] \in Title(i)
<1> USE DEF world, book, history
<1>t. TypeOK /\ TypeOK'
  BY DEF Base
<1>1. PICK g \in G : TRUE
  BY GroupsFollow DEF GroupsIn
<1>2. avail' = avail \ {r} /\ UNCHANGED <<local, evented>>
  BY DEF CallNotFound
<1>3. \A q \in Refs : ItemOf[q] \notin {ItemOf[r]} => (q \in avail' <=> q \in avail)
  BY <1>2
<1>4. \A j \in Items : j \notin {ItemOf[r]} =>
        \A u \in Servers : local'[j][u] = local[j][u] /\ (<<j, u>> \in evented' <=> <<j, u>> \in evented)
  BY <1>2
<1>5. CASE Title(g) \cap {ItemOf[r]} = {}
  BY <1>t, <1>3, <1>4, <1>5, Undisturbed
<1>6. CASE ItemOf[r] \in Title(g)
  BY <1>6
<1> QED
  BY <1>5, <1>6

\* Nothing is due once the entries of a server are gone.
LEMMA ReplaceDue ==
  ASSUME NEW s \in Servers, Replace(s), TypeOK, NEW G
  PROVE  ~(\A u \in Servers : Entries(G, u)' # {})
<1>1. avail' = avail \ {r \in Refs : ServerOf[r] = s} /\ avail \subseteq Refs
  BY DEF Replace, TypeOK
<1>2. Entries(G, s)' = {}
  BY <1>1 DEF Entries
<1> QED
  BY <1>2

\* The other steps make nothing due.
LEMMA NothingDue ==
  ASSUME TypeOK, UNCHANGED <<avail, local, evented>>, NEW G \in Groups(Items)', NEW t \in Servers, Due(G, t)'
  PROVE  Kept(G, t)
<1>1. \A j \in G : /\ local'[j][Other(t)] = local[j][Other(t)]
                   /\ <<j, Other(t)>> \in evented' => <<j, Other(t)>> \in evented
  OBVIOUS
<1>2. ~\E j \in G : \/ ~local'[j][t].done /\ local[j][t].done
                    \/ /\ ~local'[j][t].done /\ local'[j][t].row
                       /\ ~local[j][t].row /\ <<j, t>> \in evented
  OBVIOUS
<1>3. avail' = avail /\ evented \subseteq evented'
  OBVIOUS
<1> QED
  BY <1>1, <1>2, <1>3, DueAgain

-------------------------------------------------------------------------------
(* Every step tells what it makes due.                                           *)

\* Told after a step, by rows that are given.
ToldThen(d, rows, G, t) ==
  \/ \E i \in G : ~OneIdentity(i) \/ Title(i) \cap (rows \cup blind') # {}
  \/ d # "both" /\ \E r \in Entries(G, t)' : <<ItemOf[r], t>> \in evented'

\* The run goes on, and nothing written is forgotten.
Grows ==
  /\ marked' = marked /\ evented \subseteq evented' /\ blind \subseteq blind'
  /\ \A d \in marked : fresh[d] \subseteq fresh'[d]
  /\ run'.pc # "idle" => run.pc # "idle" /\ run'.dir = run.dir /\ run.since \subseteq run'.since
  /\ run'.pc # "idle" /\ ~run'.failed => ~run.failed

\* The run has given up, or is over.
Forgets == run'.failed \/ run'.pc = "idle"

\* What a step makes due shows in the checkpoints and in the run, and what was due is
\* still held, unless the run failed or is over.
Tells ==
  \A d \in Directions : \A G \in Groups(Items)', t \in Targets(d) : Due(G, t)' =>
    \/ Kept(G, t) /\ (Completion(G, t) \in Held => Completion(G, t) \in Held' \/ Forgets)
    \/ /\ d \in marked => ToldThen(d, fresh'[d], G, t)
       /\ run'.pc # "idle" /\ d = run'.dir => ToldThen(d, run'.since, G, t)

\* An entry that is lost shows in the checkpoints and in the run.
Losses ==
  \A r \in avail \ avail' : ItemOf[r] \in run'.since /\ \A d \in marked : ItemOf[r] \in fresh'[d]

\* Such a step keeps the invariant.
LEMMA CoverStays ==
  ASSUME Base, Base', CoverInv, Grows, Tells, Losses, Held' \subseteq Held,
         run'.pc = "idle" => Held' = {}
  PROVE  CoverInv'
<1>1. ASSUME NEW d, NEW rows, NEW more, rows \subseteq more, NEW G, NEW t, Kept(G, t), Told(d, rows, G, t)
      PROVE  ToldThen(d, more, G, t)
  <2>1. blind \subseteq blind' /\ evented \subseteq evented' /\ Entries(G, t)' = Entries(G, t)
    BY <1>1 DEF Grows, Kept
  <2> QED
    BY <1>1, <2>1 DEF Told, ToldThen
<1>2. \A d \in Directions : Targets(d) \subseteq Servers
  BY OtherServer DEF Targets, Directions
<1>3. ASSUME NEW d \in marked', NEW G \in Groups(Items)', NEW t \in Targets(d), Due(G, t)'
      PROVE  ToldThen(d, fresh'[d], G, t)
  <2>1. d \in marked /\ d \in Directions /\ fresh[d] \subseteq fresh'[d]
    BY <1>3 DEF Grows, Base, TypeOK
  <2>2. CASE Kept(G, t)
    <3>1. Told(d, fresh[d], G, t)
      BY <1>3, <2>1, <2>2 DEF CoverInv, Cover, Kept
    <3> QED
      BY <1>1, <2>1, <2>2, <3>1
  <2>3. CASE ~Kept(G, t)
    BY <1>3, <2>1, <2>3 DEF Tells
  <2> QED
    BY <2>2, <2>3
<1>4. ASSUME run'.pc # "idle", ~run'.failed,
             NEW G \in Groups(Items)', NEW t \in Targets(run'.dir), Due(G, t)'
      PROVE  ToldThen(run'.dir, run'.since, G, t) \/ Completion(G, t)' \in Held'
  <2>1. /\ run.pc # "idle" /\ ~run.failed /\ run'.dir = run.dir /\ run'.dir \in Directions
        /\ run.since \subseteq run'.since
    BY <1>4 DEF Grows, Base, TypeOK
  <2>2. \/ Kept(G, t) /\ (Completion(G, t) \in Held => Completion(G, t) \in Held')
        \/ ToldThen(run'.dir, run'.since, G, t)
    BY <1>4, <2>1 DEF Tells, Forgets
  <2>3. ASSUME Kept(G, t), Completion(G, t) \in Held => Completion(G, t) \in Held'
        PROVE  ToldThen(run'.dir, run'.since, G, t) \/ Completion(G, t)' \in Held'
    <3>1. Told(run.dir, run.since, G, t) \/ Completion(G, t) \in Held
      BY <1>4, <2>1, <2>3 DEF CoverInv, Cover, Kept
    <3>2. Completion(G, t)' = Completion(G, t)
      BY <2>3 DEF Completion, Kept
    <3> QED
      BY <1>1, <2>1, <2>3, <3>1, <3>2
  <2> QED
    BY <2>2, <2>3
<1>5. ASSUME NEW c \in Held', NEW r \in c.refs
      PROVE  r \in avail' \/ (ItemOf[r] \in run'.since /\ \A d \in marked' : ItemOf[r] \in fresh'[d])
  <2>1. run'.pc # "idle" /\ run.since \subseteq run'.since
    BY <1>5 DEF Grows
  <2>2. r \in avail \/ (ItemOf[r] \in run.since /\ \A d \in marked : ItemOf[r] \in fresh[d])
    BY <1>5 DEF CoverInv
  <2> QED
    BY <2>1, <2>2 DEF Losses, Grows
<1>6. \A d \in marked' : Cover(d, fresh[d], {})'
  BY <1>3 DEF Cover, Told, ToldThen
<1>7. run'.pc # "idle" /\ ~run'.failed => Cover(run.dir, run.since, Held)'
  BY <1>4 DEF Cover, Told, ToldThen
<1> QED
  BY <1>5, <1>6, <1>7 DEF CoverInv

\* A step that writes no row and forgets no candidate tells what it makes due: nothing.
LEMMA QuietTells ==
  ASSUME Base, UNCHANGED <<avail, local, evented>>,
         \A c \in Held : c \in Held' \/ Forgets
  PROVE  Tells /\ Losses
<1>1. ASSUME NEW d \in Directions, NEW G \in Groups(Items)', NEW t \in Targets(d), Due(G, t)'
      PROVE  Kept(G, t)
  <2>1. t \in Servers
    BY OtherServer DEF Targets, Directions
  <2> QED
    BY <1>1, <2>1, NothingDue DEF Base
<1> QED
  BY <1>1 DEF Tells, Losses

\* What a page or a webhook writes.
LEMMA ObserveCovers ==
  ASSUME Base, Base', CoverInv, NEW r \in Refs, NEW all \in BOOLEAN, Observe(r, all)
  PROVE  CoverInv'
<1> DEFINE i == ItemOf[r]
           s == ServerOf[r]
<1>t. TypeOK /\ run \in Run /\ i \in Items /\ s \in Servers
  BY CatalogAssumption DEF Base, TypeOK, Run, Items, Servers
<1>1. /\ Wrote({i}, s, all) /\ avail \subseteq avail' /\ evented \subseteq evented'
      /\ UNCHANGED <<marked, blind>>
  BY DEF Observe, history
<1>2. /\ run'.pc = run.pc /\ run'.dir = run.dir /\ run'.failed = run.failed /\ run.since \subseteq run'.since
      /\ run.pc # "idle" /\ (all \/ run.dir = "both" \/ run.dir = s) => i \in run'.since
  <2>1. CASE run' = run /\ ~(run.pc # "idle" /\ (all \/ run.dir = "both" \/ run.dir = s))
    BY <2>1
  <2>2. CASE run' = [run EXCEPT !.since = @ \cup {i}]
    BY <1>t, <2>2 DEF Run
  <2> QED
    BY <1>1, <2>1, <2>2 DEF Wrote
<1>3. \A d \in marked : /\ fresh[d] \subseteq fresh'[d]
                        /\ (all \/ d = "both" \/ d = s) => i \in fresh'[d]
  BY <1>t, <1>1 DEF Wrote, TypeOK
<1>4. Held' = Held
  BY WritersKeepBase DEF Held
<1>5. Grows /\ Losses
  BY <1>1, <1>2, <1>3 DEF Grows, Losses
<1>6. ASSUME NEW d \in Directions, NEW G \in Groups(Items)', NEW t \in Targets(d), Due(G, t)', ~Kept(G, t)
      PROVE  /\ d \in marked => ToldThen(d, fresh'[d], G, t)
             /\ run'.pc # "idle" /\ d = run'.dir => ToldThen(d, run'.since, G, t)
  <2>1. t \in Servers
    BY OtherServer DEF Targets, Directions
  <2>2. PICK j \in G : /\ i \in Title(j)
                       /\ \/ all \/ t = Other(s)
                          \/ \E q \in Entries(G, t)' : <<ItemOf[q], t>> \in evented'
    BY <1>6, <2>1, ObserveDue
  <2>3. t = Other(s) => d = "both" \/ d = s
    BY <1>t DEF Targets, Directions, Other, Servers
  <2>4. ASSUME all \/ d = "both" \/ d = s
        PROVE  /\ d \in marked => ToldThen(d, fresh'[d], G, t)
               /\ run'.pc # "idle" /\ d = run'.dir => ToldThen(d, run'.since, G, t)
    BY <1>2, <1>3, <2>2, <2>4 DEF ToldThen
  <2>5. ASSUME ~(all \/ d = "both" \/ d = s)
        PROVE  \A rows : ToldThen(d, rows, G, t)
    BY <2>2, <2>3, <2>5 DEF ToldThen
  <2> QED
    BY <2>4, <2>5
<1>7. Tells
  BY <1>4, <1>6 DEF Tells
<1>8. run'.pc = "idle" => Held' = {}
  BY IdleRun DEF Base, RunInv, Held
<1> QED
  BY <1>4, <1>5, <1>7, <1>8, CoverStays

\* What an import commits: a run that scanned before the commit did not see it.
LEMMA ImportCovers ==
  ASSUME Base, Base', CoverInv, ImportCommit
  PROVE  CoverInv'
<1>t. TypeOK /\ run \in Run
  BY DEF Base, TypeOK, Run
<1>1. /\ UNCHANGED <<avail, marked>> /\ evented \subseteq evented' /\ blind \subseteq blind'
      /\ run.late => import \subseteq blind'
  BY DEF ImportCommit
<1>2. /\ run'.pc = run.pc /\ run'.dir = run.dir /\ run'.failed = run.failed /\ run.since \subseteq run'.since
      /\ run.pc # "idle" /\ run.dir # "jellyfin" => import \subseteq run'.since \cup blind'
  <2>1. CASE run' = [run EXCEPT !.since = @ \cup import]
    BY <1>t, <2>1 DEF Run
  <2>2. CASE run' = [run EXCEPT !.late = FALSE] /\ ~(run.pc # "idle" /\ run.dir # "jellyfin" /\ ~run.late)
    BY <1>t, <1>1, <2>2 DEF Run
  <2> QED
    BY <2>1, <2>2 DEF ImportCommit
<1>3. \A d \in marked : /\ fresh[d] \subseteq fresh'[d]
                        /\ d # "jellyfin" => import \subseteq fresh'[d]
  BY <1>t DEF ImportCommit, TypeOK
<1>4. Held' = Held
  BY WritersKeepBase DEF Held
<1>5. Grows /\ Losses
  BY <1>1, <1>2, <1>3 DEF Grows, Losses
<1>6. ASSUME NEW d \in Directions, NEW G \in Groups(Items)', NEW t \in Targets(d), Due(G, t)', ~Kept(G, t)
      PROVE  /\ d \in marked => ToldThen(d, fresh'[d], G, t)
             /\ run'.pc # "idle" /\ d = run'.dir => ToldThen(d, run'.since, G, t)
  <2>1. t \in Servers
    BY OtherServer DEF Targets, Directions
  <2>2. PICK j \in G : t = "jellyfin" /\ Title(j) \cap import # {}
    BY <1>6, <2>1, ImportDue
  <2>3. d # "jellyfin"
    BY <2>2, OtherServer DEF Targets, Servers
  <2> QED
    BY <1>2, <1>3, <2>2, <2>3 DEF ToldThen
<1>7. Tells
  BY <1>4, <1>6 DEF Tells
<1>8. run'.pc = "idle" => Held' = {}
  BY IdleRun DEF Base, RunInv, Held
<1> QED
  BY <1>4, <1>5, <1>7, <1>8, CoverStays

\* A server that is replaced leaves nothing due.
LEMMA ReplaceCovers ==
  ASSUME Base, Base', CoverInv, NEW s \in Servers, Replace(s)
  PROVE  CoverInv'
<1>t. TypeOK /\ run \in Run
  BY DEF Base, TypeOK, Run
<1>1. marked' = {} /\ avail' = avail \ {r \in Refs : ServerOf[r] = s}
  BY DEF Replace
<1>2. \A G, t : ~Due(G, t)'
  BY <1>t, ReplaceDue DEF Due
<1>3. Held' = Held
  BY WritersKeepBase DEF Held
<1>4. ASSUME NEW c \in Held', NEW r \in c.refs PROVE r \in avail' \/ ItemOf[r] \in run'.since
  <2>1. run.pc # "idle"
    BY <1>3, <1>4, IdleRun DEF Base, RunInv, Held
  <2>2. run'.since = run.since \cup {ItemOf[q] : q \in {x \in Refs : ServerOf[x] = s}}
    BY <1>t, <2>1 DEF Replace, Run
  <2>3. r \in avail \/ ItemOf[r] \in run.since
    BY <1>3, <1>4 DEF CoverInv
  <2> QED
    BY <1>t, <1>1, <2>2, <2>3 DEF TypeOK
<1>5. Cover(run.dir, run.since, Held)'
  BY <1>2 DEF Cover
<1> QED
  BY <1>1, <1>4, <1>5 DEF CoverInv

\* What a scan does not find was told.
LEMMA StartCovers ==
  ASSUME Base, Base', CoverInv, NEW d \in Directions, NEW full \in BOOLEAN, Start(d, full)
  PROVE  CoverInv'
<1> DEFINE C == Candidates(d, IF full THEN Items ELSE Scope(d))
<1>t. TypeOK
  BY DEF Base
<1>1. /\ run' = [Idle EXCEPT !.pc = "pick", !.dir = d, !.full = full, !.late = import # {}, !.cands = C]
      /\ UNCHANGED <<avail, local, evented, fresh, marked, blind>>
      /\ full \/ d \in marked
  BY DEF Start, world, book, history
<1>2. run'.pc = "pick" /\ run'.dir = d /\ run'.cands = C /\ run'.won = {} /\ run'.since = {}
  <2> HIDE DEF C
  <2> QED
    BY <1>1 DEF Idle
<1>3. Held' = C
  <2> HIDE DEF C
  <2> QED
    BY <1>2 DEF Held
<1>4. ASSUME NEW G \in Groups(Items)', NEW t \in Targets(d), Due(G, t)'
      PROVE  ToldThen(d, {}, G, t) \/ Completion(G, t)' \in C
  <2>1. t \in Servers
    BY OtherServer DEF Targets, Directions
  <2>2. Kept(G, t)
    BY <1>t, <1>1, <1>4, <2>1, NothingDue
  <2>3. G \in Groups(Items) /\ Due(G, t) /\ Completion(G, t)' = Completion(G, t)
    BY <2>2 DEF Kept, Completion
  <2>4. CASE full
    BY <2>3, <2>4, CompletionsFound
  <2>5. CASE ~full
    <3>1. Told(d, fresh[d], G, t)
      BY <1>1, <2>3, <2>5 DEF CoverInv, Cover
    <3>2. ASSUME NEW i \in G, OneIdentity(i), Title(i) \cap fresh[d] # {} PROVE Completion(G, t) \in C
      BY <1>t, <2>3, <2>5, <3>2, ScanFinds DEF Scope
    <3>3. ASSUME NEW i \in G, ~OneIdentity(i) \/ Title(i) \cap blind # {} PROVE ToldThen(d, {}, G, t)
      BY <1>1, <3>3 DEF ToldThen
    <3>4. ASSUME d # "both", \E r \in Entries(G, t) : <<ItemOf[r], t>> \in evented PROVE ToldThen(d, {}, G, t)
      BY <1>1, <2>2, <3>4 DEF ToldThen, Kept
    <3> HIDE DEF C
    <3> QED
      BY <2>3, <3>1, <3>2, <3>3, <3>4 DEF Told
  <2> QED
    BY <2>4, <2>5
<1>5. ASSUME NEW c \in C, NEW r \in c.refs PROVE r \in avail'
  <2>1. PICK G \in Groups(IF full THEN Items ELSE Scope(d)) : c = Offer(d, G, c.to)
    BY CandidateGroup
  <2> HIDE DEF C
  <2>2. c.refs = Entries(G, c.to)
    BY <2>1 DEF Offer
  <2> QED
    BY <1>1, <2>2 DEF Entries
<1> HIDE DEF C
<1>6. Cover(run.dir, run.since, Held)'
  BY <1>2, <1>3, <1>4 DEF Cover, Told, ToldThen
<1>7. \A e \in marked' : Cover(e, fresh[e], {})'
  <2>1. ASSUME NEW e \in marked', NEW G \in Groups(Items)', NEW t \in Targets(e), Due(G, t)'
        PROVE  ToldThen(e, fresh'[e], G, t)
    <3>1. e \in marked /\ e \in Directions
      BY <1>1, <1>t, <2>1 DEF TypeOK
    <3>2. t \in Servers
      BY <2>1, <3>1, OtherServer DEF Targets, Directions
    <3>3. Kept(G, t)
      BY <1>t, <1>1, <2>1, <3>2, NothingDue
    <3>4. Told(e, fresh[e], G, t)
      BY <2>1, <3>1, <3>3 DEF CoverInv, Cover, Kept
    <3> QED
      BY <1>1, <3>3, <3>4 DEF Told, ToldThen, Kept
  <2> QED
    BY <2>1 DEF Cover, Told, ToldThen
<1> QED
  BY <1>3, <1>5, <1>6, <1>7 DEF CoverInv

\* What a call that finds no entry writes.
LEMMA NotFoundCovers ==
  ASSUME Base, Base', CoverInv, NEW r \in run.left, CallNotFound(r)
  PROVE  CoverInv'
<1>t. TypeOK /\ run \in Run /\ r \in Refs /\ ItemOf[r] \in Items
  BY DEF Base, TypeOK, Run, Items
<1>1. /\ avail' = avail \ {r} /\ UNCHANGED <<evented, marked, blind>>
      /\ \A d \in marked : fresh'[d] = fresh[d] \cup {ItemOf[r]}
  BY <1>t DEF CallNotFound, history, TypeOK
<1>2. /\ run'.pc = "call" /\ run.pc = "call" /\ run'.dir = run.dir /\ run'.failed = run.failed
      /\ run'.since = run.since \cup {ItemOf[r]}
      /\ run'.cands = run.cands /\ run'.won = run.won /\ run'.cur = run.cur
  BY <1>t DEF CallNotFound, Run
<1>3. Held' = Held
  BY <1>2 DEF Held
<1>4. Grows /\ Losses
  BY <1>1, <1>2 DEF Grows, Losses
<1>5. ASSUME NEW d \in Directions, NEW G \in Groups(Items)', NEW t \in Targets(d), Due(G, t)', ~Kept(G, t)
      PROVE  /\ d \in marked => ToldThen(d, fresh'[d], G, t)
             /\ run'.pc # "idle" /\ d = run'.dir => ToldThen(d, run'.since, G, t)
  <2>1. t \in Servers
    BY OtherServer DEF Targets, Directions
  <2>2. PICK j \in G : ItemOf[r] \in Title(j)
    BY <1>t, <1>5, <2>1, NotFoundDue
  <2> QED
    BY <1>1, <1>2, <2>2 DEF ToldThen
<1>6. Tells
  BY <1>3, <1>5 DEF Tells
<1> QED
  BY <1>2, <1>3, <1>4, <1>6, CoverStays

\* What a record writes.
LEMMA RecordMarks ==
  ASSUME Base, Record
  PROVE  /\ run'.dir = run.dir /\ run'.failed = run.failed /\ run.since \subseteq run'.since
         /\ \A d \in marked : fresh[d] \subseteq fresh'[d]
         /\ \A c \in run.won, d \in Directions : d = "both" \/ d = c.to =>
              /\ d = run.dir => RowsOf(c) \subseteq run'.since
              /\ d \in marked => RowsOf(c) \subseteq fresh'[d]
<1> DEFINE rows(d) == UNION {RowsOf(c) : c \in {x \in run.won : d \in {"both", x.to}}}
<1>t. TypeOK /\ run \in Run
  BY DEF Base, TypeOK, Run
<1>1. /\ fresh' = [d \in Directions |-> IF d \in marked THEN fresh[d] \cup rows(d) ELSE {}]
      /\ run' = [run EXCEPT !.won = {}, !.since = @ \cup rows(run.dir)]
  BY DEF Record
<1>2. \A c \in run.won, d \in Directions : d = "both" \/ d = c.to => RowsOf(c) \subseteq rows(d)
  OBVIOUS
<1> HIDE DEF rows
<1>3. run'.dir = run.dir /\ run'.failed = run.failed /\ run'.since = run.since \cup rows(run.dir)
  BY <1>t, <1>1 DEF Run
<1>4. \A d \in marked : fresh'[d] = fresh[d] \cup rows(d)
  BY <1>t, <1>1 DEF TypeOK
<1> QED
  BY <1>2, <1>3, <1>4

\* What a run records is held no more, and due no more.
LEMMA RecordCovers ==
  ASSUME Base, Base', CoverInv, Record
  PROVE  CoverInv'
<1>t. TypeOK /\ RunInv
  BY DEF Base
<1>1. /\ UNCHANGED <<avail, evented, marked, blind>>
      /\ run.pc = "pick" /\ run'.pc = "pick" /\ run'.won = {} /\ run'.cands = run.cands
  <2>1. UNCHANGED blind
    BY DEF Record, history
  <2> QED
    BY <2>1, RecordRun
<1>2. Held = run.cands \cup run.won /\ Held' = run.cands
  BY <1>1 DEF Held
<1>3. Grows /\ Losses
  BY <1>1, RecordMarks DEF Grows, Losses
<1>4. ASSUME NEW d \in Directions, NEW G \in Groups(Items)', NEW t \in Targets(d), Due(G, t)',
             ~(Kept(G, t) /\ Completion(G, t) \notin run.won)
      PROVE  /\ d \in marked => ToldThen(d, fresh'[d], G, t)
             /\ run'.pc # "idle" /\ d = run'.dir => ToldThen(d, run'.since, G, t)
  <2>1. t \in Servers /\ Other(t) \in Servers /\ Other(Other(t)) = t
    BY OtherServer DEF Targets, Directions, Other, Servers
  <2>2. d = "both" \/ d = Other(t)
    BY DEF Targets, Directions, Other, Servers
  <2>3. \A j \in G : j \in Title(j)
    <3>1. G \in GroupsIn(avail', Items) /\ avail' \in SUBSET Refs
      BY <1>t, <1>1, GroupsFollow DEF TypeOK
    <3> QED
      BY <3>1, GroupInWithinTitle
  <2>4. ASSUME NEW c \in run.won, NEW j \in G, j \in RowsOf(c), d = "both" \/ d = c.to
        PROVE  /\ d \in marked => ToldThen(d, fresh'[d], G, t)
               /\ run'.pc # "idle" /\ d = run'.dir => ToldThen(d, run'.since, G, t)
    <3>1. /\ d = run.dir => j \in run'.since
          /\ d \in marked => j \in fresh'[d]
          /\ run'.dir = run.dir
      BY <2>4, RecordMarks
    <3> QED
      BY <2>3, <3>1 DEF ToldThen
  <2>5. ASSUME NEW c \in run.won, c.to = Other(t), G \cap RowsOf(c) # {}
        PROVE  /\ d \in marked => ToldThen(d, fresh'[d], G, t)
               /\ run'.pc # "idle" /\ d = run'.dir => ToldThen(d, run'.since, G, t)
    BY <2>2, <2>4, <2>5
  <2>6. ASSUME NEW c \in run.won, c.to = t, NEW q \in c.refs, ItemOf[q] \in G, <<ItemOf[q], t>> \in evented
        PROVE  /\ d \in marked => ToldThen(d, fresh'[d], G, t)
               /\ run'.pc # "idle" /\ d = run'.dir => ToldThen(d, run'.since, G, t)
    <3>1. ItemOf[q] \in RowsOf(c)
      BY DEF RowsOf
    <3>2. CASE d = "both"
      BY <2>4, <2>6, <3>1, <3>2
    <3>3. CASE d # "both" /\ q \in avail
      <4>1. ServerOf[q] = t
        BY <1>2, <1>t, <2>6 DEF RunInv
      <4>2. q \in Entries(G, t)'
        BY <1>1, <2>6, <3>3, <4>1 DEF Entries
      <4> QED
        BY <1>1, <2>6, <3>3, <4>2 DEF ToldThen
    <3>4. CASE q \notin avail
      <4>1. ItemOf[q] \in run.since /\ \A e \in marked : ItemOf[q] \in fresh[e]
        BY <1>2, <3>4 DEF CoverInv
      <4>2. ItemOf[q] \in run'.since /\ \A e \in marked : ItemOf[q] \in fresh'[e]
        BY <4>1, RecordMarks
      <4> QED
        BY <2>3, <2>6, <4>2 DEF ToldThen
    <3> QED
      BY <3>2, <3>3, <3>4
  <2>7. \/ Kept(G, t) /\ Completion(G, t) \notin run.won
        \/ \E c \in run.won : c.to = Other(t) /\ G \cap RowsOf(c) # {}
        \/ \E c \in run.won : c.to = t /\ \E q \in c.refs :
             ItemOf[q] \in G /\ <<ItemOf[q], t>> \in evented
    BY <1>4, <2>1, RecordDue
  <2>8. CASE \E c \in run.won : c.to = Other(t) /\ G \cap RowsOf(c) # {}
    BY <2>5, <2>8
  <2>9. CASE \E c \in run.won : c.to = t /\ \E q \in c.refs :
                ItemOf[q] \in G /\ <<ItemOf[q], t>> \in evented
    BY <2>6, <2>9
  <2> QED
    BY <1>4, <2>7, <2>8, <2>9
<1>5. Tells
  BY <1>2, <1>4 DEF Tells
<1> QED
  BY <1>1, <1>2, <1>3, <1>5, CoverStays

\* A run that ends without a failure leaves a checkpoint that tells what its scan told.
LEMMA FinishCovers ==
  ASSUME Base, Base', CoverInv, Finish
  PROVE  CoverInv'
<1> USE DEF world, history
<1>t. TypeOK /\ run \in Run
  BY DEF Base, TypeOK, Run
<1>1. /\ run' = Idle /\ UNCHANGED <<avail, local, evented, blind>>
      /\ run.pc = "pick" /\ Held = {}
  BY DEF Finish, Held
<1>2. Held' = {} /\ run'.pc = "idle"
  BY <1>1, IdleRun DEF Held
<1>3. ASSUME NEW d \in marked', NEW G \in Groups(Items)', NEW t \in Targets(d), Due(G, t)'
      PROVE  ToldThen(d, fresh'[d], G, t)
  <2>1. d \in Directions /\ t \in Servers
    BY <1>3, OtherServer DEF Base, TypeOK, Targets, Directions
  <2>2. Kept(G, t)
    BY <1>t, <1>1, <1>3, <2>1, NothingDue
  <2>3. CASE d \in marked /\ fresh'[d] = fresh[d]
    <3>1. Told(d, fresh[d], G, t)
      BY <1>3, <2>2, <2>3 DEF CoverInv, Cover, Kept
    <3> QED
      BY <1>1, <2>2, <2>3, <3>1 DEF Told, ToldThen, Kept
  <2>4. CASE ~run.failed /\ d = run.dir /\ fresh'[d] = run.since
    <3>1. Told(d, run.since, G, t)
      BY <1>1, <1>3, <2>2, <2>4 DEF CoverInv, Cover, Kept
    <3> QED
      BY <1>1, <2>2, <2>4, <3>1 DEF Told, ToldThen, Kept
  <2>5. (d \in marked /\ fresh'[d] = fresh[d]) \/ (~run.failed /\ d = run.dir /\ fresh'[d] = run.since)
    <3>1. CASE run.failed
      BY <1>3, <3>1 DEF Finish
    <3>2. CASE ~run.failed /\ run.dir \in marked'
      <4>1. fresh' = [fresh EXCEPT ![run.dir] = run.since] /\ (d \in marked \/ d = run.dir)
        BY <1>3, <3>2 DEF Finish, Checkpoint
      <4> QED
        BY <1>t, <2>1, <3>2, <4>1 DEF TypeOK
    <3>3. CASE ~run.failed /\ run.dir \notin marked'
      BY <1>3, <3>3 DEF Finish
    <3> QED
      BY <3>1, <3>2, <3>3
  <2> QED
    BY <2>3, <2>4, <2>5
<1>4. \A d \in marked' : Cover(d, fresh[d], {})'
  BY <1>3 DEF Cover, Told, ToldThen
<1> QED
  BY <1>2, <1>4 DEF CoverInv

\* The other steps write no row a scan reads.
LEMMA QuietCovers ==
  ASSUME Base, Base', CoverInv,
         \/ UNCHANGED vars
         \/ \E r \in Refs : UserPlays(r) \/ Vanish(r) \/ ImportBegin(r)
         \/ \E c \in run.cands : Pick(c)
         \/ \E r \in run.left : CallAnswered(r)
         \/ Tried \/ CallFails \/ Stops
  PROVE  CoverInv'
<1> USE DEF world, book, history
<1>t. TypeOK /\ RunInv /\ run \in Run
  BY DEF Base, TypeOK, Run
<1>1. UNCHANGED <<avail, local, evented, marked, fresh, blind>>
  BY DEF vars, UserPlays, Vanish, ImportBegin, Pick, CallAnswered, Tried, CallFails, Stops
<1> DEFINE Goes == /\ run'.pc # "idle" =>
                        run.pc # "idle" /\ run'.dir = run.dir /\ run'.since = run.since /\ (run.failed => run'.failed)
                   /\ Held' \subseteq Held /\ \A c \in Held : c \in Held' \/ Forgets
                   /\ run'.pc = "idle" => Held' = {}
<1>2. ASSUME UNCHANGED run PROVE Goes
  <2>1. run.pc = "idle" => Held = {}
    BY <1>t, IdleRun DEF RunInv, Held
  <2>2. Goes
    BY <1>2, <2>1 DEF Held
  <2> QED
    BY <2>2
<1>3. ASSUME NEW c \in run.cands, Pick(c) PROVE Goes
  <2>1. /\ run.pc = "pick" /\ run'.pc = "call" /\ run'.dir = run.dir /\ run'.since = run.since
        /\ run'.failed = run.failed
        /\ run'.cands = run.cands \ {c} /\ run'.cur = c /\ run'.won = run.won
    BY <1>t, <1>3 DEF Pick, Rest, Run
  <2>2. Held' = Held
    BY <2>1 DEF Held
  <2> QED
    BY <2>1, <2>2
<1>4. ASSUME NEW r \in run.left, CallAnswered(r) PROVE Goes
  <2>1. /\ run.pc = "call" /\ run'.pc = "call" /\ run'.dir = run.dir /\ run'.since = run.since
        /\ run'.failed = run.failed
        /\ run'.cands = run.cands /\ run'.cur = run.cur /\ run'.won = run.won
    BY <1>t, <1>4 DEF CallAnswered, Run
  <2>2. Held' = Held
    BY <2>1 DEF Held
  <2> QED
    BY <2>1, <2>2
<1>5. ASSUME Tried \/ CallFails PROVE Goes
  <2>1. /\ run.pc = "call" /\ run'.pc = "pick" /\ run'.dir = run.dir /\ run'.since = run.since
        /\ run.failed => run'.failed
        /\ run'.cands = run.cands
        /\ \/ run'.won = run.won \cup {run.cur}
           \/ run'.won = run.won /\ run'.failed
    <3>1. CASE Tried
      BY <1>t, <3>1, SMTT(30) DEF Tried, Run
    <3>2. CASE CallFails
      BY <1>t, <3>2, SMTT(30) DEF CallFails, Run
    <3> QED
      BY <1>5, <3>1, <3>2
  <2>2. Held = run.cands \cup run.won \cup {run.cur} /\ Held' = run'.cands \cup run'.won
    BY <2>1 DEF Held
  <2>3. run'.failed => Forgets
    BY DEF Forgets
  <2> QED
    BY <2>1, <2>2, <2>3
<1>6. ASSUME Stops PROVE Goes
  <2>1. run' = Idle
    BY <1>6 DEF Stops
  <2>2. run'.pc = "idle" /\ Held' = {}
    BY <2>1, IdleRun DEF Held
  <2> QED
    BY <2>2 DEF Forgets
<1>7. Goes
  <2>1. \/ UNCHANGED run
        \/ \E c \in run.cands : Pick(c)
        \/ \E r \in run.left : CallAnswered(r)
        \/ Tried \/ CallFails \/ Stops
    BY DEF vars, UserPlays, Vanish, ImportBegin
  <2> HIDE DEF Goes
  <2> QED
    BY <1>2, <1>3, <1>4, <1>5, <1>6, <2>1
<1>8. Grows
  BY <1>1, <1>7 DEF Grows
<1>9. Tells /\ Losses
  BY <1>1, <1>7, QuietTells
<1> QED
  BY <1>7, <1>8, <1>9, CoverStays

\* Every step keeps it.
LEMMA NextCovers ==
  ASSUME Base, CoverInv, [Next]_vars
  PROVE  CoverInv'
<1>b. Base'
  BY NextBase
<1>1. CASE \/ UNCHANGED vars
           \/ \E r \in Refs : UserPlays(r) \/ Vanish(r) \/ ImportBegin(r)
           \/ \E c \in run.cands : Pick(c)
           \/ \E r \in run.left : CallAnswered(r)
           \/ Tried \/ CallFails \/ Stops
  BY <1>b, <1>1, QuietCovers
<1>2. CASE \/ \E r \in Refs, all \in BOOLEAN : Observe(r, all)
           \/ ImportCommit
           \/ \E s \in Servers : Replace(s)
  BY <1>b, <1>2, ObserveCovers, ImportCovers, ReplaceCovers
<1>3. CASE \/ \E d \in Directions, full \in BOOLEAN : Start(d, full)
           \/ \E r \in run.left : CallNotFound(r)
           \/ Record \/ Finish
  BY <1>b, <1>3, StartCovers, NotFoundCovers, RecordCovers, FinishCovers
<1> QED
  BY <1>1, <1>2, <1>3 DEF Next, RunSteps

\* Rows that tell of what is due are related to those of the candidate, unless
\* identifiers do not tell its title.
LEMMA ToldRows ==
  ASSUME TypeOK, NEW d \in Directions, NEW rows, NEW G \in Groups(Items), NEW t \in Targets(d), Due(G, t),
         NEW i \in G, ~OneIdentity(i) \/ Title(i) \cap rows # {}
  PROVE  \/ \E j \in RowsOf(Completion(G, t)) : ~OneIdentity(j)
         \/ RowsOf(Completion(G, t)) \cap Related(rows) # {}
<1>1. t \in Servers
  BY OtherServer DEF Targets, Directions
<1>2. PICK j \in RowsOf(Completion(G, t)) : j \in G
  BY <1>1, DueGroup
<1>3. i \in Items /\ j \in Title(i)
  BY <1>1, <1>2, DueGroup
<1>4. Title(j) = Title(i)
  BY <1>3, TitleShared
<1>5. OneIdentity(j) <=> OneIdentity(i)
  BY <1>4 DEF OneIdentity
<1>6. OneIdentity(i) => j \in Related(rows)
  BY <1>3, TitleRelated
<1> QED
  BY <1>2, <1>5, <1>6

\* The invariant of the checkpoints holds of the propagation.
LEMMA CoverInvariant == Spec => [](Base /\ CoverInv)
<1>1. Init => CoverInv
  BY IdleRun DEF Init, CoverInv, Held
<1>2. Base /\ CoverInv /\ [Next]_vars => CoverInv'
  BY NextCovers
<1> QED
  BY <1>1, <1>2, BaseInvariant, PTL DEF Spec

\* Between two runs, a completion that a full scan would send is found by the next
\* incremental scan of its direction, but for what an import committed behind the scan,
\* what an older history of the target hid, and titles that identifiers do not tell
\* (_incremental_scope, _finish).
THEOREM IncrementalScansCover == Spec => []IncrementalCovers
<1>1. ASSUME Base, CoverInv PROVE IncrementalCovers
  <2>1. SUFFICES ASSUME run.pc = "idle", NEW d \in marked, NEW c \in Candidates(d, Items), c.done
                 PROVE  \/ c \in Candidates(d, Scope(d))
                        \/ RowsOf(c) \cap Related(blind) # {}
                        \/ \E i \in RowsOf(c) : <<i, c.to>> \in evented \/ ~OneIdentity(i)
    BY DEF IncrementalCovers
  <2>t. TypeOK /\ d \in Directions
    BY <1>1 DEF Base, TypeOK
  <2>2. PICK G \in Groups(Items), t \in Targets(d) : Due(G, t) /\ c = Completion(G, t)
    BY <2>1, <2>t, CompletionsFound
  <2>3. c.to = t /\ c.refs = Entries(G, t)
    BY <2>2 DEF Completion
  <2>4. Told(d, fresh[d], G, t)
    BY <1>1, <2>2 DEF CoverInv, Cover
  <2>5. CASE \E r \in Entries(G, t) : <<ItemOf[r], t>> \in evented
    BY <2>3, <2>5 DEF RowsOf
  <2>6. ASSUME NEW i \in G, OneIdentity(i), Title(i) \cap fresh[d] # {}
        PROVE  c \in Candidates(d, Scope(d))
    BY <2>t, <2>2, <2>6, ScanFinds DEF Scope
  <2>7. ASSUME NEW i \in G, ~OneIdentity(i) \/ Title(i) \cap blind # {}
        PROVE  RowsOf(c) \cap Related(blind) # {} \/ \E j \in RowsOf(c) : ~OneIdentity(j)
    BY <2>t, <2>2, <2>7, ToldRows
  <2> QED
    BY <2>4, <2>5, <2>6, <2>7 DEF Told
<1> QED
  BY <1>1, CoverInvariant, PTL

\* When a run declares the pending import done, every completion still due was written
\* after its scan began, or committed behind it, or is on a title that identifiers do
\* not tell (_finish with clear_pending).
THEOREM PendingImportsServed == Spec => PendingServed
<1>1. ASSUME Base, CoverInv, Next, pending, ~pending',
             NEW c \in Candidates("both", Items), c.done
      PROVE  \/ RowsOf(c) \cap Related(run.since \cup blind) # {}
             \/ \E i \in RowsOf(c) : ~OneIdentity(i)
  <2>t. TypeOK /\ "both" \in Directions
    BY <1>1 DEF Base, Directions
  <2>1. Finish /\ ~run.failed /\ run.dir = "both"
    <3>1. Finish
      BY <1>1 DEF Next, RunSteps, UserPlays, Vanish, Observe, ImportBegin, ImportCommit, Start, Pick,
                  CallAnswered, CallNotFound, Tried, Record, CallFails, Stops, Replace, book, world, history
    <3> QED
      BY <1>1, <3>1 DEF Finish, StillPending
  <2>2. run.pc # "idle" /\ Held = {}
    BY <2>1 DEF Finish, Held
  <2>3. PICK G \in Groups(Items), t \in Targets("both") : Due(G, t) /\ c = Completion(G, t)
    BY <1>1, <2>t, CompletionsFound
  <2>4. Told("both", run.since, G, t)
    BY <1>1, <2>1, <2>2, <2>3 DEF CoverInv, Cover
  <2>5. PICK i \in G : ~OneIdentity(i) \/ Title(i) \cap (run.since \cup blind) # {}
    BY <2>4 DEF Told
  <2> QED
    BY <2>t, <2>3, <2>5, ToldRows
<1>2. Base /\ CoverInv /\ [Next]_vars =>
        [pending /\ ~pending' =>
           \A c \in Candidates("both", Items) :
              c.done => \/ RowsOf(c) \cap Related(run.since \cup blind) # {}
                        \/ \E i \in RowsOf(c) : ~OneIdentity(i)]_vars
  BY <1>1
<1> QED
  BY <1>2, CoverInvariant, PTL DEF Spec, PendingServed
===============================================================================
