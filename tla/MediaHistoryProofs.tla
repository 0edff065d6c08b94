-------------------------- MODULE MediaHistoryProofs --------------------------
(* What holds of the history whatever the servers, the pages and the exports     *)
(* are: HierarchyAgrees, PlaysOnce, PlaysCounted, PlaysStay and ContainersHonest *)
(* of MediaHistory.  The repairs and matches are those of CatalogMerge, over     *)
(* other tables: what CatalogMergeProofs shows of any set of catalogs is used    *)
(* for HistoryCatalog.  What is left is where an entry is put, how a play is     *)
(* recorded, and what an import does.                                            *)
EXTENDS MediaHistory, CatalogMergeProofs

-------------------------------------------------------------------------------
(* The tables.                                                                *)

Events == UNION {ToSet(Archives[a]) : a \in DOMAIN Archives}
AllPages == UNION {Pages[r] : r \in Refs}
HistoryIds ==
  Matches \cup (UNION {t.ids \cup t.show : t \in AllPages}) \cup (UNION {e.ids \cup e.show : e \in Events})
HistoryPaths == UNION {t.files : t \in AllPages}
Labels == {"none"} \cup {Label[r] : r \in Refs} \cup {e.label : e \in Events} \cup {e.showLabel : e \in Events}
Telling == [ids : SUBSET HistoryIds, show : SUBSET HistoryIds, files : SUBSET HistoryPaths, seen : Nat \X Nat]
PlayIds ==
  {Anonymous} \cup ({"webhook"} \X Nat) \cup ({"state"} \X Refs \X Nat) \cup ({"jellyfin"} \X Refs \X Nat)
  \cup ({"history"} \X Nat \X Nat) \cup ({"trakt"} \X {e.id : e \in Events})
PlayRecord ==
  [row : Rows, source : Sources, id : PlayIds, time : Nat, born : Rows, moved : BOOLEAN]

HistoryTables ==
  [live : SUBSET Rows, parent : [Rows -> Rows \cup {0}], ids : [Rows -> SUBSET HistoryIds],
   manual : [Rows -> Matches \cup {Unmatched}], at : [Refs -> Rows \cup {0}], avail : SUBSET Refs,
   files : [Refs -> SUBSET HistoryPaths], plays : SUBSET PlayRecord, now : Nat,
   state : [Rows -> [Sources -> State]], heir : [Rows -> Rows], label : [Rows -> Labels],
   told : [Refs -> Telling \cup {<<>>}], ok : BOOLEAN]
TitlesMatched(c) == \A i \in Rows : c.manual[i] # Unmatched => Kind[i] \in Topmost
HistoryCatalog == {c \in HistoryTables : c.ok /\ TitlesMatched(c)}

\* What _merge_item leaves in each table.
LEMMA HistoryMerged ==
  ASSUME NEW c \in HistoryCatalog, NEW w \in Rows, NEW l \in Rows
  PROVE  ItemMerged(HistoryCatalog, c, w, l, MergeItem(c, w, l))
<1> DEFINE d == MergeItem(c, w, l)
<1>1. MergedIds(c, w, l) \in SUBSET HistoryIds
  BY DEF MergedIds, HistoryCatalog, HistoryTables
<1>2. MovedPlays(c, w, l) \in SUBSET PlayRecord
  <2>1. \A p \in c.plays : p \in PlayRecord
    BY DEF HistoryCatalog, HistoryTables
  <2>2. \A p \in c.plays : [p EXCEPT !.row = w] \in PlayRecord
    BY <2>1 DEF PlayRecord
  <2> QED
    BY <2>1, <2>2 DEF MovedPlays
<1>5. /\ c.live \in SUBSET Rows /\ c.parent \in [Rows -> Rows \cup {0}]
      /\ c.ids \in [Rows -> SUBSET HistoryIds] /\ c.manual \in [Rows -> Matches \cup {Unmatched}]
      /\ c.at \in [Refs -> Rows \cup {0}] /\ c.avail \in SUBSET Refs
      /\ c.files \in [Refs -> SUBSET HistoryPaths] /\ c.now \in Nat /\ c.state \in [Rows -> [Sources -> State]]
      /\ c.heir \in [Rows -> Rows] /\ c.label \in [Rows -> Labels] /\ c.told \in [Refs -> Telling \cup {<<>>}]
      /\ c.ok \in BOOLEAN
  BY DEF HistoryCatalog, HistoryTables
<1>3. [s \in Sources |-> MergedState(c.state[w][s], c.state[l][s])] \in [Sources -> State]
  <2>1. \A s \in Sources : c.state[w][s] \in State /\ c.state[l][s] \in State
    BY <1>5
  <2>2. \A s \in Sources : MergedState(c.state[w][s], c.state[l][s]) \in State
    BY <2>1, MergedStateIsState
  <2> QED
    BY <2>2
<1>4. NoState \in State
  BY DEF NoState, State
<1> DEFINE ids == [c.ids EXCEPT ![w] = MergedIds(c, w, l), ![l] = {}]
           manual == [c.manual EXCEPT ![l] = Unmatched]
           state == [c.state EXCEPT ![w] = [s \in Sources |-> MergedState(c.state[w][s], c.state[l][s])],
                                    ![l] = [s \in Sources |-> NoState]]
           parent == [i \in Rows |-> IF i = l THEN 0 ELSE IF c.parent[i] = l THEN w ELSE c.parent[i]]
           at == [r \in Refs |-> IF c.at[r] = l THEN w ELSE c.at[r]]
           heir == [i \in Rows |-> IF c.heir[i] = l THEN w ELSE c.heir[i]]
<1>6. /\ ids \in [Rows -> SUBSET HistoryIds] /\ manual \in [Rows -> Matches \cup {Unmatched}]
      /\ parent \in [Rows -> Rows \cup {0}] /\ at \in [Refs -> Rows \cup {0}] /\ heir \in [Rows -> Rows]
  BY <1>1, <1>5
<1>7. state \in [Rows -> [Sources -> State]]
  BY <1>3, <1>4, <1>5
<1>8. d = [c EXCEPT !.live = c.live \ {l}, !.ids = ids, !.at = at, !.parent = parent, !.manual = manual,
                    !.heir = heir, !.plays = MovedPlays(c, w, l), !.state = state]
  BY DEF MergeItem, MovedRefs
<1>9. d = [live |-> c.live \ {l}, parent |-> parent, ids |-> ids, manual |-> manual, at |-> at,
           avail |-> c.avail, files |-> c.files, plays |-> MovedPlays(c, w, l), now |-> c.now,
           state |-> state, heir |-> heir, label |-> c.label, told |-> c.told, ok |-> c.ok]
  <2> HIDE DEF ids, manual, state, parent, at, heir
  <2> QED
    BY <1>8 DEF HistoryCatalog, HistoryTables
<1>11. TitlesMatched(d) /\ d.ok
  <2>1. d.manual = manual /\ TitlesMatched(c) /\ d.ok = c.ok
    BY <1>9 DEF HistoryCatalog
  <2> HIDE DEF d
  <2> QED
    BY <1>5, <2>1 DEF TitlesMatched, HistoryCatalog
<1>10. d \in HistoryCatalog
  <2> HIDE DEF ids, manual, state, parent, at, heir
  <2> QED
    BY <1>2, <1>5, <1>6, <1>7, <1>9, <1>11 DEF HistoryCatalog, HistoryTables
<1> QED
  BY <1>9, <1>10 DEF ItemMerged

\* Merging leaves the tables of the history tables of the history.
LEMMA HistoryIsTables ==
  Tables(HistoryCatalog)
<1>1. ASSUME NEW c \in HistoryCatalog PROVE Typed(c)
  <2>1. ASSUME NEW p \in c.plays PROVE Movable(p)
    <3>1. p \in PlayRecord
      BY DEF HistoryCatalog, HistoryTables
    <3> QED
      BY <3>1 DEF Movable, MovedTo, PlayRecord
  <2> QED
    BY <2>1 DEF HistoryCatalog, HistoryTables, Typed
<1>2. ASSUME NEW c \in HistoryCatalog, NEW i \in Rows, NEW p \in Rows
      PROVE  Reparented(HistoryCatalog, c, i, p, [c EXCEPT !.parent[i] = p])
  <2> DEFINE d == [c EXCEPT !.parent[i] = p]
             parent == [c.parent EXCEPT ![i] = p]
  <2>1. parent \in [Rows -> Rows \cup {0}]
    BY DEF HistoryCatalog, HistoryTables
  <2>2. d = [c EXCEPT !.parent = parent]
    BY DEF HistoryCatalog, HistoryTables
  <2>3. TitlesMatched(c) /\ c.ok
    BY DEF HistoryCatalog
  <2> HIDE DEF parent, d
  <2>4. /\ d \in HistoryTables /\ d.live = c.live /\ d.ids = c.ids /\ d.manual = c.manual /\ d.at = c.at
        /\ d.plays = c.plays /\ d.files = c.files /\ d.avail = c.avail /\ d.heir = c.heir /\ d.state = c.state
        /\ d.parent = parent /\ d.ok = c.ok
    BY <2>1, <2>2 DEF HistoryCatalog, HistoryTables
  <2>5. d \in HistoryCatalog
    BY <2>3, <2>4 DEF HistoryCatalog, TitlesMatched
  <2>6. Reparented(HistoryCatalog, c, i, p, d)
    BY <2>4, <2>5 DEF Reparented, parent
  <2> QED
    BY <2>6 DEF d
<1> QED
  BY <1>1, <1>2, HistoryMerged DEF Tables


-------------------------------------------------------------------------------
(* Where entries hang.                                                        *)

\* The tables, one by one.
LEMMA HistoryTypes ==
  ASSUME NEW c \in HistoryTables
  PROVE  /\ c.live \in SUBSET Rows /\ c.parent \in [Rows -> Rows \cup {0}]
         /\ c.ids \in [Rows -> SUBSET HistoryIds] /\ c.manual \in [Rows -> Matches \cup {Unmatched}]
         /\ c.at \in [Refs -> Rows \cup {0}] /\ c.avail \in SUBSET Refs
         /\ c.files \in [Refs -> SUBSET HistoryPaths] /\ c.plays \in SUBSET PlayRecord /\ c.now \in Nat
         /\ c.state \in [Rows -> [Sources -> State]] /\ c.heir \in [Rows -> Rows]
         /\ c.label \in [Rows -> Labels] /\ c.told \in [Refs -> Telling \cup {<<>>}] /\ c.ok \in BOOLEAN
BY DEF HistoryTables

\* An episode is listed under a season and a show.
LEMMA EpisodeAbove ==
  ASSUME NEW r \in Refs, Level[r] = "episode"
  PROVE  /\ SeasonOf(r) \in Refs /\ Level[SeasonOf(r)] = "season"
         /\ ShowOf(r) \in Refs /\ Level[ShowOf(r)] = "show"
<1>1. Above[r] \subseteq Refs /\ (\E q \in Above[r] : Level[q] = "season") /\ \E q \in Above[r] : Level[q] = "show"
  BY RowsAssumption, HistoryAssumption
<1> QED
  BY <1>1 DEF SeasonOf, ShowOf

\* The season and show of an episode have rows, one below the other.
Bound(c, r) ==
  /\ c.at[SeasonOf(r)] # 0 /\ c.at[ShowOf(r)] # 0
  /\ c.parent[c.at[SeasonOf(r)]] = c.at[ShowOf(r)]
\* An entry with a row hangs from them, unless other rows were merged into its own.
Hung(c, r) ==
  Level[r] = "episode" /\ c.at[r] # 0 =>
     /\ Bound(c, r)
     /\ Single(c, c.at[r]) => c.at[SeasonOf(r)] = c.parent[c.at[r]]

\* What a catalog of the history always is.
Standing(c) ==
  /\ Whole(HistoryCatalog, c)
  /\ \A r \in Refs : (c.at[r] # 0 => Kind[c.at[r]] = Level[r]) /\ Hung(c, r)

\* What is known of it.
LEMMA StandingTypes ==
  ASSUME NEW c, Standing(c)
  PROVE  /\ c \in HistoryTables /\ c \in HistoryCatalog /\ c.ok /\ TitlesMatched(c)
         /\ c.live \subseteq Rows /\ 0 \notin Rows /\ Rows \subseteq Nat /\ IsFiniteSet(c.live)
         /\ \A i \in c.live : c.heir[i] = i /\ Rooted(c, i) /\ (c.parent[i] # 0 => c.parent[i] \in c.live)
         /\ \A r \in Refs : c.at[r] # 0 => c.at[r] \in c.live /\ Kind[c.at[r]] = Level[r]
         /\ \A r \in c.avail : c.at[r] # 0
         /\ \A i \in Rows : c.heir[i] \in c.live \cup {i} /\ Kind[c.heir[i]] = Kind[i] /\ c.heir[c.heir[i]] = c.heir[i]
         /\ IsFiniteSet(c.plays) /\ \A p \in c.plays : p.row \in c.live
<1>1. Whole(HistoryCatalog, c) /\ \A r \in Refs : c.at[r] # 0 => Kind[c.at[r]] = Level[r]
  BY DEF Standing
<1>2. /\ c.live \subseteq Rows /\ 0 \notin Rows /\ \A i \in c.live : c.heir[i] = i
      /\ \A i \in c.live : c.parent[i] # 0 => c.parent[i] \in c.live
  <2>1. Whole(HistoryCatalog, c)
    BY <1>1
  <2> QED
    BY <2>1, HistoryIsTables, WholeTypes, Zenon
<1>3. /\ c \in HistoryTables /\ c \in HistoryCatalog /\ c.ok /\ TitlesMatched(c)
      /\ \A i \in c.live : Rooted(c, i)
      /\ \A r \in Refs : c.at[r] # 0 => c.at[r] \in c.live
      /\ \A r \in c.avail : c.at[r] # 0
      /\ \A i \in Rows : c.heir[i] \in c.live \cup {i} /\ Kind[c.heir[i]] = Kind[i]
      /\ IsFiniteSet(c.plays) /\ \A p \in c.plays : p.row \in c.live
  BY <1>1 DEF Whole, HistoryCatalog
<1>4. Rows \subseteq Nat /\ IsFiniteSet(c.live)
  BY <1>2, RowsAssumption, FS_Subset
<1>5. \A i \in Rows : c.heir[c.heir[i]] = c.heir[i]
  BY <1>2, <1>3
<1> QED
  BY <1>1, <1>2, <1>3, <1>4, <1>5

LEMMA StandingTables ==
  ASSUME NEW c, Standing(c)
  PROVE  /\ c \in HistoryTables /\ c.live \in SUBSET Rows /\ c.parent \in [Rows -> Rows \cup {0}]
         /\ c.ids \in [Rows -> SUBSET HistoryIds] /\ c.manual \in [Rows -> Matches \cup {Unmatched}]
         /\ c.at \in [Refs -> Rows \cup {0}] /\ c.avail \in SUBSET Refs
         /\ c.files \in [Refs -> SUBSET HistoryPaths] /\ c.plays \in SUBSET PlayRecord
         /\ c.state \in [Rows -> [Sources -> State]] /\ c.heir \in [Rows -> Rows]
         /\ c.label \in [Rows -> Labels] /\ c.told \in [Refs -> Telling \cup {<<>>}]
<1>1. c \in HistoryTables
  BY StandingTypes
<1> QED
  BY <1>1, HistoryTypes

\* What placing an entry does not change.
SameHistory(c, d) == d.plays = c.plays /\ d.heir = c.heir /\ d.state = c.state /\ d.manual = c.manual

\* What placing an entry changes: refused, nothing of it stays; else rows and entries are
\* added, and no play, state or match changes.
Grows(c, d) ==
  /\ d \in HistoryTables
  /\ d.ok => /\ Standing(d)
             /\ c.live \subseteq d.live /\ \A q \in Refs : c.at[q] # 0 => d.at[q] = c.at[q]
             /\ SameHistory(c, d)

LEMMA GrowsItself ==
  ASSUME NEW c, Standing(c)
  PROVE  Grows(c, c)
BY StandingTypes DEF Grows, SameHistory

LEMMA GrowsTransitive ==
  ASSUME NEW c, NEW d, NEW e, Grows(c, d), d.ok, Grows(d, e)
  PROVE  Grows(c, e)
<1>1. d.at \in [Refs -> Rows \cup {0}]
  BY DEF Grows, HistoryTables
<1> QED
  BY <1>1 DEF Grows, SameHistory

\* Only states, plays and what is known of entries changed.
LEMMA StandsStill ==
  ASSUME NEW c, Standing(c), NEW d \in HistoryTables, d.ok,
         d.live = c.live, d.parent = c.parent, d.at = c.at, d.heir = c.heir, d.manual = c.manual,
         \A r \in d.avail : d.at[r] # 0, IsFiniteSet(d.plays), \A p \in d.plays : p.row \in d.live,
         \A i \in Rows, s \in Sources : d.state[i][s].done => d.state[i][s].row
  PROVE  Standing(d)
<1>1. d \in HistoryCatalog
  BY StandingTypes DEF HistoryCatalog, TitlesMatched
<1>2. \A i \in d.live : Rooted(d, i)
  BY StandingTypes DEF Rooted
<1>3. Whole(HistoryCatalog, d)
  BY <1>1, <1>2 DEF Whole, Standing
<1>4. ASSUME NEW r \in Refs PROVE (d.at[r] # 0 => Kind[d.at[r]] = Level[r]) /\ Hung(d, r)
  BY DEF Standing, Hung, Bound, Single
<1> QED
  BY <1>3, <1>4 DEF Standing

\* Identifiers, labels, files and what was told changed.
LEMMA OtherTables ==
  ASSUME NEW c, Standing(c), NEW d \in HistoryTables, d.ok,
         d.live = c.live, d.parent = c.parent, d.at = c.at, SameHistory(c, d), \A r \in d.avail : d.at[r] # 0
  PROVE  Grows(c, d)
<1>1. d.heir = c.heir /\ d.manual = c.manual /\ d.plays = c.plays /\ d.state = c.state
  BY DEF SameHistory
<1>2. IsFiniteSet(d.plays) /\ \A p \in d.plays : p.row \in d.live
  BY <1>1, StandingTypes
<1>3. \A i \in Rows, s \in Sources : d.state[i][s].done => d.state[i][s].row
  BY <1>1 DEF Standing, Whole
<1>4. Standing(d)
  BY <1>1, <1>2, <1>3, StandsStill
<1> QED
  BY <1>4 DEF Grows

\* Entries that had a row hang as before when others get theirs.
LEMMA HungKept ==
  ASSUME NEW c, Standing(c), NEW d, d.heir = c.heir,
         \A q \in Refs : c.at[q] # 0 => d.at[q] = c.at[q],
         \A i \in c.live : Kind[i] = "season" \/ Single(c, i) => d.parent[i] = c.parent[i],
         NEW r \in Refs, c.at[r] # 0
  PROVE  Hung(d, r)
<1> SUFFICES ASSUME Level[r] = "episode" PROVE Bound(d, r) /\ (Single(d, d.at[r]) => d.at[SeasonOf(r)] = d.parent[d.at[r]])
  BY DEF Hung
<1>1. Bound(c, r) /\ (Single(c, c.at[r]) => c.at[SeasonOf(r)] = c.parent[c.at[r]])
  BY DEF Standing, Hung
<1>2. SeasonOf(r) \in Refs /\ Level[SeasonOf(r)] = "season" /\ ShowOf(r) \in Refs
  BY EpisodeAbove
<1>3. \A q \in Refs : c.at[q] # 0 => c.at[q] \in c.live /\ Kind[c.at[q]] = Level[q]
  BY StandingTypes
<1>4. Bound(d, r)
  BY <1>1, <1>2, <1>3 DEF Bound
<1>5. Single(d, d.at[r]) => Single(c, c.at[r])
  BY DEF Single
<1> QED
  BY <1>1, <1>2, <1>3, <1>4, <1>5 DEF Bound

\* What a refusal leaves.
LEMMA RefusedTables ==
  ASSUME NEW c \in HistoryTables
  PROVE  Refused(c) \in HistoryTables /\ ~Refused(c).ok
BY DEF Refused, HistoryTables

\* What attaching an entry to a row changes.
LEMMA AttachedTables ==
  ASSUME NEW c \in HistoryTables, NEW q \in Refs, NEW i \in Rows \cup {0}, NEW d, d = Attached(c, q, i)
  PROVE  /\ d \in HistoryTables /\ d.ok = c.ok /\ d.live = c.live /\ d.parent = c.parent
         /\ SameHistory(c, d) /\ d.avail = c.avail \cup {q} /\ d.label = c.label
         /\ \A x \in Refs : d.at[x] = IF x = q THEN i ELSE c.at[x]
<1> DEFINE at == [c.at EXCEPT ![q] = i]
           avail == c.avail \cup {q}
<1>1. at \in [Refs -> Rows \cup {0}] /\ avail \in SUBSET Refs
  BY HistoryTypes
<1>2. d = [c EXCEPT !.at = at, !.avail = avail]
  BY DEF Attached
<1> HIDE DEF at, avail
<1>3. /\ d \in HistoryTables /\ d.ok = c.ok /\ d.live = c.live /\ d.parent = c.parent
      /\ d.plays = c.plays /\ d.heir = c.heir /\ d.state = c.state /\ d.manual = c.manual
      /\ d.avail = avail /\ d.at = at /\ d.label = c.label
  BY <1>1, <1>2 DEF HistoryTables
<1> QED
  BY <1>3, HistoryTypes DEF SameHistory, at, avail

\* An entry gets a row of its level, under the season it is listed under.
LEMMA AttachedGrows ==
  ASSUME NEW c, Standing(c), NEW q \in Refs, NEW i \in c.live, Kind[i] = Level[q], c.at[q] \in {0, i},
         Level[q] = "episode" => Bound(c, q) /\ c.at[SeasonOf(q)] = c.parent[i],
         NEW d, d = Attached(c, q, i)
  PROVE  /\ Grows(c, d) /\ d.ok /\ d.live = c.live /\ d.parent = c.parent
         /\ \A x \in Refs : d.at[x] = IF x = q THEN i ELSE c.at[x]
<1>1. /\ c \in HistoryTables /\ c \in HistoryCatalog /\ c.ok /\ TitlesMatched(c)
      /\ c.live \subseteq Rows /\ 0 \notin Rows /\ i \in Rows \cup {0} /\ c.at \in [Refs -> Rows \cup {0}]
      /\ \A x \in Refs : c.at[x] # 0 => c.at[x] \in c.live /\ Kind[c.at[x]] = Level[x]
      /\ \A j \in c.live : Rooted(c, j)
  <2>1. c.at \in [Refs -> Rows \cup {0}]
    BY StandingTables
  <2> QED
    BY <2>1, StandingTypes
<1>2. /\ d \in HistoryTables /\ d.ok = c.ok /\ d.live = c.live /\ d.parent = c.parent
      /\ SameHistory(c, d) /\ d.avail = c.avail \cup {q}
      /\ \A x \in Refs : d.at[x] = IF x = q THEN i ELSE c.at[x]
  <2>1. c \in HistoryTables /\ i \in Rows \cup {0}
    BY <1>1
  <2> QED
    BY <2>1, AttachedTables
<1>3. d \in HistoryCatalog
  BY <1>1, <1>2 DEF HistoryCatalog, TitlesMatched, SameHistory
<1>5. \A j \in d.live : Rooted(d, j)
  BY <1>1, <1>2 DEF Rooted, SameHistory
<1>6. Whole(HistoryCatalog, d)
  <2>1. \A x \in Refs : d.at[x] \in d.live \cup {0}
    BY <1>1, <1>2
  <2>2. \A x \in d.avail : d.at[x] # 0
    <3>0. c.avail \subseteq Refs
      BY StandingTables
    <3>1. \A x \in c.avail : c.at[x] # 0
      BY <1>1, StandingTypes
    <3> QED
      BY <1>1, <1>2, <3>0, <3>1
  <2>3. /\ IsFiniteSet(d.plays) /\ \A p \in d.plays : p.row \in d.live
        /\ \A j \in d.live : d.manual[j] # Unmatched => Kind[j] \in Topmost
        /\ \A j \in Rows : d.heir[j] \in d.live \cup {j} /\ Kind[d.heir[j]] = Kind[j]
        /\ \A j \in Rows, s \in Sources : d.state[j][s].done => d.state[j][s].row
    BY <1>2 DEF Whole, Standing, SameHistory
  <2> QED
    BY <1>3, <1>5, <2>1, <2>2, <2>3 DEF Whole
<1>7. ASSUME NEW x \in Refs PROVE (d.at[x] # 0 => Kind[d.at[x]] = Level[x]) /\ Hung(d, x)
  <2>1. CASE c.at[x] # 0
    <3>1. \A y \in Refs : c.at[y] # 0 => d.at[y] = c.at[y]
      BY <1>2
    <3>2. d.heir = c.heir /\ d.parent = c.parent
      BY <1>2 DEF SameHistory
    <3>3. Hung(d, x)
      BY <2>1, <3>1, <3>2, HungKept
    <3> QED
      BY <1>1, <2>1, <3>1, <3>3
  <2>2. CASE c.at[x] = 0 /\ x # q
    BY <1>2, <2>2 DEF Hung
  <2>3. CASE c.at[x] = 0 /\ x = q
    <3> SUFFICES ASSUME Level[q] = "episode" PROVE Bound(d, q) /\ d.at[SeasonOf(q)] = d.parent[d.at[q]]
      BY <1>2, <2>3 DEF Hung
    <3>1. SeasonOf(q) \in Refs /\ SeasonOf(q) # q /\ ShowOf(q) \in Refs /\ ShowOf(q) # q
      BY EpisodeAbove
    <3>2. d.at[SeasonOf(q)] = c.at[SeasonOf(q)] /\ d.at[ShowOf(q)] = c.at[ShowOf(q)] /\ d.at[q] = i
      BY <1>2, <3>1
    <3> QED
      BY <1>2, <3>2 DEF Bound
  <2> QED
    BY <2>1, <2>2, <2>3
<1>8. Standing(d)
  BY <1>6, <1>7 DEF Standing
<1> QED
  BY <1>1, <1>2, <1>8 DEF Grows

\* Which row a set of one row has.
LEMMA OnlyIn ==
  ASSUME NEW S \in SUBSET Rows
  PROVE  Only(S) = 0 \/ Only(S) \in S
<1>1. Cardinality(S) = 1 => S # {}
  BY FS_EmptySet
<1>2. S \subseteq Nat
  BY RowsAssumption
<1> QED
  BY <1>1, <1>2, MinIn DEF Only

\* A row a row of some level may be created under.
Fits(c, kind, above) ==
  /\ kind = "season" => above \in c.live /\ Kind[above] = "show"
  /\ kind = "episode" => above \in c.live /\ Kind[above] = "season"
  /\ kind \in Topmost => above = 0

\* Creating a row: a free one is taken, or there is none and all is refused.
Makes(c, kind, above, new) ==
  /\ new.cat \in HistoryTables /\ new.row \in Rows \cup {0} /\ (new.cat.ok => c.ok)
  /\ new.cat.ok => /\ new.row \in Rows \ c.live /\ Kind[new.row] = kind /\ c.heir[new.row] = new.row
                   /\ new.cat.live = c.live \cup {new.row} /\ new.cat.at = c.at
                   /\ new.cat.avail = c.avail /\ SameHistory(c, new.cat)
                   /\ \A i \in Rows : new.cat.parent[i] = IF i = new.row THEN above ELSE c.parent[i]
LEMMA CreatedTables ==
  ASSUME NEW c \in HistoryTables, NEW kind, NEW number, NEW above \in Rows \cup {0}, NEW label \in Labels
  PROVE  Makes(c, kind, above, Created(c, kind, number, above, label))
<1> DEFINE free == Free(c, kind, number)
           i == Min(free)
           parent == [c.parent EXCEPT ![i] = above]
           labels == [c.label EXCEPT ![i] = label]
           live == c.live \cup {i}
<1> SUFFICES ASSUME NEW new, new = Created(c, kind, number, above, label)
             PROVE  Makes(c, kind, above, new)
  OBVIOUS
<1>1. CASE free = {}
  <2>1. new = [row |-> 0, cat |-> Refused(c)]
    BY <1>1 DEF Created
  <2> QED
    BY <2>1, RefusedTables DEF Makes
<1>2. CASE free # {}
  <2>1. free \subseteq Rows \ c.live /\ free \in SUBSET Nat /\ \A j \in free : Kind[j] = kind /\ c.heir[j] = j
    BY RowsAssumption DEF Free
  <2>2. i \in free
    BY <1>2, <2>1, MinIn
  <2>3. i \in Rows /\ i \notin c.live /\ Kind[i] = kind /\ c.heir[i] = i
    BY <2>1, <2>2
  <2>4. new.row = i /\ new.cat = Opened(c, i, above, label)
    BY <1>2 DEF Created
  <2> HIDE DEF i, free
  <2>5. parent \in [Rows -> Rows \cup {0}] /\ labels \in [Rows -> Labels] /\ live \in SUBSET Rows
    BY <2>3, HistoryTypes
  <2>6. new.cat = [c EXCEPT !.live = live, !.parent = parent, !.label = labels]
    BY <2>4 DEF Opened
  <2> HIDE DEF live, labels, parent
  <2>7. /\ new.cat \in HistoryTables /\ new.cat.live = live /\ new.cat.parent = parent /\ new.cat.at = c.at
        /\ new.cat.avail = c.avail /\ new.cat.plays = c.plays /\ new.cat.heir = c.heir
        /\ new.cat.state = c.state /\ new.cat.manual = c.manual /\ new.cat.ok = c.ok /\ new.cat.ids = c.ids
    BY <2>5, <2>6 DEF HistoryTables
  <2>8. \A j \in Rows : parent[j] = IF j = i THEN above ELSE c.parent[j]
    BY <2>3, HistoryTypes DEF parent
  <2>9. SameHistory(c, new.cat) /\ new.cat.live = c.live \cup {i}
    BY <2>7 DEF SameHistory, live
  <2>10. \A j \in Rows : new.cat.parent[j] = IF j = i THEN above ELSE c.parent[j]
    BY <2>7, <2>8
  <2> QED
    BY <2>3, <2>4, <2>7, <2>9, <2>10 DEF Makes
<1> QED
  BY <1>1, <1>2

LEMMA CreatedGrows ==
  ASSUME NEW c, Standing(c), NEW kind \in Levels, NEW number, NEW above \in Rows \cup {0}, Fits(c, kind, above),
         NEW label \in Labels, NEW new, new = Created(c, kind, number, above, label)
  PROVE  /\ Grows(c, new.cat) /\ new.row \in Rows \cup {0}
         /\ new.cat.ok => /\ new.row \in new.cat.live /\ Kind[new.row] = kind /\ new.cat.parent[new.row] = above
                          /\ new.cat.at = c.at /\ \A i \in c.live : new.cat.parent[i] = c.parent[i]
<1>1. c \in HistoryTables
  BY StandingTypes
<1>2. Makes(c, kind, above, new)
  BY <1>1, CreatedTables
<1>3. SUFFICES ASSUME new.cat.ok
               PROVE  /\ Standing(new.cat) /\ new.cat.parent[new.row] = above
                      /\ \A i \in c.live : new.cat.parent[i] = c.parent[i]
  BY <1>2 DEF Grows, Makes
<1> DEFINE d == new.cat
           n == new.row
<1>4. /\ c.live \subseteq Rows /\ TitlesMatched(c) /\ \A i \in c.live : Rooted(c, i)
      /\ \A r \in Refs : c.at[r] # 0 => c.at[r] \in c.live /\ Kind[c.at[r]] = Level[r]
      /\ \A i \in Rows : c.heir[i] \in c.live \cup {i} /\ Kind[c.heir[i]] = Kind[i]
      /\ \A r \in c.avail : c.at[r] # 0
      /\ IsFiniteSet(c.plays) /\ \A p \in c.plays : p.row \in c.live
  BY StandingTypes
<1>5. /\ d \in HistoryTables /\ d.ok /\ n \in Rows /\ n \notin c.live /\ Kind[n] = kind /\ d.live = c.live \cup {n} /\ c.heir[n] = n
      /\ d.at = c.at /\ d.avail = c.avail /\ d.plays = c.plays /\ d.heir = c.heir /\ d.state = c.state
      /\ d.manual = c.manual /\ \A i \in Rows : d.parent[i] = IF i = n THEN above ELSE c.parent[i]
  BY <1>2, <1>3 DEF SameHistory, Makes
<1> HIDE DEF d, n
<1>6. d \in HistoryCatalog
  BY <1>4, <1>5 DEF HistoryCatalog, TitlesMatched
<1>7. \A i \in c.live : d.parent[i] = c.parent[i]
  BY <1>4, <1>5
<1>8. ASSUME NEW i \in d.live PROVE Rooted(d, i)
  <2>1. CASE i \in c.live
    BY <1>4, <1>5, <1>7, <2>1 DEF Rooted
  <2>2. CASE i = n
    BY <1>5, <2>2 DEF Rooted, Fits
  <2> QED
    BY <1>5, <2>1, <2>2
<1>9. Whole(HistoryCatalog, d)
  <2>1. \A r \in Refs : d.at[r] \in d.live \cup {0}
    BY <1>4, <1>5, StandingTables
  <2>2. \A i \in d.live : d.manual[i] # Unmatched => Kind[i] \in Topmost
    BY <1>4, <1>5 DEF TitlesMatched
  <2>3. \A i \in Rows : d.heir[i] \in d.live \cup {i} /\ Kind[d.heir[i]] = Kind[i]
    BY <1>4, <1>5
  <2>4. \A i \in Rows, s \in Sources : d.state[i][s].done => d.state[i][s].row
    BY <1>5 DEF Standing, Whole
  <2> QED
    BY <1>4, <1>5, <1>6, <1>8, <2>1, <2>2, <2>3, <2>4 DEF Whole
<1>10. ASSUME NEW r \in Refs PROVE (d.at[r] # 0 => Kind[d.at[r]] = Level[r]) /\ Hung(d, r)
  <2>1. CASE c.at[r] # 0
    <3>1. Hung(d, r)
      BY <1>5, <1>7, <2>1, HungKept
    <3> QED
      BY <1>4, <1>5, <2>1, <3>1
  <2>2. CASE c.at[r] = 0
    BY <1>5, <2>2 DEF Hung
  <2> QED
    BY <2>1, <2>2
<1>11. Standing(d)
  BY <1>9, <1>10 DEF Standing
<1> QED
  BY <1>5, <1>7, <1>11 DEF d, n

\* An entry of a season or a show gets a row below the one given, and no other entry moves.
Settles(c, q, above, d) ==
  /\ Grows(c, d)
  /\ d.ok => /\ d.at[q] # 0 /\ d.parent[d.at[q]] = above
             /\ \A x \in Refs \ {q} : d.at[x] = c.at[x]
             /\ \A i \in c.live : d.parent[i] = c.parent[i]

\* Identifiers are learnt by a row, nothing else changes.
LearnsOnly(c, d) == Grows(c, d) /\ d.ok /\ d.live = c.live /\ d.parent = c.parent /\ d.at = c.at
LEMMA IdentifiedLearns ==
  ASSUME NEW c, Standing(c), NEW r, NEW i \in c.live, NEW new \in SUBSET HistoryIds
  PROVE  LearnsOnly(c, Identified(c, r, i, new))
<1> DEFINE clash(x) == {y \in c.ids[i] : y[1] = x[1] /\ y[2] # x[2]}
           taken == {x \in new : clash(x) = {} \/ MayUpdate(c, r, i)}
           values == (c.ids[i] \ UNION {clash(x) : x \in taken}) \cup taken
           ids == [c.ids EXCEPT ![i] = values]
           d == Identified(c, r, i, new)
<1>1. CASE c.manual[i] # Unmatched
  <2>1. d = c
    BY <1>1 DEF Identified
  <2> QED
    BY <2>1, GrowsItself, StandingTypes DEF LearnsOnly
<1>2. CASE c.manual[i] = Unmatched
  <2>1. d = [c EXCEPT !.ids = ids]
    BY <1>2 DEF Identified
  <2>2. c.ids \in [Rows -> SUBSET HistoryIds] /\ c.live \subseteq Rows
    BY StandingTables
  <2>3. values \in SUBSET HistoryIds
    BY <2>2
  <2>4. ids \in [Rows -> SUBSET HistoryIds]
    <3> HIDE DEF values
    <3> QED
      BY <2>2, <2>3
  <2> HIDE DEF ids, d
  <2>5. /\ d \in HistoryTables /\ d.ok = c.ok /\ d.live = c.live /\ d.parent = c.parent /\ d.at = c.at
        /\ d.avail = c.avail /\ d.plays = c.plays /\ d.heir = c.heir /\ d.state = c.state /\ d.manual = c.manual
    <3>1. c \in HistoryTables
      BY StandingTables
    <3> QED
      BY <2>1, <2>4, <3>1 DEF HistoryTables
  <2>6. SameHistory(c, d)
    BY <2>5 DEF SameHistory
  <2>7. c.ok /\ \A x \in d.avail : d.at[x] # 0
    BY <2>5, StandingTypes
  <2>8. Grows(c, d)
    BY <2>5, <2>6, <2>7, OtherTables
  <2> QED
    BY <2>5, <2>7, <2>8 DEF LearnsOnly, d
<1> QED
  BY <1>1, <1>2

\* An entry is bound to a row of its level.
LEMMA BindSettles ==
  ASSUME NEW c, Standing(c), NEW q \in Refs, Level[q] # "episode", NEW i \in c.live, Kind[i] = Level[q]
  PROVE  Settles(c, q, c.parent[i], Bind(c, q, i)) /\ (Bind(c, q, i).ok => Bind(c, q, i).at[q] = i)
<1> DEFINE d == Bind(c, q, i)
<1>1. CASE c.at[q] \in {0, i}
  <2>1. d = Attached(c, q, i)
    BY <1>1 DEF Bind
  <2> HIDE DEF d
  <2>2. /\ Grows(c, d) /\ d.ok /\ d.live = c.live /\ d.parent = c.parent
        /\ \A x \in Refs : d.at[x] = IF x = q THEN i ELSE c.at[x]
    BY <1>1, <2>1, AttachedGrows
  <2>3. i # 0
    BY StandingTypes
  <2> QED
    BY <2>2, <2>3 DEF Settles, d
<1>2. CASE c.at[q] \notin {0, i}
  <2>1. d = Refused(c)
    BY <1>2 DEF Bind
  <2> QED
    BY <2>1, RefusedTables, StandingTypes DEF Settles, Grows
<1> QED
  BY <1>1, <1>2

\* The rows looked for are of the entry's level, below the row given.
LEMMA ContainersFit ==
  ASSUME NEW c, Standing(c), NEW q \in Refs, Level[q] = "show" \/ Level[q] = "season",
         NEW above, Level[q] = "show" => above = 0, NEW ids, Level[q] = "season" => ids = {}
  PROVE  \A i \in Containers(c, q, above, ids) : i \in c.live /\ Kind[i] = Level[q] /\ c.parent[i] = above
<1>1. \A i \in c.live : Level[q] = "show" /\ Kind[i] = "show" => c.parent[i] = above
  BY StandingTypes DEF Rooted, Topmost
<1>2. ASSUME NEW i \in Containers(c, q, above, ids)
      PROVE  i \in Past(c, q, above) \/ (i \in c.live /\ Kind[i] = Level[q] /\ c.ids[i] \cap ids # {})
  BY <1>2 DEF Containers
<1>3. \A i \in Past(c, q, above) : i \in c.live /\ Kind[i] = Level[q] /\ c.parent[i] = above
  BY DEF Past
<1> QED
  BY <1>1, <1>2, <1>3

LEMMA EnsureRowSettles ==
  ASSUME NEW c, Standing(c), NEW q \in Refs, Level[q] = "show" \/ Level[q] = "season",
         NEW above \in Rows \cup {0}, Fits(c, Level[q], above), NEW found,
         \A i \in found : i \in c.live /\ Kind[i] = Level[q] /\ c.parent[i] = above
  PROVE  Settles(c, q, above, EnsureRow(c, q, above, found))
<1> SUFFICES ASSUME NEW d, d = EnsureRow(c, q, above, found) PROVE Settles(c, q, above, d)
  OBVIOUS
<1>1. c \in HistoryTables /\ c.ok /\ 0 \notin Rows /\ c.live \subseteq Rows /\ Rows \subseteq Nat
  BY StandingTypes
<1>2. CASE c.at[q] # 0 /\ c.parent[c.at[q]] = above
  <2>1. d = Attached(c, q, c.at[q])
    BY <1>2 DEF EnsureRow
  <2>2. c.at[q] \in c.live /\ Kind[c.at[q]] = Level[q]
    BY <1>2, StandingTypes
  <2>3. /\ Grows(c, d) /\ d.ok /\ d.live = c.live /\ d.parent = c.parent
        /\ \A x \in Refs : d.at[x] = IF x = q THEN c.at[q] ELSE c.at[x]
    BY <2>1, <2>2, AttachedGrows
  <2> QED
    BY <1>2, <2>3 DEF Settles
<1>3. CASE c.at[q] = 0 /\ ~(Cardinality(found) > 1) /\ found # {}
  <2>1. found \in SUBSET Nat
    BY <1>1
  <2>2. Min(found) \in found
    BY <1>3, <2>1, MinIn
  <2>3. d = Bind(c, q, Min(found))
    BY <1>3 DEF EnsureRow
  <2>4. Min(found) \in c.live /\ Kind[Min(found)] = Level[q] /\ c.parent[Min(found)] = above
    BY <2>2
  <2>5. Settles(c, q, above, Bind(c, q, Min(found)))
    BY <2>4, BindSettles
  <2> QED
    BY <2>3, <2>5
<1>4. CASE c.at[q] = 0 /\ ~(Cardinality(found) > 1) /\ found = {}
  <2> DEFINE new == Created(c, Level[q], NumberOf(q), above, Label[q])
  <2>1. d = AttachedTo(new, q)
    BY <1>4 DEF EnsureRow
  <2>2. Level[q] \in Levels /\ Label[q] \in Labels
    BY DEF Levels, Labels
  <2> HIDE DEF new
  <2>3. d = Attached(new.cat, q, new.row)
    BY <2>1 DEF AttachedTo
  <2>4. /\ Grows(c, new.cat) /\ new.row \in Rows \cup {0}
        /\ new.cat.ok => /\ new.row \in new.cat.live /\ Kind[new.row] = Level[q] /\ new.cat.parent[new.row] = above
                         /\ new.cat.at = c.at /\ \A i \in c.live : new.cat.parent[i] = c.parent[i]
    BY <2>2, CreatedGrows DEF new
  <2>5. d \in HistoryTables /\ d.ok = new.cat.ok
    <3>1. new.cat \in HistoryTables
      BY <2>4 DEF Grows
    <3> QED
      BY <2>3, <2>4, <3>1, AttachedTables
  <2>6. CASE ~d.ok
    BY <2>5, <2>6 DEF Settles, Grows
  <2>7. CASE d.ok
    <3>1. Standing(new.cat) /\ new.row \in new.cat.live /\ Kind[new.row] = Level[q] /\ new.cat.at = c.at
      BY <2>4, <2>5, <2>7 DEF Grows
    <3>2. /\ Grows(new.cat, d) /\ d.parent = new.cat.parent
          /\ \A x \in Refs : d.at[x] = IF x = q THEN new.row ELSE new.cat.at[x]
      BY <1>4, <2>3, <3>1, AttachedGrows
    <3>3. Grows(c, d)
      BY <2>4, <2>5, <2>7, <3>2, GrowsTransitive
    <3>4. new.row # 0
      BY <3>1, StandingTypes
    <3> QED
      BY <2>4, <2>5, <2>7, <3>1, <3>2, <3>3, <3>4 DEF Settles
  <2> QED
    BY <2>6, <2>7
<1>5. CASE d = Refused(c)
  BY <1>1, <1>5, RefusedTables DEF Settles, Grows
<1> QED
  BY <1>2, <1>3, <1>4, <1>5 DEF EnsureRow

\* What is learnt afterwards changes none of it.
LEMMA SettlesLearns ==
  ASSUME NEW c, NEW q, NEW above, NEW b, Settles(c, q, above, b), b.ok, NEW d, LearnsOnly(b, d)
  PROVE  Settles(c, q, above, d)
<1>1. Grows(c, d)
  BY GrowsTransitive DEF Settles, LearnsOnly
<1> QED
  BY <1>1 DEF Settles, LearnsOnly

\* _ensure_container
LEMMA EnsureSettles ==
  ASSUME NEW c, Standing(c), NEW q \in Refs, Level[q] = "show" \/ Level[q] = "season",
         NEW above \in Rows \cup {0}, Fits(c, Level[q], above),
         NEW ids \in SUBSET HistoryIds, Level[q] = "season" => ids = {}
  PROVE  Settles(c, q, above, Ensure(c, q, above, ids))
<1> DEFINE found == Containers(c, q, above, ids)
           b == EnsureRow(c, q, above, found)
<1>1. Level[q] = "show" => above = 0
  BY DEF Fits, Topmost
<1>2. \A i \in found : i \in c.live /\ Kind[i] = Level[q] /\ c.parent[i] = above
  BY <1>1, ContainersFit
<1>3. c.ok /\ Ensure(c, q, above, ids) = Learns(b, q, ids)
  BY StandingTypes DEF Ensure
<1> HIDE DEF found
<1>4. Settles(c, q, above, b)
  BY <1>2, EnsureRowSettles
<1> HIDE DEF b
<1>5. CASE ~b.ok
  BY <1>3, <1>4, <1>5 DEF Learns
<1>6. CASE b.ok
  <2>1. Standing(b) /\ b.at[q] # 0
    BY <1>4, <1>6 DEF Settles, Grows
  <2>2. b.at[q] \in b.live
    BY <2>1, StandingTypes
  <2>3. LearnsOnly(b, Identified(b, q, b.at[q], ids))
    BY <2>1, <2>2, IdentifiedLearns
  <2> QED
    BY <1>3, <1>4, <1>6, <2>3, SettlesLearns DEF Learns
<1> QED
  BY <1>5, <1>6

\* A row gets another label.
LEMMA NamedLearns ==
  ASSUME NEW c, Standing(c), NEW i \in c.live, NEW name \in Labels
  PROVE  LearnsOnly(c, [c EXCEPT !.label[i] = name])
<1> DEFINE labels == [c.label EXCEPT ![i] = name]
<1> SUFFICES ASSUME NEW d, d = [c EXCEPT !.label = labels] PROVE LearnsOnly(c, d)
  OBVIOUS
<1>1. c \in HistoryTables /\ c.label \in [Rows -> Labels] /\ c.live \subseteq Rows
  BY StandingTables
<1>2. labels \in [Rows -> Labels]
  BY <1>1
<1> HIDE DEF labels
<1>3. /\ d \in HistoryTables /\ d.ok = c.ok /\ d.live = c.live /\ d.parent = c.parent /\ d.at = c.at
      /\ d.avail = c.avail /\ d.plays = c.plays /\ d.heir = c.heir /\ d.state = c.state /\ d.manual = c.manual
  BY <1>1, <1>2 DEF HistoryTables
<1>4. SameHistory(c, d)
  BY <1>3 DEF SameHistory
<1>5. c.ok /\ \A x \in d.avail : d.at[x] # 0
  BY <1>3, StandingTypes
<1>6. Grows(c, d)
  BY <1>3, <1>4, <1>5, OtherTables
<1> QED
  BY <1>3, <1>5, <1>6 DEF LearnsOnly

\* The season and the show of an episode are ready, those of its twin's row if it has one.
Prepares(c, r, twin, d) ==
  /\ Grows(c, d)
  /\ d.ok => /\ d.at[r] = c.at[r] /\ \A i \in c.live : d.parent[i] = c.parent[i]
             /\ Level[r] = "episode" => Bound(d, r) /\ (twin # 0 => d.at[SeasonOf(r)] = d.parent[twin])

LEMMA PreparesLearns ==
  ASSUME NEW c, NEW r, NEW twin, NEW b, Prepares(c, r, twin, b), b.ok, NEW d, LearnsOnly(b, d)
  PROVE  Prepares(c, r, twin, d)
<1>1. Grows(c, d)
  BY GrowsTransitive DEF Prepares, LearnsOnly
<1> QED
  BY <1>1 DEF Prepares, LearnsOnly, Bound

\* A show is ready, then a season below it.
LEMMA SeasonBelow ==
  ASSUME NEW c, Standing(c), NEW r \in Refs, Level[r] = "episode", NEW show, NEW above,
         NEW b, Settles(c, ShowOf(r), above, b), b.ok, show = b.at[ShowOf(r)],
         NEW d, Settles(b, SeasonOf(r), show, d)
  PROVE  Prepares(c, r, 0, d)
<1>1. /\ SeasonOf(r) \in Refs \ {ShowOf(r), r} /\ ShowOf(r) \in Refs \ {SeasonOf(r), r} /\ r \in Refs \ {SeasonOf(r), ShowOf(r)}
  BY EpisodeAbove
<1>2. Grows(c, d)
  BY GrowsTransitive DEF Settles
<1>3. SUFFICES ASSUME d.ok PROVE d.at[r] = c.at[r] /\ (\A i \in c.live : d.parent[i] = c.parent[i]) /\ Bound(d, r)
  BY <1>2 DEF Prepares
<1>4. /\ d.at[SeasonOf(r)] # 0 /\ d.parent[d.at[SeasonOf(r)]] = show /\ \A x \in Refs \ {SeasonOf(r)} : d.at[x] = b.at[x]
      /\ \A i \in b.live : d.parent[i] = b.parent[i]
  BY <1>3 DEF Settles
<1>5. /\ b.at[ShowOf(r)] # 0 /\ (\A x \in Refs \ {ShowOf(r)} : b.at[x] = c.at[x]) /\ c.live \subseteq b.live
      /\ \A i \in c.live : b.parent[i] = c.parent[i]
  BY DEF Settles, Grows
<1>6. Bound(d, r)
  BY <1>1, <1>4, <1>5 DEF Bound
<1>7. d.at[r] = c.at[r]
  BY <1>1, <1>4, <1>5
<1> QED
  BY <1>4, <1>5, <1>6, <1>7

\* _ensure_hierarchy
LEMMA EnsureAbovePrepares ==
  ASSUME NEW c, Standing(c), NEW r \in Refs, Level[r] = "episode", NEW ids \in SUBSET HistoryIds
  PROVE  Prepares(c, r, 0, EnsureAbove(c, r, ids))
<1> DEFINE b == Ensure(c, ShowOf(r), 0, ids)
           show == b.at[ShowOf(r)]
           d == EnsureAbove(c, r, ids)
<1>1. SeasonOf(r) \in Refs /\ Level[SeasonOf(r)] = "season" /\ ShowOf(r) \in Refs /\ Level[ShowOf(r)] = "show"
  BY EpisodeAbove
<1>2. Fits(c, "show", 0)
  BY DEF Fits, Topmost
<1>3. Settles(c, ShowOf(r), 0, b)
  BY <1>1, <1>2, EnsureSettles
<1>4. d = EnsureSeason(b, r)
  BY DEF EnsureAbove
<1> HIDE DEF b, d
<1>5. CASE ~b.ok
  <2>1. d = b
    BY <1>4, <1>5 DEF EnsureSeason
  <2> QED
    BY <1>3, <1>5, <2>1 DEF Settles, Prepares, Grows, d
<1>6. CASE b.ok
  <2>1. Standing(b) /\ show # 0
    BY <1>3, <1>6 DEF Settles, Grows
  <2>2. show \in b.live /\ Kind[show] = "show" /\ b.live \subseteq Rows
    BY <1>1, <2>1, StandingTypes
  <2>3. Fits(b, "season", show)
    BY <2>2 DEF Fits, Topmost
  <2>4. d = Ensure(b, SeasonOf(r), show, {})
    BY <1>4, <1>6 DEF EnsureSeason
  <2> HIDE DEF show
  <2>5. {} \in SUBSET HistoryIds /\ show \in Rows \cup {0}
    BY <2>2
  <2>6. Settles(b, SeasonOf(r), show, d)
    BY <1>1, <2>1, <2>3, <2>4, <2>5, EnsureSettles
  <2>7. Prepares(c, r, 0, d)
    BY <1>3, <1>6, <2>6, SeasonBelow DEF show
  <2> QED
    BY <2>7 DEF d
<1> QED
  BY <1>5, <1>6

LEMMA LearnsPrepares ==
  ASSUME NEW c, NEW r, NEW twin, NEW b, LearnsOnly(c, b), NEW d, Prepares(b, r, twin, d)
  PROVE  Prepares(c, r, twin, d)
<1>1. Grows(c, d)
  BY GrowsTransitive DEF Prepares, LearnsOnly
<1> QED
  BY <1>1 DEF Prepares, LearnsOnly

\* _bind_existing_episode_hierarchy
LEMMA BindAbovePrepares ==
  ASSUME NEW c, Standing(c), NEW r \in Refs, Level[r] = "episode", NEW twin \in c.live, Kind[twin] = "episode"
  PROVE  Prepares(c, r, twin, BindAbove(c, r, twin))
<1> DEFINE season == c.parent[twin]
           show == ShowAbove(c, twin)
           named == IF MayUpdate(c, r, show) THEN [c EXCEPT !.label[show] = Label[ShowOf(r)]] ELSE c
           bound == Bind(named, ShowOf(r), show)
           d == BindAbove(c, r, twin)
<1>1. SeasonOf(r) \in Refs /\ Level[SeasonOf(r)] = "season" /\ ShowOf(r) \in Refs /\ Level[ShowOf(r)] = "show"
  BY EpisodeAbove
<1>2. /\ season \in c.live /\ Kind[season] = "season" /\ show = c.parent[season]
      /\ show \in c.live /\ Kind[show] = "show"
  <2>1. Rooted(c, twin) /\ 0 \notin c.live
    BY StandingTypes
  <2>2. season \in c.live /\ Kind[season] = "season" /\ show = c.parent[season]
    BY <2>1 DEF Rooted, ShowAbove
  <2>3. Rooted(c, season)
    BY <2>2, StandingTypes
  <2> QED
    BY <2>2, <2>3 DEF Rooted
<1>3. LearnsOnly(c, named)
  <2>1. LearnsOnly(c, c)
    BY GrowsItself, StandingTypes DEF LearnsOnly
  <2>2. Label[ShowOf(r)] \in Labels
    BY <1>1 DEF Labels
  <2>3. LearnsOnly(c, [c EXCEPT !.label[show] = Label[ShowOf(r)]])
    BY <1>2, <2>2, NamedLearns
  <2> QED
    BY <2>1, <2>3
<1>4. Standing(named) /\ named.live = c.live /\ named.parent = c.parent
  BY <1>3 DEF LearnsOnly, Grows
<1>5. CASE d = Refused(c)
  BY <1>5, RefusedTables, StandingTypes DEF Prepares, Grows
<1>6. d # Refused(c) => d = IF bound.ok THEN Bind(bound, SeasonOf(r), season) ELSE bound
  BY DEF BindAbove
<1> HIDE DEF named
<1>7. Settles(named, ShowOf(r), named.parent[show], bound) /\ (bound.ok => bound.at[ShowOf(r)] = show)
  BY <1>1, <1>2, <1>4, BindSettles
<1> HIDE DEF bound, d
<1>8. CASE d = bound /\ ~bound.ok
  BY <1>7, <1>8 DEF Settles, Grows, Prepares, d
<1>9. CASE bound.ok /\ d = Bind(bound, SeasonOf(r), season)
  <2>1. Standing(bound) /\ named.live \subseteq bound.live /\ bound.parent[season] = c.parent[season]
    BY <1>2, <1>4, <1>7, <1>9 DEF Settles, Grows
  <2> HIDE DEF season, show
  <2>2. Settles(bound, SeasonOf(r), bound.parent[season], d) /\ (d.ok => d.at[SeasonOf(r)] = season)
    BY <1>1, <1>2, <1>4, <1>9, <2>1, BindSettles
  <2>3. bound.parent[season] = bound.at[ShowOf(r)]
    BY <1>2, <1>7, <1>9, <2>1
  <2>4. Prepares(named, r, 0, d)
    BY <1>4, <1>7, <1>9, <2>2, <2>3, SeasonBelow
  <2>5. Prepares(c, r, 0, d)
    BY <1>3, <2>4, LearnsPrepares
  <2>6. d.ok => d.at[SeasonOf(r)] = d.parent[twin]
    <3>1. d.ok => d.parent[twin] = c.parent[twin]
      BY <2>5 DEF Prepares
    <3> QED
      BY <2>2, <3>1 DEF season
  <2>7. Prepares(c, r, twin, d)
    BY <2>5, <2>6 DEF Prepares
  <2> QED
    BY <2>7 DEF d
<1> QED
  BY <1>5, <1>6, <1>8, <1>9 DEF d

\* The season and show of an entry, before its row is looked at.
LEMMA HierarchyPrepares ==
  ASSUME NEW c, Standing(c), NEW r \in Refs, Level[r] \in {"movie", "episode"}, NEW t, t.show \in SUBSET HistoryIds,
         NEW twin, twin # 0 => twin \in c.live /\ Kind[twin] = Level[r]
  PROVE  Prepares(c, r, twin, Hierarchy(c, r, t, twin))
<1> DEFINE b == IF twin # 0 THEN BindAbove(c, r, twin) ELSE EnsureAbove(c, r, t.show)
           show == b.at[ShowOf(r)]
           d == Hierarchy(c, r, t, twin)
<1>1. CASE Level[r] = "movie"
  BY <1>1, GrowsItself DEF Hierarchy, Prepares
<1>2. CASE Level[r] = "episode"
  <2>1. Prepares(c, r, twin, b)
    BY <1>2, BindAbovePrepares, EnsureAbovePrepares
  <2>2. d = ShowNamed(b, r)
    BY <1>2 DEF Hierarchy
  <2> HIDE DEF b, d
  <2>3. CASE d = b
    BY <2>1, <2>3 DEF d
  <2>4. CASE b.ok /\ d = [b EXCEPT !.label[show] = Label[ShowOf(r)]]
    <3>1. Standing(b) /\ show # 0
      BY <1>2, <2>1, <2>4 DEF Prepares, Grows, Bound
    <3>2. ShowOf(r) \in Refs /\ Label[ShowOf(r)] \in Labels
      BY <1>2, EpisodeAbove DEF Labels
    <3>3. show \in b.live
      BY <3>1, <3>2, StandingTypes
    <3>4. LearnsOnly(b, d)
      BY <2>4, <3>1, <3>2, <3>3, NamedLearns
    <3>5. Prepares(c, r, twin, d)
      BY <2>1, <2>4, <3>4, PreparesLearns
    <3> QED
      BY <3>5 DEF d
  <2> QED
    BY <2>2, <2>3, <2>4 DEF ShowNamed
<1> QED
  BY <1>1, <1>2

\* A row is described by an entry: an episode is put below the entry's season, which is
\* where it was unless another was merged into it.
LEMMA DescribedGrows ==
  ASSUME NEW c, Standing(c), NEW r \in Refs, Level[r] \in {"movie", "episode"}, NEW i \in c.live, Kind[i] = Level[r],
         Level[r] = "episode" => Bound(c, r) /\ (c.at[r] = i \/ c.at[SeasonOf(r)] = c.parent[i]),
         NEW d, d = Described(c, r, i)
  PROVE  /\ Grows(c, d) /\ d.ok /\ d.live = c.live /\ d.at = c.at
         /\ Level[r] = "episode" /\ c.at[SeasonOf(r)] = c.parent[i] => d.parent[i] = c.parent[i]
         /\ \A j \in c.live \ {i} : d.parent[j] = c.parent[j]
<1>1. CASE d = c
  BY <1>1, GrowsItself, StandingTypes
<1>2. CASE d = [c EXCEPT !.parent[i] = AboveRow(c, r), !.label[i] = Label[r]]
  <2> DEFINE above == AboveRow(c, r)
             parent == [c.parent EXCEPT ![i] = above]
             labels == [c.label EXCEPT ![i] = Label[r]]
  <2>1. /\ c \in HistoryTables /\ c.ok /\ c.live \subseteq Rows /\ TitlesMatched(c)
        /\ \A j \in c.live : Rooted(c, j)
        /\ \A q \in Refs : c.at[q] # 0 => c.at[q] \in c.live /\ Kind[c.at[q]] = Level[q]
    BY StandingTypes
  <2>2. Fits(c, Kind[i], above) /\ above \in Rows \cup {0}
    <3>1. CASE Level[r] = "movie"
      BY <3>1 DEF AboveRow, Fits, Topmost
    <3>2. CASE Level[r] = "episode"
      <4>1. SeasonOf(r) \in Refs /\ Level[SeasonOf(r)] = "season" /\ c.at[SeasonOf(r)] # 0
        BY <3>2, EpisodeAbove DEF Bound
      <4>2. above = c.at[SeasonOf(r)]
        BY <3>2 DEF AboveRow
      <4>3. above \in c.live /\ Kind[above] = "season" /\ above \in Rows
        BY <2>1, <4>1, <4>2
      <4> HIDE DEF above
      <4> QED
        BY <3>2, <4>3 DEF Fits, Topmost
    <3> QED
      BY <3>1, <3>2
  <2>3. Label[r] \in Labels
    BY DEF Labels
  <2>4. parent \in [Rows -> Rows \cup {0}] /\ labels \in [Rows -> Labels]
        /\ \A j \in Rows : parent[j] = IF j = i THEN above ELSE c.parent[j]
    <3>1. c.parent \in [Rows -> Rows \cup {0}] /\ c.label \in [Rows -> Labels]
      BY StandingTables
    <3> HIDE DEF above
    <3> QED
      BY <2>1, <2>2, <2>3, <3>1
  <2>5. d = [c EXCEPT !.parent = parent, !.label = labels]
    BY <1>2
  <2> HIDE DEF parent, labels
  <2>6. /\ d \in HistoryTables /\ d.ok = c.ok /\ d.live = c.live /\ d.parent = parent /\ d.at = c.at
        /\ d.avail = c.avail /\ d.plays = c.plays /\ d.heir = c.heir /\ d.state = c.state /\ d.manual = c.manual
    BY <2>1, <2>4, <2>5 DEF HistoryTables
  <2>7. SameHistory(c, d)
    BY <2>6 DEF SameHistory
  <2>8. Level[r] = "episode" => above = c.at[SeasonOf(r)]
    BY DEF AboveRow
  <2> HIDE DEF above
  <2>9. Level[r] = "movie" => d.parent[i] = c.parent[i]
    BY <2>1, <2>2, <2>4, <2>6 DEF Rooted, Fits, Topmost
  <2>10. ASSUME NEW j \in c.live, Kind[j] = "season" \/ Single(c, j) PROVE d.parent[j] = c.parent[j]
    <3>1. CASE j # i
      BY <2>1, <2>4, <2>6, <3>1
    <3>2. CASE j = i /\ Level[r] = "episode" /\ c.at[r] = i
      <4>1. Hung(c, r) /\ i # 0 /\ Single(c, i)
        BY <2>10, <3>2, StandingTypes DEF Standing
      <4> QED
        BY <2>1, <2>4, <2>6, <2>8, <3>2, <4>1 DEF Hung
    <3>3. CASE j = i /\ Level[r] = "episode" /\ c.at[SeasonOf(r)] = c.parent[i]
      BY <2>1, <2>4, <2>6, <2>8, <3>3
    <3> QED
      BY <2>9, <3>1, <3>2, <3>3
  <2>11. d \in HistoryCatalog
    BY <2>1, <2>6 DEF HistoryCatalog, TitlesMatched
  <2>12. \A j \in d.live : Rooted(d, j)
    <3>1. \A j \in c.live \ {i} : d.parent[j] = c.parent[j]
      BY <2>1, <2>4, <2>6
    <3>2. \A j \in c.live \ {i} : Rooted(d, j)
      BY <2>1, <2>6, <3>1 DEF Rooted
    <3>3. d.parent[i] = above /\ c.heir[i] = i
      BY <2>1, <2>4, <2>6 DEF Rooted
    <3>4. Rooted(d, i)
      BY <2>2, <2>6, <3>3 DEF Rooted, Fits
    <3> QED
      BY <2>6, <3>2, <3>4
  <2>13. Whole(HistoryCatalog, d)
    BY <2>6, <2>11, <2>12 DEF Whole, Standing
  <2>14. ASSUME NEW q \in Refs PROVE (d.at[q] # 0 => Kind[d.at[q]] = Level[q]) /\ Hung(d, q)
    <3>1. CASE c.at[q] # 0
      <4>1. Hung(d, q)
        BY <2>6, <2>10, <3>1, HungKept
      <4> QED
        BY <2>1, <2>6, <4>1
    <3>2. CASE c.at[q] = 0
      BY <2>6, <3>2 DEF Hung
    <3> QED
      BY <3>1, <3>2
  <2>15. Standing(d)
    BY <2>13, <2>14 DEF Standing
  <2>16. Grows(c, d)
    BY <2>6, <2>7, <2>15 DEF Grows
  <2>17. \A j \in c.live \ {i} : d.parent[j] = c.parent[j]
    BY <2>1, <2>4, <2>6
  <2> QED
    BY <2>1, <2>4, <2>6, <2>8, <2>16, <2>17
<1> QED
  BY <1>1, <1>2 DEF Described

\* The row found for an entry is of its level.
LEMMA TwinFits ==
  ASSUME NEW c, Standing(c), NEW r \in Refs, Level[r] \in {"movie", "episode"}, NEW t, Twin(c, r, t) # 0
  PROVE  c.at[r] = 0 /\ Twin(c, r, t) \in c.live /\ Kind[Twin(c, r, t)] = Level[r]
<1> DEFINE Fit(i) == i # 0 => i \in c.live /\ Kind[i] = Level[r]
<1>1. c.live \subseteq Rows
  BY StandingTypes
<1>2. ASSUME NEW S \in SUBSET c.live, \A i \in S : Kind[i] = Level[r] PROVE Fit(Only(S))
  BY <1>1, <1>2, OnlyIn
<1>3. ASSUME NEW i, Fit(i) PROVE Fit(Fitting(c, r, i))
  BY <1>3 DEF Fitting
<1>4. Fit(ByFile(c, r, t.files))
  <2> DEFINE S == {i \in c.live : Kind[i] = Level[r] /\ \E q \in RefsOf(c, i) \cap c.avail :
                       Source[q] # Source[r] /\ c.files[q] \cap t.files # {}}
  <2>1. Fit(Only(S))
    <3>1. S \in SUBSET c.live /\ \A i \in S : Kind[i] = Level[r]
      OBVIOUS
    <3> HIDE DEF S, Fit
    <3> QED
      BY <1>2, <3>1
  <2>2. ByFile(c, r, t.files) = Fitting(c, r, Only(S))
    BY DEF ByFile
  <2> HIDE DEF S, Fit
  <2> QED
    BY <1>3, <2>1, <2>2
<1>5. Fit(ByPlace(c, r))
  <2> DEFINE number(i) == Kind[i] = "episode" /\ c.parent[i] # 0 /\ Number[i] = Spot[r][2]
                          /\ Number[c.parent[i]] = Spot[r][1]
             S == {i \in c.live : Kind[i] = "movie" /\ c.label[i] = Label[r] /\ ElsewhereToo(c, r, i)}
             U == {i \in Children(c, c.at[SeasonOf(r)]) : number(i) /\ ElsewhereToo(c, r, i)}
             V == {i \in c.live : /\ number(i) /\ ShowAbove(c, i) # 0
                                  /\ c.label[ShowAbove(c, i)] = Label[ShowOf(r)]
                                  /\ ShownElsewhere(c, r, i)}
  <2>1. ByPlace(c, r) = IF Level[r] = "movie" THEN Only(S) ELSE IF c.at[SeasonOf(r)] # 0 THEN Only(U) ELSE Only(V)
    <3>1. CASE Level[r] = "movie"
      BY <3>1 DEF ByPlace
    <3>2. CASE Level[r] = "episode" /\ c.at[SeasonOf(r)] # 0
      BY <3>2 DEF ByPlace
    <3>3. CASE Level[r] = "episode" /\ c.at[SeasonOf(r)] = 0
      BY <3>3 DEF ByPlace
    <3> QED
      BY <3>1, <3>2, <3>3
  <2>2. /\ S \in SUBSET c.live /\ U \in SUBSET c.live /\ V \in SUBSET c.live
        /\ (\A i \in S : Kind[i] = "movie") /\ (\A i \in U : Kind[i] = "episode")
        /\ (\A i \in V : Kind[i] = "episode")
    BY DEF Children
  <2> HIDE DEF S, U, V
  <2>3. CASE Level[r] = "movie"
    <3>1. Fit(Only(S))
      BY <1>2, <2>2, <2>3
    <3> QED
      BY <2>1, <2>3, <3>1
  <2>4. CASE Level[r] = "episode"
    <3>1. Fit(Only(U)) /\ Fit(Only(V))
      BY <1>2, <2>2, <2>4
    <3> QED
      BY <2>1, <2>4, <3>1
  <2> QED
    BY <2>3, <2>4
<1>6. Fit(ById(c, r, t.ids))
  <2>1. Hits(c, r, t.ids) \in SUBSET c.live /\ \A i \in Hits(c, r, t.ids) : Kind[i] = Level[r]
    BY DEF Hits
  <2> HIDE DEF Fit
  <2>2. Fit(Only(Hits(c, r, t.ids)))
    BY <1>2, <2>1
  <2> QED
    BY <1>3, <1>5, <2>2 DEF ById
<1> HIDE DEF Fit
<1>7. c.at[r] = 0 /\ Fit(Twin(c, r, t))
  <2>1. Fit(0)
    BY DEF Fit
  <2> QED
    BY <1>4, <1>6, <2>1 DEF Twin, Undisputed, Either
<1> QED
  BY <1>7 DEF Fit

\* The season of an entry is where its row belongs.
LEMMA AboveFits ==
  ASSUME NEW c, Standing(c), NEW r \in Refs, Level[r] \in {"movie", "episode"}, Level[r] = "episode" => Bound(c, r)
  PROVE  Fits(c, Level[r], AboveRow(c, r)) /\ AboveRow(c, r) \in Rows \cup {0}
<1> DEFINE above == AboveRow(c, r)
<1>1. CASE Level[r] = "movie"
  BY <1>1 DEF AboveRow, Fits, Topmost
<1>2. CASE Level[r] = "episode"
  <2>1. SeasonOf(r) \in Refs /\ Level[SeasonOf(r)] = "season" /\ c.at[SeasonOf(r)] # 0
    BY <1>2, EpisodeAbove DEF Bound
  <2>2. above = c.at[SeasonOf(r)]
    BY <1>2 DEF AboveRow
  <2>3. above \in c.live /\ Kind[above] = "season" /\ c.live \subseteq Rows
    BY <2>1, <2>2, StandingTypes
  <2> HIDE DEF above
  <2>4. Fits(c, Level[r], above) /\ above \in Rows \cup {0}
    BY <1>2, <2>3 DEF Fits, Topmost
  <2> QED
    BY <2>4 DEF above
<1> QED
  BY <1>1, <1>2

\* An entry has a row, or all is refused.
Sits(c, r, d) == Grows(c, d) /\ (d.ok => d.at[r] # 0)

\* A row that is there is taken by an entry that has none.
LEMMA TakenSits ==
  ASSUME NEW c, Standing(c), NEW r \in Refs, Level[r] \in {"movie", "episode"}, c.at[r] = 0,
         NEW twin \in c.live, Kind[twin] = Level[r],
         Level[r] = "episode" => Bound(c, r) /\ c.at[SeasonOf(r)] = c.parent[twin]
  PROVE  Sits(c, r, Attached(Described(c, r, twin), r, twin))
<1>1. PICK e : e = Described(c, r, twin)
  OBVIOUS
<1>2. PICK d : d = Attached(e, r, twin)
  OBVIOUS
<1>3. /\ Grows(c, e) /\ e.ok /\ e.live = c.live /\ e.at = c.at
      /\ Level[r] = "episode" /\ c.at[SeasonOf(r)] = c.parent[twin] => e.parent[twin] = c.parent[twin]
      /\ \A j \in c.live \ {twin} : e.parent[j] = c.parent[j]
  BY <1>1, DescribedGrows
<1>4. Standing(e)
  BY <1>3 DEF Grows
<1>5. Level[r] = "episode" => Bound(e, r) /\ e.at[SeasonOf(r)] = e.parent[twin]
  <2> SUFFICES ASSUME Level[r] = "episode" PROVE Bound(e, r) /\ e.at[SeasonOf(r)] = e.parent[twin]
    OBVIOUS
  <2>1. SeasonOf(r) \in Refs /\ Level[SeasonOf(r)] = "season" /\ c.at[SeasonOf(r)] # 0
    BY EpisodeAbove DEF Bound
  <2>2. c.at[SeasonOf(r)] \in c.live /\ Kind[c.at[SeasonOf(r)]] = "season"
    BY <2>1, StandingTypes
  <2>3. e.parent[c.at[SeasonOf(r)]] = c.parent[c.at[SeasonOf(r)]]
    BY <1>3, <2>2
  <2> QED
    BY <1>3, <2>3 DEF Bound
<1>6. /\ Grows(e, d) /\ d.ok /\ \A x \in Refs : d.at[x] = IF x = r THEN twin ELSE e.at[x]
  BY <1>2, <1>3, <1>4, <1>5, AttachedGrows
<1>7. Grows(c, d)
  BY <1>3, <1>6, GrowsTransitive
<1>8. twin # 0
  BY StandingTypes
<1> QED
  BY <1>1, <1>2, <1>6, <1>7, <1>8 DEF Sits

\* A new row is made for an entry that has none.
LEMMA NewSits ==
  ASSUME NEW c, Standing(c), NEW r \in Refs, Level[r] \in {"movie", "episode"}, c.at[r] = 0,
         Level[r] = "episode" => Bound(c, r)
  PROVE  Sits(c, r, AttachedTo(Created(c, Level[r], NumberOf(r), AboveRow(c, r), Label[r]), r))
<1> DEFINE above == AboveRow(c, r)
<1>1. PICK new : new = Created(c, Level[r], NumberOf(r), above, Label[r])
  OBVIOUS
<1>2. PICK d : d = Attached(new.cat, r, new.row)
  OBVIOUS
<1>3. Level[r] \in Levels /\ Label[r] \in Labels
  BY DEF Levels, Labels
<1>4. Fits(c, Level[r], above) /\ above \in Rows \cup {0}
  BY AboveFits
<1>5. Level[r] = "episode" => above = c.at[SeasonOf(r)]
  BY DEF AboveRow
<1>6. d = AttachedTo(Created(c, Level[r], NumberOf(r), above, Label[r]), r)
  BY <1>1, <1>2 DEF AttachedTo
<1> SUFFICES Sits(c, r, d)
  BY <1>6
<1> HIDE DEF above
<1>7. /\ Grows(c, new.cat) /\ new.row \in Rows \cup {0}
      /\ new.cat.ok => /\ new.row \in new.cat.live /\ Kind[new.row] = Level[r] /\ new.cat.parent[new.row] = above
                       /\ new.cat.at = c.at /\ \A i \in c.live : new.cat.parent[i] = c.parent[i]
  BY <1>1, <1>3, <1>4, CreatedGrows
<1>8. d \in HistoryTables /\ d.ok = new.cat.ok
  <2>1. new.cat \in HistoryTables
    BY <1>7 DEF Grows
  <2> QED
    BY <1>2, <1>7, <2>1, AttachedTables
<1>9. SUFFICES ASSUME d.ok PROVE Grows(c, d) /\ d.at[r] # 0
  BY <1>8 DEF Sits, Grows
<1>10. /\ Standing(new.cat) /\ new.row \in new.cat.live /\ Kind[new.row] = Level[r]
       /\ new.cat.parent[new.row] = above /\ new.cat.at = c.at /\ \A i \in c.live : new.cat.parent[i] = c.parent[i]
  BY <1>7, <1>8, <1>9 DEF Grows
<1>11. Level[r] = "episode" => Bound(new.cat, r) /\ new.cat.at[SeasonOf(r)] = new.cat.parent[new.row]
  <2> SUFFICES ASSUME Level[r] = "episode"
               PROVE  Bound(new.cat, r) /\ new.cat.at[SeasonOf(r)] = new.cat.parent[new.row]
    OBVIOUS
  <2>1. SeasonOf(r) \in Refs /\ c.at[SeasonOf(r)] # 0
    BY EpisodeAbove DEF Bound
  <2>2. c.at[SeasonOf(r)] \in c.live
    BY <2>1, StandingTypes
  <2> QED
    BY <1>5, <1>10, <2>2 DEF Bound
<1>12. Grows(new.cat, d) /\ \A x \in Refs : d.at[x] = IF x = r THEN new.row ELSE new.cat.at[x]
  BY <1>2, <1>10, <1>11, AttachedGrows
<1>13. Grows(c, d)
  BY <1>7, <1>8, <1>9, <1>12, GrowsTransitive
<1>14. new.row # 0
  BY <1>10, StandingTypes
<1> QED
  BY <1>12, <1>13, <1>14

\* persist_media up to the playback: a row is kept, shared or made.
LEMMA SeatedSits ==
  ASSUME NEW c, Standing(c), NEW r \in Refs, Level[r] \in {"movie", "episode"}, NEW t,
         Level[r] = "episode" => Bound(c, r), NEW twin,
         twin # 0 => /\ c.at[r] = 0 /\ twin \in c.live /\ Kind[twin] = Level[r]
                     /\ Level[r] = "episode" => c.at[SeasonOf(r)] = c.parent[twin]
  PROVE  Sits(c, r, Seated(c, r, t, twin))
<1>1. CASE c.at[r] # 0 /\ c.told[r] = t
  BY <1>1, GrowsItself DEF Seated, Sits
<1>2. CASE c.at[r] # 0 /\ c.told[r] # t
  <2>1. PICK d : d = Described(c, r, c.at[r])
    OBVIOUS
  <2>2. c.at[r] \in c.live /\ Kind[c.at[r]] = Level[r]
    BY <1>2, StandingTypes
  <2>3. Grows(c, d) /\ d.at = c.at
    BY <2>1, <2>2, DescribedGrows
  <2> QED
    BY <1>2, <2>1, <2>3 DEF Seated, Sits
<1>3. CASE c.at[r] = 0 /\ twin # 0
  BY <1>3, TakenSits DEF Seated
<1>4. CASE c.at[r] = 0 /\ twin = 0
  BY <1>4, NewSits DEF Seated
<1> QED
  BY <1>1, <1>2, <1>3, <1>4

\* What was told of an entry is noted.
LEMMA NotedSits ==
  ASSUME NEW c, NEW r \in Refs, NEW b, Sits(c, r, b), NEW t \in Telling
  PROVE  Sits(c, r, Noted(b, r, t))
<1> DEFINE avail == b.avail \cup {r}
           told == [b.told EXCEPT ![r] = t]
           files == [b.files EXCEPT ![r] = IF t.files = {} THEN b.files[r] ELSE t.files]
<1> SUFFICES ASSUME NEW d, d = [b EXCEPT !.avail = avail, !.told = told, !.files = files] PROVE Sits(c, r, d)
  BY DEF Noted
<1>1. /\ b \in HistoryTables /\ b.avail \in SUBSET Refs /\ b.told \in [Refs -> Telling \cup {<<>>}]
      /\ b.files \in [Refs -> SUBSET HistoryPaths]
  BY HistoryTypes DEF Sits, Grows
<1>2. t.files \in SUBSET HistoryPaths
  BY DEF Telling
<1>3. avail \in SUBSET Refs /\ told \in [Refs -> Telling \cup {<<>>}] /\ files \in [Refs -> SUBSET HistoryPaths]
  BY <1>1, <1>2
<1>4. b.ok /\ b.at[r] # 0 => \A x \in avail : b.at[x] # 0
  BY StandingTypes DEF Sits, Grows
<1> HIDE DEF avail, told, files
<1>5. /\ d \in HistoryTables /\ d.ok = b.ok /\ d.live = b.live /\ d.parent = b.parent /\ d.at = b.at
      /\ d.avail = avail /\ d.plays = b.plays /\ d.heir = b.heir /\ d.state = b.state /\ d.manual = b.manual
  BY <1>1, <1>3 DEF HistoryTables
<1>6. CASE ~d.ok
  BY <1>5, <1>6 DEF Sits, Grows
<1>7. CASE d.ok
  <2>1. Standing(b) /\ b.at[r] # 0
    BY <1>5, <1>7 DEF Sits, Grows
  <2>2. SameHistory(b, d)
    BY <1>5 DEF SameHistory
  <2>3. \A x \in d.avail : d.at[x] # 0
    BY <1>4, <1>5, <1>7, <2>1
  <2>4. Grows(b, d)
    BY <1>5, <1>7, <2>1, <2>2, <2>3, OtherTables
  <2>5. Grows(c, d)
    BY <1>5, <1>7, <2>4, GrowsTransitive DEF Sits
  <2> QED
    BY <1>5, <2>1, <2>5 DEF Sits
<1> QED
  BY <1>6, <1>7

\* An entry is placed as a whole, or refused.
LEMMA PlacedSits ==
  ASSUME NEW c, Standing(c), NEW r \in Refs, Level[r] \in {"movie", "episode"}, NEW t \in Telling
  PROVE  Sits(c, r, Placed(c, r, t))
<1> DEFINE twin == Twin(c, r, t)
           b == Hierarchy(c, r, t, twin)
           d == Seated(b, r, t, twin)
           n == Noted(d, r, t)
<1>0. c \in HistoryTables /\ t.ids \in SUBSET HistoryIds /\ t.show \in SUBSET HistoryIds
  BY StandingTypes DEF Telling
<1>1. CASE Ambiguous(c, r, t)
  BY <1>0, <1>1, RefusedTables DEF Placed, Sits, Grows
<1>2. CASE ~Ambiguous(c, r, t)
  <2>1. Placed(c, r, t) = IF b.ok THEN Learns(n, r, t.ids) ELSE b
    BY <1>2 DEF Placed, PlacedBeside, PlacedBelow
  <2>2. twin # 0 => c.at[r] = 0 /\ twin \in c.live /\ Kind[twin] = Level[r]
    BY TwinFits
  <2> HIDE DEF twin
  <2>3. Prepares(c, r, twin, b)
    BY <1>0, <2>2, HierarchyPrepares
  <2> HIDE DEF b
  <2>4. CASE ~b.ok
    BY <2>1, <2>3, <2>4 DEF Prepares, Sits
  <2>5. CASE b.ok
    <3>1. /\ Grows(c, b) /\ Standing(b) /\ b.at[r] = c.at[r] /\ c.live \subseteq b.live
          /\ Level[r] = "episode" => Bound(b, r) /\ (twin # 0 => b.at[SeasonOf(r)] = b.parent[twin])
      BY <2>3, <2>5 DEF Prepares, Grows
    <3>2. Sits(b, r, d)
      BY <2>2, <3>1, SeatedSits
    <3> HIDE DEF d
    <3>3. Sits(b, r, n)
      BY <3>2, NotedSits
    <3> HIDE DEF n
    <3>4. Sits(c, r, n)
      BY <2>5, <3>1, <3>3, GrowsTransitive DEF Sits
    <3>5. CASE ~n.ok
      BY <2>1, <2>5, <3>4, <3>5 DEF Learns
    <3>6. CASE n.ok
      <4>1. Standing(n) /\ n.at[r] # 0
        BY <3>4, <3>6 DEF Sits, Grows
      <4>2. n.at[r] \in n.live
        BY <4>1, StandingTypes
      <4>3. LearnsOnly(n, Identified(n, r, n.at[r], t.ids))
        BY <1>0, <4>1, <4>2, IdentifiedLearns
      <4>4. Placed(c, r, t) = Identified(n, r, n.at[r], t.ids)
        BY <2>1, <2>5, <3>6 DEF Learns
      <4> QED
        BY <3>4, <3>6, <4>1, <4>3, <4>4, GrowsTransitive DEF Sits, LearnsOnly
    <3> QED
      BY <3>5, <3>6
  <2> QED
    BY <2>4, <2>5
<1> QED
  BY <1>1, <1>2

-------------------------------------------------------------------------------
(* What is known of plays: l, h and e are the logs, the webhook rows and the   *)
(* eras.                                                                      *)

\* A play is on the row that took the one it was born on, a leaf.
PlaysFit(c) == \A p \in c.plays : c.heir[p.born] = p.row /\ Kind[p.row] \in {"movie", "episode"}

\* Plays told of by servers and born on one row are apart.
BornApart(c) ==
  \A p, q \in c.plays :
     p # q /\ p.born = q.born /\ ~p.moved /\ ~q.moved /\ p.id[1] # "trakt" /\ q.id[1] # "trakt"
     => Apart(p.time, q.time) > Near

\* A play is counted by the state of its row, which counts those born on the row.
Own(c, i, s) == {q \in PlaysOf(c, i, s) : q.born = i}
CountedIn(state, c, p) ==
  /\ state.done /\ (~p.moved => state.last >= p.time)
  /\ state.views >= Cardinality(Own(c, p.row, p.source))
Counts(c, e) == \A p \in c.plays : e[p.source] = 0 => CountedIn(c.state[p.row][p.source], c, p)

\* A play's identity tells its time; that of a webhook as long as no server was replaced.
Fresh(e) == \A s \in Sources : e[s] = 0
Latest(h) == Max({w.id : w \in h} \cup {0})
Tells(p, l, h, e) ==
  /\ p.id[1] \in {"state", "jellyfin"} => p.time = p.id[3]
  /\ p.id[1] = "history" =>
       /\ p.id[2] <= e[p.source]
       /\ p.id[2] = e[p.source] => p.id[3] \in 1 .. Len(l[p.source]) /\ p.time = l[p.source][p.id[3]].time
  /\ p.id[1] = "webhook" /\ Fresh(e) => p.id[2] <= Latest(h) /\ \A w \in h : w.id = p.id[2] => w.time = p.time

Sane(c, l, h, e) ==
  Standing(c) /\ PlaysFit(c) /\ BornApart(c) /\ Counts(c, e) /\ \A p \in c.plays : Tells(p, l, h, e)

\* Plays go to the heir of their row; one of a webhook may go when its number is given again.
Reused(p, e) == p.id[1] = "webhook" /\ ~Fresh(e)
Passes(c, d, e) ==
  /\ \A i \in Rows : d.heir[i] = d.heir[c.heir[i]]
  /\ \A p \in c.plays : MovedTo(p, d.heir[p.row]) \in d.plays \/ Reused(p, e)
Advances(c, d, l, h, e) == Sane(d, l, h, e) /\ Passes(c, d, e)

\* Moving a play changes its row only.
LEMMA PlayMoved ==
  ASSUME NEW p \in PlayRecord, NEW i \in Rows
  PROVE  /\ MovedTo(p, i) \in PlayRecord /\ MovedTo(p, i).row = i /\ MovedTo(p, i).source = p.source
         /\ MovedTo(p, i).id = p.id /\ MovedTo(p, i).time = p.time /\ MovedTo(p, i).born = p.born
         /\ MovedTo(p, i).moved = p.moved /\ MovedTo(p, p.row) = p
         /\ \A j \in Rows : MovedTo(MovedTo(p, i), j) = MovedTo(p, j)
BY DEF MovedTo, PlayRecord

LEMMA AdvancesItself ==
  ASSUME NEW c, NEW l, NEW h, NEW e, Sane(c, l, h, e)
  PROVE  Advances(c, c, l, h, e)
<1>1. Standing(c) /\ c.plays \in SUBSET PlayRecord
  BY StandingTables DEF Sane
<1>2. /\ \A i \in c.live : c.heir[i] = i
      /\ \A i \in Rows : c.heir[c.heir[i]] = c.heir[i]
      /\ \A p \in c.plays : p.row \in c.live
  BY <1>1, StandingTypes
<1>3. ASSUME NEW p \in c.plays PROVE MovedTo(p, c.heir[p.row]) = p
  <2>1. p \in PlayRecord /\ p.row \in Rows /\ c.heir[p.row] = p.row
    BY <1>1, <1>2 DEF PlayRecord
  <2> QED
    BY <2>1, PlayMoved
<1> QED
  BY <1>2, <1>3 DEF Advances, Passes

LEMMA AdvancesTransitive ==
  ASSUME NEW c, NEW d, NEW f, NEW l, NEW h, NEW e, Sane(c, l, h, e),
         Advances(c, d, l, h, e), Advances(d, f, l, h, e)
  PROVE  Advances(c, f, l, h, e)
<1>1. Standing(c) /\ Standing(d) /\ Standing(f)
  BY DEF Sane, Advances
<1>2. c.heir \in [Rows -> Rows] /\ d.heir \in [Rows -> Rows] /\ f.heir \in [Rows -> Rows] /\ c.plays \in SUBSET PlayRecord
  BY <1>1, StandingTables
<1>3. \A i \in Rows : d.heir[i] = d.heir[c.heir[i]] /\ f.heir[i] = f.heir[d.heir[i]]
  BY DEF Advances, Passes
<1>4. \A i \in Rows : f.heir[i] = f.heir[c.heir[i]]
  BY <1>2, <1>3
<1>5. ASSUME NEW p \in c.plays PROVE MovedTo(p, f.heir[p.row]) \in f.plays \/ Reused(p, e)
  <2>1. p \in PlayRecord /\ p.row \in Rows /\ d.heir[p.row] \in Rows /\ f.heir[p.row] \in Rows
    BY <1>2 DEF PlayRecord
  <2> DEFINE q == MovedTo(p, d.heir[p.row])
  <2>2. q.row = d.heir[p.row] /\ q.id = p.id /\ \A j \in Rows : MovedTo(q, j) = MovedTo(p, j)
    BY <2>1, PlayMoved
  <2> HIDE DEF q
  <2>3. q \in d.plays \/ Reused(p, e)
    BY DEF Advances, Passes, q
  <2>4. q \in d.plays => MovedTo(q, f.heir[q.row]) \in f.plays \/ Reused(q, e)
    BY DEF Advances, Passes
  <2> QED
    BY <1>3, <2>1, <2>2, <2>3, <2>4 DEF Reused
<1> QED
  BY <1>4, <1>5 DEF Advances, Passes

\* Placing an entry leaves plays and states as they are.
LEMMA GrowsAdvances ==
  ASSUME NEW c, NEW l, NEW h, NEW e, Sane(c, l, h, e), NEW d, Grows(c, d), d.ok
  PROVE  Advances(c, d, l, h, e)
<1>1. Standing(d) /\ d.plays = c.plays /\ d.heir = c.heir /\ d.state = c.state
  BY DEF Grows, SameHistory
<1>2. Sane(d, l, h, e)
  BY <1>1 DEF Sane, PlaysFit, BornApart, Counts, CountedIn, Own, PlaysOf
<1>3. Passes(c, c, e)
  BY AdvancesItself DEF Advances
<1> QED
  BY <1>1, <1>2, <1>3 DEF Advances, Passes

\* A merge takes entries to the rows their seasons and shows were merged into.
LEMMA MendedStands ==
  ASSUME NEW c, Standing(c), NEW d, Mended(HistoryCatalog, c, d)
  PROVE  Standing(d)
<1>1. Joins(HistoryCatalog, c, d) /\ Hangs(c, d) /\ Whole(HistoryCatalog, d)
  BY DEF Mended, Joins
<1>2. /\ \A i \in c.live : d.heir[i] \in d.live
      /\ \A i \in Rows : d.heir[i] = d.heir[c.heir[i]]
      /\ \A r \in Refs : d.at[r] = IF c.at[r] = 0 THEN 0 ELSE d.heir[c.at[r]]
  BY <1>1 DEF Joins
<1>3. d.live \subseteq Rows /\ 0 \notin Rows
  BY <1>1, HistoryIsTables, WholeTypes, Zenon
<1>4. \A i \in Rows : Kind[d.heir[i]] = Kind[i]
  BY <1>1 DEF Whole
<1>5. c.live \subseteq Rows /\ \A r \in Refs : c.at[r] # 0 => c.at[r] \in c.live /\ Kind[c.at[r]] = Level[r]
  BY StandingTypes
<1>6. ASSUME NEW r \in Refs, d.at[r] # 0 PROVE Kind[d.at[r]] = Level[r]
  <2>1. c.at[r] # 0 /\ d.at[r] = d.heir[c.at[r]]
    BY <1>2, <1>6
  <2> QED
    BY <1>4, <1>5, <2>1
<1>7. ASSUME NEW r \in Refs PROVE Hung(d, r)
  <2> SUFFICES ASSUME Level[r] = "episode", d.at[r] # 0
               PROVE  Bound(d, r) /\ (Single(d, d.at[r]) => d.at[SeasonOf(r)] = d.parent[d.at[r]])
    BY DEF Hung
  <2> DEFINE season == c.at[SeasonOf(r)]
             show == c.at[ShowOf(r)]
             i == c.at[r]
  <2>1. i # 0 /\ d.at[r] = d.heir[i]
    BY <1>2
  <2>2. Bound(c, r) /\ (Single(c, i) => season = c.parent[i])
    BY <2>1 DEF Standing, Hung
  <2>3. SeasonOf(r) \in Refs /\ Level[SeasonOf(r)] = "season" /\ ShowOf(r) \in Refs
    BY EpisodeAbove
  <2>4. /\ season # 0 /\ show # 0 /\ c.parent[season] = show
        /\ season \in c.live /\ Kind[season] = "season" /\ show \in c.live
    BY <1>5, <2>2, <2>3 DEF Bound
  <2>5. d.at[SeasonOf(r)] = d.heir[season] /\ d.at[ShowOf(r)] = d.heir[show]
    BY <1>2, <2>3, <2>4
  <2>6. d.heir[season] \in d.live /\ d.heir[show] \in d.live
    BY <1>2, <2>4
  <2>7. d.parent[d.heir[season]] = d.heir[show]
    BY <1>1, <2>4 DEF Hangs
  <2>8. Bound(d, r)
    BY <1>3, <2>5, <2>6, <2>7 DEF Bound
  <2>9. ASSUME Single(d, d.heir[i]) PROVE d.heir[season] = d.parent[d.heir[i]]
    <3>1. i \in c.live /\ i \in Rows /\ Kind[i] = "episode"
      BY <1>5, <2>1
    <3>2. Rooted(c, i)
      BY <3>1, StandingTypes
    <3>3. c.heir[i] = i /\ c.parent[i] # 0
      BY <1>3, <1>5, <3>1, <3>2 DEF Rooted
    <3>4. d.heir[i] = i
      BY <2>9, <3>1 DEF Single
    <3>5. Single(c, i)
      BY <1>2, <2>9, <3>1, <3>4 DEF Single
    <3>6. d.parent[d.heir[i]] = d.heir[c.parent[i]]
      BY <1>1, <2>9, <3>1, <3>3 DEF Hangs
    <3> QED
      BY <2>2, <3>5, <3>6
  <2> QED
    BY <2>1, <2>5, <2>8, <2>9
<1> QED
  BY <1>1, <1>6, <1>7 DEF Standing

\* A merge moves plays to the heir of their row, whose state counts them.
LEMMA MendedAdvances ==
  ASSUME NEW c, NEW l, NEW h, NEW e, Sane(c, l, h, e), NEW d, Mended(HistoryCatalog, c, d)
  PROVE  Advances(c, d, l, h, e)
<1>1. Standing(c) /\ Standing(d)
  BY MendedStands DEF Sane
<1>2. /\ d.live \subseteq c.live
      /\ \A i \in Rows : d.heir[i] = d.heir[c.heir[i]]
      /\ \A p \in c.plays : MovedTo(p, d.heir[p.row]) \in d.plays
      /\ \A q \in d.plays : \E p \in c.plays : q = MovedTo(p, d.heir[p.row])
      /\ \A i \in c.live, s \in Sources : c.state[i][s].done => Reaches(d.state[d.heir[i]][s], c.state[i][s])
  BY DEF Mended, Joins
<1>3. c.plays \in SUBSET PlayRecord /\ d.heir \in [Rows -> Rows] /\ d.state \in [Rows -> [Sources -> State]]
      /\ c.state \in [Rows -> [Sources -> State]]
  BY <1>1, StandingTables
<1>4. /\ c.live \subseteq Rows /\ \A i \in c.live : c.heir[i] = i
      /\ \A i \in d.live : d.heir[i] = i
      /\ \A i \in Rows : Kind[d.heir[i]] = Kind[i]
      /\ IsFiniteSet(c.plays) /\ \A p \in c.plays : p.row \in c.live
      /\ \A p \in d.plays : p.row \in d.live
  BY <1>1, StandingTypes
<1> DEFINE From(p, q) == p.row \in c.live /\ q.row = d.heir[p.row] /\ q.source = p.source /\ q.id = p.id
                         /\ q.time = p.time /\ q.born = p.born /\ q.moved = p.moved
<1>5. ASSUME NEW q \in d.plays
      PROVE  \E p \in c.plays : q = MovedTo(p, d.heir[p.row]) /\ From(p, q) /\ p \in PlayRecord
  <2>1. PICK p \in c.plays : q = MovedTo(p, d.heir[p.row])
    BY <1>2
  <2>2. p \in PlayRecord /\ p.row \in c.live /\ d.heir[p.row] \in Rows
    BY <1>3, <1>4
  <2>3. From(p, q)
    BY <2>1, <2>2, PlayMoved
  <2> QED
    BY <2>1, <2>2, <2>3
<1>6. PlaysFit(d)
  <2> SUFFICES ASSUME NEW q \in d.plays PROVE d.heir[q.born] = q.row /\ Kind[q.row] \in {"movie", "episode"}
    BY DEF PlaysFit
  <2>1. PICK p \in c.plays : From(p, q) /\ p \in PlayRecord
    BY <1>5
  <2>2. c.heir[p.born] = p.row /\ Kind[p.row] \in {"movie", "episode"} /\ p.born \in Rows
    BY <2>1 DEF Sane, PlaysFit, PlayRecord
  <2> QED
    BY <1>2, <1>4, <2>1, <2>2
<1>7. BornApart(d)
  <2> SUFFICES ASSUME NEW x \in d.plays, NEW y \in d.plays, x # y, x.born = y.born, ~x.moved, ~y.moved,
                      x.id[1] # "trakt", y.id[1] # "trakt"
               PROVE  Apart(x.time, y.time) > Near
    BY DEF BornApart
  <2>1. PICK p \in c.plays : x = MovedTo(p, d.heir[p.row]) /\ From(p, x)
    BY <1>5
  <2>2. PICK q \in c.plays : y = MovedTo(q, d.heir[q.row]) /\ From(q, y)
    BY <1>5
  <2>3. p # q
    BY <2>1, <2>2
  <2>4. BornApart(c)
    BY DEF Sane
  <2> QED
    BY <2>1, <2>2, <2>3, <2>4 DEF BornApart
<1>8. ASSUME NEW i \in d.live, NEW s PROVE Own(d, i, s) \subseteq Own(c, i, s)
  <2> SUFFICES ASSUME NEW q \in d.plays, q.row = i, q.source = s, q.born = i PROVE q \in Own(c, i, s)
    BY DEF Own, PlaysOf
  <2>1. PICK p \in c.plays : q = MovedTo(p, d.heir[p.row]) /\ From(p, q) /\ p \in PlayRecord
    BY <1>5
  <2>2. c.heir[p.born] = p.row
    BY DEF Sane, PlaysFit
  <2>3. p.row = i /\ d.heir[i] = i
    BY <1>2, <1>4, <2>1, <2>2
  <2>4. p \in PlayRecord /\ d.heir[p.row] = p.row /\ q = MovedTo(p, d.heir[p.row])
    BY <2>1, <2>3
  <2>5. MovedTo(p, p.row) = p
    <3>1. p \in PlayRecord /\ p.row \in Rows
      BY <2>4 DEF PlayRecord
    <3> QED
      BY <3>1, PlayMoved
  <2>6. q = p
    BY <2>4, <2>5
  <2> QED
    BY <2>6 DEF Own, PlaysOf
<1>9. ASSUME NEW i, NEW s PROVE IsFiniteSet(Own(c, i, s))
  BY <1>4, FS_Subset DEF Own, PlaysOf
<1>10. ASSUME NEW q \in d.plays, e[q.source] = 0 PROVE CountedIn(d.state[q.row][q.source], d, q)
  <2> DEFINE s == q.source
             i == q.row
             state == d.state[i][s]
             was == c.state[i][s]
  <2>1. PICK p \in c.plays : From(p, q) /\ p \in PlayRecord
    BY <1>5
  <2>2. s \in Sources /\ p.time \in Nat /\ i \in d.live
    BY <1>4, <2>1 DEF PlayRecord
  <2>3. state \in State /\ was \in State /\ c.state[p.row][s] \in State
    BY <1>2, <1>3, <1>4, <2>1, <2>2
  <2>4. /\ c.state[p.row][s].done /\ (~p.moved => c.state[p.row][s].last >= p.time)
    BY <1>10, <2>1 DEF Sane, Counts, CountedIn
  <2>5. Reaches(state, c.state[p.row][s])
    BY <1>2, <2>1, <2>2, <2>4
  <2>6. state.done /\ (~q.moved => state.last >= q.time)
    <3> DEFINE old == c.state[p.row][s]
    <3>1. state.last \in Nat /\ old.last \in Nat /\ p.time \in Nat
      BY <2>2, <2>3 DEF State
    <3>2. state.done /\ state.last >= old.last
      BY <2>5 DEF Reaches
    <3>3. q.time = p.time /\ q.moved = p.moved
      BY <2>1
    <3>4. ~p.moved => old.last >= p.time
      BY <2>4
    <3> HIDE DEF state, old
    <3> QED
      BY <3>1, <3>2, <3>3, <3>4
  <2>7. Own(d, i, s) \subseteq Own(c, i, s)
    BY <1>8, <2>2
  <2>8. state.views >= Cardinality(Own(d, i, s))
    <3>1. CASE Own(d, i, s) = {}
      <4>1. Cardinality(Own(d, i, s)) = 0
        BY <3>1, FS_EmptySet
      <4> QED
        BY <2>3, <4>1 DEF State
    <3>2. CASE Own(d, i, s) # {}
      <4>1. PICK o \in c.plays : o.row = i /\ o.source = s
        BY <2>7, <3>2 DEF Own, PlaysOf
      <4>2. was.done /\ was.views >= Cardinality(Own(c, i, s))
        BY <1>10, <4>1 DEF Sane, Counts, CountedIn
      <4>3. d.heir[i] = i /\ i \in c.live
        BY <1>2, <1>4, <2>2
      <4>4. state.views >= was.views
        BY <1>2, <2>2, <4>2, <4>3 DEF Reaches
      <4>5. /\ Cardinality(Own(d, i, s)) <= Cardinality(Own(c, i, s))
            /\ Cardinality(Own(d, i, s)) \in Nat /\ Cardinality(Own(c, i, s)) \in Nat
        BY <1>9, <2>7, FS_Subset, FS_CardinalityType
      <4> QED
        BY <2>3, <4>2, <4>4, <4>5 DEF State
    <3> QED
      BY <3>1, <3>2
  <2> QED
    BY <2>6, <2>8 DEF CountedIn
<1>11. ASSUME NEW q \in d.plays PROVE Tells(q, l, h, e)
  <2>1. PICK p \in c.plays : From(p, q)
    BY <1>5
  <2>2. Tells(p, l, h, e)
    BY DEF Sane
  <2> QED
    BY <2>1, <2>2 DEF Tells
<1> QED
  BY <1>1, <1>2, <1>6, <1>7, <1>10, <1>11 DEF Advances, Passes, Sane, Counts

-------------------------------------------------------------------------------
(* Recording a play.                                                          *)

\* Where nothing was moved and no state of a leaf lost what it had.
Notes(c, d, l, h, e) ==
  /\ d \in HistoryTables
  /\ d.ok => /\ Advances(c, d, l, h, e)
             /\ d.live = c.live /\ d.parent = c.parent /\ d.at = c.at /\ d.manual = c.manual /\ d.ids = c.ids

\* An identity that a server gives to plays tells their time.
Speaks(id, time, s, l, h, e) ==
  /\ id[1] # "trakt"
  /\ \A p \in PlayRecord : p.source = s /\ p.id = id =>
        /\ p.time = time => Tells(p, l, h, e)
        /\ Tells(p, l, h, e) => p.time = time \/ Reused(p, e) \/ id = Anonymous

\* States changed, and those of leaves lost nothing.
LEMMA StatesRaised ==
  ASSUME NEW c, NEW l, NEW h, NEW e, Sane(c, l, h, e), NEW d \in HistoryTables, d.ok,
         d.live = c.live, d.parent = c.parent, d.at = c.at, d.heir = c.heir, d.manual = c.manual,
         d.plays = c.plays, d.avail = c.avail,
         \A i \in Rows, s \in Sources : d.state[i][s].done => d.state[i][s].row,
         \A i \in Rows, s \in Sources :
            Kind[i] \in {"movie", "episode"} /\ c.state[i][s].done => Reaches(d.state[i][s], c.state[i][s])
  PROVE  Advances(c, d, l, h, e)
<1>1. Standing(c)
  BY DEF Sane
<1>2. /\ c.plays \in SUBSET PlayRecord /\ c.live \subseteq Rows /\ IsFiniteSet(c.plays)
      /\ \A p \in c.plays : p.row \in c.live
      /\ \A r \in c.avail : c.at[r] # 0
      /\ c.state \in [Rows -> [Sources -> State]] /\ d.state \in [Rows -> [Sources -> State]]
  BY <1>1, StandingTypes, StandingTables, HistoryTypes
<1>3. Standing(d)
  BY <1>1, <1>2, StandsStill
<1>4. ASSUME NEW p \in d.plays, e[p.source] = 0 PROVE CountedIn(d.state[p.row][p.source], d, p)
  <2> DEFINE was == c.state[p.row][p.source]
             is == d.state[p.row][p.source]
             n == Cardinality(Own(c, p.row, p.source))
  <2>1. CountedIn(was, c, p) /\ Kind[p.row] \in {"movie", "episode"}
    BY <1>4 DEF Sane, Counts, PlaysFit
  <2>2. p.row \in Rows /\ p.source \in Sources /\ p.time \in Nat
    BY <1>2 DEF PlayRecord
  <2>3. Reaches(is, was)
    BY <2>1, <2>2 DEF CountedIn
  <2>4. was \in State /\ is \in State
    BY <1>2, <2>2
  <2>5. n \in Nat
    BY <1>2, FS_Subset, FS_CardinalityType DEF Own, PlaysOf
  <2>6. Own(d, p.row, p.source) = Own(c, p.row, p.source)
    BY DEF Own, PlaysOf
  <2> QED
    <3>1. was.last \in Nat /\ is.last \in Nat /\ was.views \in Nat /\ is.views \in Nat
      BY <2>4 DEF State
    <3>2. is.done /\ is.last >= was.last /\ is.views >= was.views
      BY <2>3 DEF Reaches
    <3>3. (~p.moved => was.last >= p.time) /\ was.views >= n
      BY <2>1 DEF CountedIn
    <3>4. (~p.moved => is.last >= p.time) /\ is.views >= Cardinality(Own(d, p.row, p.source))
      <4> HIDE DEF was, is
      <4>1. ~p.moved => is.last >= p.time
        BY <2>2, <3>1, <3>2, <3>3
      <4>2. Cardinality(Own(d, p.row, p.source)) = n
        BY <2>6
      <4> HIDE DEF n
      <4> QED
        BY <2>5, <3>1, <3>2, <3>3, <4>1, <4>2
    <3> QED
      BY <3>2, <3>4 DEF CountedIn
<1>5. Sane(d, l, h, e)
  BY <1>3, <1>4 DEF Sane, PlaysFit, BornApart, Counts
<1>6. Passes(c, c, e)
  BY AdvancesItself DEF Advances
<1> QED
  BY <1>5, <1>6 DEF Advances, Passes

\* A play whose identity is known gets the time told now.
Retold(p, time) == [p EXCEPT !.time = time, !.moved = @ \/ p.time # time]

LEMMA RetoldRecord ==
  ASSUME NEW p \in PlayRecord, NEW time \in Nat
  PROVE  /\ Retold(p, time) \in PlayRecord /\ Retold(p, time).row = p.row /\ Retold(p, time).source = p.source
         /\ Retold(p, time).id = p.id /\ Retold(p, time).born = p.born /\ Retold(p, time).time = time
         /\ p.time = time => Retold(p, time) = p
         /\ ~Retold(p, time).moved => ~p.moved /\ p.time = time
BY DEF Retold, PlayRecord

LEMMA RetoldNotes ==
  ASSUME NEW c, NEW l, NEW h, NEW e, Sane(c, l, h, e), NEW known \in SUBSET c.plays, NEW time \in Nat,
         \A p \in known : Tells(Retold(p, time), l, h, e) /\ (p.time = time \/ Reused(p, e)),
         NEW d, d = [c EXCEPT !.plays = (c.plays \ known) \cup {Retold(p, time) : p \in known}]
  PROVE  Notes(c, d, l, h, e)
<1> DEFINE plays == (c.plays \ known) \cup {Retold(p, time) : p \in known}
           new == [p \in c.plays |-> IF p \in known THEN Retold(p, time) ELSE p]
<1>1. Standing(c)
  BY DEF Sane
<1>2. /\ c \in HistoryTables /\ c.ok /\ c.plays \in SUBSET PlayRecord /\ IsFiniteSet(c.plays)
      /\ \A p \in c.plays : p.row \in c.live
      /\ \A r \in c.avail : c.at[r] # 0
      /\ \A i \in Rows : c.heir[c.heir[i]] = c.heir[i]
      /\ \A i \in c.live : c.heir[i] = i
  BY <1>1, StandingTypes, StandingTables
<1>3. plays = {new[p] : p \in c.plays}
  OBVIOUS
<1>4. ASSUME NEW p \in c.plays
      PROVE  /\ new[p] \in PlayRecord /\ new[p].row = p.row /\ new[p].source = p.source /\ new[p].born = p.born
             /\ new[p].id = p.id /\ (~new[p].moved => new[p] = p) /\ Tells(new[p], l, h, e)
  <2>1. p \in PlayRecord /\ Tells(p, l, h, e)
    BY <1>2 DEF Sane
  <2>2. p \in known => Tells(Retold(p, time), l, h, e)
    OBVIOUS
  <2> QED
    BY <2>1, <2>2, RetoldRecord
<1> HIDE DEF new
<1>5. plays \subseteq PlayRecord /\ IsFiniteSet(plays) /\ \A q \in plays : q.row \in c.live
  <2>1. IsFiniteSet(plays)
    BY <1>2, <1>3, ImageFinite
  <2> QED
    BY <1>2, <1>3, <1>4, <2>1
<1>6. d.plays = plays
  BY <1>2 DEF HistoryTables
<1> HIDE DEF plays
<1>7. /\ d \in HistoryTables /\ d.ok /\ d.live = c.live /\ d.parent = c.parent /\ d.at = c.at /\ d.heir = c.heir
      /\ d.manual = c.manual /\ d.state = c.state /\ d.avail = c.avail /\ d.ids = c.ids
  <2>1. d = [c EXCEPT !.plays = plays]
    BY DEF plays
  <2> QED
    BY <1>2, <1>5, <2>1 DEF HistoryTables
<1>8. \A i \in Rows, s \in Sources : d.state[i][s].done => d.state[i][s].row
  BY <1>1, <1>7 DEF Standing, Whole
<1>9. Standing(d)
  <2>1. IsFiniteSet(d.plays) /\ (\A p \in d.plays : p.row \in d.live) /\ \A r \in d.avail : d.at[r] # 0
    <3>1. d.live = c.live /\ d.avail = c.avail /\ d.at = c.at
      BY <1>7
    <3>2. \A r \in d.avail : d.at[r] # 0
      BY <1>2, <3>1
    <3> QED
      BY <1>5, <1>6, <3>1, <3>2
  <2> QED
    BY <1>1, <1>7, <1>8, <2>1, StandsStill
<1>10. PlaysFit(d)
  BY <1>3, <1>4, <1>6, <1>7 DEF Sane, PlaysFit
<1>11. BornApart(d)
  <2> SUFFICES ASSUME NEW x \in plays, NEW y \in plays, x # y, x.born = y.born, ~x.moved, ~y.moved,
                      x.id[1] # "trakt", y.id[1] # "trakt"
               PROVE  Apart(x.time, y.time) > Near
    BY <1>6 DEF BornApart
  <2>1. x \in c.plays /\ y \in c.plays
    BY <1>3, <1>4
  <2> QED
    BY <2>1 DEF Sane, BornApart
<1>12. ASSUME NEW q \in plays, e[q.source] = 0 PROVE CountedIn(d.state[q.row][q.source], d, q)
  <2> DEFINE i == q.row
             s == q.source
             was == Own(c, i, s)
             is == Own(d, i, s)
             taken == [p \in was |-> new[p]]
  <2>1. PICK p \in c.plays : q = new[p]
    BY <1>3
  <2>2. CountedIn(c.state[i][s], c, p) /\ p.row = i /\ p.source = s
    BY <1>4, <1>12, <2>1 DEF Sane, Counts
  <2>3. IsFiniteSet(was)
    BY <1>2, FS_Subset DEF Own, PlaysOf
  <2>4. is = {taken[x] : x \in was}
    <3>1. ASSUME NEW x \in was PROVE taken[x] \in is
      <4>1. x \in c.plays /\ x.row = i /\ x.source = s /\ x.born = i
        BY DEF Own, PlaysOf
      <4>2. new[x] \in plays /\ new[x].row = i /\ new[x].source = s /\ new[x].born = i
        BY <1>3, <1>4, <4>1
      <4> QED
        BY <1>6, <4>2 DEF Own, PlaysOf
    <3>2. ASSUME NEW y \in is PROVE \E x \in was : y = taken[x]
      <4>1. y \in plays /\ y.row = i /\ y.source = s /\ y.born = i
        BY <1>6 DEF Own, PlaysOf
      <4>2. PICK x \in c.plays : y = new[x]
        BY <1>3, <4>1
      <4>3. x \in was
        BY <1>4, <4>1, <4>2 DEF Own, PlaysOf
      <4> QED
        BY <4>2, <4>3
    <3> HIDE DEF was, is, taken
    <3> QED
      BY <3>1, <3>2
  <2>5. taken \in Surjection(was, is)
    <3> HIDE DEF was, is
    <3> QED
      BY <2>4 DEF Surjection
  <2>6. Cardinality(is) <= Cardinality(was) /\ IsFiniteSet(is)
    <3> HIDE DEF was, is, taken
    <3> QED
      BY <2>3, <2>5, FS_Surjection
  <2>7. Cardinality(is) \in Nat /\ Cardinality(was) \in Nat
    BY <2>3, <2>6, FS_CardinalityType
  <2>8. c.state[i][s] \in State
    <3>1. q \in PlayRecord /\ c.state \in [Rows -> [Sources -> State]]
      BY <1>1, <1>5, StandingTables
    <3> QED
      BY <3>1 DEF PlayRecord
  <2>9. c.state[i][s].views >= Cardinality(is)
    BY <2>2, <2>6, <2>7, <2>8 DEF CountedIn, State
  <2>10. c.state[i][s].done /\ (~q.moved => c.state[i][s].last >= q.time)
    BY <1>4, <2>1, <2>2 DEF CountedIn
  <2> QED
    BY <1>7, <2>9, <2>10 DEF CountedIn
<1>13. \A q \in plays : Tells(q, l, h, e)
  BY <1>3, <1>4
<1>14. Sane(d, l, h, e)
  BY <1>6, <1>9, <1>10, <1>11, <1>12, <1>13 DEF Sane, Counts
<1>15. ASSUME NEW p \in c.plays PROVE MovedTo(p, d.heir[p.row]) \in d.plays \/ Reused(p, e)
  <2>1. MovedTo(p, c.heir[p.row]) = p
    <3>1. p \in PlayRecord /\ p.row \in Rows /\ c.heir[p.row] = p.row
      BY <1>2 DEF PlayRecord
    <3> QED
      BY <3>1, PlayMoved
  <2>2. p \in known /\ p.time = time => Retold(p, time) = p
    BY <1>2, RetoldRecord
  <2>3. p \in plays \/ Reused(p, e)
    BY <2>2 DEF plays
  <2> QED
    BY <1>6, <1>7, <2>1, <2>3
<1> QED
  BY <1>2, <1>7, <1>14, <1>15 DEF Notes, Advances, Passes

\* All of Sane but the counting, that an import makes up for at its end.
Ordered(c, l, h, e) == Standing(c) /\ PlaysFit(c) /\ BornApart(c) /\ \A p \in c.plays : Tells(p, l, h, e)

\* A play that is new to a row.
Gained(i, id, time, s) == [row |-> i, source |-> s, id |-> id, time |-> time, born |-> i, moved |-> FALSE]

LEMMA GainedRecord ==
  ASSUME NEW i \in Rows, NEW id \in PlayIds, NEW time \in Nat, NEW s \in Sources, NEW p, p = Gained(i, id, time, s)
  PROVE  /\ p \in PlayRecord /\ p.row = i /\ p.id = id /\ p.time = time /\ p.source = s /\ p.born = i
         /\ ~p.moved
BY DEF Gained, PlayRecord

LEMMA ApartAlike ==
  ASSUME NEW t \in Nat, NEW u \in Nat
  PROVE  Apart(t, u) = Apart(u, t)
BY DEF Apart

LEMMA PlayAdded ==
  ASSUME NEW c, NEW l, NEW h, NEW e, Ordered(c, l, h, e),
         NEW i \in c.live, Kind[i] \in {"movie", "episode"},
         NEW id \in PlayIds, NEW time \in Nat, NEW s \in Sources, NEW new, new = Gained(i, id, time, s),
         Tells(new, l, h, e),
         id[1] # "trakt" => \A p \in c.plays : p.row = i => Apart(p.time, time) > Near,
         NEW d \in HistoryTables, d.ok, d.live = c.live, d.parent = c.parent, d.at = c.at, d.heir = c.heir,
         d.manual = c.manual, d.avail = c.avail, d.plays = c.plays \cup {new},
         \A j \in Rows, x \in Sources : d.state[j][x].done => d.state[j][x].row
  PROVE  Ordered(d, l, h, e) /\ Passes(c, d, e)
<1>1. Standing(c) /\ PlaysFit(c) /\ BornApart(c) /\ \A p \in c.plays : Tells(p, l, h, e)
  BY DEF Ordered
<1>2. /\ c.plays \in SUBSET PlayRecord /\ IsFiniteSet(c.plays) /\ c.live \subseteq Rows
      /\ \A p \in c.plays : p.row \in c.live
      /\ \A r \in c.avail : c.at[r] # 0
      /\ \A j \in Rows : c.heir[c.heir[j]] = c.heir[j]
      /\ \A j \in c.live : c.heir[j] = j
  BY <1>1, StandingTypes, StandingTables
<1>3. /\ new \in PlayRecord /\ new.row = i /\ new.id = id /\ new.time = time /\ new.born = i /\ ~new.moved
  <2>1. i \in Rows
    BY <1>2
  <2> QED
    BY <2>1, GainedRecord
<1>4. Standing(d)
  <2>1. IsFiniteSet(d.plays)
    <3>1. IsFiniteSet(c.plays)
      BY <1>2
    <3> QED
      BY <3>1, FS_AddElement
  <2>2. (\A p \in d.plays : p.row \in d.live) /\ \A r \in d.avail : d.at[r] # 0
    BY <1>2, <1>3
  <2> QED
    BY <1>1, <2>1, <2>2, StandsStill
<1>5. PlaysFit(d)
  BY <1>1, <1>2, <1>3 DEF PlaysFit
<1>6. BornApart(d)
  <2>1. ASSUME NEW p \in c.plays, p.born = i, ~p.moved, p.id[1] # "trakt", id[1] # "trakt"
        PROVE  Apart(p.time, time) > Near /\ Apart(time, p.time) > Near
    <3>1. p.row = i /\ p.time \in Nat
      BY <1>1, <1>2, <2>1 DEF PlaysFit, PlayRecord
    <3> QED
      BY <2>1, <3>1, ApartAlike
  <2>2. ASSUME NEW p \in d.plays, NEW q \in d.plays, p # q, p.born = q.born, ~p.moved, ~q.moved,
               p.id[1] # "trakt", q.id[1] # "trakt"
        PROVE  Apart(p.time, q.time) > Near
    <3>1. CASE p \in c.plays /\ q \in c.plays
      BY <1>1, <2>2, <3>1 DEF BornApart
    <3>2. CASE p = new /\ q \in c.plays
      BY <1>3, <2>1, <2>2, <3>2
    <3>3. CASE q = new /\ p \in c.plays
      BY <1>3, <2>1, <2>2, <3>3
    <3> QED
      BY <2>2, <3>1, <3>2, <3>3
  <2> QED
    BY <2>2 DEF BornApart
<1>7. \A p \in d.plays : Tells(p, l, h, e)
  BY <1>1
<1>8. ASSUME NEW p \in c.plays PROVE MovedTo(p, d.heir[p.row]) \in d.plays
  <2>1. p \in PlayRecord /\ p.row \in Rows /\ c.heir[p.row] = p.row
    BY <1>2 DEF PlayRecord
  <2> QED
    BY <2>1, PlayMoved
<1> QED
  BY <1>2, <1>4, <1>5, <1>6, <1>7, <1>8 DEF Ordered, Passes

\* Its state counts it.
LEMMA AppliedState ==
  ASSUME NEW old \in State, NEW n \in Nat, NEW time \in Nat
  PROVE  /\ Applied(old, n, time) \in State /\ Applied(old, n, time).row
         /\ Reaches(Applied(old, n, time), old)
         /\ Applied(old, n, time).views >= n /\ Applied(old, n, time).last >= time
<1>1. old.views \in Nat /\ old.last \in Nat
  BY DEF State
<1> DEFINE views == Max({old.views, n})
           last == Max({old.last, time})
<1>2. views \in Nat /\ views >= old.views /\ views >= n /\ last \in Nat /\ last >= old.last /\ last >= time
  BY <1>1, LargerType
<1>3. Applied(old, n, time) = [old EXCEPT !.row = TRUE, !.done = TRUE, !.views = views, !.last = last]
  BY DEF Applied
<1> HIDE DEF views, last
<1> QED
  BY <1>2, <1>3 DEF State, Reaches

LEMMA CountsAdded ==
  ASSUME NEW c, NEW l, NEW h, NEW e, Sane(c, l, h, e), NEW i \in c.live, NEW s \in Sources,
         NEW id \in PlayIds, NEW time \in Nat, NEW new, new = Gained(i, id, time, s),
         NEW d \in HistoryTables, d.plays = c.plays \cup {new},
         \A j \in Rows, x \in Sources : j # i \/ x # s => d.state[j][x] = c.state[j][x],
         d.state[i][s].done, d.state[i][s].last >= time, Reaches(d.state[i][s], c.state[i][s]),
         d.state[i][s].views >= Cardinality(PlaysOf(d, i, s))
  PROVE  Counts(d, e)
<1>1. Standing(c)
  BY DEF Sane
<1>2. /\ c.plays \in SUBSET PlayRecord /\ IsFiniteSet(c.plays) /\ c.live \subseteq Rows
      /\ c.state \in [Rows -> [Sources -> State]] /\ d.state \in [Rows -> [Sources -> State]]
      /\ d.plays \in SUBSET PlayRecord
  BY <1>1, StandingTypes, StandingTables, HistoryTypes
<1>3. /\ new \in PlayRecord /\ new.row = i /\ new.source = s /\ new.time = time
  <2>1. i \in Rows
    BY <1>2
  <2> QED
    BY <2>1, GainedRecord
<1>4. d.state[i][s] \in State /\ c.state[i][s] \in State
  BY <1>2
<1>5. ASSUME NEW p \in d.plays, e[p.source] = 0 PROVE CountedIn(d.state[p.row][p.source], d, p)
  <2>1. p.row \in Rows /\ p.source \in Sources /\ p.time \in Nat
    BY <1>2 DEF PlayRecord
  <2>2. p \in c.plays => CountedIn(c.state[p.row][p.source], c, p)
    BY <1>5 DEF Sane, Counts
  <2>3. CASE p.row = i /\ p.source = s
    <3>1. Own(d, i, s) \subseteq PlaysOf(d, i, s) /\ IsFiniteSet(PlaysOf(d, i, s))
      <4>1. IsFiniteSet(d.plays)
        <5>1. IsFiniteSet(c.plays)
          BY <1>2
        <5> QED
          BY <5>1, FS_AddElement
      <4> QED
        BY <4>1, FS_Subset DEF Own, PlaysOf
    <3>2. /\ Cardinality(Own(d, i, s)) <= Cardinality(PlaysOf(d, i, s))
          /\ Cardinality(Own(d, i, s)) \in Nat /\ Cardinality(PlaysOf(d, i, s)) \in Nat
      BY <3>1, FS_Subset, FS_CardinalityType
    <3>3. d.state[i][s].views >= Cardinality(Own(d, i, s))
      BY <1>4, <3>2 DEF State
    <3>4. ~p.moved => d.state[i][s].last >= p.time
      BY <1>3, <1>4, <2>1, <2>2, <2>3 DEF State, Reaches, CountedIn
    <3> QED
      BY <2>3, <3>3, <3>4 DEF CountedIn
  <2>4. CASE p.row # i \/ p.source # s
    <3>1. p \in c.plays /\ d.state[p.row][p.source] = c.state[p.row][p.source]
      BY <1>3, <2>1, <2>4
    <3>2. Own(d, p.row, p.source) = Own(c, p.row, p.source)
      BY <1>3, <2>4 DEF Own, PlaysOf
    <3> QED
      BY <2>2, <3>1, <3>2 DEF CountedIn
  <2> QED
    BY <2>3, <2>4
<1> QED
  BY <1>5 DEF Counts

\* What a new play changes: it is there, and its state counts it.
Added(c, d, i, s, time, new) ==
  /\ d \in HistoryTables /\ d.ok /\ d.live = c.live /\ d.parent = c.parent /\ d.at = c.at /\ d.heir = c.heir
  /\ d.manual = c.manual /\ d.avail = c.avail /\ d.ids = c.ids /\ d.plays = c.plays \cup {new}
  /\ \A j \in Rows, x \in Sources : j # i \/ x # s => d.state[j][x] = c.state[j][x]
  /\ d.state[i][s].row /\ d.state[i][s].last >= time /\ Reaches(d.state[i][s], c.state[i][s])
  /\ d.state[i][s].views >= Cardinality(PlaysOf(d, i, s))

LEMMA RecordAdds ==
  ASSUME NEW c, Standing(c), NEW r \in Refs, NEW id \in PlayIds, NEW time \in Nat, NEW views \in Nat,
         NEW i \in c.live, c.at[r] = i, NEW s \in Sources, s = Source[r],
         ~\E p \in c.plays : p.source = s /\ p.id = id /\ id # Anonymous, ~Nearby(c, i, s, time),
         NEW new, new = Gained(i, id, time, s), NEW d, d = Record(c, r, id, time, views)
  PROVE  Added(c, d, i, s, time, new)
<1> DEFINE added == [c EXCEPT !.plays = @ \cup {new}]
           v == Applied(c.state[i][s], Max({views, Cardinality(PlaysOf(added, i, s))}), time)
<1>0. d = [added EXCEPT !.state[i][s] = v]
  <2>1. {p \in c.plays : p.source = s /\ p.id = id /\ id # Anonymous} = {}
    OBVIOUS
  <2>2. c.ok /\ i # 0
    BY StandingTypes
  <2>3. added.state = c.state
    <3>1. c \in HistoryTables
      BY StandingTypes
    <3> QED
      BY <3>1 DEF HistoryTables
  <2> QED
    BY <2>1, <2>2, <2>3 DEF Record, Gained
<1> DEFINE plays == c.plays \cup {new}
           line == [c.state[i] EXCEPT ![s] = v]
           state == [c.state EXCEPT ![i] = line]
<1>2. /\ c \in HistoryTables /\ c.ok /\ c.plays \in SUBSET PlayRecord /\ IsFiniteSet(c.plays) /\ i \in Rows
      /\ c.state \in [Rows -> [Sources -> State]]
  BY StandingTypes, StandingTables
<1>3. /\ new \in PlayRecord /\ new.source = s /\ new.id = id /\ new.time = time
  <2>1. i \in Rows
    BY <1>2
  <2> QED
    BY <2>1, GainedRecord
<1>4. added.plays = plays /\ added.state = c.state
  BY <1>2 DEF HistoryTables
<1>5. IsFiniteSet(PlaysOf(added, i, s)) /\ Cardinality(PlaysOf(added, i, s)) \in Nat
  <2>1. IsFiniteSet(plays)
    <3>1. IsFiniteSet(c.plays)
      BY <1>2
    <3> QED
      BY <3>1, FS_AddElement
  <2>2. PlaysOf(added, i, s) \in SUBSET plays
    BY <1>4 DEF PlaysOf
  <2> HIDE DEF plays
  <2> QED
    BY <2>1, <2>2, FS_Subset, FS_CardinalityType
<1> DEFINE n == Max({views, Cardinality(PlaysOf(added, i, s))})
<1>6. n \in Nat /\ n >= Cardinality(PlaysOf(added, i, s))
  BY <1>5, LargerType
<1>7. v \in State /\ v.row /\ Reaches(v, c.state[i][s]) /\ v.views >= n /\ v.last >= time
  <2> HIDE DEF n
  <2>1. c.state[i][s] \in State
    BY <1>2
  <2>2. v = Applied(c.state[i][s], n, time)
    BY DEF n
  <2> QED
    BY <1>6, <2>1, <2>2, AppliedState
<1>8. line \in [Sources -> State] /\ state \in [Rows -> [Sources -> State]]
  BY <1>2, <1>7
<1>9. /\ \A j \in Rows, x \in Sources : j # i \/ x # s => state[j][x] = c.state[j][x]
      /\ state[i][s] = v
  BY <1>2
<1>10. d = [c EXCEPT !.plays = plays, !.state = state]
  BY <1>0, <1>2, <1>4 DEF HistoryTables
<1> HIDE DEF plays, line, state, v, added
<1>11. plays \in SUBSET PlayRecord
  BY <1>2, <1>3 DEF plays
<1>12. /\ d \in HistoryTables /\ d.ok /\ d.live = c.live /\ d.parent = c.parent /\ d.at = c.at /\ d.heir = c.heir
       /\ d.manual = c.manual /\ d.avail = c.avail /\ d.ids = c.ids /\ d.plays = plays /\ d.state = state
  BY <1>2, <1>8, <1>10, <1>11 DEF HistoryTables
<1>13. d.plays = c.plays \cup {new}
  BY <1>12 DEF plays
<1>14. PlaysOf(d, i, s) = PlaysOf(added, i, s)
  BY <1>4, <1>12 DEF PlaysOf
<1>15. d.state[i][s] = v /\ \A j \in Rows, x \in Sources : j # i \/ x # s => d.state[j][x] = c.state[j][x]
  BY <1>9, <1>12
<1>16. v.views >= Cardinality(PlaysOf(d, i, s))
  <2>1. v.views \in Nat
    BY <1>7 DEF State
  <2>2. Cardinality(PlaysOf(d, i, s)) \in Nat /\ n >= Cardinality(PlaysOf(d, i, s))
    BY <1>5, <1>6, <1>14
  <2> HIDE DEF n
  <2> QED
    BY <1>6, <1>7, <2>1, <2>2
<1> QED
  BY <1>7, <1>12, <1>13, <1>15, <1>16 DEF Added

LEMMA AddedNotes ==
  ASSUME NEW c, NEW l, NEW h, NEW e, Sane(c, l, h, e), NEW i \in c.live, Kind[i] \in {"movie", "episode"},
         NEW s \in Sources, NEW id \in PlayIds, NEW time \in Nat, Speaks(id, time, s, l, h, e),
         \A p \in c.plays : p.row = i => Apart(p.time, time) > Near,
         NEW new, new = Gained(i, id, time, s), NEW d, Added(c, d, i, s, time, new)
  PROVE  Notes(c, d, l, h, e)
<1>1. /\ d \in HistoryTables /\ d.ok /\ d.live = c.live /\ d.parent = c.parent /\ d.at = c.at /\ d.heir = c.heir
      /\ d.manual = c.manual /\ d.avail = c.avail /\ d.ids = c.ids /\ d.plays = c.plays \cup {new}
      /\ \A j \in Rows, x \in Sources : j # i \/ x # s => d.state[j][x] = c.state[j][x]
      /\ d.state[i][s].row /\ d.state[i][s].last >= time /\ Reaches(d.state[i][s], c.state[i][s])
      /\ d.state[i][s].views >= Cardinality(PlaysOf(d, i, s))
  BY DEF Added
<1>2. Standing(c) /\ Ordered(c, l, h, e)
  BY DEF Sane, Ordered
<1>3. i \in Rows
  BY <1>2, StandingTypes
<1>4. new \in PlayRecord /\ new.source = s /\ new.id = id /\ new.time = time
  BY <1>3, GainedRecord
<1>5. Tells(new, l, h, e) /\ id[1] # "trakt"
  BY <1>4 DEF Speaks
<1>6. \A j \in Rows, x \in Sources : d.state[j][x].done => d.state[j][x].row
  BY <1>1, <1>2 DEF Standing, Whole
<1>7. Ordered(d, l, h, e) /\ Passes(c, d, e)
  BY <1>1, <1>2, <1>5, <1>6, PlayAdded
<1>8. Counts(d, e)
  <2>1. d.state[i][s].done
    BY <1>1 DEF Reaches
  <2> QED
    BY <1>1, <2>1, CountsAdded
<1> QED
  BY <1>1, <1>7, <1>8 DEF Notes, Advances, Sane, Ordered

LEMMA NotesItself ==
  ASSUME NEW c, NEW l, NEW h, NEW e, Sane(c, l, h, e)
  PROVE  Notes(c, c, l, h, e)
<1>1. Standing(c)
  BY DEF Sane
<1>2. c \in HistoryTables
  BY <1>1, StandingTypes
<1> QED
  BY <1>2, AdvancesItself DEF Notes

\* persist_event
LEMMA RecordNotes ==
  ASSUME NEW c, NEW l, NEW h, NEW e, Sane(c, l, h, e), NEW r \in Refs, Level[r] \in {"movie", "episode"},
         NEW id \in PlayIds, NEW time \in Nat, NEW views \in Nat, Speaks(id, time, Source[r], l, h, e)
  PROVE  Notes(c, Record(c, r, id, time, views), l, h, e)
<1> DEFINE i == c.at[r]
           s == Source[r]
           known == {p \in c.plays : p.source = s /\ p.id = id /\ id # Anonymous}
           moved == {[p EXCEPT !.time = time, !.moved = @ \/ p.time # time] : p \in known}
<1>1. Standing(c)
  BY DEF Sane
<1>2. /\ c \in HistoryTables /\ c.ok /\ c.plays \in SUBSET PlayRecord
      /\ \A q \in Refs : c.at[q] # 0 => c.at[q] \in c.live /\ Kind[c.at[q]] = Level[q]
  BY <1>1, StandingTypes, StandingTables
<1>3. CASE i = 0 \/ \E p \in known : p.row # i
  <2>1. Record(c, r, id, time, views) = Refused(c)
    BY <1>2, <1>3 DEF Record
  <2> QED
    BY <1>2, <2>1, RefusedTables DEF Notes
<1>4. CASE ~(i = 0 \/ \E p \in known : p.row # i) /\ known # {}
  <2>1. Record(c, r, id, time, views) = [c EXCEPT !.plays = (@ \ known) \cup moved]
    BY <1>2, <1>4 DEF Record
  <2>2. moved = {Retold(p, time) : p \in known}
    BY DEF Retold
  <2>3. ASSUME NEW p \in known PROVE Tells(Retold(p, time), l, h, e) /\ (p.time = time \/ Reused(p, e))
    <3>1. p \in PlayRecord /\ Tells(p, l, h, e) /\ p.source = s /\ p.id = id /\ id # Anonymous
      BY <1>2 DEF Sane
    <3>2. Retold(p, time) \in PlayRecord /\ Retold(p, time).source = s /\ Retold(p, time).id = id
          /\ Retold(p, time).time = time
      BY <3>1, RetoldRecord
    <3> QED
      BY <3>1, <3>2 DEF Speaks
  <2>4. known \in SUBSET c.plays
    OBVIOUS
  <2> HIDE DEF known, moved
  <2> QED
    BY <2>1, <2>2, <2>3, <2>4, RetoldNotes
<1>5. CASE ~(i = 0 \/ \E p \in known : p.row # i) /\ known = {} /\ Nearby(c, i, s, time)
  <2>1. Record(c, r, id, time, views) = c
    BY <1>2, <1>5 DEF Record
  <2> QED
    BY <2>1, NotesItself
<1>6. CASE ~(i = 0 \/ \E p \in known : p.row # i) /\ known = {} /\ ~Nearby(c, i, s, time)
  <2>1. i \in c.live /\ Kind[i] \in {"movie", "episode"} /\ s \in Sources
    BY <1>2, <1>6 DEF Sources
  <2>2. \A p \in c.plays : p.row = i => Apart(p.time, time) > Near
    <3>1. ASSUME NEW p \in c.plays, p.row = i PROVE Apart(p.time, time) > Near
      <4>1. ~(Apart(p.time, time) <= Near)
        BY <1>6, <3>1 DEF Nearby
      <4>2. p.time \in Nat /\ Near \in Nat
        BY <1>2, HistoryAssumption DEF PlayRecord
      <4> QED
        BY <4>1, <4>2 DEF Apart
    <3> QED
      BY <3>1
  <2>3. ~\E p \in c.plays : p.source = s /\ p.id = id /\ id # Anonymous
    BY <1>6
  <2>4. PICK new : new = Gained(i, id, time, s)
    OBVIOUS
  <2>5. PICK d : d = Record(c, r, id, time, views)
    OBVIOUS
  <2>6. Added(c, d, i, s, time, new)
    BY <1>1, <1>6, <2>1, <2>3, <2>4, <2>5, RecordAdds
  <2>7. Notes(c, d, l, h, e)
    BY <2>1, <2>2, <2>4, <2>6, AddedNotes
  <2> QED
    BY <2>5, <2>7
<1> QED
  BY <1>3, <1>4, <1>5, <1>6

-------------------------------------------------------------------------------
(* What a page tells of plays.                                                *)

LEMMA NotesTransitive ==
  ASSUME NEW c, NEW l, NEW h, NEW e, Sane(c, l, h, e), NEW d, Notes(c, d, l, h, e), d.ok,
         NEW f, Notes(d, f, l, h, e)
  PROVE  Notes(c, f, l, h, e)
<1>1. f.ok => Advances(c, f, l, h, e)
  BY AdvancesTransitive DEF Notes
<1> QED
  BY <1>1 DEF Notes

\* webhook_events: as long as no server was replaced a number tells one row.
Numbered(h, e) ==
  /\ IsFiniteSet(h) /\ h \subseteq [id : Nat, entry : Watched, time : Nat]
  /\ Fresh(e) => \A v, w \in h : v.id = w.id => v = w

\* The latest row and its number.
LEMMA LatestHook ==
  ASSUME NEW h, NEW e, Numbered(h, e)
  PROVE  Latest(h) \in Nat /\ (\A w \in h : w.id <= Latest(h)) /\ (h # {} => LastHook(h) \in h)
<1> DEFINE ids == {w.id : w \in h}
           id == [w \in h |-> w.id]
<1>1. IsFiniteSet(h) /\ h \subseteq [id : Nat, entry : Watched, time : Nat]
  BY DEF Numbered
<1>2. ids = {id[w] : w \in h}
  OBVIOUS
<1>3. IsFiniteSet(ids)
  <2> HIDE DEF ids, id
  <2> QED
    BY <1>1, <1>2, ImageFinite
<1>4. ids \in SUBSET Nat
  BY <1>1
<1>5. IsFiniteSet(ids \cup {0}) /\ ids \cup {0} \in SUBSET Nat /\ ids \cup {0} # {}
  <2> HIDE DEF ids
  <2> QED
    BY <1>3, <1>4, FS_AddElement
<1>6. Latest(h) \in ids \cup {0} /\ \A x \in ids \cup {0} : x <= Latest(h)
  <2>1. Latest(h) = Max(ids \cup {0})
    BY DEF Latest
  <2> HIDE DEF ids
  <2> QED
    BY <1>5, <2>1, MaxIn
<1>7. ASSUME h # {} PROVE LastHook(h) \in h
  <2>1. ids # {}
    BY <1>7
  <2>2. Max(ids) \in ids /\ \A x \in ids : x <= Max(ids)
    <3> HIDE DEF ids
    <3> QED
      BY <1>3, <1>4, <2>1, MaxIn
  <2>3. PICK w \in h : \A v \in h : v.id <= w.id
    BY <2>2
  <2> QED
    BY <2>3, Zenon DEF LastHook
<1> QED
  BY <1>4, <1>6, <1>7

LEMMA HookSpeaks ==
  ASSUME NEW l, NEW h, NEW e, Numbered(h, e), NEW w \in h, NEW s
  PROVE  Speaks(<<"webhook", w.id>>, w.time, s, l, h, e)
<1> DEFINE id == <<"webhook", w.id>>
<1>1. id[1] = "webhook" /\ id[2] = w.id /\ w.id <= Latest(h)
  BY LatestHook
<1>2. Fresh(e) => \A v \in h : v.id = w.id => v.time = w.time
  BY DEF Numbered
<1>3. ASSUME NEW p \in PlayRecord, p.id = id, p.time = w.time PROVE Tells(p, l, h, e)
  BY <1>1, <1>2, <1>3 DEF Tells
<1>4. ASSUME NEW p \in PlayRecord, p.id = id, Tells(p, l, h, e) PROVE p.time = w.time \/ Reused(p, e)
  BY <1>1, <1>4 DEF Tells, Reused
<1> HIDE DEF id
<1>5. Speaks(id, w.time, s, l, h, e)
  BY <1>1, <1>3, <1>4 DEF Speaks
<1> QED
  BY <1>5 DEF id

\* _reconcile_webhook_events
LEMMA HooksNotes ==
  ASSUME NEW c, NEW l, NEW h, NEW e, Sane(c, l, h, e), Numbered(h, e),
         NEW r \in Refs, Level[r] \in {"movie", "episode"}
  PROVE  Notes(c, HooksRecorded(c, r, h), l, h, e)
<1> DEFINE S == {w \in h : w.entry = r}
           T == {d \in HistoryTables : Notes(c, d, l, h, e)}
           last == [s \in SUBSET S |-> LastHook(s)]
           Told(d, w) == Record(d, r, <<"webhook", w.id>>, w.time, 0)
           F == [x \in T \X S |-> Told(x[1], x[2])]
           Step(f, s) == IF s = {} THEN c ELSE Told(f[s \ {LastHook(s)}], LastHook(s))
           Is(f) == f = [s \in SUBSET S |-> Step(f, s)]
           iter == CHOOSE f : Is(f)
<1>1. IsFiniteSet(S) /\ \A w \in S : w \in h /\ w.id \in Nat /\ w.time \in Nat
  BY FS_Subset DEF Numbered
<1>2. ASSUME NEW s \in SUBSET S, s # {} PROVE LastHook(s) \in s
  <2>1. Numbered(s, e)
    BY <1>1, FS_Subset DEF Numbered
  <2> QED
    BY <1>2, <2>1, LatestHook
<1>3. c \in T
  BY NotesItself DEF Notes
<1>4. ASSUME NEW d \in T, NEW w \in S PROVE Told(d, w) \in T
  <2>1. Notes(c, d, l, h, e) /\ d \in HistoryTables
    OBVIOUS
  <2>2. CASE ~d.ok
    <3>1. Told(d, w) = d
      BY <2>2 DEF Record
    <3> QED
      BY <3>1
  <2>3. CASE d.ok
    <3>1. Sane(d, l, h, e)
      BY <2>1, <2>3 DEF Notes, Advances
    <3>2. <<"webhook", w.id>> \in PlayIds /\ w.time \in Nat /\ 0 \in Nat
      BY <1>1 DEF PlayIds
    <3>3. Speaks(<<"webhook", w.id>>, w.time, Source[r], l, h, e)
      BY <1>1, HookSpeaks
    <3>4. Notes(d, Told(d, w), l, h, e)
      BY <3>1, <3>2, <3>3, RecordNotes
    <3> HIDE DEF Told
    <3>5. Notes(c, Told(d, w), l, h, e)
      BY <2>1, <2>3, <3>4, NotesTransitive
    <3> QED
      BY <3>5 DEF Notes
  <2> QED
    BY <2>2, <2>3
<1>5. F \in [T \X S -> T]
  <2> HIDE DEF T, S, Told
  <2> QED
    BY <1>4
<1>6. PICK f \in [SUBSET S -> T] : Unfolds(f, S, last, c, F)
  <2>1. \A s \in SUBSET S : s # {} => last[s] \in s
    BY <1>2
  <2> HIDE DEF F, last, S, T
  <2> QED
    BY <1>1, <1>3, <1>5, <2>1, FoldExists
<1>7. \A s \in SUBSET S : f[s] = Step(f, s)
  <2>1. \A s \in SUBSET S : f[s] = IF s = {} THEN c ELSE F[<<f[s \ {last[s]}], last[s]>>]
    BY <1>6 DEF Unfolds
  <2>2. ASSUME NEW s \in SUBSET S, s # {} PROVE F[<<f[s \ {last[s]}], last[s]>>] = Told(f[s \ {LastHook(s)}], LastHook(s))
    <3>1. last[s] = LastHook(s) /\ LastHook(s) \in S /\ f[s \ {LastHook(s)}] \in T
      BY <1>2, <1>6, <2>2
    <3> HIDE DEF Told, T, S, last
    <3> QED
      BY <3>1
  <2> HIDE DEF Told, T, S, F, last
  <2> QED
    BY <2>1, <2>2
<1>8. Is(f)
  <2> HIDE DEF Step, T, S
  <2> QED
    BY <1>6, <1>7
<1>9. Is(iter)
  <2> HIDE DEF Is
  <2> QED
    BY <1>8, Zenon
<1>10. HooksRecorded(c, r, h) = iter[S]
  BY DEF HooksRecorded, InOrder, MapThenFoldSet
<1>11. \A s \in SUBSET S : iter[s] = Step(iter, s)
  <2> HIDE DEF Step, iter
  <2> QED
    BY <1>9
<1> HIDE DEF iter
<1> DEFINE Q == {s \in SUBSET S : iter[s] \in T}
<1>12. {} \in Q
  BY <1>3, <1>11
<1>13. ASSUME NEW s \in SUBSET S, s # {}, s \ {last[s]} \in Q PROVE s \in Q
  <2>1. last[s] = LastHook(s) /\ LastHook(s) \in S
    BY <1>2, <1>13
  <2>2. iter[s] = Told(iter[s \ {LastHook(s)}], LastHook(s)) /\ iter[s \ {LastHook(s)}] \in T
    <3> HIDE DEF T, Told
    <3> QED
      BY <1>11, <1>13, <2>1
  <2>3. iter[s] \in T
    <3> HIDE DEF T, S, Told
    <3> QED
      BY <1>4, <2>1, <2>2
  <2> QED
    BY <2>3
<1>14. S \in Q
  <2>1. \A s \in SUBSET S : s # {} => last[s] \in s
    BY <1>2
  <2>2. IsFiniteSet(S)
    BY <1>1
  <2> HIDE DEF T, Told, F, Step, Is, Q, last, S
  <2>3. \A s \in SUBSET S : s # {} /\ s \ {last[s]} \in Q => s \in Q
    BY <1>13
  <2> QED
    BY <1>12, <2>1, <2>2, <2>3, OrderedInduction
<1> QED
  BY <1>10, <1>14

\* Refused, nothing stays of a page; else it takes the history a step further.
Turns(c, d, l, h, e) == d \in HistoryTables /\ (d.ok => Advances(c, d, l, h, e))

LEMMA TurnsTransitive ==
  ASSUME NEW c, NEW l, NEW h, NEW e, Sane(c, l, h, e), NEW d, Turns(c, d, l, h, e), d.ok,
         NEW f, Turns(d, f, l, h, e)
  PROVE  Turns(c, f, l, h, e)
<1>1. f.ok => Advances(c, f, l, h, e)
  BY AdvancesTransitive DEF Turns
<1> QED
  BY <1>1 DEF Turns

\* What the servers know: the plays of their entries, in the order they came.
Viewing == [entry : Watched, time : Nat]
Logged(l) ==
  /\ l \in [Sources -> Seq(Viewing)]
  /\ \A s \in Sources : \A k \in 1 .. Len(l[s]) : Source[l[s][k].entry] = s

\* How often and when at last an entry was played.
LEMMA PlaysAtType ==
  ASSUME Logged(log), NEW r \in Refs
  PROVE  Cardinality(PlaysAt(r)) \in Nat /\ LastPlay(r) \in Nat
<1> DEFINE s == Source[r]
           plays == log[s]
           S == {k \in 1 .. Len(plays) : plays[k].entry = r}
           time == [k \in S |-> plays[k].time]
           times == {time[k] : k \in S}
<1>1. plays \in Seq(Viewing)
  BY DEF Logged, Sources
<1> HIDE DEF plays
<1>2. Len(plays) \in Nat /\ \A k \in 1 .. Len(plays) : plays[k].time \in Nat
  <2>1. Len(plays) \in Nat /\ \A k \in 1 .. Len(plays) : plays[k] \in Viewing
    BY <1>1
  <2> QED
    BY <2>1 DEF Viewing
<1>3. IsFiniteSet(1 .. Len(plays))
  <2>1. 1 \in Int /\ Len(plays) \in Int
    BY <1>2
  <2> QED
    BY <2>1, FS_Interval
<1>4. IsFiniteSet(S)
  <2>1. S \in SUBSET (1 .. Len(plays))
    OBVIOUS
  <2> HIDE DEF S
  <2> QED
    BY <1>3, <2>1, FS_Subset
<1>5. times \in SUBSET Nat
  BY <1>2
<1>6. IsFiniteSet(times)
  <2> HIDE DEF S, time
  <2> QED
    BY <1>4, ImageFinite
<1>7. PlaysAt(r) = S /\ LastPlay(r) = Max(times \cup {0})
  <2>1. PlaysAt(r) = S
    BY DEF PlaysAt, plays
  <2>2. times = {plays[k].time : k \in S}
    OBVIOUS
  <2> HIDE DEF S, times
  <2> QED
    BY <2>1, <2>2 DEF LastPlay, plays
<1> HIDE DEF times, S
<1>8. IsFiniteSet(times \cup {0}) /\ times \cup {0} \in SUBSET Nat /\ times \cup {0} # {}
  BY <1>5, <1>6, FS_AddElement
<1>9. Max(times \cup {0}) \in times \cup {0}
  BY <1>8, MaxIn
<1>10. Cardinality(S) \in Nat
  BY <1>4, FS_CardinalityType
<1> QED
  BY <1>7, <1>8, <1>9, <1>10

\* _sync_watch_state
LEMMA SyncedState ==
  ASSUME NEW old \in State, NEW views \in Nat, NEW time \in Nat
  PROVE  /\ StateSynced(old, views, time) \in State /\ StateSynced(old, views, time).row
         /\ old.done => Reaches(StateSynced(old, views, time), old)
<1>1. old.views \in Nat /\ old.last \in Nat
  BY DEF State
<1> DEFINE n == Max({old.views, views})
           last == Max({old.last, time})
<1>2. n \in Nat /\ n >= old.views /\ last \in Nat /\ last >= old.last
  BY <1>1, LargerType
<1>3. StateSynced(old, views, time) = [old EXCEPT !.row = TRUE, !.done = old.done \/ views > 0, !.views = n, !.last = last]
  BY DEF StateSynced
<1> HIDE DEF n, last
<1> QED
  BY <1>2, <1>3 DEF State, Reaches

LEMMA SyncedNotes ==
  ASSUME NEW c, NEW l, NEW h, NEW e, Sane(c, l, h, e), NEW i \in c.live, NEW s \in Sources,
         NEW views \in Nat, NEW time \in Nat,
         NEW d, d = [c EXCEPT !.state[i][s] = StateSynced(@, views, time)]
  PROVE  Notes(c, d, l, h, e) /\ d.ok
<1> DEFINE v == StateSynced(c.state[i][s], views, time)
           line == [c.state[i] EXCEPT ![s] = v]
           state == [c.state EXCEPT ![i] = line]
<1>1. Standing(c)
  BY DEF Sane
<1>2. c \in HistoryTables /\ c.ok /\ i \in Rows /\ c.state \in [Rows -> [Sources -> State]]
  BY <1>1, StandingTypes, StandingTables
<1>3. v \in State /\ v.row /\ (c.state[i][s].done => Reaches(v, c.state[i][s]))
  BY <1>2, SyncedState
<1> HIDE DEF v
<1>4. line \in [Sources -> State] /\ state \in [Rows -> [Sources -> State]]
  BY <1>2, <1>3
<1>5. /\ \A j \in Rows, x \in Sources : j # i \/ x # s => state[j][x] = c.state[j][x]
      /\ state[i][s] = v
  BY <1>2
<1>6. d = [c EXCEPT !.state = state]
  BY <1>2 DEF HistoryTables, v
<1> HIDE DEF line, state
<1>7. /\ d \in HistoryTables /\ d.ok /\ d.live = c.live /\ d.parent = c.parent /\ d.at = c.at /\ d.heir = c.heir
      /\ d.manual = c.manual /\ d.avail = c.avail /\ d.plays = c.plays /\ d.ids = c.ids /\ d.state = state
  BY <1>2, <1>4, <1>6 DEF HistoryTables
<1>8. \A j \in Rows, x \in Sources : c.state[j][x].done => c.state[j][x].row
  BY <1>1 DEF Standing, Whole
<1>9. \A j \in Rows, x \in Sources : d.state[j][x].done => d.state[j][x].row
  BY <1>3, <1>5, <1>7, <1>8
<1>10. \A j \in Rows, x \in Sources : c.state[j][x].done => Reaches(d.state[j][x], c.state[j][x])
  <2>1. \A j \in Rows, x \in Sources : c.state[j][x].done => Reaches(c.state[j][x], c.state[j][x])
    BY <1>2 DEF Reaches, State
  <2> QED
    BY <1>3, <1>5, <1>7, <2>1
<1>11. Advances(c, d, l, h, e)
  BY <1>7, <1>9, <1>10, StatesRaised
<1> QED
  BY <1>7, <1>11 DEF Notes

LEMMA SeenTurns ==
  ASSUME NEW c, NEW l, NEW h, NEW e, Sane(c, l, h, e), NEW r \in Refs, Level[r] \in {"movie", "episode"}, c.at[r] # 0,
         NEW views \in Nat, NEW time \in Nat
  PROVE  Turns(c, Seen(c, r, views, time), l, h, e)
<1>1. Standing(c)
  BY DEF Sane
<1>2. c \in HistoryTables /\ c.ok /\ c.at[r] \in c.live /\ Source[r] \in Sources
  BY <1>1, StandingTypes DEF Sources
<1>3. CASE views = 0
  <2>1. Seen(c, r, views, time) = c
    BY <1>3 DEF Seen
  <2> QED
    BY <1>2, <2>1, AdvancesItself DEF Turns
<1>4. CASE views # 0
  <2>1. PICK i : i = c.at[r]
    OBVIOUS
  <2>2. PICK s : s = Source[r]
    OBVIOUS
  <2>3. PICK b : b = [c EXCEPT !.state[i][s] = StateSynced(@, views, time)]
    OBVIOUS
  <2>4. Notes(c, b, l, h, e) /\ b.ok
    <3>1. i \in c.live /\ s \in Sources
      BY <1>2, <2>1, <2>2
    <3> QED
      BY <2>3, <3>1, SyncedNotes
  <2>5. PICK d : d = Record(b, r, <<"state", r, time>>, time, views)
    OBVIOUS
  <2>6. Seen(c, r, views, time) = d
    BY <1>2, <1>4, <2>1, <2>2, <2>3, <2>5 DEF Seen
  <2>7. Sane(b, l, h, e)
    BY <2>4 DEF Notes, Advances
  <2>8. Speaks(<<"state", r, time>>, time, Source[r], l, h, e)
    BY DEF Speaks, Tells
  <2>9. <<"state", r, time>> \in PlayIds
    BY DEF PlayIds
  <2>10. Notes(b, d, l, h, e)
    BY <2>5, <2>7, <2>8, <2>9, RecordNotes
  <2>11. Notes(c, d, l, h, e)
    BY <2>4, <2>10, NotesTransitive
  <2> QED
    BY <2>6, <2>11 DEF Notes, Turns
<1> QED
  BY <1>3, <1>4

LEMMA HeardTurns ==
  ASSUME NEW c, NEW l, NEW h, NEW e, Sane(c, l, h, e), Numbered(h, e),
         NEW r \in Refs, Level[r] \in {"movie", "episode"}
  PROVE  Turns(c, Heard(c, r, h), l, h, e) /\ (Heard(c, r, h).ok => Heard(c, r, h).at = c.at)
<1>1. Standing(c)
  BY DEF Sane
<1>2. c.ok
  BY <1>1, StandingTypes
<1>3. Heard(c, r, h) = HooksRecorded(c, r, h)
  BY <1>2 DEF Heard
<1>4. Notes(c, HooksRecorded(c, r, h), l, h, e)
  BY HooksNotes
<1> QED
  BY <1>3, <1>4 DEF Notes, Turns

\* persist_media
LEMMA ReportedTurns ==
  ASSUME NEW c, NEW h, NEW e, Sane(c, log, h, e), Numbered(h, e), Logged(log),
         NEW r \in Refs, Level[r] \in {"movie", "episode"}, NEW t \in Pages[r]
  PROVE  Turns(c, Reported(c, r, t, h), log, h, e)
<1> DEFINE views == Cardinality(PlaysAt(r))
           time == LastPlay(r)
           told == [ids |-> t.ids, show |-> t.show, files |-> t.files, seen |-> <<views, time>>]
<1>1. Standing(c)
  BY DEF Sane
<1>2. views \in Nat /\ time \in Nat
  BY PlaysAtType
<1>3. t \in AllPages
  BY DEF AllPages
<1>4. t.ids \subseteq HistoryIds /\ t.show \subseteq HistoryIds /\ t.files \subseteq HistoryPaths
  <2>1. t.files \in {x.files : x \in AllPages} /\ t.ids \cup t.show \in {x.ids \cup x.show : x \in AllPages}
    BY <1>3
  <2>2. t.files \subseteq HistoryPaths
    BY <2>1, Zenon DEF HistoryPaths
  <2>3. t.ids \cup t.show \subseteq HistoryIds
    BY <2>1, Zenon DEF HistoryIds
  <2> QED
    BY <2>2, <2>3
<1>5. told \in Telling
  BY <1>2, <1>4 DEF Telling
<1>6. PICK p : p = Placed(c, r, told)
  OBVIOUS
<1>7. PICK q : q = Heard(p, r, h)
  OBVIOUS
<1>8. PICK d : d = Seen(q, r, views, time)
  OBVIOUS
<1>9. Reported(c, r, t, h) = d
  BY <1>6, <1>7, <1>8 DEF Reported
<1> HIDE DEF told, views, time
<1>10. Sits(c, r, p)
  BY <1>1, <1>5, <1>6, PlacedSits
<1>11. p \in HistoryTables /\ (p.ok => Advances(c, p, log, h, e) /\ p.at[r] # 0)
  BY <1>10, GrowsAdvances DEF Sits, Grows
<1>12. CASE ~p.ok
  <2>1. q = p
    BY <1>7, <1>12 DEF Heard
  <2>2. d = p
    BY <1>8, <1>12, <2>1 DEF Seen
  <2> QED
    BY <1>9, <1>11, <1>12, <2>2 DEF Turns
<1>13. CASE p.ok
  <2>1. Sane(p, log, h, e) /\ Turns(c, p, log, h, e) /\ p.at[r] # 0
    BY <1>11, <1>13 DEF Advances, Turns
  <2>2. Turns(p, q, log, h, e) /\ (q.ok => q.at = p.at)
    BY <1>7, <2>1, HeardTurns
  <2>3. Turns(c, q, log, h, e)
    BY <1>13, <2>1, <2>2, TurnsTransitive
  <2>4. CASE ~q.ok
    <3>1. d = q
      BY <1>8, <2>4 DEF Seen
    <3> QED
      BY <1>9, <2>3, <3>1
  <2>5. CASE q.ok
    <3>1. Sane(q, log, h, e) /\ q.at[r] # 0
      BY <2>1, <2>2, <2>5 DEF Turns, Advances
    <3>2. Turns(q, d, log, h, e)
      BY <1>2, <1>8, <3>1, SeenTurns
    <3>3. Turns(c, d, log, h, e)
      BY <2>3, <2>5, <3>2, TurnsTransitive
    <3> QED
      BY <1>9, <3>3
  <2> QED
    BY <2>4, <2>5
<1> QED
  BY <1>12, <1>13

\* What the repairs after an item leave.
LEMMA RepairMends ==
  ASSUME NEW a, Standing(a), NEW c, Mended(HistoryCatalog, a, c), NEW k \in Topmost \cup {"episode"}, NEW ids
  PROVE  Mended(HistoryCatalog, a, RepairedById(c, k, ids, 0))
<1>1. Whole(HistoryCatalog, a) /\ Whole(HistoryCatalog, c)
  BY MendedWhole DEF Standing
<1>2. 0 \notin c.live
  <2>1. Whole(HistoryCatalog, c)
    BY <1>1
  <2>2. c.live \subseteq Rows /\ 0 \notin Rows
    BY <2>1, HistoryIsTables, WholeTypes, Zenon
  <2> QED
    BY <2>2
<1> QED
  BY <1>1, <1>2, HistoryIsTables, RepairedByIdMends, Zenon

LEMMA RepairedMends ==
  ASSUME NEW a, Standing(a), NEW c, Mended(HistoryCatalog, a, c),
         NEW r \in Refs, Level[r] \in {"movie", "episode"}, NEW t, NEW leaf, NEW once
  PROVE  Mended(HistoryCatalog, a, Repaired(c, r, t, leaf, once))
<1>1. PICK b : b = IF leaf THEN RepairedById(c, Level[r], t.ids, 0) ELSE c
  OBVIOUS
<1>2. Level[r] \in Topmost \cup {"episode"} /\ "show" \in Topmost \cup {"episode"}
  BY DEF Topmost
<1>3. Mended(HistoryCatalog, a, b)
  <2>1. Mended(HistoryCatalog, a, RepairedById(c, Level[r], t.ids, 0))
    BY <1>2, RepairMends
  <2> QED
    BY <1>1, <2>1
<1>4. Mended(HistoryCatalog, a, ShowRepaired(b, r, t))
  <2>1. Mended(HistoryCatalog, a, RepairedById(b, "show", t.show, 0))
    BY <1>2, <1>3, RepairMends
  <2> QED
    BY <1>3, <2>1 DEF ShowRepaired
<1>5. Repaired(c, r, t, leaf, once) = IF once THEN c ELSE ShowRepaired(b, r, t)
  BY <1>1 DEF Repaired
<1> QED
  BY <1>4, <1>5

LEMMA FileRepairedMends ==
  ASSUME NEW a, Standing(a), NEW r, NEW t
  PROVE  Mended(HistoryCatalog, a, FileRepaired(a, r, t))
<1>1. Whole(HistoryCatalog, a)
  BY DEF Standing
<1>2. Mended(HistoryCatalog, a, a)
  BY <1>1, HistoryIsTables, MendedItself, Zenon
<1>3. Mended(HistoryCatalog, a, RepairedByFile(a, a.at[r]))
  BY <1>1, <1>2, HistoryIsTables, RepairedByFileMends, Zenon
<1> QED
  BY <1>2, <1>3 DEF FileRepaired

\* _persist_media_with_repair: an item refused leaves at most what was repaired.
LEMMA PersistedAdvances ==
  ASSUME NEW c, NEW h, NEW e, Sane(c, log, h, e), Numbered(h, e), Logged(log),
         NEW r \in Refs, Level[r] \in {"movie", "episode"}, NEW t \in Pages[r], NEW once
  PROVE  Advances(c, Persisted(c, r, t, h, once), log, h, e)
<1>1. Standing(c)
  BY DEF Sane
<1>2. PICK first : first = Reported(c, r, t, h)
  OBVIOUS
<1>3. Turns(c, first, log, h, e)
  BY <1>2, ReportedTurns
<1>4. CASE first.ok
  <2>1. Sane(first, log, h, e) /\ Standing(first)
    BY <1>3, <1>4 DEF Turns, Advances, Sane
  <2>2. PICK b : b = FileRepaired(first, r, t)
    OBVIOUS
  <2>3. PICK d : d = Repaired(b, r, t, Level[r] = "movie", once)
    OBVIOUS
  <2>4. Mended(HistoryCatalog, first, b)
    BY <2>1, <2>2, FileRepairedMends
  <2>5. Mended(HistoryCatalog, first, d)
    BY <2>1, <2>3, <2>4, RepairedMends
  <2>6. Advances(first, d, log, h, e)
    BY <2>1, <2>5, MendedAdvances
  <2>7. Advances(c, d, log, h, e)
    BY <1>3, <1>4, <2>6, AdvancesTransitive DEF Turns
  <2>8. Persisted(c, r, t, h, once) = d
    BY <1>2, <1>4, <2>2, <2>3 DEF Persisted, Concluded
  <2> QED
    BY <2>7, <2>8
<1>5. CASE ~first.ok
  <2>1. PICK b : b = Repaired(c, r, t, TRUE, once)
    OBVIOUS
  <2>2. Persisted(c, r, t, h, once) = TriedAgain(c, b, r, t, h)
    BY <1>2, <1>5, <2>1 DEF Persisted, Concluded
  <2>3. Advances(c, b, log, h, e)
    <3>1. Whole(HistoryCatalog, c)
      BY <1>1 DEF Standing
    <3>2. Mended(HistoryCatalog, c, c)
      BY <3>1, HistoryIsTables, MendedItself, Zenon
    <3>3. Mended(HistoryCatalog, c, b)
      BY <1>1, <2>1, <3>2, RepairedMends
    <3> QED
      BY <3>3, MendedAdvances
  <2>4. PICK d : d = Reported(b, r, t, h)
    OBVIOUS
  <2>5. Turns(b, d, log, h, e)
    BY <2>3, <2>4, ReportedTurns DEF Advances
  <2>6. d.ok => Advances(c, d, log, h, e)
    BY <2>3, <2>5, AdvancesTransitive DEF Turns
  <2>7. Advances(c, c, log, h, e)
    BY AdvancesItself
  <2> QED
    BY <2>2, <2>3, <2>4, <2>6, <2>7 DEF TriedAgain, OrElse
<1> QED
  BY <1>4, <1>5

-------------------------------------------------------------------------------
(* What the servers do.                                                       *)

\* The servers, their webhooks and what was kept of them.
Served(l, m, h, e) ==
  /\ Logged(l) /\ m \subseteq Viewing
  /\ Numbered(h, e) /\ (Fresh(e) => Pruned(h) = h) /\ e \in [Sources -> Nat]
World == Sane(cat, log, hooks, era) /\ Served(log, mail, hooks, era) /\ library \in Libraries

\* What every step keeps.
Step == World' /\ Passes(cat, cat', era)

\* Entries that are played are movies and episodes.
LEMMA WatchedLeaf ==
  ASSUME NEW r \in Watched
  PROVE  r \in Refs /\ Level[r] \in {"movie", "episode"} /\ Source[r] \in Sources
BY RowsAssumption, HistoryAssumption DEF Sources

\* The servers know more than before.
Knows(l, k) ==
  /\ Logged(k)
  /\ \A s \in Sources : \A j \in 1 .. Len(l[s]) : j \in 1 .. Len(k[s]) /\ k[s][j] = l[s][j]

\* Identities tell the same time then.
LEMMA KnowsTells ==
  ASSUME NEW l, NEW k, Knows(l, k), NEW p \in PlayRecord, NEW h, NEW e, Tells(p, l, h, e)
  PROVE  Tells(p, k, h, e)
<1>1. p.source \in Sources
  BY DEF PlayRecord
<1> QED
  BY <1>1 DEF Tells, Knows

\* A play is written at the end of what a server knows.
Writes(l, k, s, x) ==
  /\ s \in Sources /\ x \in Viewing /\ Source[x.entry] = s
  /\ k = [l EXCEPT ![s] = Append(l[s], x)]
LEMMA AppendedKnows ==
  ASSUME NEW l, Logged(l), NEW k, NEW s, NEW x, Writes(l, k, s, x)
  PROVE  Knows(l, k)
<1>0. /\ s \in Sources /\ x \in Viewing /\ Source[x.entry] = s
      /\ DOMAIN k = Sources /\ k = [z \in Sources |-> k[z]]
      /\ \A z \in Sources : k[z] = IF z = s THEN Append(l[s], x) ELSE l[z]
  BY DEF Writes, Logged
<1>1. l \in [Sources -> Seq(Viewing)] /\ \A z \in Sources : \A j \in 1 .. Len(l[z]) : Source[l[z][j].entry] = z
  BY DEF Logged
<1>2. PICK plays \in Seq(Viewing) : plays = l[s]
  BY <1>0, <1>1
<1>3. Len(plays) \in Nat
  BY <1>2
<1>4. /\ Append(plays, x) \in Seq(Viewing) /\ Len(Append(plays, x)) = Len(plays) + 1
      /\ Append(plays, x)[Len(plays) + 1] = x
      /\ \A j \in 1 .. Len(plays) : Append(plays, x)[j] = plays[j]
  BY <1>0, <1>2
<1>5. \A z \in Sources : k[z] = IF z = s THEN Append(plays, x) ELSE l[z]
  BY <1>0, <1>2
<1>6. k \in [Sources -> Seq(Viewing)]
  BY <1>0, <1>1, <1>4, <1>5
<1>7. ASSUME NEW z \in Sources, NEW j \in 1 .. Len(k[z]) PROVE Source[k[z][j].entry] = z
  <2>1. CASE z # s
    BY <1>1, <1>5, <2>1
  <2>2. CASE z = s /\ j = Len(plays) + 1
    BY <1>0, <1>4, <1>5, <2>2
  <2>3. CASE z = s /\ j # Len(plays) + 1
    <3>1. k[z] = Append(plays, x) /\ j \in 1 .. Len(plays) + 1
      BY <1>4, <1>5, <2>3
    <3>2. j \in 1 .. Len(plays)
      BY <1>3, <2>3, <3>1
    <3>3. k[z][j] = plays[j]
      BY <1>4, <3>1, <3>2
    <3> QED
      BY <1>1, <1>2, <2>3, <3>2, <3>3
  <2> QED
    BY <2>1, <2>2, <2>3
<1>8. ASSUME NEW z \in Sources, NEW j \in 1 .. Len(l[z]) PROVE j \in 1 .. Len(k[z]) /\ k[z][j] = l[z][j]
  <2>1. CASE z # s
    BY <1>5, <2>1
  <2>2. CASE z = s
    <3>1. k[z] = Append(plays, x) /\ l[z] = plays /\ j \in 1 .. Len(plays)
      BY <1>0, <1>2, <1>5, <2>2
    <3>2. j \in 1 .. Len(Append(plays, x)) /\ Append(plays, x)[j] = plays[j]
      BY <1>3, <1>4, <3>1
    <3> QED
      BY <3>1, <3>2
  <2> QED
    BY <2>1, <2>2
<1> QED
  BY <1>6, <1>7, <1>8 DEF Knows, Logged

\* The rows, entries, plays and states are as before.
LEMMA SaneAgain ==
  ASSUME NEW c, NEW l, NEW h, NEW e, Sane(c, l, h, e), NEW d \in HistoryTables, d.ok,
         d.live = c.live, d.parent = c.parent, d.at = c.at, d.heir = c.heir, d.manual = c.manual,
         d.plays = c.plays, d.state = c.state, \A r \in d.avail : d.at[r] # 0
  PROVE  Sane(d, l, h, e) /\ Passes(c, d, e)
<1>1. SameHistory(c, d)
  BY DEF SameHistory
<1>2. Standing(c)
  BY DEF Sane
<1>3. Grows(c, d)
  BY <1>1, <1>2, OtherTables
<1>4. Advances(c, d, l, h, e)
  BY <1>3, GrowsAdvances
<1> QED
  BY <1>4 DEF Advances

LEMMA WatchSteps ==
  ASSUME World, NEW r \in Watched, Watch(r)
  PROVE  Step
<1>1. PICK gap \in {1, Near + 1} :
         /\ cat' = [cat EXCEPT !.now = @ + gap]
         /\ log' = [log EXCEPT ![Source[r]] = Append(@, [entry |-> r, time |-> cat.now + gap])]
         /\ mail' = mail \cup {[entry |-> r, time |-> cat.now + gap]}
         /\ UNCHANGED <<changes, hooks, era, library>>
  BY DEF Watch
<1>2. Sane(cat, log, hooks, era) /\ Served(log, mail, hooks, era) /\ Standing(cat)
  BY DEF World, Sane
<1>3. cat \in HistoryTables /\ cat.ok /\ cat.plays \in SUBSET PlayRecord /\ cat.now \in Nat
      /\ \A q \in cat.avail : cat.at[q] # 0
  BY <1>2, StandingTypes, StandingTables, HistoryTypes
<1> DEFINE now == cat.now + gap
<1>4. now \in Nat
  BY <1>1, <1>3, HistoryAssumption
<1>5. PICK x \in Viewing : x = [entry |-> r, time |-> now]
  BY <1>4 DEF Viewing
<1> HIDE DEF now
<1>6. Knows(log, log')
  <2>1. Writes(log, log', Source[r], x)
    BY <1>1, <1>5, WatchedLeaf DEF Writes, now
  <2> QED
    BY <1>2, <2>1, AppendedKnows DEF Served
<1>7. /\ cat' \in HistoryTables /\ cat'.ok /\ cat'.live = cat.live /\ cat'.parent = cat.parent /\ cat'.at = cat.at
      /\ cat'.heir = cat.heir /\ cat'.manual = cat.manual /\ cat'.plays = cat.plays /\ cat'.state = cat.state
      /\ cat'.avail = cat.avail
  <2>1. cat' = [cat EXCEPT !.now = now]
    BY <1>1 DEF now
  <2> QED
    BY <1>3, <1>4, <2>1 DEF HistoryTables
<1>8. Sane(cat', log, hooks, era) /\ Passes(cat, cat', era)
  BY <1>2, <1>3, <1>7, SaneAgain
<1>9. \A p \in cat'.plays : Tells(p, log', hooks, era)
  BY <1>3, <1>6, <1>7, <1>8, KnowsTells DEF Sane
<1>10. Sane(cat', log', hooks', era')
  BY <1>1, <1>8, <1>9 DEF Sane
<1>11. mail' \subseteq Viewing
  BY <1>1, <1>2, <1>5 DEF Served, now
<1>12. Served(log', mail', hooks', era') /\ library' \in Libraries
  BY <1>1, <1>2, <1>6, <1>11 DEF Served, World, Knows
<1> QED
  BY <1>8, <1>10, <1>12 DEF Step, World
\* The catalog goes a step further, the servers stay as they are.
LEMMA CatalogSteps ==
  ASSUME World, Advances(cat, cat', log, hooks, era), UNCHANGED <<log, mail, hooks, era, library>>
  PROVE  Step
BY DEF World, Step, Advances

LEMMA PersistSteps ==
  ASSUME World, NEW r \in Refs, Leaf(r), Persist(r)
  PROVE  Step
<1>1. PICK t \in Pages[r], once \in BOOLEAN : cat' = Persisted(cat, r, t, hooks, once)
  BY DEF Persist
<1>2. Sane(cat, log, hooks, era) /\ Numbered(hooks, era) /\ Logged(log) /\ Level[r] \in {"movie", "episode"}
  BY DEF World, Served, Leaf
<1>3. Advances(cat, Persisted(cat, r, t, hooks, once), log, hooks, era)
  BY <1>2, PersistedAdvances
<1> QED
  BY <1>1, <1>3, CatalogSteps DEF Persist

\* The identities of a history page tell the times of its events.
LEMMA HistorySpeaks ==
  ASSUME NEW l, NEW h, NEW e \in [Sources -> Nat], NEW s \in Sources, NEW k \in 1 .. Len(l[s]),
         NEW entry, NEW time, l[s][k].time = time, NEW id,
         id = <<"history", e[s], k>> \/ id = <<"jellyfin", entry, time>>
  PROVE  Speaks(id, time, s, l, h, e)
<1>1. id[1] # "trakt"
  OBVIOUS
<1>2. ASSUME NEW p \in PlayRecord, p.source = s, p.id = id
      PROVE  (p.time = time <=> Tells(p, l, h, e))
  <2>1. CASE id = <<"history", e[s], k>>
    <3>1. p.id[1] = "history" /\ p.id[2] = e[s] /\ p.id[3] = k /\ e[s] <= e[s]
      BY <1>2, <2>1
    <3> QED
      BY <1>2, <3>1 DEF Tells
  <2>2. CASE id = <<"jellyfin", entry, time>>
    <3>1. p.id[1] = "jellyfin" /\ p.id[3] = time
      BY <1>2, <2>2
    <3> QED
      BY <1>2, <3>1 DEF Tells
  <2> QED
    BY <2>1, <2>2
<1> QED
  BY <1>1, <1>2 DEF Speaks

LEMMA HistoryEventSteps ==
  ASSUME World, NEW s \in Sources, NEW k \in 1 .. Len(log[s]), HistoryEvent(s, k)
  PROVE  Step
<1>1. Sane(cat, log, hooks, era) /\ Logged(log) /\ era \in [Sources -> Nat]
  BY DEF World, Served
<1>2. PICK x : x = log[s][k]
  OBVIOUS
<1>3. x \in Viewing /\ Source[x.entry] = s
  <2>1. log[s] \in Seq(Viewing)
    BY <1>1 DEF Logged
  <2> QED
    BY <1>1, <1>2, <2>1 DEF Logged
<1>4. /\ x.entry \in Watched /\ x.time \in Nat /\ x.entry \in Refs /\ Level[x.entry] \in {"movie", "episode"}
      /\ k \in Nat /\ era[s] \in Nat
  BY <1>1, <1>3, WatchedLeaf DEF Viewing
<1>5. PICK id : id = IF s \in PlexSources THEN <<"history", era[s], k>> ELSE <<"jellyfin", x.entry, x.time>>
  OBVIOUS
<1>6. id \in PlayIds
  BY <1>4, <1>5 DEF PlayIds
<1>7. Speaks(id, x.time, Source[x.entry], log, hooks, era)
  <2>1. id = <<"history", era[s], k>> \/ id = <<"jellyfin", x.entry, x.time>>
    BY <1>5
  <2> HIDE <1>5
  <2> QED
    BY <1>1, <1>2, <1>3, <2>1, HistorySpeaks
<1>8. PICK next : next = Record(cat, x.entry, id, x.time, 0)
  OBVIOUS
<1>9. Notes(cat, next, log, hooks, era)
  BY <1>1, <1>4, <1>6, <1>7, <1>8, RecordNotes
<1>10. cat' = IF next.ok THEN next ELSE cat
  BY <1>2, <1>5, <1>8 DEF HistoryEvent
<1>11. Advances(cat, cat', log, hooks, era)
  BY <1>1, <1>9, <1>10, AdvancesItself DEF Notes
<1> QED
  BY <1>11, CatalogSteps DEF HistoryEvent

LEMMA DisappearSteps ==
  ASSUME World, NEW r \in Refs, Disappear(r)
  PROVE  Step
<1>1. Sane(cat, log, hooks, era) /\ Standing(cat)
  BY DEF World, Sane
<1>2. cat \in HistoryTables /\ cat.ok /\ cat.avail \subseteq Refs /\ \A q \in cat.avail : cat.at[q] # 0
  BY <1>1, StandingTypes, HistoryTypes
<1>3. PICK left \in SUBSET cat.avail : cat' = [cat EXCEPT !.avail = left]
  <2>1. cat' = [cat EXCEPT !.avail = {q \in cat.avail \ {r} : q \in Above[r] => \E p \in cat.avail \ {r} : q \in Above[p]}]
    BY DEF Disappear, Lose, Change
  <2> QED
    BY <2>1
<1>4. left \in SUBSET Refs
  BY <1>2
<1>5. /\ cat' \in HistoryTables /\ cat'.ok /\ cat'.live = cat.live /\ cat'.parent = cat.parent /\ cat'.at = cat.at
      /\ cat'.heir = cat.heir /\ cat'.manual = cat.manual /\ cat'.plays = cat.plays /\ cat'.state = cat.state
      /\ cat'.avail = left
  BY <1>2, <1>3, <1>4 DEF HistoryTables
<1>6. Advances(cat, cat', log, hooks, era)
  BY <1>1, <1>2, <1>5, SaneAgain DEF Advances
<1> QED
  BY <1>6, CatalogSteps DEF Disappear
-------------------------------------------------------------------------------
(* Webhooks.                                                                  *)

\* The rows that come after one, of which _prune_webhook_events keeps few.
After(v, w) == v.time > w.time \/ (v.time = w.time /\ v.id > w.id)
Later(g, w) == {v \in g : After(v, w)}
HookRow == [id : Nat, entry : Watched, time : Nat]

LEMMA PrunedLater ==
  ASSUME NEW g
  PROVE  Pruned(g) = {w \in g : Cardinality(Later(g, w)) < HookLimit}
BY DEF Pruned, Later, After

\* Fewer rows come after one in a part of a set.
LEMMA LaterFewer ==
  ASSUME NEW g, IsFiniteSet(g), NEW f \in SUBSET g, NEW w, NEW v, Later(f, w) \subseteq Later(g, v)
  PROVE  Cardinality(Later(f, w)) \in Nat /\ Cardinality(Later(g, v)) \in Nat
         /\ Cardinality(Later(f, w)) <= Cardinality(Later(g, v))
<1>1. Later(g, v) \subseteq g
  BY DEF Later
<1>2. IsFiniteSet(Later(g, v))
  BY <1>1, FS_Subset
<1>3. IsFiniteSet(Later(f, w)) /\ Cardinality(Later(f, w)) <= Cardinality(Later(g, v))
  BY <1>2, FS_Subset
<1> QED
  BY <1>2, <1>3, FS_CardinalityType

\* Pruning what was pruned drops nothing.
LEMMA PrunedAgain ==
  ASSUME NEW g, IsFiniteSet(g)
  PROVE  IsFiniteSet(Pruned(g)) /\ Pruned(g) \subseteq g /\ Pruned(Pruned(g)) = Pruned(g)
<1>1. Pruned(g) \subseteq g
  BY DEF Pruned
<1>2. IsFiniteSet(Pruned(g))
  BY <1>1, FS_Subset
<1>3. ASSUME NEW w \in Pruned(g) PROVE w \in Pruned(Pruned(g))
  <2>1. Later(Pruned(g), w) \subseteq Later(g, w)
    BY <1>1 DEF Later
  <2>2. /\ Cardinality(Later(Pruned(g), w)) \in Nat /\ Cardinality(Later(g, w)) \in Nat
        /\ Cardinality(Later(Pruned(g), w)) <= Cardinality(Later(g, w))
    BY <1>1, <2>1, LaterFewer
  <2>3. Cardinality(Later(g, w)) < HookLimit
    BY PrunedLater
  <2>4. Cardinality(Later(Pruned(g), w)) < HookLimit
    BY <2>2, <2>3, HistoryAssumption
  <2> QED
    BY <2>4, PrunedLater
<1>4. Pruned(Pruned(g)) \subseteq Pruned(g)
  BY DEF Pruned
<1> QED
  BY <1>1, <1>2, <1>3, <1>4

\* A new row that is not kept is older than all that were kept before.
LEMMA OldRowDropped ==
  ASSUME NEW h \in SUBSET HookRow, IsFiniteSet(h), Pruned(h) = h, NEW x \in HookRow, NEW f, f = h \cup {x},
         x \notin Pruned(f)
  PROVE  Pruned(f) = h
<1>1. IsFiniteSet(f) /\ h \subseteq f /\ x \in f
  BY FS_AddElement
<1>2. Pruned(f) \subseteq h
  BY DEF Pruned
<1>3. ASSUME NEW v \in h PROVE v \in Pruned(f)
  <2>1. Cardinality(Later(h, v)) < HookLimit
    BY PrunedLater
  <2>2. CASE After(x, v)
    <3>1. Later(f, x) \subseteq Later(h, v)
      <4>1. ASSUME NEW u \in f, After(u, x) PROVE u \in h /\ After(u, v)
        <5>1. u \in HookRow /\ v \in HookRow
          BY <1>1
        <5>2. u.time \in Nat /\ u.id \in Nat /\ v.time \in Nat /\ v.id \in Nat /\ x.time \in Nat /\ x.id \in Nat
          BY <5>1 DEF HookRow
        <5>3. u # x
          BY <4>1, <5>2 DEF After
        <5>4. After(u, v)
          BY <2>2, <4>1, <5>2 DEF After
        <5> QED
          BY <5>3, <5>4
      <4> QED
        BY <4>1 DEF Later
    <3>2. Later(f, x) \subseteq Later(f, v)
      BY <3>1 DEF Later
    <3>3. Later(f, x) = Later(h, x)
      BY <3>1 DEF Later
    <3>4. /\ Cardinality(Later(h, x)) \in Nat /\ Cardinality(Later(h, v)) \in Nat
          /\ Cardinality(Later(h, x)) <= Cardinality(Later(h, v))
      BY <3>1, <3>3, LaterFewer
    <3>5. ~(Cardinality(Later(f, x)) < HookLimit)
      BY <1>1, PrunedLater
    <3> QED
      BY <2>1, <3>3, <3>4, <3>5, HistoryAssumption
  <2>3. CASE ~After(x, v)
    <3>1. Later(f, v) = Later(h, v)
      BY <2>3 DEF Later
    <3> QED
      BY <1>1, <2>1, <3>1, PrunedLater
  <2> QED
    BY <2>2, <2>3
<1> QED
  BY <1>2, <1>3

\* The numbers of webhook rows go on, and those there are tell the same as before.
Follow(h, g, e) ==
  /\ Numbered(g, e) /\ (Fresh(e) => Pruned(g) = g)
  /\ Fresh(e) => Latest(h) <= Latest(g) /\ \A w \in g : w \in h \/ w.id > Latest(h)

LEMMA NewHookFollows ==
  ASSUME NEW h, NEW e, Numbered(h, e), Fresh(e) => Pruned(h) = h, NEW r \in Watched, NEW time \in Nat,
         NEW x, x = [id |-> Latest(h) + 1, entry |-> r, time |-> time], NEW g, g = Pruned(h \cup {x})
  PROVE  Follow(h, g, e)
<1>1. IsFiniteSet(h) /\ h \in SUBSET HookRow
  BY DEF Numbered, HookRow
<1>2. Latest(h) \in Nat /\ \A w \in h : w.id <= Latest(h)
  BY LatestHook
<1>3. x \in HookRow /\ x.id = Latest(h) + 1
  BY <1>2 DEF HookRow
<1>4. IsFiniteSet(h \cup {x})
  BY <1>1, FS_AddElement
<1>5. IsFiniteSet(g) /\ g \subseteq h \cup {x} /\ Pruned(g) = g
  BY <1>4, PrunedAgain
<1>6. g \in SUBSET HookRow /\ \A w \in g : w \in HookRow /\ w.id \in Nat
  BY <1>1, <1>3, <1>5 DEF HookRow
<1>7. ASSUME Fresh(e), NEW v \in g, NEW w \in g, v.id = w.id PROVE v = w
  <2>1. \A u \in h : u.id # x.id
    BY <1>1, <1>2, <1>3 DEF HookRow
  <2>2. (v \in h \/ v = x) /\ (w \in h \/ w = x)
    BY <1>5
  <2>3. CASE v \in h /\ w \in h
    BY <1>7, <2>3 DEF Numbered
  <2> QED
    BY <1>7, <2>1, <2>2, <2>3
<1>8. Numbered(g, e)
  BY <1>5, <1>6, <1>7 DEF Numbered, HookRow
<1>9. \A w \in g : w \in h \/ w.id > Latest(h)
  <2>1. x.id > Latest(h)
    BY <1>2, <1>3
  <2>2. \A w \in g : w \in h \/ w = x
    BY <1>5
  <2> QED
    BY <2>1, <2>2
<1>10. ASSUME Fresh(e) PROVE Latest(h) <= Latest(g)
  <2>1. CASE x \in g
    <3>1. Latest(g) \in Nat /\ x.id <= Latest(g)
      BY <1>8, <2>1, LatestHook
    <3> QED
      BY <1>2, <1>3, <3>1
  <2>2. CASE x \notin g
    <3>1. g = h
      BY <1>1, <1>3, <1>10, <2>2, OldRowDropped
    <3> QED
      BY <1>2, <3>1
  <2> QED
    BY <2>1, <2>2
<1> QED
  BY <1>5, <1>8, <1>9, <1>10 DEF Follow

\* Identities tell the same time then.
LEMMA FollowTells ==
  ASSUME NEW h, NEW g, NEW e, Numbered(h, e), Follow(h, g, e),
         NEW c, NEW l, Sane(c, l, h, e)
  PROVE  Sane(c, l, g, e)
<1>1. Latest(h) \in Nat /\ Latest(g) \in Nat
  BY LatestHook DEF Follow
<1>2. c.plays \in SUBSET PlayRecord
  BY StandingTypes, HistoryTypes DEF Sane
<1>3. ASSUME NEW p \in c.plays PROVE Tells(p, l, g, e)
  <2>1. Tells(p, l, h, e) /\ p \in PlayRecord
    BY <1>2 DEF Sane
  <2>2. ASSUME p.id[1] = "webhook", Fresh(e)
        PROVE  p.id[2] <= Latest(g) /\ \A w \in g : w.id = p.id[2] => w.time = p.time
    <3>1. p.id[2] <= Latest(h) /\ \A w \in h : w.id = p.id[2] => w.time = p.time
      BY <2>1, <2>2 DEF Tells
    <3>2. p.id[2] \in Nat
      <4>1. p.id \in PlayIds
        BY <2>1 DEF PlayRecord
      <4> QED
        BY <2>2, <4>1 DEF PlayIds, Anonymous
    <3>3. Latest(h) <= Latest(g) /\ \A w \in g : w \in h \/ w.id > Latest(h)
      BY <2>2 DEF Follow
    <3> QED
      BY <1>1, <3>1, <3>2, <3>3
  <2> QED
    BY <2>1, <2>2 DEF Tells
<1> QED
  BY <1>3 DEF Sane

\* A webhook's own play has no identity, and is never refused.
LEMMA AnonymousRecord ==
  ASSUME NEW c, c.ok, NEW r, c.at[r] # 0, NEW time
  PROVE  Record(c, r, Anonymous, time, 0).ok
BY DEF Record

LEMMA AnonymousSpeaks ==
  ASSUME NEW time, NEW s, NEW l, NEW h, NEW e
  PROVE  Speaks(Anonymous, time, s, l, h, e) /\ Anonymous \in PlayIds
BY DEF Speaks, Tells, Anonymous, PlayIds

LEMMA WebhookSteps ==
  ASSUME World, NEW w \in mail, Webhook(w)
  PROVE  Step
<1>1. Sane(cat, log, hooks, era) /\ Standing(cat) /\ cat.ok /\ Numbered(hooks, era)
      /\ (Fresh(era) => Pruned(hooks) = hooks) /\ mail \subseteq Viewing
  BY StandingTypes DEF World, Sane, Served
<1>2. w.entry \in Watched /\ w.time \in Nat /\ w.entry \in Refs /\ Level[w.entry] \in {"movie", "episode"}
  BY <1>1, WatchedLeaf DEF Viewing
<1>3. Follow(hooks, hooks', era)
  <2>1. hooks' = Pruned(hooks \cup {[id |-> Latest(hooks) + 1, entry |-> w.entry, time |-> w.time]})
    BY DEF Webhook, Latest
  <2> QED
    BY <1>1, <1>2, <2>1, NewHookFollows
<1>4. Advances(cat, cat', log, hooks, era)
  <2>1. PICK next : next = Record(cat, w.entry, Anonymous, w.time, 0)
    OBVIOUS
  <2>2. Notes(cat, next, log, hooks, era)
    BY <1>1, <1>2, <2>1, AnonymousSpeaks, RecordNotes
  <2>3. cat' = IF cat.at[w.entry] = 0 THEN cat ELSE next
    BY <2>1 DEF Webhook
  <2>4. cat.at[w.entry] # 0 => next.ok
    BY <1>1, <2>1, AnonymousRecord
  <2> QED
    BY <1>1, <2>2, <2>3, <2>4, AdvancesItself DEF Notes
<1>5. Sane(cat', log, hooks', era) /\ Passes(cat, cat', era)
  BY <1>1, <1>3, <1>4, FollowTells DEF Advances
<1>6. mail' \subseteq Viewing /\ log' = log /\ era' = era /\ library' = library
  BY <1>1 DEF Webhook
<1>7. Logged(log') /\ Numbered(hooks', era') /\ (Fresh(era') => Pruned(hooks') = hooks') /\ era' \in [Sources -> Nat]
  BY <1>3, <1>6 DEF World, Served, Follow
<1>8. Sane(cat', log', hooks', era')
  BY <1>5, <1>6
<1>9. Served(log', mail', hooks', era') /\ library' \in Libraries
  BY <1>6, <1>7 DEF World, Served
<1> QED
  BY <1>5, <1>8, <1>9 DEF Step, World
-------------------------------------------------------------------------------
(* Replacing a server.                                                        *)

\* What the next server has of the one before: nothing, and it is another one.
Retires(c, d, s) ==
  /\ d \in HistoryTables /\ d.ok /\ d.live = c.live /\ d.parent = c.parent /\ d.at = c.at /\ d.heir = c.heir
  /\ d.manual = c.manual /\ d.plays = c.plays /\ d.avail \subseteq c.avail
  /\ \A i \in Rows, x \in Sources : d.state[i][x] = IF x = s THEN NoState ELSE c.state[i][x]
Succeeds(e, f, s) ==
  /\ e \in [Sources -> Nat] /\ f \in [Sources -> Nat]
  /\ \A x \in Sources : f[x] = IF x = s THEN e[x] + 1 ELSE e[x]

LEMMA RetiresState ==
  ASSUME NEW c \in HistoryTables, NEW s, NEW left \in SUBSET c.avail, c.ok,
         NEW d, d = [c EXCEPT !.avail = left, !.state = [i \in Rows |-> [c.state[i] EXCEPT ![s] = NoState]]]
  PROVE  Retires(c, d, s)
<1>1. c.state \in [Rows -> [Sources -> State]] /\ c.avail \in SUBSET Refs
  BY HistoryTypes
<1>2. NoState \in State
  BY DEF NoState, State
<1>3. PICK m : m = [i \in Rows |-> [c.state[i] EXCEPT ![s] = NoState]]
  OBVIOUS
<1>4. m \in [Rows -> [Sources -> State]]
      /\ \A i \in Rows, x \in Sources : m[i][x] = IF x = s THEN NoState ELSE c.state[i][x]
  BY <1>1, <1>2, <1>3
<1>5. d = [c EXCEPT !.avail = left, !.state = m]
  BY <1>3
<1>6. /\ d \in HistoryTables /\ d.ok /\ d.live = c.live /\ d.parent = c.parent /\ d.at = c.at
      /\ d.heir = c.heir /\ d.manual = c.manual /\ d.plays = c.plays /\ d.avail = left /\ d.state = m
  <2>1. left \in SUBSET Refs
    BY <1>1
  <2> QED
    BY <1>4, <1>5, <2>1 DEF HistoryTables
<1> QED
  BY <1>4, <1>6 DEF Retires

LEMMA RetiresStands ==
  ASSUME NEW c, Standing(c), NEW s, NEW d, Retires(c, d, s)
  PROVE  Standing(d)
<1>1. /\ IsFiniteSet(c.plays) /\ (\A p \in c.plays : p.row \in c.live) /\ \A r \in c.avail : c.at[r] # 0
  BY StandingTypes
<1>2. \A i \in Rows, x \in Sources : c.state[i][x].done => c.state[i][x].row
  BY DEF Standing, Whole
<1>3. \A i \in Rows, x \in Sources : d.state[i][x].done => d.state[i][x].row
  BY <1>2 DEF Retires, NoState
<1>4. /\ d \in HistoryTables /\ d.ok /\ d.live = c.live /\ d.parent = c.parent /\ d.at = c.at /\ d.heir = c.heir
      /\ d.manual = c.manual /\ d.plays = c.plays /\ d.avail \subseteq c.avail
  BY DEF Retires
<1> QED
  BY <1>1, <1>3, <1>4, StandsStill

LEMMA RetiresCounts ==
  ASSUME NEW c, Standing(c), NEW e, NEW f, NEW s, Counts(c, e), Succeeds(e, f, s), NEW d, Retires(c, d, s)
  PROVE  Counts(d, f)
<1>1. d.plays = c.plays /\ c.plays \in SUBSET PlayRecord
  BY StandingTables DEF Retires
<1>2. ASSUME NEW p \in c.plays, f[p.source] = 0 PROVE CountedIn(d.state[p.row][p.source], d, p)
  <2>1. p.source \in Sources /\ p.row \in Rows
    BY <1>1 DEF PlayRecord
  <2>2. p.source # s /\ e[p.source] = 0
    BY <1>2, <2>1 DEF Succeeds
  <2>3. d.state[p.row][p.source] = c.state[p.row][p.source]
    BY <2>1, <2>2 DEF Retires
  <2>4. Own(d, p.row, p.source) = Own(c, p.row, p.source)
    BY <1>1 DEF Own, PlaysOf
  <2>5. CountedIn(c.state[p.row][p.source], c, p)
    BY <2>2 DEF Counts
  <2> QED
    BY <2>3, <2>4, <2>5 DEF CountedIn
<1> QED
  BY <1>1, <1>2 DEF Counts

\* What is known of the webhooks and plays of other servers stays.
Forgets(l, k, h, g, s) ==
  /\ Logged(k) /\ \A x \in Sources : x # s => k[x] = l[x]
  /\ g \subseteq h /\ (s \notin Sources => g = h)

LEMMA RetiresTells ==
  ASSUME NEW e, NEW f, NEW s, Succeeds(e, f, s), NEW l, NEW k, NEW h, NEW g, Forgets(l, k, h, g, s),
         NEW p \in PlayRecord, Tells(p, l, h, e)
  PROVE  Tells(p, k, g, f)
<1>1. p.source \in Sources /\ p.id \in PlayIds
  BY DEF PlayRecord
<1>2. e[p.source] \in Nat /\ f[p.source] = IF p.source = s THEN e[p.source] + 1 ELSE e[p.source]
  BY <1>1 DEF Succeeds
<1>3. ASSUME p.id[1] = "history"
      PROVE  /\ p.id[2] <= f[p.source]
             /\ p.id[2] = f[p.source] => p.id[3] \in 1 .. Len(k[p.source]) /\ p.time = k[p.source][p.id[3]].time
  <2>1. p.id[2] \in Nat
    BY <1>1, <1>3 DEF PlayIds, Anonymous
  <2>2. /\ p.id[2] <= e[p.source]
        /\ p.id[2] = e[p.source] => p.id[3] \in 1 .. Len(l[p.source]) /\ p.time = l[p.source][p.id[3]].time
    BY <1>3 DEF Tells
  <2>3. CASE p.source = s
    BY <1>2, <2>1, <2>2, <2>3
  <2>4. CASE p.source # s
    <3>1. k[p.source] = l[p.source] /\ f[p.source] = e[p.source]
      BY <1>1, <1>2, <2>4 DEF Forgets
    <3> QED
      BY <2>2, <3>1
  <2> QED
    BY <2>3, <2>4
<1>4. Fresh(f) => Fresh(e) /\ g = h
  BY DEF Fresh, Succeeds, Forgets
<1> QED
  BY <1>3, <1>4 DEF Tells

LEMMA ReplaceSteps ==
  ASSUME World, NEW s \in PlexSources, Replace(s)
  PROVE  Step
<1>1. Sane(cat, log, hooks, era) /\ Standing(cat) /\ cat \in HistoryTables /\ cat.ok
      /\ Served(log, mail, hooks, era) /\ library \in Libraries
  BY StandingTypes DEF World, Sane
<1>2. Logged(log) /\ mail \subseteq Viewing /\ Numbered(hooks, era) /\ (Fresh(era) => Pruned(hooks) = hooks)
      /\ era \in [Sources -> Nat]
  BY <1>1 DEF Served
<1>3. Retires(cat, cat', s)
  <2>1. PICK left \in SUBSET cat.avail : left = {r \in cat.avail : Source[r] # s}
    OBVIOUS
  <2>2. cat' = [cat EXCEPT !.avail = left, !.state = [i \in Rows |-> [cat.state[i] EXCEPT ![s] = NoState]]]
    BY <2>1 DEF Replace
  <2> QED
    BY <1>1, <2>2, RetiresState
<1>4. Succeeds(era, era', s)
  <2>1. era' = [era EXCEPT ![s] = era[s] + 1]
    BY DEF Replace
  <2>2. \A x \in Sources : era'[x] = IF x = s THEN era[x] + 1 ELSE era[x]
    BY <1>2, <2>1
  <2>3. era' = [x \in Sources |-> era'[x]]
    BY <1>2, <2>1
  <2>4. \A x \in Sources : era'[x] \in Nat
    BY <1>2, <2>2
  <2>5. era' \in [Sources -> Nat]
    BY <2>3, <2>4
  <2> QED
    BY <1>2, <2>2, <2>5 DEF Succeeds
<1>5. Forgets(log, log', hooks, hooks', s)
  <2>1. hooks' = {w \in hooks : Source[w.entry] # s} /\ log' = [log EXCEPT ![s] = <<>>]
    BY DEF Replace
  <2>2. ASSUME NEW w \in hooks PROVE Source[w.entry] \in Sources
    BY <1>2, WatchedLeaf DEF Numbered
  <2>3. log \in [Sources -> Seq(Viewing)]
    BY <1>2 DEF Logged
  <2>4. <<>> \in Seq(Viewing) /\ Len(<<>>) = 0
    OBVIOUS
  <2>5. log' \in [Sources -> Seq(Viewing)] /\ \A x \in Sources : log'[x] = IF x = s THEN <<>> ELSE log[x]
    BY <2>1, <2>3, <2>4
  <2>6. ASSUME NEW x \in Sources, NEW k \in 1 .. Len(log'[x]) PROVE Source[log'[x][k].entry] = x
    <3>1. CASE x = s
      BY <2>4, <2>5, <3>1
    <3>2. CASE x # s
      <4>1. log'[x] = log[x]
        BY <2>5, <3>2
      <4> QED
        BY <1>2, <4>1 DEF Logged
    <3> QED
      BY <3>1, <3>2
  <2>7. Logged(log')
    BY <2>5, <2>6 DEF Logged
  <2>8. s \notin Sources => hooks' = hooks
    BY <2>1, <2>2
  <2> QED
    BY <2>1, <2>5, <2>7, <2>8 DEF Forgets
<1>6. \A p \in cat'.plays : Tells(p, log', hooks', era')
  <2>1. cat'.plays = cat.plays /\ cat.plays \in SUBSET PlayRecord
    BY <1>1, <1>3, StandingTables DEF Retires
  <2>2. \A p \in cat.plays : Tells(p, log, hooks, era)
    BY <1>1 DEF Sane
  <2> QED
    BY <1>4, <1>5, <2>1, <2>2, RetiresTells
<1>7. Standing(cat') /\ Counts(cat', era')
  BY <1>1, <1>3, <1>4, RetiresStands, RetiresCounts DEF Sane
<1>8. cat'.plays = cat.plays /\ cat'.heir = cat.heir
  BY <1>3 DEF Retires
<1>9. PlaysFit(cat') /\ BornApart(cat')
  BY <1>1, <1>8 DEF Sane, PlaysFit, BornApart
<1>10. Sane(cat', log', hooks', era')
  BY <1>6, <1>7, <1>9 DEF Sane
<1>11. Passes(cat, cat', era)
  <2>1. Passes(cat, cat, era)
    BY <1>1, AdvancesItself DEF Advances
  <2> QED
    BY <1>8, <2>1 DEF Passes
<1>12. Served(log', mail', hooks', era') /\ library' \in Libraries
  <2>1. Fresh(era') => Fresh(era) /\ hooks' = hooks
    BY <1>4, <1>5 DEF Fresh, Succeeds, Forgets
  <2>2. hooks' \subseteq hooks
    BY <1>5 DEF Forgets
  <2>3. IsFiniteSet(hooks')
    BY <1>2, <2>2, FS_Subset DEF Numbered
  <2>4. Numbered(hooks', era')
    BY <1>2, <2>1, <2>2, <2>3 DEF Numbered
  <2>5. mail' \subseteq Viewing /\ library' = library
    BY <1>2 DEF Replace
  <2>6. Logged(log') /\ era' \in [Sources -> Nat]
    BY <1>4, <1>5 DEF Forgets, Succeeds
  <2> QED
    BY <1>1, <1>2, <2>1, <2>4, <2>5, <2>6 DEF Served
<1> QED
  BY <1>10, <1>11, <1>12 DEF Step, World
-------------------------------------------------------------------------------
(* Confirmed matches.                                                         *)

\* The plays, their rows and states are as before.
LEMMA SameAdvances ==
  ASSUME NEW c, NEW l, NEW h, NEW e, Sane(c, l, h, e), NEW d, Standing(d),
         d.plays = c.plays, d.state = c.state, d.heir = c.heir
  PROVE  Advances(c, d, l, h, e)
<1>1. PlaysFit(d) /\ BornApart(d) /\ \A p \in d.plays : Tells(p, l, h, e)
  BY DEF Sane, PlaysFit, BornApart
<1>2. Counts(d, e)
  BY DEF Sane, Counts, CountedIn, Own, PlaysOf
<1>3. Passes(c, c, e)
  BY AdvancesItself DEF Advances
<1>4. Passes(c, d, e)
  BY <1>3 DEF Passes
<1> QED
  BY <1>1, <1>2, <1>4 DEF Advances, Sane

\* The row gets the identity, and no other.
Confirmed(c, i, x) == [c EXCEPT !.manual[i] = x, !.ids[i] = {x}]

LEMMA ConfirmedStands ==
  ASSUME NEW c, Standing(c), NEW i \in Titles(c), NEW x \in Matches, NEW b, b = Confirmed(c, i, x)
  PROVE  /\ Standing(b) /\ b.manual[i] # Unmatched
         /\ b.plays = c.plays /\ b.state = c.state /\ b.heir = c.heir
<1>1. i \in c.live /\ i \in Rows /\ Kind[i] \in Topmost
  BY StandingTypes DEF Titles, Topmost
<1>2. /\ c \in HistoryTables /\ c.ok /\ TitlesMatched(c) /\ c.manual \in [Rows -> Matches \cup {Unmatched}]
      /\ c.ids \in [Rows -> SUBSET HistoryIds] /\ \A r \in c.avail : c.at[r] # 0
  BY StandingTypes, HistoryTypes
<1>3. PICK manual : manual = [c.manual EXCEPT ![i] = x]
  OBVIOUS
<1>4. PICK ids : ids = [c.ids EXCEPT ![i] = {x}]
  OBVIOUS
<1>5. /\ manual \in [Rows -> Matches \cup {Unmatched}] /\ manual[i] = x
      /\ \A j \in Rows : j # i => manual[j] = c.manual[j]
  BY <1>1, <1>2, <1>3
<1>6. ids \in [Rows -> SUBSET HistoryIds]
  BY <1>1, <1>2, <1>4 DEF HistoryIds
<1>7. b = [c EXCEPT !.manual = manual, !.ids = ids]
  BY <1>3, <1>4 DEF Confirmed
<1>8. /\ b \in HistoryTables /\ b.ok /\ b.live = c.live /\ b.parent = c.parent /\ b.at = c.at /\ b.heir = c.heir
      /\ b.manual = manual /\ b.avail = c.avail /\ b.plays = c.plays /\ b.state = c.state
  BY <1>2, <1>5, <1>6, <1>7 DEF HistoryTables
<1>9. TitlesMatched(b)
  BY <1>1, <1>2, <1>5, <1>8 DEF TitlesMatched
<1>10. b \in HistoryCatalog
  BY <1>8, <1>9 DEF HistoryCatalog
<1>11. \A j \in b.live : Rooted(b, j)
  BY <1>8, StandingTypes DEF Rooted
<1>12. /\ \A r \in Refs : b.at[r] \in b.live \cup {0}
       /\ \A r \in b.avail : b.at[r] # 0
       /\ IsFiniteSet(b.plays) /\ \A p \in b.plays : p.row \in b.live
       /\ \A j \in Rows : b.heir[j] \in b.live \cup {j} /\ Kind[b.heir[j]] = Kind[j]
       /\ \A j \in Rows, s \in Sources : b.state[j][s].done => b.state[j][s].row
  BY <1>8 DEF Standing, Whole
<1>13. \A j \in b.live : b.manual[j] # Unmatched => Kind[j] \in Topmost
  BY <1>8, <1>9, StandingTypes DEF TitlesMatched
<1>14. Whole(HistoryCatalog, b)
  BY <1>10, <1>11, <1>12, <1>13 DEF Whole
<1>15. ASSUME NEW r \in Refs PROVE (b.at[r] # 0 => Kind[b.at[r]] = Level[r]) /\ Hung(b, r)
  BY <1>8 DEF Standing, Hung, Bound, Single
<1>16. b.manual[i] # Unmatched
  BY <1>5, <1>8, RowsAssumption
<1> QED
  BY <1>8, <1>14, <1>15, <1>16 DEF Standing

\* apply_manual_match
LEMMA MatchedAdvances ==
  ASSUME NEW c, NEW l, NEW h, NEW e, Sane(c, l, h, e), NEW i \in Titles(c), NEW x \in Matches
  PROVE  Advances(c, Matched(c, i, x), l, h, e)
<1>1. PICK b : b = Confirmed(c, i, x)
  OBVIOUS
<1>2. Standing(c)
  BY DEF Sane
<1>3. /\ Standing(b) /\ b.manual[i] # Unmatched
      /\ b.plays = c.plays /\ b.state = c.state /\ b.heir = c.heir
  BY <1>1, <1>2, ConfirmedStands
<1>4. Advances(c, b, l, h, e)
  BY <1>3, SameAdvances
<1>5. Whole(HistoryCatalog, b)
  BY <1>3 DEF Standing
<1>6. Mended(HistoryCatalog, b, b)
  BY <1>5, HistoryIsTables, MendedItself
<1>7. Kind[i] \in Topmost
  BY DEF Titles, Topmost
<1>8. Mended(HistoryCatalog, b, RepairedById(b, Kind[i], {x}, i))
  BY <1>3, <1>5, <1>6, <1>7, HistoryIsTables, RepairedByIdMends
<1>9. Matched(c, i, x) = RepairedById(b, Kind[i], {x}, i)
  BY <1>1 DEF Matched, Confirmed
<1>10. Advances(b, Matched(c, i, x), l, h, e)
  BY <1>4, <1>8, <1>9, MendedAdvances DEF Advances
<1> QED
  BY <1>4, <1>10, AdvancesTransitive

LEMMA ConfirmSteps ==
  ASSUME World, NEW i \in Rows, NEW x \in Matches, Confirm(i, x)
  PROVE  Step
<1>1. Sane(cat, log, hooks, era)
  BY DEF World
<1>2. i \in Titles(cat) /\ cat' = Matched(cat, i, x)
  BY DEF Confirm, Match, Change
<1>3. Advances(cat, cat', log, hooks, era)
  BY <1>1, <1>2, MatchedAdvances
<1> QED
  BY <1>3, CatalogSteps DEF Confirm
-------------------------------------------------------------------------------
(* Seasons and shows.                                                         *)

\* The seasons and shows whose states are derived, and what for each of them.
Under(c, s, p) == {i \in Shows(c, s) : p \in {c.parent[i], ShowAbove(c, i)}}
Containing(c, s) == {c.parent[i] : i \in Shows(c, s)} \cup {ShowAbove(c, i) : i \in Shows(c, s)}
LastSeen(c, s, p) ==
  {0} \cup {c.state[i][s].last : i \in {j \in Under(c, s, p) : c.state[j][s].done}}
  \cup UNION {{q.time : q \in PlaysOf(c, i, s)} : i \in {j \in Under(c, s, p) : ~c.state[j][s].row}}
Summary(c, s, p) ==
  [row |-> TRUE, done |-> LeastViews(c, s, Under(c, s, p)) > 0, views |-> LeastViews(c, s, Under(c, s, p)),
   pos |-> 0, last |-> Max(LastSeen(c, s, p))]

LEMMA SummaryFields ==
  ASSUME NEW c, NEW s, NEW p
  PROVE  /\ Summary(c, s, p).row
         /\ Summary(c, s, p).done <=> LeastViews(c, s, Under(c, s, p)) > 0
BY Zenon DEF Summary

LEMMA DerivedIs ==
  ASSUME NEW c, NEW s
  PROVE  Derived(c, s) =
           [c EXCEPT !.state = [p \in Rows |-> IF p \notin Containing(c, s) THEN c.state[p]
                                ELSE [c.state[p] EXCEPT ![s] = Summary(c, s, p)]]]
BY DEF Derived, Containing, Summary, LastSeen, Under

\* They are those of episodes.
LEMMA ContainingKinds ==
  ASSUME NEW c, Standing(c), NEW s, NEW p \in Containing(c, s)
  PROVE  p \in c.live /\ Kind[p] \in {"season", "show"} /\ Under(c, s, p) # {}
<1>1. PICK i \in Shows(c, s) : p = c.parent[i] \/ p = ShowAbove(c, i)
  BY DEF Containing
<1>2. i \in c.live /\ Kind[i] = "episode" /\ Rooted(c, i)
  BY <1>1, StandingTypes DEF Shows
<1>3. c.parent[i] \in c.live /\ Kind[c.parent[i]] = "season"
  BY <1>2 DEF Rooted
<1>4. Rooted(c, c.parent[i]) /\ c.parent[i] # 0
  BY <1>3, StandingTypes
<1>5. ShowAbove(c, i) \in c.live /\ Kind[ShowAbove(c, i)] = "show"
  BY <1>3, <1>4 DEF Rooted, ShowAbove
<1>6. i \in Under(c, s, p)
  BY <1>1 DEF Under
<1> QED
  BY <1>1, <1>3, <1>5, <1>6

LEMMA KnownViewsType ==
  ASSUME NEW c, Standing(c), NEW i \in c.live, NEW s \in Sources
  PROVE  KnownViews(c, i, s) \in Nat
<1>1. c.state \in [Rows -> [Sources -> State]] /\ IsFiniteSet(c.plays) /\ i \in Rows
  BY StandingTypes, StandingTables
<1>2. c.state[i][s] \in State
  BY <1>1
<1>3. c.state[i][s].views \in Nat
  BY <1>2 DEF State
<1>4. PlaysOf(c, i, s) \subseteq c.plays
  BY DEF PlaysOf
<1>5. Cardinality(PlaysOf(c, i, s)) \in Nat
  BY <1>1, <1>4, FS_Subset, FS_CardinalityType
<1> QED
  BY <1>3, <1>5 DEF KnownViews

\* A derived state says no more views than any episode has.
LEMMA SummaryViews ==
  ASSUME NEW c, Standing(c), NEW s \in Sources, NEW p \in Containing(c, s)
  PROVE  /\ LeastViews(c, s, Under(c, s, p)) \in Nat
         /\ \A i \in Under(c, s, p) : LeastViews(c, s, Under(c, s, p)) <= KnownViews(c, i, s)
<1> DEFINE V == {KnownViews(c, i, s) : i \in Under(c, s, p)}
<1>1. \A i \in Under(c, s, p) : i \in c.live
  BY DEF Under, Shows
<1>2. V \in SUBSET Nat /\ V # {}
  BY <1>1, ContainingKinds, KnownViewsType
<1>3. Min(V) \in V /\ \A y \in V : Min(V) <= y
  BY <1>2, MinIn
<1>4. LeastViews(c, s, Under(c, s, p)) = Min(V)
  BY DEF LeastViews
<1>5. \A i \in Under(c, s, p) : KnownViews(c, i, s) \in V
  OBVIOUS
<1> HIDE DEF V
<1> QED
  BY <1>2, <1>3, <1>4, <1>5

LEMMA LastSeenType ==
  ASSUME NEW c, Standing(c), NEW s \in Sources, NEW p
  PROVE  Max(LastSeen(c, s, p)) \in Nat
<1>1. /\ c.state \in [Rows -> [Sources -> State]] /\ IsFiniteSet(c.plays) /\ c.live \subseteq Rows
      /\ IsFiniteSet(c.live) /\ c.plays \in SUBSET PlayRecord
  BY StandingTypes, StandingTables
<1>2. Under(c, s, p) \subseteq c.live
  BY DEF Under, Shows
<1>3. IsFiniteSet(Under(c, s, p))
  BY <1>1, <1>2, FS_Subset
<1> DEFINE F == {j \in Under(c, s, p) : c.state[j][s].done}
           U == {j \in Under(c, s, p) : ~c.state[j][s].row}
           lasts == {c.state[i][s].last : i \in F}
           times(i) == {q.time : q \in PlaysOf(c, i, s)}
           told == UNION {times(i) : i \in U}
<1>4. IsFiniteSet(F) /\ IsFiniteSet(U)
  BY <1>3, FS_Subset
<1>5. IsFiniteSet(lasts) /\ lasts \subseteq Nat
  <2>1. PICK S : S = F
    OBVIOUS
  <2>2. PICK f : f = [i \in S |-> c.state[i][s].last]
    OBVIOUS
  <2>3. IsFiniteSet(lasts)
    <3>1. IsFiniteSet({f[i] : i \in S})
      BY <1>4, <2>1, ImageFinite
    <3>2. lasts = {f[i] : i \in S}
      BY <2>1, <2>2
    <3> QED
      BY <3>1, <3>2
  <2>4. ASSUME NEW i \in F PROVE c.state[i][s].last \in Nat
    <3>1. c.state[i][s] \in State
      BY <1>1, <1>2
    <3> QED
      BY <3>1 DEF State
  <2> QED
    BY <2>3, <2>4
<1>6. IsFiniteSet(told) /\ told \subseteq Nat
  <2>1. ASSUME NEW q \in c.plays PROVE q.time \in Nat
    BY <1>1 DEF PlayRecord
  <2>2. PICK f : f = [q \in c.plays |-> q.time]
    OBVIOUS
  <2>3. IsFiniteSet({f[q] : q \in c.plays})
    BY <1>1, ImageFinite
  <2>4. told \subseteq {f[q] : q \in c.plays}
    BY <2>2 DEF PlaysOf
  <2>5. {f[q] : q \in c.plays} \subseteq Nat
    BY <2>1, <2>2
  <2> QED
    BY <2>3, <2>4, <2>5, FS_Subset
<1>7. LastSeen(c, s, p) = lasts \cup told \cup {0}
  BY DEF LastSeen
<1> HIDE DEF lasts, told
<1>8. IsFiniteSet(lasts \cup told)
  BY <1>5, <1>6, FS_Union
<1>9. IsFiniteSet(LastSeen(c, s, p))
  BY <1>7, <1>8, FS_AddElement
<1>10. LastSeen(c, s, p) \in SUBSET Nat /\ LastSeen(c, s, p) # {}
  BY <1>5, <1>6, <1>7
<1> QED
  BY <1>9, <1>10, MaxIn

\* What a derivation changes: the states of seasons and shows.
Derives(c, d, s) ==
  /\ d \in HistoryTables /\ d.ok /\ d.live = c.live /\ d.parent = c.parent /\ d.at = c.at /\ d.heir = c.heir
  /\ d.manual = c.manual /\ d.plays = c.plays /\ d.avail = c.avail
  /\ \A i \in Rows, x \in Sources :
        d.state[i][x] = IF i \in Containing(c, s) /\ x = s THEN Summary(c, s, i) ELSE c.state[i][x]

LEMMA DerivedState ==
  ASSUME NEW c, Standing(c), NEW s \in Sources
  PROVE  Derives(c, Derived(c, s), s)
<1>1. c \in HistoryTables /\ c.ok /\ c.state \in [Rows -> [Sources -> State]]
  BY StandingTypes, StandingTables
<1>2. ASSUME NEW p \in Containing(c, s) PROVE Summary(c, s, p) \in State
  <2>1. LeastViews(c, s, Under(c, s, p)) \in Nat /\ Max(LastSeen(c, s, p)) \in Nat
    BY SummaryViews, LastSeenType
  <2> QED
    BY <2>1 DEF Summary, State
<1>3. PICK m : m = [p \in Rows |-> IF p \notin Containing(c, s) THEN c.state[p]
                                   ELSE [c.state[p] EXCEPT ![s] = Summary(c, s, p)]]
  OBVIOUS
<1>4. m \in [Rows -> [Sources -> State]]
  BY <1>1, <1>2, <1>3
<1>5. \A i \in Rows, x \in Sources :
         m[i][x] = IF i \in Containing(c, s) /\ x = s THEN Summary(c, s, i) ELSE c.state[i][x]
  BY <1>1, <1>3
<1>6. Derived(c, s) = [c EXCEPT !.state = m]
  BY <1>3, DerivedIs
<1>7. PICK d : d = [c EXCEPT !.state = m]
  OBVIOUS
<1>8. /\ d \in HistoryTables /\ d.ok /\ d.live = c.live /\ d.parent = c.parent /\ d.at = c.at /\ d.heir = c.heir
      /\ d.manual = c.manual /\ d.plays = c.plays /\ d.avail = c.avail /\ d.state = m
  BY <1>1, <1>4, <1>7 DEF HistoryTables
<1> QED
  BY <1>5, <1>6, <1>7, <1>8 DEF Derives

LEMMA DerivesAdvances ==
  ASSUME NEW c, NEW l, NEW h, NEW e, Sane(c, l, h, e), NEW s \in Sources, NEW d, Derives(c, d, s)
  PROVE  Advances(c, d, l, h, e)
<1>1. Standing(c)
  BY DEF Sane
<1>2. \A i \in Rows, x \in Sources : c.state[i][x].done => c.state[i][x].row
  BY <1>1 DEF Standing, Whole
<1>3. \A i \in Rows, x \in Sources : d.state[i][x].done => d.state[i][x].row
  BY <1>2, SummaryFields DEF Derives
<1>4. ASSUME NEW i \in Rows, NEW x \in Sources, Kind[i] \in {"movie", "episode"}, c.state[i][x].done
      PROVE  Reaches(d.state[i][x], c.state[i][x])
  <2>1. i \notin Containing(c, s)
    BY <1>1, <1>4, ContainingKinds
  <2>2. d.state[i][x] = c.state[i][x]
    BY <2>1 DEF Derives
  <2>3. c.state[i][x] \in State
    BY <1>1, StandingTables
  <2>4. c.state[i][x].views \in Nat /\ c.state[i][x].last \in Nat
    BY <2>3 DEF State
  <2> QED
    BY <1>4, <2>2, <2>4 DEF Reaches
<1>5. /\ d \in HistoryTables /\ d.ok /\ d.live = c.live /\ d.parent = c.parent /\ d.at = c.at /\ d.heir = c.heir
      /\ d.manual = c.manual /\ d.plays = c.plays /\ d.avail = c.avail
  BY DEF Derives
<1> QED
  BY <1>3, <1>4, <1>5, StatesRaised

LEMMA DeriveContainersSteps ==
  ASSUME World, NEW s \in Sources, DeriveContainers(s)
  PROVE  Step
<1>1. Sane(cat, log, hooks, era) /\ Standing(cat)
  BY DEF World, Sane
<1>2. cat' = cat \/ cat' = Derived(cat, s)
  BY DEF DeriveContainers
<1>3. Advances(cat, Derived(cat, s), log, hooks, era)
  BY <1>1, DerivedState, DerivesAdvances
<1>4. Advances(cat, cat', log, hooks, era)
  BY <1>1, <1>2, <1>3, AdvancesItself
<1> QED
  BY <1>4, CatalogSteps DEF DeriveContainers

\* Nothing is claimed of an episode that was not seen.
LEMMA DerivedHonest ==
  ASSUME World, NEW s \in Sources, DeriveContainers(s), NEW i \in cat.live
  PROVE  ~Overclaimed(cat', i, s)
<1> SUFFICES ASSUME Overclaimed(cat', i, s)
             PROVE  FALSE
  OBVIOUS
<1>1. Standing(cat)
  BY DEF World, Sane
<1>2. PICK e \in Shows(cat', s) : /\ i \in {cat'.parent[e], ShowAbove(cat', e)}
                                  /\ ~cat'.state[e][s].done /\ PlaysOf(cat', e, s) = {}
  BY DEF Overclaimed
<1>3. CASE Shows(cat, s) = {}
  <2>1. cat' = cat
    BY <1>3 DEF DeriveContainers
  <2> QED
    BY <1>2, <1>3, <2>1
<1>4. CASE Shows(cat, s) # {}
  <2>1. Derives(cat, cat', s)
    BY <1>1, <1>4, DerivedState DEF DeriveContainers
  <2>2. cat'.live = cat.live /\ cat'.parent = cat.parent /\ cat'.at = cat.at /\ cat'.avail = cat.avail
        /\ cat'.plays = cat.plays
    BY <2>1 DEF Derives
  <2>3. Shows(cat', s) = Shows(cat, s)
    BY <2>2 DEF Shows, LiveSources, RefsOf
  <2>4. e \in Under(cat, s, i) /\ i \in Containing(cat, s)
    BY <1>2, <2>2, <2>3 DEF Under, Containing, ShowAbove
  <2>5. e \in cat.live /\ e \in Rows /\ Kind[e] = "episode" /\ i \in Rows
    BY <1>1, <1>2, <2>3, StandingTypes DEF Shows
  <2>6. e \notin Containing(cat, s)
    BY <1>1, <2>5, ContainingKinds
  <2>7. cat'.state[e][s] = cat.state[e][s]
    BY <2>1, <2>5, <2>6 DEF Derives
  <2>8. PlaysOf(cat, e, s) = {} /\ ~cat.state[e][s].done
    BY <1>2, <2>2, <2>7 DEF PlaysOf
  <2>9. KnownViews(cat, e, s) = 0
    BY <2>8, FS_EmptySet DEF KnownViews
  <2>10. LeastViews(cat, s, Under(cat, s, i)) \in Nat /\ LeastViews(cat, s, Under(cat, s, i)) <= 0
    BY <1>1, <2>4, <2>9, SummaryViews
  <2>11. cat'.state[i][s] = Summary(cat, s, i)
    BY <2>1, <2>4, <2>5 DEF Derives
  <2>12. ~Summary(cat, s, i).done
    BY <2>10, SummaryFields
  <2> QED
    BY <2>11, <2>12 DEF Overclaimed
<1> QED
  BY <1>3, <1>4
-------------------------------------------------------------------------------
(* An export: titles.                                                         *)

LEMMA EventTypes ==
  ASSUME NEW e \in Events
  PROVE  /\ e.ids \in SUBSET HistoryIds /\ e.show \in SUBSET HistoryIds
         /\ e.label \in Labels /\ e.showLabel \in Labels /\ "none" \in Labels
         /\ e.kind \in {"movie", "episode"} /\ e.time \in Nat /\ <<"trakt", e.id>> \in PlayIds
<1>1. e.ids \in SUBSET HistoryIds /\ e.show \in SUBSET HistoryIds
  BY DEF HistoryIds
<1>2. e.label \in Labels /\ e.showLabel \in Labels /\ "none" \in Labels
  BY DEF Labels
<1>3. e.kind \in {"movie", "episode"} /\ e.time \in Nat
  BY HistoryAssumption DEF Events
<1>4. <<"trakt", e.id>> \in PlayIds
  BY DEF PlayIds
<1> QED
  BY <1>1, <1>2, <1>3, <1>4

\* Rows learn identifiers.
SameButIds(c, d) ==
  /\ d \in HistoryTables /\ d.ok = c.ok /\ d.live = c.live /\ d.parent = c.parent /\ d.at = c.at
  /\ d.avail = c.avail /\ SameHistory(c, d)
LEMMA EnrichedTables ==
  ASSUME NEW c \in HistoryTables, NEW i, NEW ids \in SUBSET HistoryIds
  PROVE  SameButIds(c, Enriched(c, i, ids))
<1>0. PICK d : d = Enriched(c, i, ids)
  OBVIOUS
<1>1. PICK m : m = [c.ids EXCEPT ![i] = c.ids[i] \cup ids]
  OBVIOUS
<1>2. c.ids \in [Rows -> SUBSET HistoryIds]
  BY HistoryTypes
<1>3. m \in [Rows -> SUBSET HistoryIds]
  <2>1. CASE i \in Rows
    BY <1>1, <1>2, <2>1
  <2>2. CASE i \notin Rows
    <3>1. m = c.ids
      BY <1>1, <1>2, <2>2
    <3> QED
      BY <1>2, <3>1
  <2> QED
    BY <2>1, <2>2
<1>4. d = [c EXCEPT !.ids = m]
  BY <1>0, <1>1 DEF Enriched
<1>5. /\ d \in HistoryTables /\ d.ok = c.ok /\ d.live = c.live /\ d.parent = c.parent /\ d.at = c.at
      /\ d.avail = c.avail /\ d.plays = c.plays /\ d.heir = c.heir /\ d.state = c.state /\ d.manual = c.manual
  BY <1>3, <1>4 DEF HistoryTables
<1> QED
  BY <1>0, <1>5 DEF SameHistory, SameButIds

LEMMA EnrichedLearns ==
  ASSUME NEW c, Standing(c), NEW i, NEW ids \in SUBSET HistoryIds
  PROVE  LearnsOnly(c, Enriched(c, i, ids))
<1>1. c \in HistoryTables /\ c.ok /\ \A r \in c.avail : c.at[r] # 0
  BY StandingTypes
<1>2. PICK d : d = Enriched(c, i, ids)
  OBVIOUS
<1>3. /\ d \in HistoryTables /\ d.ok = c.ok /\ d.live = c.live /\ d.parent = c.parent /\ d.at = c.at
      /\ d.avail = c.avail /\ SameHistory(c, d)
  BY <1>1, <1>2, EnrichedTables DEF SameButIds
<1>4. Grows(c, d)
  BY <1>1, <1>3, OtherTables
<1> QED
  BY <1>1, <1>2, <1>3, <1>4 DEF LearnsOnly

\* A row of some kind for a title, or all is refused.
Offers(c, kind, new) ==
  /\ new \in [row : Rows \cup {0}, cat : HistoryTables]
  /\ new.cat.ok => Grows(c, new.cat) /\ new.row \in new.cat.live /\ Kind[new.row] = kind

LEMMA TitledOffers ==
  ASSUME NEW c, NEW kind, NEW new, Offers(c, kind, new), NEW ids \in SUBSET HistoryIds
  PROVE  Offers(c, kind, Titled(new, ids))
<1>1. new.row \in Rows \cup {0} /\ new.cat \in HistoryTables
  BY DEF Offers
<1>2. PICK d : d = Enriched(new.cat, new.row, ids)
  OBVIOUS
<1>3. Titled(new, ids) = [new EXCEPT !.cat = d]
  BY <1>2 DEF Titled
<1>4. d \in HistoryTables /\ d.ok = new.cat.ok /\ d.live = new.cat.live
  BY <1>1, <1>2, EnrichedTables DEF SameButIds
<1>5. PICK t : t = Titled(new, ids)
  OBVIOUS
<1>6. t \in [row : Rows \cup {0}, cat : HistoryTables] /\ t.row = new.row /\ t.cat = d
  BY <1>3, <1>4, <1>5 DEF Offers
<1>7. ASSUME d.ok PROVE Grows(c, d) /\ new.row \in d.live /\ Kind[new.row] = kind
  <2>1. Grows(c, new.cat) /\ new.row \in new.cat.live /\ Kind[new.row] = kind /\ new.cat.ok
    BY <1>4, <1>7 DEF Offers
  <2>2. Standing(new.cat)
    BY <2>1 DEF Grows
  <2>3. Grows(new.cat, d)
    BY <1>2, <2>2, EnrichedLearns DEF LearnsOnly
  <2> QED
    BY <1>4, <2>1, <2>3, GrowsTransitive
<1> QED
  BY <1>5, <1>6, <1>7 DEF Offers

\* A row is created below one that is there already or was created before.
Lower(kind, upper) ==
  \/ kind = "season" /\ upper = "show"
  \/ kind = "episode" /\ upper = "season"
LEMMA BelowOffers ==
  ASSUME NEW c, NEW b, NEW upper, Offers(c, upper, b), NEW kind, Lower(kind, upper), NEW number, NEW label \in Labels
  PROVE  Offers(c, kind, Created(b.cat, kind, number, b.row, label))
<1>1. b.row \in Rows \cup {0} /\ b.cat \in HistoryTables
  BY DEF Offers
<1>2. PICK new : new = Created(b.cat, kind, number, b.row, label)
  OBVIOUS
<1>3. Makes(b.cat, kind, b.row, new)
  BY <1>1, <1>2, CreatedTables
<1>4. new.cat \in HistoryTables /\ new.row \in Rows \cup {0} /\ (new.cat.ok => b.cat.ok)
  BY <1>3 DEF Makes
<1>5. new \in [row : Rows \cup {0}, cat : HistoryTables]
  <2>1. new = [row |-> new.row, cat |-> new.cat]
    BY <1>2 DEF Created
  <2> QED
    BY <1>4, <2>1
<1>6. ASSUME new.cat.ok PROVE Grows(c, new.cat) /\ new.row \in new.cat.live /\ Kind[new.row] = kind
  <2>1. Grows(c, b.cat) /\ b.cat.ok /\ b.row \in b.cat.live /\ Kind[b.row] = upper
    BY <1>4, <1>6 DEF Offers
  <2>2. Standing(b.cat)
    BY <2>1 DEF Grows
  <2>3. Fits(b.cat, kind, b.row) /\ kind \in Levels
    BY <2>1 DEF Fits, Topmost, Lower, Levels
  <2>4. PICK d : d = b.cat
    OBVIOUS
  <2>5. PICK above : above = b.row
    OBVIOUS
  <2>6. Standing(d) /\ above \in Rows \cup {0} /\ Fits(d, kind, above) /\ kind \in Levels
    BY <1>1, <2>2, <2>3, <2>4, <2>5
  <2>7. new = Created(d, kind, number, above, label)
    BY <1>2, <2>4, <2>5
  <2>8. /\ Grows(d, new.cat)
        /\ new.cat.ok => new.row \in new.cat.live /\ Kind[new.row] = kind
    BY <2>6, <2>7, CreatedGrows
  <2> QED
    BY <1>6, <2>1, <2>4, <2>8, GrowsTransitive
<1> QED
  BY <1>2, <1>5, <1>6 DEF Offers

\* A row is created at the top.
LEMMA TopOffers ==
  ASSUME NEW c, Standing(c), NEW kind \in Topmost, NEW number, NEW label \in Labels
  PROVE  Offers(c, kind, Created(c, kind, number, 0, label))
<1>1. c \in HistoryTables /\ kind \in Levels /\ Fits(c, kind, 0)
  BY StandingTypes DEF Fits, Topmost, Levels
<1>2. PICK new : new = Created(c, kind, number, 0, label)
  OBVIOUS
<1>3. /\ Grows(c, new.cat) /\ new.row \in Rows \cup {0}
      /\ new.cat.ok => new.row \in new.cat.live /\ Kind[new.row] = kind
  BY <1>1, <1>2, CreatedGrows
<1>4. new.cat \in HistoryTables
  BY <1>3 DEF Grows
<1>5. new = [row |-> new.row, cat |-> new.cat]
  BY <1>2 DEF Created
<1>6. new \in [row : Rows \cup {0}, cat : HistoryTables]
  BY <1>3, <1>4, <1>5
<1> QED
  BY <1>2, <1>3, <1>6 DEF Offers

\* A row that is there is taken.
LEMMA ThereOffers ==
  ASSUME NEW c, Standing(c), NEW i \in c.live, NEW new, new = [row |-> i, cat |-> c]
  PROVE  Offers(c, Kind[i], new)
<1>1. c \in HistoryTables /\ i \in Rows
  BY StandingTypes
<1>2. Grows(c, c)
  BY GrowsItself
<1> QED
  BY <1>1, <1>2 DEF Offers

LEMMA PastShowOffers ==
  ASSUME NEW c, Standing(c), NEW shows, \A i \in shows : i \in c.live /\ Kind[i] = "show", NEW e \in Events
  PROVE  Offers(c, "show", PastShow(c, shows, e))
<1>1. CASE shows = {}
  <2>1. Offers(c, "show", Created(c, "show", 0, 0, e.showLabel))
    BY EventTypes, TopOffers DEF Topmost
  <2>2. PastShow(c, shows, e) = Titled(Created(c, "show", 0, 0, e.showLabel), e.show)
    BY <1>1 DEF PastShow
  <2> QED
    BY <2>1, <2>2, EventTypes, TitledOffers
<1>2. CASE shows # {}
  <2>1. shows \in SUBSET Nat
    BY StandingTypes
  <2>2. Min(shows) \in c.live /\ Kind[Min(shows)] = "show"
    BY <1>2, <2>1, MinIn
  <2>3. PastShow(c, shows, e) = [row |-> Min(shows), cat |-> c]
    BY <1>2 DEF PastShow
  <2> QED
    BY <2>2, <2>3, ThereOffers
<1> QED
  BY <1>1, <1>2

LEMMA PastSeasonOffers ==
  ASSUME NEW c, NEW show, Offers(c, "show", show), NEW e \in Events
  PROVE  Offers(c, "season", PastSeason(show, e))
<1> DEFINE seasons == {i \in Children(show.cat, show.row) : Kind[i] = "season" /\ Number[i] = e.spot[1]}
<1>1. CASE seasons = {}
  <2>1. "none" \in Labels
    BY EventTypes
  <2>2. Offers(c, "season", Created(show.cat, "season", e.spot[1], show.row, "none"))
    BY <2>1, BelowOffers DEF Lower
  <2> QED
    BY <1>1, <2>2 DEF PastSeason
<1>2. CASE seasons # {}
  <2>1. show.cat \in HistoryTables /\ show.row \in Rows \cup {0}
    BY DEF Offers
  <2>2. seasons \subseteq show.cat.live /\ show.cat.live \subseteq Rows
    BY <2>1, HistoryTypes DEF Children
  <2>3. seasons \in SUBSET Nat
    BY <2>2, RowsAssumption
  <2>4. Min(seasons) \in seasons
    BY <1>2, <2>3, MinIn
  <2>5. PICK i : i = Min(seasons)
    OBVIOUS
  <2>6. i \in show.cat.live /\ i \in Rows /\ Kind[i] = "season"
    BY <2>2, <2>4, <2>5
  <2>7. PICK new : new = PastSeason(show, e)
    OBVIOUS
  <2>8. new = [show EXCEPT !.row = i]
    BY <1>2, <2>5, <2>7 DEF PastSeason
  <2> HIDE DEF seasons
  <2>9. new \in [row : Rows \cup {0}, cat : HistoryTables] /\ new.row = i /\ new.cat = show.cat
    BY <2>6, <2>8 DEF Offers
  <2>10. show.cat.ok => Grows(c, show.cat)
    BY DEF Offers
  <2> QED
    BY <2>6, <2>7, <2>9, <2>10 DEF Offers
<1> QED
  BY <1>1, <1>2

\* _create_historical_media
LEMMA HistoricalOffers ==
  ASSUME NEW c, Standing(c), NEW shows, \A i \in shows : i \in c.live /\ Kind[i] = "show", NEW e \in Events
  PROVE  Offers(c, e.kind, Historical(c, shows, e))
<1>1. e.kind \in {"movie", "episode"} /\ e.label \in Labels /\ e.ids \in SUBSET HistoryIds
  BY EventTypes
<1>2. CASE e.kind = "movie"
  <2>1. Offers(c, "movie", Created(c, "movie", 0, 0, e.label))
    BY <1>1, TopOffers DEF Topmost
  <2>2. Historical(c, shows, e) = Titled(Created(c, "movie", 0, 0, e.label), e.ids)
    BY <1>2 DEF Historical
  <2> QED
    BY <1>1, <1>2, <2>1, <2>2, TitledOffers
<1>3. CASE e.kind = "episode" /\ Cardinality(shows) > 1
  <2>1. Historical(c, shows, e) = [row |-> 0, cat |-> Refused(c)]
    BY <1>3 DEF Historical
  <2>2. Refused(c) \in HistoryTables /\ ~Refused(c).ok
    BY StandingTypes, RefusedTables
  <2> QED
    BY <2>1, <2>2 DEF Offers
<1>4. CASE e.kind = "episode" /\ ~(Cardinality(shows) > 1)
  <2>1. PICK season : season = PastSeason(PastShow(c, shows, e), e)
    OBVIOUS
  <2>2. Offers(c, "season", season)
    BY <2>1, PastShowOffers, PastSeasonOffers
  <2>3. Offers(c, "episode", Created(season.cat, "episode", e.spot[2], season.row, e.label))
    BY <1>1, <2>2, BelowOffers DEF Lower
  <2>4. Historical(c, shows, e) = Titled(Created(season.cat, "episode", e.spot[2], season.row, e.label), e.ids)
    BY <1>4, <2>1 DEF Historical, PastEpisode
  <2> QED
    BY <1>1, <1>4, <2>3, <2>4, TitledOffers
<1> QED
  BY <1>1, <1>2, <1>3, <1>4
-------------------------------------------------------------------------------
(* An export: events.                                                         *)

LEMMA BestRowsKind ==
  ASSUME NEW c, NEW preferred, NEW kind, NEW ids
  PROVE  \A i \in BestRows(c, preferred, kind, ids) : i \in c.live /\ Kind[i] = kind
BY DEF BestRows

LEMMA LearnsTransitive ==
  ASSUME NEW c, NEW b, NEW d, LearnsOnly(c, b), LearnsOnly(b, d)
  PROVE  LearnsOnly(c, d)
BY GrowsTransitive DEF LearnsOnly

LEMMA LearnsStands ==
  ASSUME NEW c, NEW d, LearnsOnly(c, d)
  PROVE  Standing(d) /\ d \in HistoryTables
BY DEF LearnsOnly, Grows

\* Known titles, and the shows above them, learn identifiers.
LEMMA RecognizesLearns ==
  ASSUME NEW c, Standing(c), NEW i, NEW e \in Events
  PROVE  LearnsOnly(c, Recognizes(c, i, e))
<1>1. LearnsOnly(c, c)
  BY GrowsItself, StandingTypes DEF LearnsOnly
<1>2. PICK b : b = Enriched(c, i, e.ids)
  OBVIOUS
<1>3. LearnsOnly(c, b) /\ Standing(b)
  BY <1>2, EventTypes, EnrichedLearns, LearnsStands
<1>4. ASSUME NEW show PROVE LearnsOnly(c, EnrichedShow(b, show, e.show))
  <2>1. LearnsOnly(b, Enriched(b, show, e.show))
    BY <1>3, EventTypes, EnrichedLearns
  <2>2. LearnsOnly(c, Enriched(b, show, e.show))
    BY <1>3, <2>1, LearnsTransitive
  <2> QED
    BY <1>3, <2>2 DEF EnrichedShow
<1>5. Recognizes(c, i, e) = IF i = 0 THEN c ELSE EnrichedShow(b, IF e.kind = "episode" THEN ShowAbove(c, i) ELSE 0, e.show)
  BY <1>2 DEF Recognizes
<1>6. LearnsOnly(c, EnrichedShow(b, IF e.kind = "episode" THEN ShowAbove(c, i) ELSE 0, e.show))
  BY <1>4
<1> QED
  BY <1>1, <1>5, <1>6

\* The events of an export, by their places in it.
IsExport(events) == \E n \in Nat : DOMAIN events = 1 .. n /\ \A k \in 1 .. n : events[k] \in Events

LEMMA ExportDomain ==
  ASSUME NEW events, IsExport(events)
  PROVE  /\ IsFiniteSet(DOMAIN events) /\ \A k \in DOMAIN events : events[k] \in Events
         /\ \A s \in SUBSET DOMAIN events : s # {} => Max(s) \in s
<1>1. PICK n \in Nat : DOMAIN events = 1 .. n /\ \A k \in 1 .. n : events[k] \in Events
  BY DEF IsExport
<1>2. IsFiniteSet(1 .. n) /\ 1 .. n \in SUBSET Nat
  BY FS_Interval
<1>3. ASSUME NEW s \in SUBSET (1 .. n), s # {} PROVE Max(s) \in s
  BY <1>2, <1>3, FS_Subset, MaxIn
<1> QED
  BY <1>1, <1>2, <1>3

\* What the first pass finds: rows of an event's kind, where nothing but identifiers changed.
Memory(c, events) ==
  {a \in [cat : HistoryTables, rows : [DOMAIN events -> SUBSET Rows]] :
     /\ LearnsOnly(c, a.cat)
     /\ \A k \in DOMAIN events : \A i \in a.rows[k] : i \in c.live /\ Kind[i] = events[k].kind}

LEMMA RemembersMemory ==
  ASSUME NEW c, Standing(c), NEW events, IsExport(events), NEW a \in Memory(c, events), NEW k \in DOMAIN events, NEW rows,
         \A i \in rows : i \in a.cat.live /\ Kind[i] = events[k].kind
  PROVE  Remembers(a, k, rows, events[k]) \in Memory(c, events)
<1>1. /\ a.cat \in HistoryTables /\ a.rows \in [DOMAIN events -> SUBSET Rows] /\ LearnsOnly(c, a.cat)
      /\ \A j \in DOMAIN events : \A i \in a.rows[j] : i \in c.live /\ Kind[i] = events[j].kind
  BY DEF Memory
<1>2. a.cat.live = c.live /\ c.live \subseteq Rows /\ Standing(a.cat)
  BY <1>1, StandingTypes, LearnsStands DEF LearnsOnly
<1>3. events[k] \in Events
  BY ExportDomain
<1>4. PICK d : d = Recognizes(a.cat, Only(rows), events[k])
  OBVIOUS
<1>5. LearnsOnly(a.cat, d)
  BY <1>2, <1>3, <1>4, RecognizesLearns
<1>6. LearnsOnly(c, d) /\ d \in HistoryTables
  BY <1>1, <1>5, LearnsTransitive, LearnsStands
<1>7. PICK m : m = [a.rows EXCEPT ![k] = rows]
  OBVIOUS
<1>8. rows \in SUBSET Rows /\ \A i \in rows : i \in c.live /\ Kind[i] = events[k].kind
  BY <1>2
<1>9. m \in [DOMAIN events -> SUBSET Rows] /\ \A j \in DOMAIN events : m[j] = IF j = k THEN rows ELSE a.rows[j]
  BY <1>1, <1>7, <1>8
<1>10. \A j \in DOMAIN events : \A i \in m[j] : i \in c.live /\ Kind[i] = events[j].kind
  BY <1>1, <1>8, <1>9
<1>11. Remembers(a, k, rows, events[k]) = [cat |-> d, rows |-> m]
  BY <1>4, <1>7 DEF Remembers
<1>12. PICK b : b = [cat |-> d, rows |-> m]
  OBVIOUS
<1>13. b \in [cat : HistoryTables, rows : [DOMAIN events -> SUBSET Rows]] /\ b.cat = d /\ b.rows = m
  BY <1>6, <1>9, <1>12
<1>14. b \in Memory(c, events)
  BY <1>6, <1>10, <1>13 DEF Memory
<1> QED
  BY <1>11, <1>12, <1>14

\* The first pass.
LEMMA RecognizedMemory ==
  ASSUME NEW c, Standing(c), NEW preferred, NEW events, IsExport(events)
  PROVE  Recognized(c, preferred, events) \in Memory(c, events)
<1> DEFINE S == DOMAIN events
           T == Memory(c, events)
           last == [s \in SUBSET S |-> Max(s)]
           first == [cat |-> c, rows |-> [k \in DOMAIN events |-> {}]]
           Next1(a, k) == Remembers(a, k, BestRows(a.cat, preferred, events[k].kind, events[k].ids), events[k])
           F == [x \in T \X S |-> Next1(x[1], x[2])]
           Step1(f, s) == IF s = {} THEN first ELSE Next1(f[s \ {Max(s)}], Max(s))
           Is(f) == f = [s \in SUBSET S |-> Step1(f, s)]
           iter == CHOOSE f : Is(f)
<1>1. IsFiniteSet(S) /\ \A s \in SUBSET S : s # {} => Max(s) \in s
  BY ExportDomain
<1>2. \A s \in SUBSET S : s # {} => last[s] = Max(s) /\ last[s] \in s
  BY <1>1
<1>3. first \in T
  <2>1. LearnsOnly(c, c) /\ c \in HistoryTables
    BY GrowsItself, StandingTypes DEF LearnsOnly
  <2> QED
    BY <2>1 DEF Memory
<1>4. ASSUME NEW a \in T, NEW k \in S PROVE Next1(a, k) \in T
  BY BestRowsKind, RemembersMemory
<1> HIDE DEF T, S, Next1, first, last
<1>5. F \in [T \X S -> T]
  BY <1>4
<1>6. PICK f \in [SUBSET S -> T] : Unfolds(f, S, last, first, F)
  <2> HIDE DEF F
  <2> QED
    BY <1>1, <1>2, <1>3, <1>5, FoldExists
<1>7. \A s \in SUBSET S : f[s] = Step1(f, s)
  <2>1. \A s \in SUBSET S : f[s] = IF s = {} THEN first ELSE F[<<f[s \ {last[s]}], last[s]>>]
    BY <1>6 DEF Unfolds
  <2>2. ASSUME NEW s \in SUBSET S, s # {} PROVE F[<<f[s \ {last[s]}], last[s]>>] = Next1(f[s \ {Max(s)}], Max(s))
    <3>1. last[s] = Max(s) /\ Max(s) \in S /\ f[s \ {Max(s)}] \in T
      BY <1>2, <1>6, <2>2
    <3> QED
      BY <3>1
  <2> HIDE DEF F
  <2> QED
    BY <2>1, <2>2
<1>8. Is(f)
  <2> HIDE DEF Step1
  <2> QED
    BY <1>6, <1>7
<1>9. Is(iter)
  <2> HIDE DEF Is
  <2> QED
    BY <1>8, Zenon
<1>10. Recognized(c, preferred, events) = iter[S]
  BY DEF Recognized, InOrder, MapThenFoldSet, S, Next1, first
<1>11. \A s \in SUBSET S : iter[s] = Step1(iter, s)
  <2> HIDE DEF Step1, iter
  <2> QED
    BY <1>9
<1> HIDE DEF iter
<1> DEFINE Q == {s \in SUBSET S : iter[s] \in T}
<1>12. {} \in Q
  BY <1>3, <1>11
<1>13. ASSUME NEW s \in SUBSET S, s # {}, s \ {last[s]} \in Q PROVE s \in Q
  <2>1. last[s] = Max(s) /\ Max(s) \in S
    BY <1>2, <1>13
  <2>2. iter[s] = Next1(iter[s \ {Max(s)}], Max(s)) /\ iter[s \ {Max(s)}] \in T
    BY <1>11, <1>13, <2>1
  <2>3. iter[s] \in T
    BY <1>4, <2>1, <2>2
  <2> QED
    BY <2>3
<1>14. S \in Q
  <2> HIDE DEF Q
  <2> QED
    BY <1>1, <1>2, <1>12, <1>13, OrderedInduction
<1> QED
  BY <1>10, <1>14 DEF T
\* The second pass creates rows and books plays, with no identity but that of their event;
\* states are refreshed after it.
FromExport(c, d) ==
  \A p \in d.plays : p \in c.plays \/ (p.source = Importer /\ ~p.moved)
Books(c, d, l, h, e) ==
  /\ d \in HistoryTables
  /\ d.ok => /\ Ordered(d, l, h, e)
             /\ d.state = c.state /\ d.heir = c.heir /\ c.live \subseteq d.live
             /\ c.plays \subseteq d.plays /\ FromExport(c, d)

LEMMA BooksTransitive ==
  ASSUME NEW c, NEW d, NEW f, NEW l, NEW h, NEW e, Books(c, d, l, h, e), d.ok, Books(d, f, l, h, e)
  PROVE  Books(c, f, l, h, e)
BY DEF Books, FromExport

\* Placing and learning book nothing.
LEMMA GrowsBooks ==
  ASSUME NEW c, NEW d, NEW l, NEW h, NEW e, Ordered(c, l, h, e), Grows(c, d)
  PROVE  Books(c, d, l, h, e)
BY DEF Ordered, Grows, SameHistory, Books, FromExport, PlaysFit, BornApart

LEMMA BooksItself ==
  ASSUME NEW c, NEW l, NEW h, NEW e, Ordered(c, l, h, e)
  PROVE  Books(c, c, l, h, e)
BY StandingTypes DEF Ordered, Books, FromExport

\* The identity of an event tells no time of a server.
LEMMA EventTells ==
  ASSUME NEW id, NEW p, p.id = <<"trakt", id>>, NEW l, NEW h, NEW e
  PROVE  Tells(p, l, h, e) /\ p.id[1] = "trakt"
BY DEF Tells

LEMMA BookedBooks ==
  ASSUME NEW c, NEW l, NEW h, NEW e, Ordered(c, l, h, e), NEW i \in c.live, NEW ev \in Events, Kind[i] = ev.kind
  PROVE  Books(c, Booked(c, i, ev), l, h, e)
<1>1. Standing(c) /\ c.ok /\ c \in HistoryTables /\ c.live \subseteq Rows
  BY StandingTypes DEF Ordered
<1>2. <<"trakt", ev.id>> \in PlayIds /\ ev.time \in Nat /\ ev.kind \in {"movie", "episode"} /\ Importer \in Sources
  BY EventTypes, HistoryAssumption
<1>3. PICK id : id = <<"trakt", ev.id>>
  OBVIOUS
<1>4. PICK new : new = Gained(i, id, ev.time, Importer)
  OBVIOUS
<1>5. new \in PlayRecord /\ new.id = id /\ new.source = Importer /\ ~new.moved
  <2>1. i \in Rows /\ id \in PlayIds
    BY <1>1, <1>2, <1>3
  <2> QED
    BY <1>2, <1>4, <2>1, GainedRecord
<1>6. PICK d : d = [c EXCEPT !.plays = c.plays \cup {new}]
  OBVIOUS
<1>7. /\ d \in HistoryTables /\ d.ok /\ d.live = c.live /\ d.parent = c.parent /\ d.at = c.at /\ d.heir = c.heir
      /\ d.manual = c.manual /\ d.avail = c.avail /\ d.plays = c.plays \cup {new} /\ d.state = c.state
  <2>1. c.plays \cup {new} \in SUBSET PlayRecord
    BY <1>1, <1>5, HistoryTypes
  <2> QED
    BY <1>1, <1>6, <2>1 DEF HistoryTables
<1>8. Booked(c, i, ev) = c \/ Booked(c, i, ev) = d
  BY <1>3, <1>4, <1>6 DEF Booked, Gained
<1>9. \A j \in Rows, x \in Sources : d.state[j][x].done => d.state[j][x].row
  BY <1>1, <1>7 DEF Standing, Whole
<1>10. Tells(new, l, h, e) /\ id[1] = "trakt"
  BY <1>3, <1>5, EventTells
<1>11. Ordered(d, l, h, e)
  <2>1. id \in PlayIds /\ Kind[i] \in {"movie", "episode"}
    BY <1>2, <1>3
  <2>2. id[1] # "trakt" => \A p \in c.plays : p.row = i => Apart(p.time, ev.time) > Near
    BY <1>10
  <2> QED
    BY <1>2, <1>4, <1>7, <1>9, <1>10, <2>1, <2>2, PlayAdded
<1>12. Books(c, d, l, h, e)
  BY <1>5, <1>7, <1>11 DEF Books, FromExport
<1> QED
  BY <1>8, <1>12, BooksItself

\* A single row of those found.
LEMMA LeastFound ==
  ASSUME NEW S \in SUBSET Rows, S # {}
  PROVE  Min(S) \in S
BY RowsAssumption, MinIn

LEMMA BookedNewBooks ==
  ASSUME NEW c, NEW l, NEW h, NEW e, Ordered(c, l, h, e), NEW ev \in Events, NEW new, Offers(c, ev.kind, new)
  PROVE  Books(c, BookedNew(new, ev), l, h, e)
<1>1. CASE ~new.cat.ok
  <2>1. BookedNew(new, ev) = new.cat /\ new.cat \in HistoryTables
    BY <1>1 DEF BookedNew, Offers
  <2> QED
    BY <1>1, <2>1 DEF Books
<1>2. CASE new.cat.ok
  <2>1. PICK d : d = new.cat
    OBVIOUS
  <2>2. Grows(c, d) /\ d.ok /\ new.row \in d.live /\ Kind[new.row] = ev.kind
    BY <1>2, <2>1 DEF Offers
  <2>3. Books(c, d, l, h, e)
    BY <2>2, GrowsBooks
  <2>4. Ordered(d, l, h, e)
    BY <2>2, <2>3 DEF Books
  <2>5. Books(d, Booked(d, new.row, ev), l, h, e)
    BY <2>2, <2>4, BookedBooks
  <2>6. BookedNew(new, ev) = Booked(d, new.row, ev)
    BY <1>2, <2>1 DEF BookedNew
  <2> QED
    BY <2>2, <2>3, <2>5, <2>6, BooksTransitive
<1> QED
  BY <1>1, <1>2

\* An event is booked on the row found, else on one created for it, else not at all.
LEMMA BookedOneBooks ==
  ASSUME NEW c, NEW l, NEW h, NEW e, Ordered(c, l, h, e), NEW preferred, NEW ev \in Events,
         NEW found, \A i \in found : i \in c.live /\ Kind[i] = ev.kind
  PROVE  Books(c, BookedOne(c, preferred, found, ev), l, h, e)
<1>1. Standing(c) /\ c.ok /\ c.live \subseteq Rows
  BY StandingTypes DEF Ordered
<1>2. Books(c, c, l, h, e)
  BY BooksItself
<1>3. found # {} => Books(c, Booked(c, Min(found), ev), l, h, e)
  <2>1. SUFFICES ASSUME found # {} PROVE Books(c, Booked(c, Min(found), ev), l, h, e)
    OBVIOUS
  <2>2. found \in SUBSET Rows
    BY <1>1
  <2>3. Min(found) \in c.live /\ Kind[Min(found)] = ev.kind
    BY <2>1, <2>2, LeastFound
  <2> QED
    BY <2>3, BookedBooks
<1>4. PICK new : new = Historical(c, BestRows(c, preferred, "show", ev.show), ev)
  OBVIOUS
<1>5. Books(c, BookedNew(new, ev), l, h, e)
  <2>1. \A i \in BestRows(c, preferred, "show", ev.show) : i \in c.live /\ Kind[i] = "show"
    BY BestRowsKind
  <2>2. Offers(c, ev.kind, new)
    BY <1>1, <1>4, <2>1, HistoricalOffers
  <2> QED
    BY <2>2, BookedNewBooks
<1> QED
  BY <1>2, <1>3, <1>4, <1>5 DEF BookedOne

\* The rows an event is booked on are of its kind, whichever pass found them.
FoundFor(first, preferred, events, c, k) ==
  IF first.rows[k] # {} THEN first.rows[k] ELSE BestRows(c, preferred, events[k].kind, events[k].ids)

LEMMA FoundKind ==
  ASSUME NEW c, NEW events, NEW first \in Memory(c, events), NEW preferred, NEW k \in DOMAIN events,
         NEW d, c.live \subseteq d.live
  PROVE  \A i \in FoundFor(first, preferred, events, d, k) : i \in d.live /\ Kind[i] = events[k].kind
BY BestRowsKind DEF Memory, FoundFor

LEMMA NextBooks ==
  ASSUME NEW c, NEW l, NEW h, NEW e, Ordered(c, l, h, e), NEW events, IsExport(events),
         NEW first \in Memory(c, events), NEW preferred, NEW k \in DOMAIN events, NEW d, Books(c, d, l, h, e)
  PROVE  Books(c, BookedOne(d, preferred, FoundFor(first, preferred, events, d, k), events[k]), l, h, e)
<1>1. PICK found : found = FoundFor(first, preferred, events, d, k)
  OBVIOUS
<1>2. CASE ~d.ok
  BY <1>2 DEF BookedOne
<1>3. CASE d.ok
  <2>1. Ordered(d, l, h, e) /\ c.live \subseteq d.live
    BY <1>3 DEF Books
  <2>2. \A i \in found : i \in d.live /\ Kind[i] = events[k].kind
    BY <1>1, <2>1, FoundKind
  <2>3. events[k] \in Events
    BY ExportDomain
  <2>4. Books(d, BookedOne(d, preferred, found, events[k]), l, h, e)
    BY <2>1, <2>2, <2>3, BookedOneBooks
  <2> QED
    BY <1>1, <1>3, <2>4, BooksTransitive
<1> QED
  BY <1>2, <1>3

\* The second pass.
LEMMA AllBookedBooks ==
  ASSUME NEW c, NEW l, NEW h, NEW e, Ordered(c, l, h, e), NEW events, IsExport(events),
         NEW first0 \in Memory(c, events), NEW preferred
  PROVE  Books(c, AllBooked(first0, preferred, events), l, h, e)
<1> DEFINE S == DOMAIN events
           T == {d \in HistoryTables : Books(c, d, l, h, e)}
           last == [s \in SUBSET S |-> Max(s)]
           first == first0.cat
           Next1(d, k) == BookedOne(d, preferred,
                  IF first0.rows[k] # {} THEN first0.rows[k]
                  ELSE BestRows(d, preferred, events[k].kind, events[k].ids), events[k])
           F == [x \in T \X S |-> Next1(x[1], x[2])]
           Step1(f, s) == IF s = {} THEN first ELSE Next1(f[s \ {Max(s)}], Max(s))
           Is(f) == f = [s \in SUBSET S |-> Step1(f, s)]
           iter == CHOOSE f : Is(f)
<1>1. IsFiniteSet(S) /\ \A s \in SUBSET S : s # {} => Max(s) \in s
  BY ExportDomain
<1>2. \A s \in SUBSET S : s # {} => last[s] = Max(s) /\ last[s] \in s
  BY <1>1
<1>3. first \in T
  <2>1. Grows(c, first) /\ first \in HistoryTables
    BY DEF Memory, LearnsOnly
  <2> QED
    BY <2>1, GrowsBooks
<1>4. ASSUME NEW d \in T, NEW k \in S PROVE Next1(d, k) \in T
  <2>1. Books(c, Next1(d, k), l, h, e)
    BY NextBooks DEF FoundFor
  <2> HIDE DEF Next1
  <2> QED
    BY <2>1 DEF Books
<1> HIDE DEF T, S, Next1, first, last
<1>5. F \in [T \X S -> T]
  BY <1>4
<1>6. PICK f \in [SUBSET S -> T] : Unfolds(f, S, last, first, F)
  <2> HIDE DEF F
  <2> QED
    BY <1>1, <1>2, <1>3, <1>5, FoldExists
<1>7. \A s \in SUBSET S : f[s] = Step1(f, s)
  <2>1. \A s \in SUBSET S : f[s] = IF s = {} THEN first ELSE F[<<f[s \ {last[s]}], last[s]>>]
    BY <1>6 DEF Unfolds
  <2>2. ASSUME NEW s \in SUBSET S, s # {} PROVE F[<<f[s \ {last[s]}], last[s]>>] = Next1(f[s \ {Max(s)}], Max(s))
    <3>1. last[s] = Max(s) /\ Max(s) \in S /\ f[s \ {Max(s)}] \in T
      BY <1>2, <1>6, <2>2
    <3> QED
      BY <3>1
  <2> HIDE DEF F
  <2> QED
    BY <2>1, <2>2
<1>8. Is(f)
  <2> HIDE DEF Step1
  <2> QED
    BY <1>6, <1>7
<1>9. Is(iter)
  <2> HIDE DEF Is
  <2> QED
    BY <1>8, Zenon
<1>10. AllBooked(first0, preferred, events) = iter[S]
  BY DEF AllBooked, InOrder, MapThenFoldSet, S, Next1, first
<1>11. \A s \in SUBSET S : iter[s] = Step1(iter, s)
  <2> HIDE DEF Step1, iter
  <2> QED
    BY <1>9
<1> HIDE DEF iter
<1> DEFINE Q == {s \in SUBSET S : iter[s] \in T}
<1>12. {} \in Q
  BY <1>3, <1>11
<1>13. ASSUME NEW s \in SUBSET S, s # {}, s \ {last[s]} \in Q PROVE s \in Q
  <2>1. last[s] = Max(s) /\ Max(s) \in S
    BY <1>2, <1>13
  <2>2. iter[s] = Next1(iter[s \ {Max(s)}], Max(s)) /\ iter[s \ {Max(s)}] \in T
    BY <1>11, <1>13, <2>1
  <2>3. iter[s] \in T
    BY <1>4, <2>1, <2>2
  <2> QED
    BY <2>3
<1>14. S \in Q
  <2> HIDE DEF Q
  <2> QED
    BY <1>1, <1>2, <1>12, <1>13, OrderedInduction
<1> QED
  BY <1>10, <1>14 DEF T

\* The states of the rows that got plays, made up for at the end.
Touched(c, d) == {p.row : p \in d.plays \ c.plays}
LastOf(d, i) == Max({p.time : p \in PlaysOf(d, i, Importer)})
MadeUp(d, i) == Applied(d.state[i][Importer], Cardinality(PlaysOf(d, i, Importer)), LastOf(d, i))

\* What a refresh changes.
Refreshes(c, d, f) ==
  /\ f \in HistoryTables /\ f.ok /\ f.live = d.live /\ f.parent = d.parent /\ f.at = d.at /\ f.heir = d.heir
  /\ f.manual = d.manual /\ f.plays = d.plays /\ f.avail = d.avail
  /\ \A i \in Rows, s \in Sources :
        f.state[i][s] = IF i \in Touched(c, d) /\ s = Importer THEN MadeUp(d, i) ELSE d.state[i][s]

\* A state made up for counts the plays of its row, and is no earlier than any.
LEMMA MadeUpState ==
  ASSUME NEW c, NEW d, Standing(d), c.plays \subseteq d.plays, FromExport(c, d), NEW i \in Touched(c, d)
  PROVE  /\ i \in Rows /\ MadeUp(d, i) \in State /\ MadeUp(d, i).row /\ MadeUp(d, i).done
         /\ MadeUp(d, i).views >= Cardinality(PlaysOf(d, i, Importer))
         /\ \A p \in PlaysOf(d, i, Importer) : MadeUp(d, i).last >= p.time
<1>1. d.plays \in SUBSET PlayRecord /\ IsFiniteSet(d.plays) /\ d.state \in [Rows -> [Sources -> State]]
  BY StandingTypes, StandingTables
<1>2. PICK p \in d.plays : p \notin c.plays /\ p.row = i
  BY DEF Touched
<1>3. p \in PlaysOf(d, i, Importer) /\ i \in Rows
  BY <1>1, <1>2 DEF FromExport, PlaysOf, PlayRecord
<1>4. PICK P : P = PlaysOf(d, i, Importer)
  OBVIOUS
<1>5. IsFiniteSet(P) /\ P # {} /\ P \subseteq PlayRecord
  BY <1>1, <1>3, <1>4, FS_Subset DEF PlaysOf
<1>6. PICK times : times = {q.time : q \in P}
  OBVIOUS
<1>7. times \in SUBSET Nat /\ times # {}
  BY <1>5, <1>6 DEF PlayRecord
<1>8. IsFiniteSet(times)
  <2>1. PICK f : f = [q \in P |-> q.time]
    OBVIOUS
  <2>2. IsFiniteSet({f[q] : q \in P})
    BY <1>5, ImageFinite
  <2>3. times = {f[q] : q \in P}
    BY <1>6, <2>1
  <2> QED
    BY <2>2, <2>3
<1>9. Max(times) \in Nat /\ \A q \in P : q.time <= Max(times)
  <2>1. Max(times) \in times /\ \A t \in times : t <= Max(times)
    BY <1>7, <1>8, MaxIn
  <2> QED
    BY <1>6, <1>7, <2>1
<1>10. Cardinality(P) \in Nat /\ d.state[i][Importer] \in State
  BY <1>1, <1>3, <1>5, FS_CardinalityType, HistoryAssumption
<1>11. MadeUp(d, i) = Applied(d.state[i][Importer], Cardinality(P), Max(times))
  BY <1>4, <1>6 DEF MadeUp, LastOf
<1>12. PICK new : new = Applied(d.state[i][Importer], Cardinality(P), Max(times))
  OBVIOUS
<1>13. new \in State /\ new.row /\ new.done /\ new.views >= Cardinality(P) /\ new.last >= Max(times)
  BY <1>9, <1>10, <1>12, AppliedState DEF Reaches
<1>14. \A q \in P : new.last >= q.time
  <2>1. new.last \in Nat /\ \A q \in P : q.time \in Nat
    BY <1>5, <1>13 DEF State, PlayRecord
  <2> QED
    BY <1>9, <1>13, <2>1
<1> QED
  BY <1>3, <1>4, <1>11, <1>12, <1>13, <1>14

LEMMA RefreshedRefreshes ==
  ASSUME NEW c, NEW d, Standing(d), c.plays \subseteq d.plays, FromExport(c, d)
  PROVE  Refreshes(c, d, Refreshed(c, d))
<1>1. d \in HistoryTables /\ d.ok /\ d.state \in [Rows -> [Sources -> State]]
  BY StandingTypes, StandingTables
<1>2. PICK new : new = [i \in Rows |-> IF i \notin Touched(c, d) THEN d.state[i]
                                      ELSE [d.state[i] EXCEPT ![Importer] = MadeUp(d, i)]]
  OBVIOUS
<1>3. \A i \in Touched(c, d) : MadeUp(d, i) \in State
  BY MadeUpState
<1>4. new \in [Rows -> [Sources -> State]]
  BY <1>1, <1>2, <1>3
<1>5. \A i \in Rows, s \in Sources :
         new[i][s] = IF i \in Touched(c, d) /\ s = Importer THEN MadeUp(d, i) ELSE d.state[i][s]
  BY <1>1, <1>2
<1>6. PICK f : f = [d EXCEPT !.state = new]
  OBVIOUS
<1>7. /\ f \in HistoryTables /\ f.ok /\ f.live = d.live /\ f.parent = d.parent /\ f.at = d.at /\ f.heir = d.heir
      /\ f.manual = d.manual /\ f.plays = d.plays /\ f.avail = d.avail /\ f.state = new
  BY <1>1, <1>4, <1>6 DEF HistoryTables
<1>8. Refreshed(c, d) = f
  BY <1>2, <1>6 DEF Refreshed, Touched, MadeUp, LastOf
<1> QED
  BY <1>5, <1>7, <1>8 DEF Refreshes

LEMMA RefreshesOrdered ==
  ASSUME NEW d, NEW l, NEW h, NEW e, Ordered(d, l, h, e), NEW c, c.plays \subseteq d.plays, FromExport(c, d),
         NEW f, Refreshes(c, d, f)
  PROVE  Ordered(f, l, h, e)
<1>1. Standing(d) /\ PlaysFit(d) /\ BornApart(d) /\ \A p \in d.plays : Tells(p, l, h, e)
  BY DEF Ordered
<1>2. \A i \in Touched(c, d) : MadeUp(d, i).row
  BY <1>1, MadeUpState
<1>3. \A i \in Rows, s \in Sources : d.state[i][s].done => d.state[i][s].row
  BY <1>1 DEF Standing, Whole
<1>4. \A i \in Rows, s \in Sources : f.state[i][s].done => f.state[i][s].row
  BY <1>2, <1>3 DEF Refreshes
<1>5. IsFiniteSet(d.plays) /\ (\A p \in d.plays : p.row \in d.live) /\ \A r \in d.avail : d.at[r] # 0
  BY <1>1, StandingTypes
<1>6. Standing(f)
  BY <1>1, <1>4, <1>5, StandsStill DEF Refreshes
<1>7. f.plays = d.plays /\ f.heir = d.heir
  BY DEF Refreshes
<1>8. PlaysFit(f) /\ BornApart(f) /\ \A p \in f.plays : Tells(p, l, h, e)
  BY <1>1, <1>7 DEF PlaysFit, BornApart
<1> QED
  BY <1>6, <1>8 DEF Ordered

\* Every state counts again: those of rows with new plays were made up for, and the others
\* have the plays they had.
LEMMA RefreshesCounts ==
  ASSUME NEW c, NEW e, Counts(c, e), NEW d, Standing(d), c.plays \subseteq d.plays, FromExport(c, d),
         d.state = c.state, NEW f, Refreshes(c, d, f)
  PROVE  Counts(f, e)
<1>1. f.plays = d.plays /\ d.plays \in SUBSET PlayRecord /\ IsFiniteSet(d.plays)
  BY StandingTypes, StandingTables DEF Refreshes
<1>2. ASSUME NEW p \in f.plays, e[p.source] = 0 PROVE CountedIn(f.state[p.row][p.source], f, p)
  <2>1. p \in d.plays /\ p.row \in Rows /\ p.source \in Sources
    BY <1>1 DEF PlayRecord
  <2>2. CASE p.row \in Touched(c, d) /\ p.source = Importer
    <3>1. PICK i : i = p.row
      OBVIOUS
    <3>2. f.state[i][Importer] = MadeUp(d, i) /\ i \in Touched(c, d)
      BY <2>1, <2>2, <3>1 DEF Refreshes
    <3>3. /\ MadeUp(d, i).done /\ MadeUp(d, i) \in State
          /\ MadeUp(d, i).views >= Cardinality(PlaysOf(d, i, Importer))
          /\ \A q \in PlaysOf(d, i, Importer) : MadeUp(d, i).last >= q.time
      BY <3>2, MadeUpState
    <3>4. p \in PlaysOf(d, i, Importer)
      BY <2>1, <2>2, <3>1 DEF PlaysOf
    <3>5. Own(f, i, Importer) \subseteq PlaysOf(d, i, Importer) /\ IsFiniteSet(PlaysOf(d, i, Importer))
      BY <1>1, FS_Subset DEF Own, PlaysOf
    <3>6. /\ Cardinality(Own(f, i, Importer)) <= Cardinality(PlaysOf(d, i, Importer))
          /\ Cardinality(Own(f, i, Importer)) \in Nat /\ Cardinality(PlaysOf(d, i, Importer)) \in Nat
      BY <3>5, FS_Subset, FS_CardinalityType
    <3>7. MadeUp(d, i).views \in Nat
      BY <3>3 DEF State
    <3>8. MadeUp(d, i).views >= Cardinality(Own(f, i, Importer))
      BY <3>3, <3>6, <3>7
    <3> QED
      BY <2>2, <3>1, <3>2, <3>3, <3>4, <3>8 DEF CountedIn
  <2>3. CASE ~(p.row \in Touched(c, d) /\ p.source = Importer)
    <3>1. f.state[p.row][p.source] = c.state[p.row][p.source]
      BY <2>1, <2>3 DEF Refreshes
    <3>2. \A q \in d.plays : q.row = p.row /\ q.source = p.source => q \in c.plays
      BY <2>3 DEF Touched, FromExport
    <3>3. Own(f, p.row, p.source) = Own(c, p.row, p.source)
      BY <1>1, <3>2 DEF Own, PlaysOf
    <3>4. p \in c.plays
      BY <2>1, <3>2
    <3>5. CountedIn(c.state[p.row][p.source], c, p)
      BY <1>2, <3>4 DEF Counts
    <3> QED
      BY <3>1, <3>3, <3>5 DEF CountedIn
  <2> QED
    BY <2>2, <2>3
<1> QED
  BY <1>2 DEF Counts

\* import_archive
LEMMA CommittedAdvances ==
  ASSUME NEW c, NEW l, NEW h, NEW e, Sane(c, l, h, e), NEW d, Books(c, d, l, h, e)
  PROVE  Advances(c, Committed(c, d), l, h, e)
<1>1. CASE ~d.ok
  BY <1>1, AdvancesItself DEF Committed
<1>2. CASE d.ok
  <2>1. /\ Ordered(d, l, h, e) /\ d.state = c.state /\ d.heir = c.heir
        /\ c.plays \subseteq d.plays /\ FromExport(c, d)
    BY <1>2 DEF Books
  <2>2. Standing(d) /\ Standing(c) /\ Counts(c, e) /\ PlaysFit(c)
    BY <2>1 DEF Ordered, Sane
  <2>3. PICK f : f = Refreshed(c, d)
    OBVIOUS
  <2>4. Refreshes(c, d, f)
    BY <2>1, <2>2, <2>3, RefreshedRefreshes
  <2>5. Ordered(f, l, h, e)
    BY <2>1, <2>4, RefreshesOrdered
  <2>6. Counts(f, e)
    BY <2>1, <2>2, <2>4, RefreshesCounts
  <2>7. Sane(f, l, h, e)
    BY <2>5, <2>6 DEF Sane, Ordered
  <2>8. f.heir = c.heir /\ f.plays = d.plays
    BY <2>1, <2>4 DEF Refreshes
  <2>9. Passes(c, f, e)
    <3>1. \A i \in Rows : c.heir[c.heir[i]] = c.heir[i]
      BY <2>2, StandingTypes
    <3>2. ASSUME NEW p \in c.plays PROVE MovedTo(p, f.heir[p.row]) \in f.plays
      <4>1. p \in PlayRecord /\ p.row \in c.live
        BY <2>2, StandingTypes, StandingTables
      <4>2. c.heir[p.row] = p.row /\ p.row \in Rows
        BY <2>2, <4>1, StandingTypes
      <4>3. MovedTo(p, p.row) = p
        BY <4>1, <4>2, PlayMoved
      <4> QED
        BY <2>1, <2>8, <4>2, <4>3
    <3> QED
      BY <2>8, <3>1, <3>2 DEF Passes
  <2> QED
    BY <1>2, <2>3, <2>7, <2>9 DEF Advances, Committed
<1> QED
  BY <1>1, <1>2

LEMMA ImportedAdvances ==
  ASSUME NEW c, NEW l, NEW h, NEW e, Sane(c, l, h, e), NEW events, IsExport(events)
  PROVE  Advances(c, Imported(c, events), l, h, e)
<1>1. Standing(c) /\ Ordered(c, l, h, e)
  BY DEF Sane, Ordered
<1>2. PICK preferred : preferred = {i \in c.live : Importer \in SourcesOf(c, i)}
  OBVIOUS
<1>3. PICK first : first = Recognized(c, preferred, events)
  OBVIOUS
<1>4. first \in Memory(c, events)
  BY <1>1, <1>3, RecognizedMemory
<1>5. PICK d : d = AllBooked(first, preferred, events)
  OBVIOUS
<1>6. Books(c, d, l, h, e)
  BY <1>1, <1>4, <1>5, AllBookedBooks
<1>7. Imported(c, events) = Committed(c, d)
  BY <1>2, <1>3, <1>5 DEF Imported
<1> QED
  BY <1>6, <1>7, CommittedAdvances

LEMMA ArchiveIsExport ==
  ASSUME NEW a \in DOMAIN Archives
  PROVE  IsExport(Archives[a])
<1>1. Archives[a] \in Seq(ToSet(Archives[a]))
  BY HistoryAssumption
<1>2. PICK S : S = ToSet(Archives[a])
  OBVIOUS
<1>3. Archives[a] \in Seq(S) /\ S \subseteq Events
  BY <1>1, <1>2 DEF Events
<1>4. Len(Archives[a]) \in Nat /\ DOMAIN Archives[a] = 1 .. Len(Archives[a])
  BY <1>3
<1>5. \A k \in 1 .. Len(Archives[a]) : Archives[a][k] \in Events
  BY <1>3
<1> QED
  BY <1>4, <1>5 DEF IsExport

LEMMA ImportSteps ==
  ASSUME World, NEW a \in library.exports, Import(a)
  PROVE  Step
<1>1. a \in DOMAIN Archives
  BY HistoryAssumption DEF World
<1>2. Sane(cat, log, hooks, era)
  BY DEF World
<1>3. Advances(cat, Imported(cat, Archives[a]), log, hooks, era)
  BY <1>1, <1>2, ArchiveIsExport, ImportedAdvances
<1>4. cat' = Imported(cat, Archives[a]) /\ UNCHANGED <<log, mail, hooks, era, library>>
  BY DEF Import
<1>5. Advances(cat, cat', log, hooks, era)
  BY <1>3, <1>4
<1> QED
  BY <1>4, <1>5, CatalogSteps

-------------------------------------------------------------------------------
(* The theorems.                                                              *)

LEMMA InitWorld ==
  ASSUME HistoryInit
  PROVE  World
<1>1. PICK c : c = EmptyCatalog
  OBVIOUS
<1>2. /\ cat = c /\ log = [s \in Sources |-> <<>>] /\ mail = {} /\ hooks = {}
      /\ era = [s \in Sources |-> 0] /\ library \in Libraries
  BY <1>1 DEF HistoryInit
<1>3. NoState \in State /\ ~NoState.done /\ "none" \in Labels
  BY DEF NoState, State, Labels
<1>4. /\ c.live = {} /\ c.plays = {} /\ c.avail = {} /\ c.ok
      /\ c.at = [r \in Refs |-> 0] /\ c.heir = [i \in Rows |-> i]
      /\ c.manual = [i \in Rows |-> Unmatched] /\ c.state = [i \in Rows |-> [s \in Sources |-> NoState]]
  BY <1>1 DEF EmptyCatalog
<1>5. c \in HistoryTables
  BY <1>1, <1>3 DEF EmptyCatalog, HistoryTables
<1>6. c \in HistoryCatalog
  BY <1>4, <1>5 DEF HistoryCatalog, TitlesMatched
<1>7. Whole(HistoryCatalog, c)
  BY <1>3, <1>4, <1>6, FS_EmptySet DEF Whole
<1>8. Standing(c)
  BY <1>4, <1>7 DEF Standing, Hung
<1>9. Sane(c, log, hooks, era)
  BY <1>4, <1>8 DEF Sane, PlaysFit, BornApart, Counts
<1>10. Logged(log)
  BY <1>2 DEF Logged
<1>11. Numbered(hooks, era) /\ Pruned(hooks) = hooks /\ mail \subseteq Viewing /\ era \in [Sources -> Nat]
  BY <1>2, FS_EmptySet DEF Numbered, Pruned
<1> QED
  BY <1>2, <1>9, <1>10, <1>11 DEF World, Served

LEMMA NextSteps ==
  ASSUME World, HistoryNext
  PROVE  Step
<1>1. ASSUME NEW r \in Watched, Watch(r) PROVE Step
  BY <1>1, WatchSteps
<1>2. ASSUME NEW r \in Refs, Leaf(r), Persist(r) PROVE Step
  BY <1>2, PersistSteps
<1>3. ASSUME NEW r \in Refs, Disappear(r) PROVE Step
  BY <1>3, DisappearSteps
<1>4. ASSUME NEW w \in mail, Webhook(w) PROVE Step
  BY <1>4, WebhookSteps
<1>5. ASSUME NEW s \in Sources, NEW k \in 1 .. Len(log[s]), HistoryEvent(s, k) PROVE Step
  BY <1>5, HistoryEventSteps
<1>6. ASSUME NEW s \in Sources, DeriveContainers(s) PROVE Step
  BY <1>6, DeriveContainersSteps
<1>7. ASSUME NEW a \in library.exports, Import(a) PROVE Step
  BY <1>7, ImportSteps
<1>8. ASSUME NEW i \in Rows, NEW x \in Matches, Confirm(i, x) PROVE Step
  BY <1>8, ConfirmSteps
<1>9. ASSUME NEW s \in PlexSources, Replace(s) PROVE Step
  BY <1>9, ReplaceSteps
<1> QED
  BY <1>1, <1>2, <1>3, <1>4, <1>5, <1>6, <1>7, <1>8, <1>9 DEF HistoryNext

\* A step that changes nothing.
LEMMA StutterSteps ==
  ASSUME World, UNCHANGED historyVars
  PROVE  Step
<1>1. cat' = cat /\ UNCHANGED <<log, mail, hooks, era, library>>
  BY DEF historyVars, vars
<1>2. Sane(cat, log, hooks, era)
  BY DEF World
<1>3. Advances(cat, cat, log, hooks, era)
  BY <1>2, AdvancesItself
<1>4. Advances(cat, cat', log, hooks, era)
  BY <1>1, <1>3
<1> QED
  BY <1>1, <1>4, CatalogSteps

\* In every state entries and rows hang where they belong, plays are told of apart,
\* counted and known by their identities, and the numbers of webhook rows are used once
\* until a server is replaced: the invariant the theorems below rest on.
THEOREM WorldAlways == HistorySpec => []World
<1>1. HistoryInit => World
  BY InitWorld
<1>2. World /\ [HistoryNext]_historyVars => World'
  BY NextSteps, StutterSteps DEF Step
<1> QED
  BY <1>1, <1>2, PTL DEF HistorySpec

\* Entries, plays and rows hang where they belong, and the season and show a server lists
\* an episode under are those of its row, unless others were merged into it
\* (_ensure_hierarchy, _merge_hierarchy).
THEOREM HierarchyAlwaysAgrees == HistorySpec => []HierarchyAgrees
<1>1. ASSUME World PROVE HierarchyAgrees
  <2>1. Standing(cat)
    BY <1>1 DEF World, Sane
  <2>2. \A r \in Refs : cat.at[r] \in cat.live \cup {0} /\ (r \in cat.avail => cat.at[r] # 0)
    BY <2>1, StandingTypes
  <2>3. \A p \in cat.plays : p.row \in cat.live
    BY <2>1, StandingTypes
  <2>4. \A i \in cat.live : Kind[i] \in {"season", "episode"} => cat.parent[i] \in cat.live
    BY <2>1, StandingTypes DEF Rooted
  <2>5. \A r \in Refs : Hung(cat, r)
    BY <2>1 DEF Standing
  <2> QED
    BY <2>2, <2>3, <2>4, <2>5 DEF HierarchyAgrees, Hung, Bound, Alone, Single
<1> QED
  BY <1>1, WorldAlways, PTL

\* Pages, histories and webhooks that tell of one play leave one play, whatever the order
\* and the server they come from (persist_event).
THEOREM PlaysAlwaysOnce == HistorySpec => []PlaysOnce
<1>1. ASSUME World PROVE PlaysOnce
  <2>1. Standing(cat) /\ BornApart(cat)
    BY <1>1 DEF World, Sane
  <2>2. ASSUME NEW p \in cat.plays, NEW q \in cat.plays PROVE Apart(p.time, q.time) \in Nat
    <3>1. cat.plays \in SUBSET PlayRecord
      BY <2>1, StandingTables
    <3>2. p.time \in Nat /\ q.time \in Nat
      BY <3>1 DEF PlayRecord
    <3> QED
      BY <3>2 DEF Apart
  <2>3. \A p, q \in cat.plays : p.moved \in BOOLEAN /\ q.moved \in BOOLEAN
    BY <2>1, StandingTables DEF PlayRecord
  <2> QED
    BY <2>1, <2>2, <2>3, HistoryAssumption DEF BornApart, PlaysOnce
<1> QED
  BY <1>1, WorldAlways, PTL

\* A title with plays of a server is completed on that server, at least as often and as
\* late as the plays it got itself, whoever told of them, until the server is replaced
\* (_apply_event_to_watch_state, _sync_watch_state, _refresh_watch_state).
THEOREM PlaysAlwaysCounted == HistorySpec => []PlaysCounted
<1>1. ASSUME World PROVE PlaysCounted
  <2>1. Counts(cat, era)
    BY <1>1 DEF World, Sane
  <2>2. ASSUME NEW p \in cat.plays, era[p.source] = 0, ~p.moved
        PROVE  LET state == cat.state[p.row][p.source]
               IN  /\ state.done /\ state.last >= p.time
                   /\ state.views >= Cardinality({q \in PlaysOf(cat, p.row, p.source) : q.born = p.row})
    BY <2>1, <2>2 DEF Counts, CountedIn, Own
  <2> QED
    BY <2>2 DEF PlaysCounted
<1> QED
  BY <1>1, WorldAlways, PTL

\* A play stays in the history, with its time, on the row that took its own, as long as
\* no number of a webhook row is given out again after a server was replaced
\* (persist_event, _merge_item, apply_server_identity).
THEOREM PlaysAlwaysStay == HistorySpec => PlaysStay
<1>1. ASSUME World, [HistoryNext]_historyVars
      PROVE  \A p \in cat.plays :
                \/ [p EXCEPT !.row = cat'.heir[@]] \in cat'.plays
                \/ p.id[1] = "webhook" /\ \E s \in Sources : era[s] > 0
  <2>1. Passes(cat, cat', era)
    BY <1>1, NextSteps, StutterSteps DEF Step
  <2>2. era \in [Sources -> Nat]
    BY <1>1 DEF World, Served
  <2>3. ~Fresh(era) => \E s \in Sources : era[s] > 0
    BY <2>2 DEF Fresh
  <2>4. ASSUME NEW p \in cat.plays
        PROVE  MovedTo(p, cat'.heir[p.row]) = [p EXCEPT !.row = cat'.heir[@]]
    BY DEF MovedTo
  <2> QED
    BY <2>1, <2>3, <2>4 DEF Passes, Reused
<1> QED
  BY <1>1, WorldAlways, PTL DEF HistorySpec, PlaysStay

\* After a run nothing claims a season or show finished of which the server shows an
\* episode that it has not seen finished (rebuild_container_watch_states).
THEOREM ContainersAlwaysHonest == HistorySpec => ContainersHonest
<1>1. ASSUME World
      PROVE  \A s \in Sources : (\E i \in cat.live : Overclaimed(cat', i, s)) => ~DeriveContainers(s)
  BY <1>1, DerivedHonest
<1> QED
  BY <1>1, WorldAlways, PTL DEF HistorySpec, ContainersHonest
===============================================================================
