----------------------------- MODULE CatalogMerge -----------------------------
(* Reconciliation of duplicate catalog rows (sync/catalog_reconcile.py), by the *)
(* job, after an item of a page was persisted (sync/orchestrator.py) and after  *)
(* a confirmed match (sync/manual_match.py).                                    *)
(*                                                                              *)
(* Each of them is one transaction over the catalog: the operators below take a *)
(* catalog and return the next one, the actions say when.  Titles, genres,      *)
(* images and enrichment records travel with their row and are left out.        *)
EXTENDS Naturals, FiniteSets, FiniteSetsExt, Folds

CONSTANTS
    Rows,        \* media_items ids: positive numbers, a lower one is older
    Kind,        \* row -> "movie", "show", "season" or "episode"
    Number,      \* row -> season or episode number (0: a movie, a show)
    FirstParent, \* row -> the row above it, 0 at the top
    FirstIds,    \* row -> its identifiers, <<provider, value>>
    Token,       \* row -> identifiers written in its title
    Refs,        \* entries of the servers' libraries
    Source,      \* entry -> the source it comes from
    PlexSources, \* the sources that are Plex servers
    FirstAt,     \* entry -> the row it is attached to
    Above,       \* entry -> the entries of its season and show on the server
    FirstFiles,  \* entry -> its files known at the start
    Files,       \* entry -> the sets of files a page may report for it
    Reports,     \* entry -> the sets of identifiers a page may report, of its movie or its show
    FirstSeen,   \* entries available at the start
    Watched,     \* bound: entries that are played
    Matches,     \* identifiers a user may confirm
    MaxPlays,    \* bound: plays and resume positions recorded
    MaxChanges   \* bound: pages, losses and matches

Unmatched == <<"tmdb", 0>>
Levels == {"movie", "show", "season", "episode"}
Sources == {Source[r] : r \in Refs}
Identifiers ==
    Matches \cup UNION ({FirstIds[i] : i \in Rows} \cup {Token[i] : i \in Rows}
                       \cup UNION {Reports[r] : r \in Refs})
Paths == UNION ({FirstFiles[r] : r \in Refs} \cup UNION {Files[r] : r \in Refs})

ASSUME RowsAssumption ==
    /\ Rows \subseteq Nat \ {0} /\ IsFiniteSet(Rows) /\ Kind \in [Rows -> Levels]
    /\ FirstParent \in [Rows -> Rows \cup {0}] /\ FirstAt \in [Refs -> Rows \cup {0}]
    /\ FirstIds \in [Rows -> SUBSET Identifiers] /\ FirstFiles \in [Refs -> SUBSET Paths]
    /\ FirstSeen \subseteq Refs /\ Watched \subseteq Refs /\ \A r \in Refs : Above[r] \subseteq Refs
    /\ Unmatched \notin Matches /\ MaxChanges \in Nat

Stable == {"tmdb", "tvdb"}
NoState == [row |-> FALSE, done |-> FALSE, views |-> 0, pos |-> 0, last |-> 0]

\* A tree in which every entry has its row: what the tables hold when nothing is wrong.
FirstTree ==
    /\ FirstAt \in [Refs -> Rows]
    /\ \A i \in Rows :
          CASE Kind[i] = "season" -> FirstParent[i] \in Rows /\ Kind[FirstParent[i]] = "show"
            [] Kind[i] = "episode" -> FirstParent[i] \in Rows /\ Kind[FirstParent[i]] = "season"
            [] OTHER -> FirstParent[i] = 0
\* A server lists an episode under a season and a show of its own, which hang together as
\* the rows do and are shown while an episode below them is.
FirstShelves ==
    /\ \A r \in Refs : \A q \in Above[r] :
          /\ Kind[FirstAt[r]] = "episode" /\ Source[q] = Source[r]
          /\ FirstAt[q] \in {FirstParent[FirstAt[r]], FirstParent[FirstParent[FirstAt[r]]]}
    /\ \A r \in Refs : Kind[FirstAt[r]] = "episode" => \E q \in Above[r] : Kind[FirstAt[q]] = "show"
    /\ \A r \in FirstSeen : Above[r] \subseteq FirstSeen
    /\ \A q \in FirstSeen : Kind[FirstAt[q]] = "season" => \E r \in FirstSeen : q \in Above[r]

VARIABLES
    cat,     \* the catalog tables
    changes

vars == <<cat, changes>>

FirstCatalog ==
    [live |-> Rows,                                         \* media_items
     parent |-> FirstParent,
     ids |-> FirstIds,                                      \* media_identifiers
     manual |-> [i \in Rows |-> Unmatched],                 \* manual_match_tmdb_id
     at |-> FirstAt, avail |-> FirstSeen,                   \* source_media_refs
     files |-> FirstFiles,                                  \* media_file_paths
     plays |-> {},                                          \* watch_events
     now |-> 0,
     state |-> [i \in Rows |-> [s \in Sources |-> NoState]], \* watch_states
     heir |-> [i \in Rows |-> i]]           \* the row that took what i had (history)

-------------------------------------------------------------------------------
(* What the catalog says of rows.                                               *)

RefsOf(c, i) == {r \in Refs : c.at[r] = i}
LiveSources(c, i) == {Source[r] : r \in RefsOf(c, i) \cap c.avail}
KnownFiles(c, i) == UNION {c.files[r] : r \in RefsOf(c, i) \cap c.avail}
Children(c, p) == {i \in c.live : c.parent[i] = p}
StableIds(c, i) == {x \in c.ids[i] : x[1] \in Stable}
\* A loop over a set, that takes the elements in ascending order.
InOrder(op(_, _), c, last(_), S) == MapThenFoldSet(LAMBDA e, d : op(d, e), c, LAMBDA e : e, last, S)
Prefer(S, T) == IF S \cap T = {} THEN S ELSE S \cap T

Contradict(c, i, j) ==
    /\ KnownFiles(c, i) # {} /\ KnownFiles(c, j) # {}
    /\ KnownFiles(c, i) \cap KnownFiles(c, j) = {}

EpisodeRefs(c, show, s) ==
    {r \in c.avail : /\ Source[r] = s /\ Kind[c.at[r]] = "episode"
                     /\ c.parent[c.at[r]] # 0
                     /\ c.parent[c.parent[c.at[r]]] = show}
Mapped(c, show, s) ==
    EpisodeRefs(c, show, s) # {} /\ \A r \in EpisodeRefs(c, show, s) : c.files[r] # {}
EpisodeFiles(c, show, s) == UNION {c.files[r] : r \in EpisodeRefs(c, show, s)}

\* Two shows of one server: another source has all their files under one show.
Anchored(c, G, s) ==
    /\ Cardinality(G) = 2
    /\ \A show \in G : Mapped(c, show, s)
    /\ \E t \in Sources \ {s}, show \in G :
          /\ {i \in G : EpisodeRefs(c, i, t) # {}} = {show}
          /\ Mapped(c, show, t)
          /\ UNION {EpisodeFiles(c, i, s) : i \in G} \subseteq EpisodeFiles(c, show, t)

\* faulty: an available entry of each row is no obstacle
SafeSourcesLoose(c, G, physical) ==
    /\ Cardinality({c.manual[i] : i \in G} \ {Unmatched}) <= 1
    /\ \E i \in G : RefsOf(c, i) # {}

\* faulty: files are not compared
SafeSourcesBlind(c, G, physical) ==
    /\ \E i \in G : RefsOf(c, i) # {}
    /\ \A s \in Sources :
          \/ Cardinality({i \in G : s \in LiveSources(c, i)}) <= 1
          \/ physical /\ (\A i \in G : Kind[i] = "show") /\ Anchored(c, G, s)

\* _safe_sources: at most one confirmed match, no contradicting files of a movie,
\* and no source that shows two of the rows at once.
SafeSources(c, G, physical) ==
    /\ Cardinality({c.manual[i] : i \in G} \ {Unmatched}) <= 1
    /\ (\A i \in G : Kind[i] = "movie") => \A i, j \in G : ~Contradict(c, i, j)
    /\ \E i \in G : RefsOf(c, i) # {}
    /\ \A s \in Sources :
          \/ Cardinality({i \in G : s \in LiveSources(c, i)}) <= 1
          \/ physical /\ (\A i \in G : Kind[i] = "show") /\ Anchored(c, G, s)

\* faulty: the row Plex shows wins over a confirmed match
CanonicalShown(c, G) ==
    Min(Prefer(G, {i \in G : LiveSources(c, i) \cap PlexSources # {}}))

\* _canonical: a confirmed match, then an entry Plex shows, then one it had, then age.
Canonical(c, G) ==
    LET matched == {i \in G : c.manual[i] # Unmatched}
        shown == {i \in G : LiveSources(c, i) \cap PlexSources # {}}
        had == {i \in G : \E r \in RefsOf(c, i) : Source[r] \in PlexSources}
    IN  Min(Prefer(Prefer(Prefer(G, matched), shown), had))

-------------------------------------------------------------------------------
(* Merging one row into another.                                                *)

\* faulty: a merged state says what the winner's said
MergedStateWinner(w, l) == IF w.row THEN w ELSE l
\* _merge_watch_states: a completion of either; the winner's resume position.
MergedState(w, l) ==
    IF ~l.row THEN w ELSE IF ~w.row THEN l
    ELSE [w EXCEPT !.done = @ \/ l.done, !.views = Max({@, l.views}), !.last = Max({@, l.last})]

\* Identifiers the winner contradicts are dropped, all of them after a match.
MergedIds(c, w, l) ==
    IF c.manual[w] # Unmatched THEN c.ids[w]
    ELSE c.ids[w] \cup {x \in c.ids[l] :
            ~(x[1] \in Stable /\ \E y \in c.ids[w] : y[1] = x[1] /\ y[2] # x[2])}

\* faulty: plays stay with the row that is deleted, and go with it
MovedPlaysNone(c, w, l) == {p \in c.plays : p.row # l}
MovedPlays(c, w, l) == {IF p.row = l THEN [p EXCEPT !.row = w] ELSE p : p \in c.plays}

\* faulty: only the available entries follow
MovedRefsShown(c, w, l) ==
    [r \in Refs |-> IF c.at[r] = l /\ r \in c.avail THEN w ELSE c.at[r]]
MovedRefs(c, w, l) == [r \in Refs |-> IF c.at[r] = l THEN w ELSE c.at[r]]

\* _merge_item: everything of the loser moves, and the loser is deleted.
MergeItem(c, w, l) ==
    [c EXCEPT !.live = @ \ {l},
              !.ids = [@ EXCEPT ![w] = MergedIds(c, w, l), ![l] = {}],
              !.at = MovedRefs(c, w, l),
              !.parent = [i \in Rows |-> IF i = l THEN 0 ELSE IF @[i] = l THEN w ELSE @[i]],
              !.manual = [@ EXCEPT ![l] = Unmatched],
              !.heir = [i \in Rows |-> IF @[i] = l THEN w ELSE @[i]],
              !.plays = MovedPlays(c, w, l),
              !.state = [c.state EXCEPT ![w] = [s \in Sources |-> MergedState(c.state[w][s], c.state[l][s])],
                                        ![l] = [s \in Sources |-> NoState]]]

\* The episode of season w that an episode e stands for: by identifier, else by a
\* file another source also has, else by its number when either has no identifier.
Counterparts(c, w, e) ==
    LET byId == {i \in Children(c, w) : c.ids[i] \cap c.ids[e] # {}}
        byFile == {i \in Children(c, w) :
                     /\ Number[i] = Number[e] /\ Number[c.parent[e]] = Number[w]
                     /\ \E r \in RefsOf(c, i) \cap c.avail, q \in RefsOf(c, e) \cap c.avail :
                           Source[r] # Source[q] /\ c.files[r] \cap c.files[q] # {}}
        numbered == {i \in Children(c, w) : Kind[i] = "episode" /\ Number[i] = Number[e]}
        byNumber == {i \in numbered : /\ Cardinality(numbered) = 1
                                      /\ StableIds(c, i) = {} \/ StableIds(c, e) = {}}
    IN  IF byId # {} THEN byId ELSE IF byFile # {} THEN byFile ELSE byNumber

AdoptEpisode(c, w, e) ==
    LET match == Counterparts(c, w, e)
    IN  IF Cardinality(match) = 1 /\ SafeSources(c, match \cup {e}, FALSE)
        THEN MergeItem(c, Min(match), e)
        ELSE [c EXCEPT !.parent[e] = w]

\* _merge_season
MergeSeason(c, w, l) ==
    InOrder(LAMBDA d, e : AdoptEpisode(d, w, e), c, Max,
            {e \in Children(c, l) : Kind[e] = "episode"})

AdoptSeason(c, w, season) ==
    LET same == {i \in Children(c, w) : Kind[i] = "season" /\ Number[i] = Number[season]}
    IN  IF same = {} THEN [c EXCEPT !.parent[season] = w]
        ELSE IF Cardinality(same) > 1 THEN c
        ELSE MergeItem(MergeSeason(c, Min(same), season), Min(same), season)

\* _merge_hierarchy, then _merge_item
MergeTitle(c, w, l) ==
    LET seasons == IF Kind[w] # "show" THEN {} ELSE {i \in Children(c, l) : Kind[i] = "season"}
    IN  MergeItem(InOrder(LAMBDA d, i : AdoptSeason(d, w, i), c, Max, seasons), w, l)

MergeInto(c, w, G) == InOrder(LAMBDA d, l : MergeTitle(d, w, l), c, Max, G \ {w})

\* A group that is safe is merged into its canonical row.
MergeGroup(c, G, physical) ==
    LET here == G \cap c.live
    IN  IF Cardinality(here) < 2 \/ ~SafeSources(c, here, physical) THEN c
        ELSE MergeInto(c, Canonical(c, here), here)

\* Groups are taken as the sorted tuples of their ids compare.
Before(G, H) ==
    LET first == Min(SymDiff(G, H))
    IN  IF first \in G THEN \E i \in H : i > first ELSE \A i \in G : i < first
LastGroup(groups) == CHOOSE G \in groups : \A H \in groups \ {G} : Before(H, G)

MergeGroups(c, groups, physical) ==
    InOrder(LAMBDA d, G : MergeGroup(d, G, physical), c, LastGroup, groups)

-------------------------------------------------------------------------------
(* The groups.                                                                  *)

Titles(c) == {i \in c.live : Kind[i] \in {"movie", "show"}}

\* _physical_groups: titles with a file in common, as two sources report it, for a
\* movie or for one episode.
TitleOf(c, i) == IF Kind[i] = "movie" THEN i
                 ELSE IF c.parent[i] = 0 THEN 0 ELSE c.parent[c.parent[i]]
Playable(c) == {r \in c.avail : Kind[c.at[r]] \in {"movie", "episode"}}
Place(c, i) == IF Kind[i] = "movie" THEN <<0, 0>> ELSE <<Number[c.parent[i]], Number[i]>>
PhysicalGroups(c, files) ==
    LET having(f, k, place) == {r \in Playable(c) : /\ f \in c.files[r]
                                                    /\ Kind[c.at[r]] = k
                                                    /\ Place(c, c.at[r]) = place}
        groups == {having(f, Kind[c.at[r]], Place(c, c.at[r])) : f \in files, r \in Playable(c)}
        shared == {S \in groups : Cardinality({Source[r] : r \in S}) > 1}
    IN  {G \in {{TitleOf(c, c.at[r]) : r \in S} \ {0} : S \in shared} : Cardinality(G) > 1}

\* _duplicate_groups: rows of one kind joined by stable identifiers, transitively.
SharesId(c, i, j) == Kind[i] = Kind[j] /\ StableIds(c, i) \cap StableIds(c, j) # {}
DuplicateGroups(c) ==
    LET near(S) == S \cup {j \in Titles(c) : \E i \in S : SharesId(c, i, j)}
        joined(i) == InOrder(LAMBDA S, j : near(S), {i}, Max, Titles(c)) \* once for each title
    IN  {G \in {joined(i) : i \in Titles(c)} : Cardinality(G) > 1}

\* _recover_embedded_identifiers: a title's own token, unless the row has others.
Recovered(c) ==
    LET token(i) == IF i \notin Titles(c) \/ c.manual[i] # Unmatched THEN {} ELSE Token[i]
        free(i) == StableIds(c, i) = {}
    IN  [c EXCEPT !.ids = [i \in Rows |-> IF free(i) THEN @[i] \cup token(i) ELSE @[i]]]

\* reconcile_catalog, when it is not a dry run (a dry run leaves nothing behind).
Reconciled(c) ==
    LET known == Recovered(c)
        physical == PhysicalGroups(known, UNION {known.files[r] : r \in Refs})
        other == DuplicateGroups(known) \ physical
    IN  MergeGroups(MergeGroups(known, physical, TRUE), other, FALSE)

\* reconcile_physical_item
RepairedByFile(c, i) ==
    MergeGroups(c, PhysicalGroups(c, UNION {c.files[r] : r \in RefsOf(c, i)}), TRUE)

\* reconcile_matching_items: the rows that have one of the incoming identifiers.
RepairedById(c, kind, ids, chosen) ==
    LET G == {i \in c.live : Kind[i] = kind /\ StableIds(c, i) \cap ids # {}}
    IN  IF Cardinality(G) < 2 \/ ~SafeSources(c, G, FALSE) THEN c
        ELSE MergeInto(c, IF chosen \in G THEN chosen ELSE Canonical(c, G), G)

-------------------------------------------------------------------------------
(* What the sources and the user bring.                                         *)

\* _canonical_source_may_update
MayUpdate(c, r, i) ==
    /\ c.manual[i] = Unmatched
    /\ \/ Source[r] \in PlexSources
       \/ \A q \in RefsOf(c, i) : Source[q] \notin PlexSources

\* _sync_identifier_values: a contradiction is settled by who may update the row.
Identified(c, r, i, new) ==
    LET clash(x) == {y \in c.ids[i] : y[1] = x[1] /\ y[2] # x[2]}
        taken == {x \in new : clash(x) = {} \/ MayUpdate(c, r, i)}
    IN  IF c.manual[i] # Unmatched THEN c
        ELSE [c EXCEPT !.ids[i] = (@ \ UNION {clash(x) : x \in taken}) \cup taken]

\* A page persists an entry, available from then on, and repairs what it implicates;
\* an identity already repaired in the run is not looked at again (once).
Collected(c, r, new, files, once) ==
    LET title == TitleOf(c, c.at[r])
        seen == [Identified(c, r, title, new) EXCEPT
                    !.avail = @ \cup {r} \cup Above[r],
                    !.files[r] = IF files = {} THEN @ ELSE files]
        mended == IF files = {} THEN seen ELSE RepairedByFile(seen, seen.at[r])
    IN  IF once \/ new = {} THEN mended ELSE RepairedById(mended, Kind[title], new, 0)

\* apply_manual_match: the confirmed identity replaces every other.
Matched(c, i, x) ==
    RepairedById([c EXCEPT !.manual[i] = x, !.ids[i] = {x}], Kind[i], {x}, i)

Viewed(old, count) == Max({old, count})

\* persist_event: a play is history and completes the state of its row.
Played(c, r) ==
    LET i == c.at[r]
        s == Source[r]
        time == c.now + 1
        plays == c.plays \cup {[row |-> i, source |-> s, time |-> time]}
        count == Cardinality({p \in plays : p.row = i /\ p.source = s})
    IN  [c EXCEPT !.plays = plays, !.now = time,
                  !.state[i][s] = [row |-> TRUE, done |-> TRUE, pos |-> 0, last |-> time,
                                   views |-> Viewed(@.views, count)]]

\* A resume position; it leaves a completion as it is.
Progressed(c, r) ==
    [c EXCEPT !.now = @ + 1,
              !.state[c.at[r]][Source[r]] = [@ EXCEPT !.row = TRUE, !.pos = 1, !.last = c.now + 1]]

-------------------------------------------------------------------------------
Init == cat = FirstCatalog /\ changes = 0

\* What pages, losses and users bring is bounded; the reconciliation is not.
Change(next) == changes < MaxChanges /\ changes' = changes + 1 /\ cat' = next
Leaves == {r \in Refs : Kind[cat.at[r]] \in {"movie", "episode"}}

Collect(r) ==
    \E new \in Reports[r], files \in Files[r], once \in BOOLEAN :
        Change(Collected(cat, r, new, files, once))

\* The cleanup that follows a full run: an entry no page showed is unavailable, and
\* what was above it, unless another entry below was shown.
Lose(r) ==
    LET left == cat.avail \ {r}
    IN  /\ r \in cat.avail
        /\ Change([cat EXCEPT !.avail = {q \in left :
               q \in Above[r] => \E p \in left : q \in Above[p]}])

Match(i, x) == i \in Titles(cat) /\ Change(Matched(cat, i, x))

Play(r) == cat.now < MaxPlays /\ cat' = Played(cat, r) /\ UNCHANGED changes
Progress(r) == cat.now < MaxPlays /\ cat' = Progressed(cat, r) /\ UNCHANGED changes

Reconcile == cat' = Reconciled(cat) /\ UNCHANGED changes

Next ==
    \/ \E r \in Leaves : Collect(r) \/ Lose(r)
    \/ \E r \in Watched : Play(r) \/ Progress(r)
    \/ \E i \in Rows, x \in Matches : Match(i, x)
    \/ Reconcile

Spec == Init /\ [][Next]_vars

-------------------------------------------------------------------------------
State == [row : BOOLEAN, done : BOOLEAN, views : Nat, pos : Nat, last : Nat]
Catalog ==
    [live : SUBSET Rows, parent : [Rows -> Rows \cup {0}], ids : [Rows -> SUBSET Identifiers],
     manual : [Rows -> Matches \cup {Unmatched}],
     at : [Refs -> Rows], avail : SUBSET Refs, files : [Refs -> SUBSET Paths],
     plays : SUBSET [row : Rows, source : Sources, time : Nat], now : Nat,
     state : [Rows -> [Sources -> State]], heir : [Rows -> Rows]]
TypeOK == cat \in Catalog /\ changes \in 0 .. MaxChanges

\* Nothing hangs from a deleted row: entries, plays and children were moved, to a row
\* of the level they belong to (_merge_item, _merge_hierarchy).
NothingDangles ==
    /\ \A r \in Refs : cat.at[r] \in cat.live
    /\ \A p \in cat.plays : p.row \in cat.live
    /\ \A i \in cat.live : Kind[i] = "season" => cat.parent[i] \in cat.live /\ Kind[cat.parent[i]] = "show"
    /\ \A i \in cat.live : Kind[i] = "episode" => cat.parent[i] \in cat.live /\ Kind[cat.parent[i]] = "season"

\* What a user watched follows the title: a play is never lost nor counted for another
\* title, and a completion known of a server survives every merge (_merge_item moves
\* watch_events, _merge_watch_states joins the states, and the row is deleted last).
HistoryFollows ==
    [][/\ \A p \in cat.plays : [p EXCEPT !.row = cat'.heir[@]] \in cat'.plays
       /\ \A i \in cat.live, s \in Sources :
             cat.state[i][s].done => cat'.state[cat'.heir[i]][s].done]_vars

\* Two entries a server shows at the same time stay two titles and two episodes, but
\* for a show, and its seasons, all of whose files another server holds under one show
\* (_safe_sources, _split_show_has_file_anchor).  Two seasons of one show that have one
\* number become one when the show is merged into another (_merge_hierarchy).
HeldTogether(c, show, s) ==
    Mapped(c, show, s) /\ \E t \in Sources \ {s} : EpisodeFiles(c, show, s) \subseteq EpisodeFiles(c, show, t)
SeasonsOfOne(i, j) == Kind[i] = "season" /\ Number[i] = Number[j] /\ cat.parent[i] = cat.parent[j]
EditionsApart ==
    [][\A r, q \in cat.avail \cap cat'.avail :
          /\ Source[r] = Source[q]
          /\ cat.at[r] # cat.at[q] /\ cat'.at[r] = cat'.at[q]
          /\ ~SeasonsOfOne(cat.at[r], cat.at[q])
          => LET i == cat'.at[r]
             IN  /\ Kind[i] \in {"show", "season"}
                 /\ HeldTogether(cat', IF Kind[i] = "show" THEN i ELSE cat'.parent[i], Source[r])]_vars

\* Movies whose known files, as the step reports them, contradict each other become
\* one only through a third that shares a file with them, whatever identifiers they
\* have in common (_safe_sources).
FilesTell ==
    [][LET told == [cat EXCEPT !.files = cat'.files, !.avail = cat'.avail]
       IN  \A i, j \in Titles(cat) :
              Kind[i] = "movie" /\ Contradict(told, i, j) /\ cat'.heir[i] = cat'.heir[j] =>
                 \E k \in Titles(cat) \ {i, j} :
                    cat'.heir[k] = cat'.heir[i] /\ KnownFiles(told, k) \cap KnownFiles(told, i) # {}]_vars

\* A match the user confirmed stays on the title, with the identity it gave and no
\* other: neither pages nor merges bring the old one back (apply_manual_match).
MatchKept ==
    [][\A i \in cat.live : cat.manual[i] # Unmatched =>
          LET heir == cat'.heir[i]
          IN  cat'.manual[heir] # Unmatched /\ cat'.ids[heir] = {cat'.manual[heir]}]_vars
===============================================================================
