-------------------------- MODULE CatalogPlacement --------------------------
(* Where an entry of a server goes in the catalog (sync/persistence.py): the  *)
(* row it already has, a row another server brought, or a new one, and under  *)
(* which season and show.  Operators over the catalog of CatalogMerge, to     *)
(* which a label of each row and what was last reported of an entry are added.*)
(* Albums and artists, which take the same path without identifiers, are left *)
(* out.                                                                       *)
EXTENDS CatalogMerge, SequencesExt, TLC

CONSTANTS
    Level,   \* entry -> "movie", "show", "season" or "episode"
    Spot,    \* entry -> <<season, episode>> numbers
    Label    \* entry -> its normalized title (and year); of a season, none

EmptyCatalog ==
    [live |-> {}, parent |-> [i \in Rows |-> 0], ids |-> [i \in Rows |-> {}],
     manual |-> [i \in Rows |-> Unmatched], at |-> [r \in Refs |-> 0], avail |-> {},
     files |-> [r \in Refs |-> {}], plays |-> {}, now |-> 0,
     state |-> [i \in Rows |-> [s \in Sources |-> NoState]], heir |-> [i \in Rows |-> i],
     label |-> [i \in Rows |-> "none"], told |-> [r \in Refs |-> <<>>], ok |-> TRUE]

Refused(c) == [c EXCEPT !.ok = FALSE]

SeasonOf(r) == CHOOSE q \in Above[r] : Level[q] = "season"
ShowOf(r) == CHOOSE q \in Above[r] : Level[q] = "show"
NumberOf(r) == CASE Level[r] = "season" -> Spot[r][1] [] Level[r] = "episode" -> Spot[r][2]
                 [] OTHER -> 0
SourcesOf(c, i) == {Source[q] : q \in RefsOf(c, i)}
ElsewhereToo(c, r, i) == SourcesOf(c, i) \ {Source[r]} # {}
ShownElsewhere(c, r, i) == LiveSources(c, i) \ {Source[r]} # {}
Only(S) == IF Cardinality(S) = 1 THEN Min(S) ELSE 0
ShowAbove(c, i) == IF c.parent[i] = 0 THEN 0 ELSE c.parent[c.parent[i]]

\* Ids are given in the order of creation.  Rows is a bound: it holds rows of every kind and
\* number, and what would need one more of them is refused.
Free(c, kind, number) == {j \in Rows \ c.live : c.heir[j] = j /\ Kind[j] = kind /\ Number[j] = number}
Opened(c, i, above, label) == [c EXCEPT !.live = @ \cup {i}, !.parent[i] = above, !.label[i] = label]
Created(c, kind, number, above, label) ==
    LET free == Free(c, kind, number)
    IN  IF free = {} THEN [row |-> 0, cat |-> Refused(c)]
        ELSE [row |-> Min(free), cat |-> Opened(c, Min(free), above, label)]

Attached(c, r, i) == [c EXCEPT !.at[r] = i, !.avail = @ \cup {r}]
AttachedTo(new, r) == Attached(new.cat, r, new.row)

-------------------------------------------------------------------------------
(* Matching an entry that has no row.                                           *)

\* _episode_hierarchy_is_compatible
Compatible(c, r, i) ==
    /\ c.parent[i] # 0 /\ Number[c.parent[i]] = Spot[r][1]
    /\ c.at[ShowOf(r)] \in {0, ShowAbove(c, i)}
    /\ c.at[SeasonOf(r)] \in {0, c.parent[i]}
Fitting(c, r, i) == IF i # 0 /\ Level[r] = "episode" /\ ~Compatible(c, r, i) THEN 0 ELSE i

\* faulty: the hierarchies are not compared
ByFileAnyPlace(c, r, files) ==
    Only({i \in c.live : Kind[i] = Level[r] /\ \E q \in RefsOf(c, i) \cap c.avail :
                             Source[q] # Source[r] /\ c.files[q] \cap files # {}})
\* _match_by_physical_path
ByFile(c, r, files) ==
    Fitting(c, r, Only({i \in c.live : Kind[i] = Level[r] /\ \E q \in RefsOf(c, i) \cap c.avail :
                             Source[q] # Source[r] /\ c.files[q] \cap files # {}}))

\* An entry without identifiers of any row: its number under a row of its season, or under
\* a show with the label of its show; the label of a movie.
ByPlace(c, r) ==
    LET number(i) == Kind[i] = "episode" /\ c.parent[i] # 0 /\ Number[i] = Spot[r][2]
                     /\ Number[c.parent[i]] = Spot[r][1]
    IN  CASE Level[r] = "movie" ->
                Only({i \in c.live : Kind[i] = "movie" /\ c.label[i] = Label[r] /\ ElsewhereToo(c, r, i)})
          [] Level[r] = "episode" /\ c.at[SeasonOf(r)] # 0 ->
                Only({i \in Children(c, c.at[SeasonOf(r)]) : number(i) /\ ElsewhereToo(c, r, i)})
          [] OTHER ->
                Only({i \in c.live : /\ number(i) /\ ShowAbove(c, i) # 0
                                     /\ c.label[ShowAbove(c, i)] = Label[ShowOf(r)]
                                     /\ ShownElsewhere(c, r, i)})

\* Identifiers of an entry on rows it may share; an episode never takes a row of its own server.
Hits(c, r, ids) ==
    {i \in c.live : /\ Kind[i] = Level[r] /\ c.ids[i] \cap ids # {}
                    /\ Level[r] = "episode" => Source[r] \notin SourcesOf(c, i)}
\* _match_by_identifiers, but for the refusal of an ambiguous movie
ById(c, r, ids) ==
    IF Hits(c, r, ids) = {} THEN ByPlace(c, r) ELSE Fitting(c, r, Only(Hits(c, r, ids)))

\* _physical_evidence_disagrees
Disagrees(c, r, files, i) ==
    LET known == UNION {c.files[q] : q \in {p \in RefsOf(c, i) \cap c.avail : Source[p] # Source[r]}}
    IN  files # {} /\ known # {} /\ files \cap known = {}

\* The row another server brought: by file, else by identifier, unless the files disagree.
Either(i, j) == IF i # 0 THEN i ELSE j
Undisputed(c, r, files, i) == IF i = 0 \/ Disagrees(c, r, files, i) THEN 0 ELSE i
Twin(c, r, t) ==
    IF c.at[r] # 0 THEN 0
    ELSE Undisputed(c, r, t.files, Either(ByFile(c, r, t.files), ById(c, r, t.ids)))
Ambiguous(c, r, t) ==
    /\ c.at[r] = 0 /\ Level[r] = "movie"
    /\ ByFile(c, r, t.files) = 0 /\ Cardinality(Hits(c, r, t.ids)) > 1

-------------------------------------------------------------------------------
(* The season and the show of an episode.                                       *)

\* _bind_existing_container
Bind(c, q, i) == IF c.at[q] \in {0, i} THEN Attached(c, q, i) ELSE Refused(c)

\* _bind_existing_episode_hierarchy: those of the row an episode was matched to.
BindAbove(c, r, i) ==
    LET season == c.parent[i]
        show == ShowAbove(c, i)
        named == IF MayUpdate(c, r, show) THEN [c EXCEPT !.label[show] = Label[ShowOf(r)]] ELSE c
        bound == Bind(named, ShowOf(r), show)
    IN  IF show = 0 \/ Number[season] # Spot[r][1] THEN Refused(c)
        ELSE IF bound.ok THEN Bind(bound, SeasonOf(r), season) ELSE bound

\* faulty: a season is looked for under every show
PastAnywhere(c, q, above) ==
    {i \in c.live : /\ Kind[i] = Level[q]
                    /\ IF Level[q] = "show" THEN c.label[i] = Label[q] ELSE Number[i] = NumberOf(q)}
\* Containers that entries or imports left behind.
Past(c, q, above) ==
    {i \in c.live : /\ Kind[i] = Level[q] /\ c.parent[i] = above
                    /\ IF Level[q] = "show" THEN c.label[i] = Label[q] ELSE Number[i] = NumberOf(q)}

\* _match_container_by_identifiers, then _match_historical_container: a set of one row, of
\* none, or of several where the code raises.
Containers(c, q, above, ids) ==
    LET hits == {i \in c.live : Kind[i] = Level[q] /\ c.ids[i] \cap ids # {}}
        named == IF Cardinality(hits) > 1 THEN {i \in hits : c.label[i] = Label[q]} ELSE hits
        past == Past(c, q, above)
        owned == {i \in past : Source[q] \in SourcesOf(c, i)}
    IN  IF named # {} THEN named
        ELSE IF Cardinality(past) > 1 /\ Cardinality(owned) = 1 THEN owned ELSE past

\* _ensure_container: the row it has, the one found, or a new one; it learns identifiers.
EnsureRow(c, q, above, found) ==
    IF c.at[q] # 0 THEN IF c.parent[c.at[q]] # above THEN Refused(c) ELSE Attached(c, q, c.at[q])
    ELSE IF Cardinality(found) > 1 THEN Refused(c)
    ELSE IF found # {} THEN Bind(c, q, Min(found))
    ELSE AttachedTo(Created(c, Level[q], NumberOf(q), above, Label[q]), q)
Learns(c, q, ids) == IF c.ok THEN Identified(c, q, c.at[q], ids) ELSE c
Ensure(c, q, above, ids) ==
    IF c.ok THEN Learns(EnsureRow(c, q, above, Containers(c, q, above, ids)), q, ids) ELSE c

EnsureSeason(c, r) == IF c.ok THEN Ensure(c, SeasonOf(r), c.at[ShowOf(r)], {}) ELSE c
EnsureAbove(c, r, ids) == EnsureSeason(Ensure(c, ShowOf(r), 0, ids), r)

\* _sync_show_metadata: a Plex page brings the title of the show.
ShowNamed(c, r) ==
    LET show == c.at[ShowOf(r)]
    IN  IF c.ok /\ Source[r] \in PlexSources /\ MayUpdate(c, r, show)
        THEN [c EXCEPT !.label[show] = Label[ShowOf(r)]] ELSE c

Hierarchy(c, r, t, twin) ==
    IF Level[r] = "movie" THEN c
    ELSE ShowNamed(IF twin # 0 THEN BindAbove(c, r, twin) ELSE EnsureAbove(c, r, t.show), r)

-------------------------------------------------------------------------------
AboveRow(c, r) == IF Level[r] = "movie" THEN 0 ELSE c.at[SeasonOf(r)]

\* _apply_media, of a source that may update the row
Described(c, r, i) ==
    IF MayUpdate(c, r, i) THEN [c EXCEPT !.parent[i] = AboveRow(c, r), !.label[i] = Label[r]] ELSE c

\* persist_media up to the playback: t tells the identifiers, those of the show, the files
\* and what else was reported.
Seated(c, r, t, twin) ==
    IF c.at[r] # 0 THEN IF c.told[r] = t THEN c ELSE Described(c, r, c.at[r])
    ELSE IF twin # 0 THEN Attached(Described(c, r, twin), r, twin)
    ELSE AttachedTo(Created(c, Level[r], NumberOf(r), AboveRow(c, r), Label[r]), r)
Noted(c, r, t) ==
    [c EXCEPT !.avail = @ \cup {r}, !.told[r] = t, !.files[r] = IF t.files = {} THEN @ ELSE t.files]
PlacedBelow(c, r, t, twin) ==
    IF c.ok THEN Learns(Noted(Seated(c, r, t, twin), r, t), r, t.ids) ELSE c
PlacedBeside(c, r, t, twin) == PlacedBelow(Hierarchy(c, r, t, twin), r, t, twin)
Placed(c, r, t) ==
    IF Ambiguous(c, r, t) THEN Refused(c) ELSE PlacedBeside(c, r, t, Twin(c, r, t))
===============================================================================
