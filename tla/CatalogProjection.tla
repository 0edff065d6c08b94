-------------------------- MODULE CatalogProjection --------------------------
(* The persistent catalog projection (sync/catalog_projection.py) over the rows  *)
(* of CatalogMerge: cards of grouped rows with their playback summary, kept up   *)
(* to date by triggers that say how much of it is out of date (migrations 0024   *)
(* and 0025) and by whoever next reads the catalog (ensure_catalog_projection).  *)
(*                                                                               *)
(* SQLite connections of the program begin a transaction at their first write:   *)
(* what ensure reads is not protected from the commits of others until then.     *)
EXTENDS CatalogMerge

CONSTANTS
    Name,        \* row -> its normalized title and year
    Remapped     \* entries whose files a change of the mount roots renames

\* Movies and episodes are what is played.
ASSUME EntriesAssumption ==
    /\ IsFiniteSet(Refs) /\ Remapped \subseteq Refs
    /\ \A r \in Watched : FirstAt[r] \in Rows => Kind[FirstAt[r]] \in {"movie", "episode"}

Clean == "clean"

VARIABLES
    status,  \* the setting catalog.projection.state
    dirty,   \* catalog_projection_dirty_items
    member,  \* catalog_entry_members: row -> the row of its card
    card,    \* catalog_entries: row -> summary
    job,     \* what an ensure in progress has read
    missed   \* why a clean projection may be out of date (history)

projection == <<status, dirty, member, card>>
projectionVars == <<vars, projection, job, missed>>

NoJob == [mode |-> "none", member |-> <<>>, card |-> <<>>, overtaken |-> FALSE]

-------------------------------------------------------------------------------
(* Grouping (rebuild_catalog_projection).                                       *)

Shown(c) == {i \in c.live : Kind[i] \in {"movie", "show", "episode"}}

\* safe_identity_group: one match, no contradicting files, and no row without an
\* entry or with an available one of a source that shows another of the rows.
SafeGroup(c, G) ==
    \/ Cardinality(G) < 2
    \/ /\ Cardinality({c.manual[i] : i \in G} \ {Unmatched}) <= 1
       /\ \A i \in G : RefsOf(c, i) # {}
       /\ \A i, j \in G : i # j => /\ ~Contradict(c, i, j)
                                   /\ LiveSources(c, i) \cap LiveSources(c, j) = {}

\* Rows without identifiers are compared by title, within their parent below the top.
TitleKey(c, i) == <<Kind[i], IF Kind[i] = "episode" THEN c.parent[i] ELSE 0, Name[i]>>
Identity(c) ==
    LET bare == {i \in Shown(c) : StableIds(c, i) = {}}
        byId == UNION {{{i \in Shown(c) : Kind[i] = Kind[j] /\ x \in c.ids[i]} : x \in StableIds(c, j)} :
                          j \in Shown(c)}
        byTitle == {{j \in bare : TitleKey(c, j) = TitleKey(c, i)} : i \in bare}
    IN  {G \in byId \cup byTitle : SafeGroup(c, G)}

\* _UnionFind: what a group meets becomes one part.
Parts(rows, groups) ==
    FoldSet(LAMBDA G, parts : {UNION {P \in parts : P \cap G # {}}} \cup {P \in parts : P \cap G = {}},
            {{i} : i \in rows}, groups)

\* faulty: what joined is not checked again as a whole
GroupsJoined(c) == Parts(Shown(c), Identity(c))
\* Joined groups that are not safe as a whole fall apart.
Groups(c) ==
    UNION {IF SafeGroup(c, G) THEN {G} ELSE {{i} : i \in G} : G \in Parts(Shown(c), Identity(c))}

CardRow(c, G) ==
    LET matched == {i \in G : c.manual[i] # Unmatched}
        had == {i \in G : \E r \in RefsOf(c, i) : Source[r] \in PlexSources}
    IN  Min(Prefer(Prefer(G, matched), had))

Members(c) ==
    LET groups == Groups(c)
    IN  [i \in Shown(c) |-> CardRow(c, CHOOSE G \in groups : i \in G)]

-------------------------------------------------------------------------------
(* Summaries.                                                                   *)

Lineage(c, i) == {i, c.parent[i], IF c.parent[i] = 0 THEN 0 ELSE c.parent[c.parent[i]]} \ {0}
Top(S) == Max(S \cup {0})

Activity(c, i) == Top({p.time : p \in {q \in c.plays : q.row = i}}
                      \cup {c.state[i][s].last : s \in Sources})

\* Episodes of a card's shows that an available entry shows, by their cards.
Episodes(c, m, k) ==
    {m[i] : i \in {e \in DOMAIN m : /\ Kind[e] = "episode" /\ LiveSources(c, e) # {}
                                    /\ TitleOf(c, e) \in DOMAIN m /\ m[TitleOf(c, e)] = k}}

Completions(c, m, k) ==
    LET G == {i \in DOMAIN m : m[i] = k}
    IN  Top({Cardinality({p \in c.plays : p.row \in G})}
            \cup {IF c.state[i][s].done THEN c.state[i][s].views ELSE 0 : i \in G, s \in Sources})

\* The summary of card k, the completions of other cards being as told by known.
Summary(c, m, k, known) ==
    LET G == {i \in DOMAIN m : m[i] = k}
    IN  [count |-> Completions(c, m, k),
         pos |-> Top({IF c.state[i][s].done THEN 0 ELSE c.state[i][s].pos : i \in G, s \in Sources}),
         last |-> Top({Activity(c, i) : i \in {j \in c.live : Lineage(c, j) \cap G # {}}}),
         shown |-> UNION {LiveSources(c, i) : i \in G},
         children |-> Cardinality(Episodes(c, m, k)),
         finished |-> Cardinality({e \in Episodes(c, m, k) : known[e] > 0})]

Rebuilt(c, m) ==
    LET cards == {m[i] : i \in DOMAIN m}
        known == [k \in cards |-> Completions(c, m, k)]
    IN  [k \in cards |-> Summary(c, m, k, known)]

\* The cards of the rows written and of what is above them.
Impacted(c, m, rows) == {m[i] : i \in (UNION {Lineage(c, j) : j \in rows \cap c.live}) \cap DOMAIN m}

\* refresh_catalog_activity: availability and grouping are left as they are.
Refreshed(c, m, old, rows) ==
    LET impacted == Impacted(c, m, rows)
        known == [k \in DOMAIN old |-> IF k \in impacted THEN Completions(c, m, k) ELSE old[k].count]
    IN  [k \in impacted |-> [Summary(c, m, k, known) EXCEPT !.shown = old[k].shown]]

-------------------------------------------------------------------------------
(* The triggers.                                                                *)

IdentityOf(c) == <<c.live, c.parent, c.ids, c.manual, c.at, c.avail>>

\* Rows whose plays or states differ, as they were and as they are.
Touched(c, d) ==
    {i \in Rows : c.state[i] # d.state[i]} \cup {p.row : p \in SymDiff(c.plays, d.plays)}

\* faulty: a play asks for less than an identity change before it did
AfterPlayLess(was) == "activity"
AfterPlay(was) == IF was = "identity" THEN was ELSE "activity"

\* Deleted rows take their cards along, and with a card all its members.
Cascade(d) ==
    /\ card' = [k \in DOMAIN card \cap d.live |-> card[k]]
    /\ member' = [i \in {j \in DOMAIN member \cap d.live : member[j] \in d.live} |-> member[i]]
    /\ dirty' = dirty \cup Touched(cat, d)

\* Everybody else's writes: an ensure in progress does not see them.
Overtakes == job' = IF job.mode = "none" THEN job ELSE [job EXCEPT !.overtaken = TRUE]

\* A page writes every entry it sees; a repair it makes asks for a full rebuild, which
\* the next entry's trigger may or may not replace.
IdentityWrite(step) ==
    /\ step /\ Cascade(cat') /\ Overtakes
    /\ status' \in IF cat'.live = cat.live THEN {"identity"} ELSE {"identity", "full"}
    /\ UNCHANGED missed

\* _mark_projection_stale by the job, when it changed something.
ReconcileWrite ==
    /\ Reconcile /\ Cascade(cat') /\ Overtakes
    /\ status' = IF IdentityOf(cat') = IdentityOf(cat) THEN status ELSE "full"
    /\ UNCHANGED missed

\* The confirmed match asks for a full rebuild; merging afterwards fires triggers.
MatchWrite(i, x) ==
    /\ Match(i, x) /\ Cascade(cat') /\ Overtakes
    /\ status' \in IF cat'.live = cat.live THEN {"full"} ELSE {"identity", "full"}
    /\ UNCHANGED missed

ActivityWrite(step) ==
    /\ step /\ Cascade(cat') /\ Overtakes
    /\ status' = AfterPlay(status)
    /\ missed' = IF status = "full" THEN missed \cup {"downgrade"} ELSE missed

\* remap_paths: no trigger watches the files.
Remap(r) ==
    /\ changes < MaxChanges /\ changes' = changes + 1
    /\ \E files \in Files[r] : cat' = [cat EXCEPT !.files[r] = files]
    /\ missed' = missed \cup {"paths"}
    /\ Overtakes /\ UNCHANGED projection

-------------------------------------------------------------------------------
(* Reading the catalog (ensure_catalog_projection).                             *)

Wanted == ~(status = Clean /\ (DOMAIN card # {} \/ Shown(cat) = {}))
Partial == status = "activity" /\ DOMAIN card # {} /\ dirty # {}

\* faulty: the rows to refresh are taken off the list before the work is done
EnsureReadTaking ==
    /\ job.mode = "none" /\ Wanted /\ dirty' = {}
    /\ job' = IF Partial
              THEN [NoJob EXCEPT !.mode = "activity", !.card = Refreshed(cat, member, card, dirty)]
              ELSE [NoJob EXCEPT !.mode = "full", !.member = Members(cat),
                                 !.card = Rebuilt(cat, Members(cat))]
    /\ UNCHANGED <<cat, changes, status, member, card, missed>>

EnsureRead ==
    /\ job.mode = "none" /\ Wanted
    /\ job' = IF Partial
              THEN [NoJob EXCEPT !.mode = "activity", !.card = Refreshed(cat, member, card, dirty)]
              ELSE [NoJob EXCEPT !.mode = "full", !.member = Members(cat),
                                 !.card = Rebuilt(cat, Members(cat))]
    /\ UNCHANGED <<cat, changes, projection, missed>>

\* The first write begins the transaction: what was read is written, all of it is
\* declared clean, whatever was written meanwhile.
EnsureWrite ==
    /\ job.mode # "none" /\ job' = NoJob
    /\ dirty' = {} /\ status' = Clean
    /\ \/ /\ job.mode = "full" /\ DOMAIN job.member \subseteq cat.live
          /\ member' = job.member /\ card' = job.card
          /\ missed' = IF job.overtaken THEN {"race"} ELSE {}
       \/ /\ job.mode = "activity" /\ DOMAIN job.card \subseteq DOMAIN card
          /\ card' = [k \in DOMAIN card |-> IF k \in DOMAIN job.card THEN job.card[k] ELSE card[k]]
          /\ missed' = IF job.overtaken THEN missed \cup {"race"} ELSE missed
          /\ UNCHANGED member
    /\ UNCHANGED <<cat, changes>>

\* A row of the result is gone, or the page's request ends early.
EnsureFails == job.mode # "none" /\ job' = NoJob /\ UNCHANGED <<cat, changes, projection, missed>>

-------------------------------------------------------------------------------
ProjectionInit ==
    /\ Init /\ status = "identity" /\ dirty = {} /\ member = <<>> /\ card = <<>>
    /\ job = NoJob /\ missed = {}

ProjectionNext ==
    \/ \E r \in Leaves : IdentityWrite(Collect(r)) \/ IdentityWrite(Lose(r))
    \/ \E i \in Rows, x \in Matches : MatchWrite(i, x)
    \/ ReconcileWrite
    \/ \E r \in Watched : ActivityWrite(Play(r)) \/ ActivityWrite(Progress(r))
    \/ \E r \in Remapped : Remap(r)
    \/ EnsureRead \/ EnsureWrite \/ EnsureFails

ProjectionSpec == ProjectionInit /\ [][ProjectionNext]_projectionVars

-------------------------------------------------------------------------------
ProjectionTypeOK ==
    /\ status \in {Clean, "identity", "activity", "full"} /\ dirty \subseteq Rows
    /\ \A i \in DOMAIN member : i \in cat.live /\ member[i] \in DOMAIN card
    /\ \A k \in DOMAIN card : k \in cat.live /\ card[k].finished <= card[k].children
    /\ missed \subseteq {"downgrade", "paths", "race"}

\* A show whose episodes share a card with those of another: a play of one is not
\* counted on the other before the next full rebuild.
Spanning(k) ==
    \E i \in DOMAIN member : /\ member[i] \in Episodes(cat, member, k)
                             /\ TitleOf(cat, i) \in DOMAIN member
                             /\ member[TitleOf(cat, i)] # k

\* What the catalog serves as clean is what a full rebuild would give now, however
\* many partial refreshes, merges and plays lie between, if none of the named causes
\* interfered since the last rebuild (ensure_catalog_projection, the triggers).
ServedIsCurrent ==
    status = Clean /\ missed = {} =>
        /\ member = Members(cat)
        /\ \A k \in DOMAIN card :
              LET now == Rebuilt(cat, member)[k]
              IN  card[k] = IF Spanning(k) THEN [now EXCEPT !.finished = card[k].finished] ELSE now

\* One card never shows two titles a server shows at the same time, nor two confirmed
\* identities (safe_identity_group over what identifiers and titles joined).
CardsSafe ==
    status = Clean /\ missed = {} =>
        \A k \in DOMAIN card : SafeGroup(cat, {i \in DOMAIN member : member[i] = k})

\* A play is on the card of its title, or the projection says what has to be looked at
\* again: no play is forgotten between the trigger, the refresh and a crash.
PlaysPending ==
    \A p \in cat.plays :
        \/ missed # {}
        \/ status # Clean /\ ~Partial  \* a full rebuild is due
        \/ p.row \in dirty
        \/ p.row \in DOMAIN member /\ card[member[p.row]].last >= p.time

\* The documented promise: an identity or source change is followed by a full rebuild.
NoTitleVanishes == status = Clean => Shown(cat) = DOMAIN member
===============================================================================
