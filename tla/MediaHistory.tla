----------------------------- MODULE MediaHistory -----------------------------
(* The history of plays: what pages, history pages and webhooks of the servers  *)
(* report (sync/persistence.py, sync/orchestrator.py, web/routes.py), what a    *)
(* Trakt export brings (scripts/import_trakt_export.py), what becomes of it     *)
(* when a server is replaced (sync/source_identity.py), and the states of       *)
(* seasons and shows derived from it.  Every operation is one transaction over  *)
(* the catalog of CatalogPlacement; resume positions are in WatchSync and       *)
(* AsyncTasks.                                                                  *)
EXTENDS CatalogPlacement

CONSTANTS
    Pages,        \* entry -> what pages may report: [ids, show, files]
    Title,        \* entry -> what it really is; not of entries that contradict each other
    Era,          \* entry -> the server of its source that has it: 0, or 1 the next one
    Near,         \* two plays of a title at most this far apart are one
    HookLimit,    \* completed webhook rows kept
    Archives,     \* Trakt exports: sequences of events
    Importer,     \* the Plex source Trakt events are booked on
    Libraries,    \* bound: what the servers may hold, [entries, exports, plays]
    MaxTime,      \* bound: the clock
    MaxEra        \* bound: replacements of the Plex server

ASSUME HistoryAssumption ==
    /\ Level \in [Refs -> Levels] /\ Importer \in Sources /\ Near \in Nat /\ HookLimit \in Nat
    /\ \A r \in Watched : Level[r] \in {"movie", "episode"}
    /\ \A r \in Refs : Level[r] = "episode" =>
          (\E q \in Above[r] : Level[q] = "season") /\ \E q \in Above[r] : Level[q] = "show"
    /\ \A shelf \in Libraries : shelf.exports \subseteq DOMAIN Archives
    /\ \A a \in DOMAIN Archives :
          /\ Archives[a] \in Seq(ToSet(Archives[a]))
          /\ \A e \in ToSet(Archives[a]) : e.kind \in {"movie", "episode"} /\ e.time \in Nat

VARIABLES
    log,      \* source -> the plays its server knows: sequence of [entry, time]
    mail,     \* webhooks under way: [entry, time]
    hooks,    \* webhook_events, completed ones: [id, entry, time]
    era,      \* source -> which server it is
    library   \* what the servers hold, the user's exports, and how many plays there are at most

historyVars == <<vars, log, mail, hooks, era, library>>

Here(r) == r \in library.entries /\ era[Source[r]] = Era[r]
Leaf(r) == Level[r] \in {"movie", "episode"}
Apart(t, u) == IF t > u THEN t - u ELSE u - t
PlaysOf(c, i, s) == {p \in c.plays : p.row = i /\ p.source = s}

PlaysAt(r) == {k \in 1 .. Len(log[Source[r]]) : log[Source[r]][k].entry = r}
LastPlay(r) == Max({log[Source[r]][k].time : k \in PlaysAt(r)} \cup {0})

-------------------------------------------------------------------------------
(* Recording a play (persist_event).                                            *)

Anonymous == <<"none">>

\* faulty: only the server's own plays are compared
NearbyOwn(c, i, s, time) == \E p \in PlaysOf(c, i, s) : Apart(p.time, time) <= Near
Nearby(c, i, s, time) == \E p \in c.plays : p.row = i /\ Apart(p.time, time) <= Near

\* faulty: a state that exists is left as it is
AppliedOnce(old, count, time) ==
    IF old.row THEN old ELSE [old EXCEPT !.row = TRUE, !.done = TRUE, !.views = count, !.last = time]
\* _apply_event_to_watch_state
Applied(old, count, time) ==
    [old EXCEPT !.row = TRUE, !.done = TRUE, !.views = Max({@, count}), !.last = Max({@, time})]

\* An identity already known moves to the time told; a play near another is dropped.
\* The key of an event without identity repeats its entry and time: covered by Nearby.
Record(c, r, id, time, views) ==
    LET i == c.at[r]
        s == Source[r]
        known == {p \in c.plays : p.source = s /\ p.id = id /\ id # Anonymous}
        new == [row |-> i, source |-> s, id |-> id, time |-> time, born |-> i, moved |-> FALSE]
        added == [c EXCEPT !.plays = @ \cup {new}]
        moved == {[p EXCEPT !.time = time, !.moved = @ \/ p.time # time] : p \in known}
    IN  IF ~c.ok THEN c
        ELSE IF i = 0 \/ \E p \in known : p.row # i THEN Refused(c)
        ELSE IF known # {} THEN [c EXCEPT !.plays = (@ \ known) \cup moved]
        ELSE IF Nearby(c, i, s, time) THEN c
        ELSE [added EXCEPT !.state[i][s] =
                 Applied(@, Max({views, Cardinality(PlaysOf(added, i, s))}), time)]

-------------------------------------------------------------------------------
(* A page of a library (persist_media, _persist_media_with_repair).             *)

\* _reconcile_webhook_events: completed webhooks of the entry.
LastHook(rows) == CHOOSE w \in rows : \A v \in rows : v.id <= w.id
HooksRecorded(c, r, rows) ==
    InOrder(LAMBDA d, w : Record(d, r, <<"webhook", w.id>>, w.time, 0), c, LastHook,
            {w \in rows : w.entry = r})

\* _sync_watch_state
StateSynced(old, views, last) ==
    [old EXCEPT !.row = TRUE, !.done = @ \/ views > 0, !.views = Max({@, views}), !.last = Max({@, last})]

Heard(c, r, rows) == IF c.ok THEN HooksRecorded(c, r, rows) ELSE c
Seen(c, r, views, last) ==
    IF ~c.ok \/ views = 0 THEN c
    ELSE Record([c EXCEPT !.state[c.at[r]][Source[r]] = StateSynced(@, views, last)],
                r, <<"state", r, last>>, last, views)
Reported(c, r, t, rows) ==
    LET views == Cardinality(PlaysAt(r))
        told == [ids |-> t.ids, show |-> t.show, files |-> t.files, seen |-> <<views, LastPlay(r)>>]
    IN  Seen(Heard(Placed(c, r, told), r, rows), r, views, LastPlay(r))

\* _reconcile_persisted_item; an identity looked at before in the run is passed over.
ShowRepaired(c, r, t) == IF Level[r] = "episode" THEN RepairedById(c, "show", t.show, 0) ELSE c
Repaired(c, r, t, leaf, once) ==
    IF once THEN c ELSE ShowRepaired(IF leaf THEN RepairedById(c, Level[r], t.ids, 0) ELSE c, r, t)
FileRepaired(c, r, t) == IF t.files = {} THEN c ELSE RepairedByFile(c, c.at[r])

\* A refused item is tried once more if a repair changed the catalog, which stays.
OrElse(d, c) == IF d.ok THEN d ELSE c
TriedAgain(c, mended, r, t, rows) ==
    IF mended.live = c.live THEN c ELSE OrElse(Reported(mended, r, t, rows), mended)
Concluded(c, first, r, t, rows, once) ==
    IF first.ok THEN Repaired(FileRepaired(first, r, t), r, t, Level[r] = "movie", once)
    ELSE TriedAgain(c, Repaired(c, r, t, TRUE, once), r, t, rows)
Persisted(c, r, t, rows, once) == Concluded(c, Reported(c, r, t, rows), r, t, rows, once)

-------------------------------------------------------------------------------
(* Seasons and shows (rebuild_container_watch_states).                          *)

Shows(c, s) == {i \in c.live : Kind[i] = "episode" /\ s \in LiveSources(c, i)}
KnownViews(c, i, s) ==
    LET state == c.state[i][s]
    IN  IF ~state.row THEN Cardinality(PlaysOf(c, i, s)) ELSE IF state.done THEN state.views ELSE 0

\* faulty: one finished episode finishes them all
LeastViewsAny(c, s, children) == Max({KnownViews(c, i, s) : i \in children})
\* _aggregate_completion
LeastViews(c, s, children) == Min({KnownViews(c, i, s) : i \in children})

Derived(c, s) ==
    LET below(p) == {i \in Shows(c, s) : p \in {c.parent[i], ShowAbove(c, i)}}
        above == {c.parent[i] : i \in Shows(c, s)} \cup {ShowAbove(c, i) : i \in Shows(c, s)}
        last(p) == Max({0} \cup {c.state[i][s].last : i \in {j \in below(p) : c.state[j][s].done}}
                       \cup UNION {{q.time : q \in PlaysOf(c, i, s)} : i \in {j \in below(p) : ~c.state[j][s].row}})
        views(p) == LeastViews(c, s, below(p))
    IN  [c EXCEPT !.state = [p \in Rows |-> IF p \notin above THEN @[p] ELSE
            [@[p] EXCEPT ![s] = [row |-> TRUE, done |-> views(p) > 0, views |-> views(p),
                                 pos |-> 0, last |-> last(p)]]]]

-------------------------------------------------------------------------------
(* A Trakt export (import_archive).                                             *)

\* MediaIndex.match: the rows that share most identifiers; an only one of the Plex
\* source among them is preferred.
BestRows(c, preferred, kind, ids) ==
    LET score(i) == Cardinality(ids \cap c.ids[i])
        rows == {i \in c.live : Kind[i] = kind /\ score(i) > 0}
        best == {i \in rows : \A j \in rows : score(j) <= score(i)}
    IN  IF Cardinality(best \cap preferred) = 1 THEN best \cap preferred ELSE best

Enriched(c, i, ids) == [c EXCEPT !.ids[i] = @ \cup ids]

\* First pass: known titles, and the shows above them, learn identifiers.
EnrichedShow(c, show, ids) == IF show = 0 THEN c ELSE Enriched(c, show, ids)
Recognizes(c, i, e) ==
    IF i = 0 THEN c
    ELSE EnrichedShow(Enriched(c, i, e.ids), IF e.kind = "episode" THEN ShowAbove(c, i) ELSE 0, e.show)
Remembers(a, k, rows, e) == [cat |-> Recognizes(a.cat, Only(rows), e), rows |-> [a.rows EXCEPT ![k] = rows]]
Recognized(c, preferred, events) ==
    InOrder(LAMBDA a, k : Remembers(a, k, BestRows(a.cat, preferred, events[k].kind, events[k].ids), events[k]),
            [cat |-> c, rows |-> [k \in DOMAIN events |-> {}]], Max, DOMAIN events)

\* _create_historical_media: an event's movie, or its show, season and episode.
Titled(new, ids) == [new EXCEPT !.cat = Enriched(@, new.row, ids)]
PastShow(c, shows, e) ==
    IF shows = {} THEN Titled(Created(c, "show", 0, 0, e.showLabel), e.show) ELSE [row |-> Min(shows), cat |-> c]
PastSeason(show, e) ==
    LET seasons == {i \in Children(show.cat, show.row) : Kind[i] = "season" /\ Number[i] = e.spot[1]}
    IN  IF seasons = {} THEN Created(show.cat, "season", e.spot[1], show.row, "none")
        ELSE [show EXCEPT !.row = Min(seasons)]
PastEpisode(season, e) == Titled(Created(season.cat, "episode", e.spot[2], season.row, e.label), e.ids)
Historical(c, shows, e) ==
    CASE e.kind = "movie" -> Titled(Created(c, "movie", 0, 0, e.label), e.ids)
      [] e.kind = "episode" /\ Cardinality(shows) > 1 -> [row |-> 0, cat |-> Refused(c)]
      [] OTHER -> PastEpisode(PastSeason(PastShow(c, shows, e), e), e)

\* faulty: an event imported before is imported again
BookedAgain(c, i, e) ==
    [c EXCEPT !.plays = @ \cup {[row |-> i, source |-> Importer, id |-> <<"trakt", e.id, Cardinality(c.plays)>>,
                                 time |-> e.time, born |-> i, moved |-> FALSE]}]
\* An event imported before stays as it is; plays nearby are not looked for.
Booked(c, i, e) ==
    IF \E p \in c.plays : p.source = Importer /\ p.id = <<"trakt", e.id>> THEN c
    ELSE [c EXCEPT !.plays = @ \cup {[row |-> i, source |-> Importer, id |-> <<"trakt", e.id>>,
                                      time |-> e.time, born |-> i, moved |-> FALSE]}]

\* Second pass: titles still unknown are created, events booked.
BookedNew(new, e) == IF new.cat.ok THEN Booked(new.cat, new.row, e) ELSE new.cat
BookedOne(c, preferred, found, e) ==
    IF ~c.ok \/ Cardinality(found) > 1 THEN c
    ELSE IF found # {} THEN Booked(c, Min(found), e)
    ELSE BookedNew(Historical(c, BestRows(c, preferred, "show", e.show), e), e)
AllBooked(first, preferred, events) ==
    InOrder(LAMBDA c, k :
        BookedOne(c, preferred,
                  IF first.rows[k] # {} THEN first.rows[k]
                  ELSE BestRows(c, preferred, events[k].kind, events[k].ids), events[k]),
        first.cat, Max, DOMAIN events)

\* _refresh_watch_state of the rows that got a play
Refreshed(c, d) ==
    LET touched == {p.row : p \in d.plays \ c.plays}
        plays(i) == PlaysOf(d, i, Importer)
        told(i) == Applied(d.state[i][Importer], Cardinality(plays(i)), Max({p.time : p \in plays(i)}))
    IN  [d EXCEPT !.state = [i \in Rows |-> IF i \notin touched THEN @[i] ELSE [@[i] EXCEPT ![Importer] = told(i)]]]

\* The whole import, or nothing of it.
Committed(c, d) == IF d.ok THEN Refreshed(c, d) ELSE c
Imported(c, events) ==
    LET preferred == {i \in c.live : Importer \in SourcesOf(c, i)}
    IN  Committed(c, AllBooked(Recognized(c, preferred, events), preferred, events))

-------------------------------------------------------------------------------
(* The servers.                                                                 *)

\* The user watches an entry to the end; its server says so by a webhook, which may
\* come late or never.
Watch(r) ==
    /\ Here(r) /\ FoldFunction(+, 0, [s \in Sources |-> Len(log[s])]) < library.plays
    /\ \E gap \in {1, Near + 1} :
          /\ cat.now + gap <= MaxTime
          /\ cat' = [cat EXCEPT !.now = @ + gap]
          /\ log' = [log EXCEPT ![Source[r]] = Append(@, [entry |-> r, time |-> cat.now + gap])]
          /\ mail' = mail \cup {[entry |-> r, time |-> cat.now + gap]}
    /\ UNCHANGED <<changes, hooks, era, library>>

\* _prune_webhook_events: the latest completed ones are kept.
Pruned(rows) ==
    {w \in rows : Cardinality({v \in rows : v.time > w.time \/ (v.time = w.time /\ v.id > w.id)}) < HookLimit}

\* A completed webhook: its row, and the play itself if the entry is known.  The database
\* gives the row the number that follows the highest there is.
Webhook(w) ==
    /\ mail' = mail \ {w} /\ Here(w.entry)
    /\ hooks' = Pruned(hooks \cup {[id |-> Max({v.id : v \in hooks} \cup {0}) + 1,
                                    entry |-> w.entry, time |-> w.time]})
    /\ cat' = IF cat.at[w.entry] = 0 THEN cat ELSE Record(cat, w.entry, Anonymous, w.time, 0)
    /\ UNCHANGED <<changes, log, era, library>>

Persist(r) ==
    /\ Here(r)
    /\ \E t \in Pages[r], once \in BOOLEAN : cat' = Persisted(cat, r, t, hooks, once)
    /\ UNCHANGED <<changes, log, mail, hooks, era, library>>

\* One event of a history page: a Plex key, or the last play Jellyfin has of an item.
HistoryEvent(s, k) ==
    LET e == log[s][k]
        id == IF s \in PlexSources THEN <<"history", era[s], k>> ELSE <<"jellyfin", e.entry, e.time>>
        next == Record(cat, e.entry, id, e.time, 0)
    IN  /\ s \in PlexSources \/ e.time = LastPlay(e.entry)
        /\ cat' = IF next.ok THEN next ELSE cat
        /\ UNCHANGED <<changes, log, mail, hooks, era, library>>

\* The end of a library's run; nothing is derived of a library without episodes.
DeriveContainers(s) ==
    /\ cat' = IF Shows(cat, s) = {} THEN cat ELSE Derived(cat, s)
    /\ UNCHANGED <<changes, log, mail, hooks, era, library>>

Import(a) ==
    /\ cat' = Imported(cat, Archives[a])
    /\ UNCHANGED <<changes, log, mail, hooks, era, library>>

Disappear(r) == Lose(r) /\ UNCHANGED <<log, mail, hooks, era, library>>
Confirm(i, x) == Match(i, x) /\ UNCHANGED <<log, mail, hooks, era, library>>

\* apply_server_identity: entries, states and webhook rows of the old server are
\* retired or deleted, the plays stay.
Replace(s) ==
    /\ era[s] < MaxEra /\ era' = [era EXCEPT ![s] = @ + 1]
    /\ cat' = [cat EXCEPT !.avail = {r \in @ : Source[r] # s},
                          !.state = [i \in Rows |-> [@[i] EXCEPT ![s] = NoState]]]
    /\ hooks' = {w \in hooks : Source[w.entry] # s}
    /\ log' = [log EXCEPT ![s] = <<>>] /\ mail' = {w \in mail : Source[w.entry] # s}
    /\ UNCHANGED <<changes, library>>

-------------------------------------------------------------------------------
HistoryInit ==
    /\ cat = EmptyCatalog /\ changes = 0
    /\ log = [s \in Sources |-> <<>>] /\ mail = {} /\ hooks = {}
    /\ era = [s \in Sources |-> 0] /\ library \in Libraries

HistoryNext ==
    \/ \E r \in Watched : Watch(r)
    \/ \E r \in {q \in Refs : Leaf(q)} : Persist(r) \/ Disappear(r)
    \/ \E w \in mail : Webhook(w)
    \/ \E s \in Sources : \E k \in 1 .. Len(log[s]) : HistoryEvent(s, k)
    \/ \E s \in Sources : DeriveContainers(s)
    \/ \E a \in library.exports : Import(a)
    \/ \E i \in Rows, x \in Matches : Confirm(i, x)
    \/ \E s \in PlexSources : Replace(s)

HistorySpec == HistoryInit /\ [][HistoryNext]_historyVars

-------------------------------------------------------------------------------
\* Entries, plays and rows hang where they belong, and the season and show a server
\* lists an episode under are those of its row, unless a refused page merged it with an
\* episode of another show (_ensure_hierarchy, _merge_hierarchy, reconcile_matching_items).
Alone(c, i) == \A j \in Rows : c.heir[j] = i => j = i
HierarchyAgrees ==
    /\ \A r \in Refs : cat.at[r] \in cat.live \cup {0} /\ (r \in cat.avail => cat.at[r] # 0)
    /\ \A p \in cat.plays : p.row \in cat.live
    /\ \A i \in cat.live : Kind[i] \in {"season", "episode"} => cat.parent[i] \in cat.live
    /\ \A r \in Refs : Level[r] = "episode" /\ cat.at[r] # 0 =>
          /\ cat.at[SeasonOf(r)] # 0 /\ cat.at[ShowOf(r)] # 0
          /\ cat.parent[cat.at[SeasonOf(r)]] = cat.at[ShowOf(r)]
          /\ Alone(cat, cat.at[r]) => cat.at[SeasonOf(r)] = cat.parent[cat.at[r]]

\* Pages, histories and webhooks that tell of one play leave one play, whatever the order
\* and the server they come from (persist_event); exports are not compared, and rows
\* merged later bring their own plays.
PlaysOnce ==
    \A p, q \in cat.plays :
        p # q /\ p.row = q.row /\ Apart(p.time, q.time) <= Near =>
            \/ p.born # q.born \/ p.moved \/ q.moved
            \/ "trakt" \in {p.id[1], q.id[1]}

\* A play stays in the history, with its time, on the row that took its own, as long as
\* no number of a webhook row is given out again after a server was replaced
\* (persist_event, _merge_item).
PlaysStay ==
    [][\A p \in cat.plays :
          \/ [p EXCEPT !.row = cat'.heir[@]] \in cat'.plays
          \/ p.id[1] = "webhook" /\ \E s \in Sources : era[s] > 0]_historyVars
\* The documented criterion: new plays do not replace those before.
NewPlaysReplaceNothing ==
    [][\A p \in cat.plays : [p EXCEPT !.row = cat'.heir[@]] \in cat'.plays]_historyVars

\* A title with plays of a server is completed on that server, at least as often and as
\* late as the plays it got itself, whoever told of them, until the server is replaced
\* (_apply_event_to_watch_state, _sync_watch_state, _refresh_watch_state).
PlaysCounted ==
    \A p \in cat.plays : era[p.source] = 0 /\ ~p.moved =>
        LET state == cat.state[p.row][p.source]
        IN  /\ state.done /\ state.last >= p.time
            /\ state.views >= Cardinality({q \in PlaysOf(cat, p.row, p.source) : q.born = p.row})

\* Importing an export again, all of whose events were booked, changes neither rows nor
\* plays, whatever pages and merges came in between, if no match was corrected.
SameImport(a) ==
    LET booked(e) == \E p \in cat.plays : p.id[1] = "trakt" /\ p.id[2] = e.id
        unchanged(again) == again.live = cat.live /\ again.plays = cat.plays
    IN  (\A k \in DOMAIN Archives[a] : booked(Archives[a][k])) => unchanged(Imported(cat, Archives[a]))
ImportedOnce ==
    (\A i \in Rows : cat.manual[i] = Unmatched) => \A a \in library.exports : SameImport(a)
ImportsAreIdempotent == \A a \in library.exports : SameImport(a)

\* After a run nothing claims a season or show finished of which the server shows an
\* episode that it has not seen finished (rebuild_container_watch_states).
Overclaimed(c, i, s) ==
    /\ Kind[i] \in {"season", "show"} /\ c.state[i][s].done
    /\ \E e \in Shows(c, s) : /\ i \in {c.parent[e], ShowAbove(c, e)}
                              /\ ~c.state[e][s].done /\ PlaysOf(c, e, s) = {}
ContainersHonest ==
    [][\A s \in Sources : (\E i \in cat.live : Overclaimed(cat', i, s)) => ~DeriveContainers(s)]_historyVars

\* When another pass over the libraries would change nothing, entries of one title share
\* a row, in whatever order they came, if no match was corrected; and entries of different
\* titles do not, if no evidence was lost (_match_by_physical_path, _match_by_identifiers).
Settled ==
    LET unmoved(next) == next.at = cat.at /\ next.avail = cat.avail /\ next.parent = cat.parent
    IN  \A r \in Refs : Leaf(r) /\ Here(r) =>
            \A t \in Pages[r] : unmoved(Persisted(cat, r, t, {}, FALSE))
Misplaced(r, q) ==
    IF Title[r] = Title[q] THEN cat.at[r] # cat.at[q] /\ \A i \in Rows : cat.manual[i] = Unmatched
    ELSE cat.at[r] = cat.at[q] /\ changes = 0
SameTitleSameRow ==
    /\ \A r, q \in cat.avail \cap DOMAIN Title : Leaf(r) /\ Leaf(q) /\ Misplaced(r, q) => ~Settled
    /\ (\E r \in DOMAIN Title \ cat.avail : Leaf(r) /\ Here(r)) => ~Settled
===============================================================================
