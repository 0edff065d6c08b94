------------------------------ MODULE WatchSync ------------------------------
(* Directional propagation of the watched state (sync/watch_sync.py) over the   *)
(* two servers, with what writes the rows it reads: library pages and webhooks, *)
(* the offline Trakt import, and the replacement of a server.                   *)
(*                                                                              *)
(* A run reads the local rows once, calls the servers for as long as it takes,  *)
(* and records the calls that succeeded in batches; users, collectors and the   *)
(* import go on meanwhile.  Timestamps are replaced by what they decide: fresh[d]*)
(* holds the rows written since the checkpoint of direction d, and run.since    *)
(* those written since the scan in progress began.                              *)
EXTENDS Naturals, FiniteSets, FiniteSetsExt

CONSTANTS
    Refs,       \* entries of the servers' libraries (source_media_refs)
    ItemOf,     \* the catalog row an entry is attached to
    ServerOf,   \* "plex" or "jellyfin"
    Ids,        \* stable identifiers of a row
    Paths,      \* physical files of an entry
    MaxPos,     \* resume positions are 0 .. MaxPos
    BatchSize,  \* _PERSIST_BATCH_SIZE
    MaxEvents   \* bound: what users and the importer do (plays), failed calls,
                \* cancellations, deaths, lost entries and new servers (faults)

ASSUME BoundsAssumption ==
    /\ MaxPos \in Nat /\ MaxEvents \in Nat
    /\ BatchSize \in Nat \ {0}
ASSUME CatalogAssumption == \A r \in Refs : ServerOf[r] \in {"plex", "jellyfin"}

Servers == {"plex", "jellyfin"}
Items == {ItemOf[r] : r \in Refs}
Directions == Servers \cup {"both"}
Other(s) == CHOOSE t \in Servers : t # s

Blank == [done |-> FALSE, pos |-> 0]
NoRow == [row |-> FALSE, done |-> FALSE, pos |-> 0]
NoCandidate == [to |-> "none", refs |-> {}, done |-> FALSE, pos |-> 0]
Idle == [pc |-> "idle", dir |-> "both", full |-> FALSE, since |-> {}, late |-> FALSE,
         cands |-> {}, cur |-> NoCandidate, left |-> {}, hits |-> FALSE, won |-> {},
         failed |-> FALSE, old |-> {}]

VARIABLES
    remote,   \* what a server holds of an entry
    gone,     \* entries the server no longer has
    avail,    \* entries the catalog believes available
    local,    \* watch_states: row -> server -> state
    evented,  \* <<row, server>> with a completed event of the configured user
    fresh,    \* marked direction -> rows written since its last_success_at
    marked,   \* directions that have a last_success_at
    pending,  \* the setting watch_sync.pending
    import,   \* rows of the Trakt transaction in progress, stamped and uncommitted
    run,      \* the propagation in progress
    finished, \* rows finished by a user or an import, ever (history)
    sent,     \* entry -> completions sent to it (history)
    known,    \* <<row, server>> finished on the server that answers now (history)
    blind,    \* rows stamped before a scan that could not see them (history)
    mixed,    \* servers replaced while a run was under way (history)
    plays, faults

world == <<gone, avail, local, evented>>
book == <<fresh, marked, pending, import>>
history == <<finished, known, blind, plays>>
vars == <<remote, gone, avail, local, evented, fresh, marked, pending, import, run,
          finished, sent, known, blind, mixed, plays, faults>>

Init ==
    /\ remote = [r \in Refs |-> Blank]
    /\ gone = {} /\ avail = Refs
    /\ local = [i \in Items |-> [s \in Servers |-> NoRow]]
    /\ evented = {}
    /\ fresh = [d \in Directions |-> {}] /\ marked = {} /\ pending = FALSE
    /\ import = {} /\ run = Idle
    /\ finished = {} /\ sent = [r \in Refs |-> 0] /\ known = {}
    /\ blind = {} /\ mixed = {} /\ plays = 0 /\ faults = 0

-------------------------------------------------------------------------------
(* What a scan sees.                                                            *)

Listed(scope) == {r \in avail : ItemOf[r] \in scope}
Files(i) == UNION {Paths[r] : r \in {q \in avail : ItemOf[q] = i}}

\* Two files that contradict each other outweigh an identifier they share.
Conflicting(i, j) == Files(i) # {} /\ Files(j) # {} /\ Files(i) \cap Files(j) = {}

\* Two rows are joined by a file, or by an identifier one of them is the owner of: the
\* first row found with it, among the rows of the scan.
FirstOf(rows) == CHOOSE k \in rows : TRUE
Joined(rows, i, j) ==
    \/ Files(i) \cap Files(j) # {}
    \/ /\ ~Conflicting(i, j)
       /\ \E id \in Ids[i] \cap Ids[j] : FirstOf({k \in rows : id \in Ids[k]}) \in {i, j}

Closed(S, rows) == \A i \in S, j \in rows : Joined(rows, i, j) => j \in S

\* The groups of rows that show one title, among the rows of a scope: those the
\* joins connect, and no others.
Groups(scope) ==
    LET rows == {ItemOf[r] : r \in Listed(scope)}
    IN  {G \in SUBSET rows :
            /\ G # {} /\ Closed(G, rows)
            /\ \A H \in SUBSET G : H # {} /\ Closed(H, rows) => H = G}

Entries(G, s) == {r \in avail : ItemOf[r] \in G /\ ServerOf[r] = s}

\* A completion is known from the row, or from the history when there is no row.
Watched(G, s) ==
    \E i \in G : local[i][s].done \/ (~local[i][s].row /\ <<i, s>> \in evented)
Position(G, s) ==
    Max({IF local[i][s].done THEN 0 ELSE local[i][s].pos : i \in G})

\* Plex owns conflicting positions: Jellyfin fills only an empty one.
PositionWins(d, t, G) ==
    LET plex == Position(G, "plex")
        jellyfin == Position(G, "jellyfin")
    IN  \/ t = "jellyfin" /\ plex > 0 /\ plex # jellyfin
        \/ t = "plex" /\ jellyfin > 0 /\ plex = 0
        \/ t = "plex" /\ jellyfin > 0 /\ d = "both" /\ plex = jellyfin

\* faulty: a title under way on the target waits for it.
CompletionDueIdle(G, t) == Watched(G, Other(t)) /\ ~Watched(G, t) /\ Position(G, t) = 0
CompletionDue(G, t) == Watched(G, Other(t)) /\ ~Watched(G, t)

\* What a group needs: a completion, else a resume position, or nothing.
Decided(d, G) ==
    LET targets == IF d = "both" THEN Servers ELSE {Other(d)}
        completions == {t \in targets : CompletionDue(G, t)}
        positions == {t \in targets : /\ \A s \in Servers : ~Watched(G, s)
                                      /\ PositionWins(d, t, G)}
    IN  {[to |-> t, refs |-> Entries(G, t), done |-> t \in completions,
          pos |-> IF t \in completions THEN 0 ELSE Position(G, Other(t))] :
            t \in completions \cup positions}

Candidates(d, scope) ==
    UNION {Decided(d, G) : G \in {H \in Groups(scope) : \A s \in Servers : Entries(H, s) # {}}}

\* The rows of an incremental scan: what changed, and what shares an identifier.
Related(rows) == rows \cup {i \in Items : \E j \in rows : Ids[i] \cap Ids[j] # {}}
Scope(d) == Related(fresh[d])

-------------------------------------------------------------------------------
(* The writers.  A Trakt import is one long transaction: the others wait.       *)

\* Rows written: the state of server s, or an entry too (all), which every
\* direction looks at.
Wrote(rows, s, all) ==
    LET relevant(d) == all \/ d = "both" \/ d = s
    IN  /\ fresh' = [d \in Directions |-> IF d \in marked /\ relevant(d) THEN fresh[d] \cup rows
                                         ELSE fresh[d]]
        /\ run' = IF run.pc # "idle" /\ relevant(run.dir)
                  THEN [run EXCEPT !.since = @ \cup rows] ELSE run

\* A user finishes, plays a part of, or clears an entry on its server.
UserPlays(r) ==
    /\ plays + faults < MaxEvents /\ r \notin gone
    /\ \E now \in [done : BOOLEAN, pos : 0 .. MaxPos] :
          /\ now # remote[r] /\ (now.done => now.pos = 0)
          /\ remote' = [remote EXCEPT ![r] = now]
          /\ IF now.done THEN /\ finished' = finished \cup {ItemOf[r]}
                              /\ known' = known \cup {<<ItemOf[r], ServerOf[r]>>}
             ELSE UNCHANGED <<finished, known>>
    /\ plays' = plays + 1
    /\ UNCHANGED <<world, book, run, sent, blind, mixed, faults>>

\* _sync_watch_state: a completion stays; Plex says nothing of an entry never opened.
Collected(r, old) ==
    IF ServerOf[r] = "plex" /\ remote[r] = Blank THEN old
    ELSE [row |-> TRUE, done |-> old.done \/ remote[r].done, pos |-> remote[r].pos]

\* A library page (all) or a webhook persists what the server reports of an entry.
\* One that finds nothing new only widens the next scan: it is left out.
Observe(r, all) ==
    LET i == ItemOf[r]
        s == ServerOf[r]
    IN  /\ import = {} /\ r \notin gone
        /\ all \/ r \in avail
        /\ local' = [local EXCEPT ![i][s] = Collected(r, @)]
        /\ evented' = IF remote[r].done THEN evented \cup {<<i, s>>} ELSE evented
        /\ avail' = avail \cup {r}
        /\ <<local', avail', evented'>> # <<local, avail, evented>>
        /\ Wrote({i}, s, all)
        /\ UNCHANGED <<remote, gone, marked, pending, import, history, sent, mixed, faults>>

\* The import stamps its rows as it goes; nobody sees them before its commit.  Of the
\* rows an identifier fits it prefers one the Plex source refers to (MediaIndex.match).
ImportBegin(r) ==
    /\ import = {} /\ plays + faults < MaxEvents
    /\ ServerOf[r] = "plex"
    /\ import' = {ItemOf[r]}
    /\ UNCHANGED <<remote, world, fresh, marked, pending, run, history, sent, mixed, faults>>

ImportCommit ==
    /\ import # {}
    /\ local' = [i \in Items |-> IF i \notin import THEN local[i] ELSE
                    [local[i] EXCEPT !["plex"] = [row |-> TRUE, done |-> TRUE, pos |-> @.pos]]]
    /\ evented' = evented \cup (import \X {"plex"})
    /\ finished' = finished \cup import
    /\ known' = known \cup (import \X {"plex"})
    /\ pending' = TRUE
    /\ fresh' = [d \in Directions |-> IF d \in marked \ {"jellyfin"} THEN fresh[d] \cup import
                                    ELSE fresh[d]]
    /\ run' = IF run.pc # "idle" /\ run.dir # "jellyfin" /\ ~run.late
              THEN [run EXCEPT !.since = @ \cup import] ELSE [run EXCEPT !.late = FALSE]
    /\ blind' = IF run.late THEN blind \cup import ELSE blind
    /\ import' = {} /\ plays' = plays + 1
    /\ UNCHANGED <<remote, gone, avail, marked, sent, mixed, faults>>

-------------------------------------------------------------------------------
(* A run.                                                                       *)

\* _prepare: one snapshot decides everything.  A scan is full without a checkpoint
\* or once the last full one is old enough; "both" only serves a pending import.
Start(d, full) ==
    /\ run.pc = "idle"
    /\ d = "both" => pending
    /\ full \/ d \in marked
    /\ run' = [Idle EXCEPT !.pc = "pick", !.dir = d, !.full = full, !.late = import # {},
                           !.cands = Candidates(d, IF full THEN Items ELSE Scope(d))]
    /\ UNCHANGED <<remote, world, book, history, sent, mixed, faults>>

\* faulty: a candidate stays in the list.
RestWhole(c) == run.cands
Rest(c) == run.cands \ {c}

\* The next candidate; its targets are the entries that were available at the scan.
Pick(c) ==
    /\ run.pc = "pick" /\ Cardinality(run.won) < BatchSize
    /\ run' = [run EXCEPT !.pc = "call", !.cur = c, !.left = c.refs, !.hits = FALSE,
                          !.cands = Rest(c)]
    /\ UNCHANGED <<remote, world, book, history, sent, mixed, faults>>

\* faulty: a resume position makes the entry unplayed on either server.
WrittenUnplayed(r) ==
    IF run.cur.done THEN [done |-> TRUE, pos |-> 0] ELSE [done |-> FALSE, pos |-> run.cur.pos]

\* mark_watched, or set_progress: Jellyfin's carries "Played": False.
Written(r) ==
    IF run.cur.done THEN [done |-> TRUE, pos |-> 0]
    ELSE [done |-> remote[r].done /\ ServerOf[r] = "plex", pos |-> run.cur.pos]

\* A call the server answers.  A connector made before its server was replaced
\* still talks to the old one.
CallAnswered(r) ==
    /\ run.pc = "call" /\ r \notin gone
    /\ run' = [run EXCEPT !.left = @ \ {r}, !.hits = TRUE]
    /\ IF run.cur.to \in run.old THEN UNCHANGED <<remote, sent>>
       ELSE /\ remote' = [remote EXCEPT ![r] = Written(r)]
            /\ sent' = IF run.cur.done THEN [sent EXCEPT ![r] = Min({@ + 1, MaxEvents + 2})]
                       ELSE sent
    /\ UNCHANGED <<world, book, history, mixed, faults>>

\* The server no longer knows the entry: _invalidate_reference retires it at once.
CallNotFound(r) ==
    /\ run.pc = "call" /\ r \in gone /\ import = {}
    /\ avail' = avail \ {r}
    /\ fresh' = [d \in Directions |-> IF d \in marked THEN fresh[d] \cup {ItemOf[r]} ELSE {}]
    /\ run' = [run EXCEPT !.left = @ \ {r}, !.since = @ \cup {ItemOf[r]}]
    /\ UNCHANGED <<remote, gone, local, evented, marked, pending, import, history, sent,
                   mixed, faults>>

\* A call that fails gives the candidate up, whatever its other targets answered.
CallFails ==
    /\ run.pc = "call" /\ run.left # {} /\ plays + faults < MaxEvents
    /\ run' = [run EXCEPT !.pc = "pick", !.left = {}, !.failed = TRUE]
    /\ faults' = faults + 1
    /\ UNCHANGED <<remote, world, book, history, sent, mixed>>

\* faulty: a candidate whose entries are all stale counts as a success.
SuccessAnyway == TRUE
Success == run.hits

\* Every target was tried: one that answered makes a success, none a failure.
Tried ==
    /\ run.pc = "call" /\ run.left = {}
    /\ run' = IF Success THEN [run EXCEPT !.pc = "pick", !.won = @ \cup {run.cur}]
              ELSE [run EXCEPT !.pc = "pick", !.failed = TRUE]
    /\ UNCHANGED <<remote, world, book, history, sent, mixed, faults>>

\* faulty: the completion made meanwhile is overwritten
RecordedAnyway(c, old) == [row |-> TRUE, done |-> c.done, pos |-> c.pos]

\* The state of a target after a success: a completion made meanwhile is kept.
Recorded(c, old) ==
    IF c.done \/ ~old.done THEN [row |-> TRUE, done |-> c.done, pos |-> c.pos] ELSE old

RowsOf(c) == {ItemOf[r] : r \in c.refs}

\* _record_successes: one transaction for the calls answered since the last one.
Record ==
    LET ownOf(i, s) == {c \in run.won : c.to = s /\ i \in RowsOf(c)}
        rows(d) == UNION {RowsOf(c) : c \in {x \in run.won : d \in {"both", x.to}}}
    IN  /\ run.pc = "pick" /\ run.won # {} /\ import = {}
        /\ Cardinality(run.won) >= BatchSize \/ run.cands = {}
        /\ local' = [i \in Items |-> [s \in Servers |->
               IF ownOf(i, s) = {} THEN local[i][s]
               ELSE Recorded(CHOOSE c \in ownOf(i, s) : TRUE, local[i][s])]]
        /\ fresh' = [d \in Directions |-> IF d \in marked THEN fresh[d] \cup rows(d) ELSE {}]
        /\ run' = [run EXCEPT !.won = {}, !.since = @ \cup rows(run.dir)]
        /\ mixed' = mixed \cup ({c.to : c \in run.won} \cap run.old)
        /\ UNCHANGED <<remote, gone, avail, evented, marked, pending, import, history, sent,
                       faults>>

\* faulty: the checkpoint is where the run ends; any run serves the import.
CheckpointLate == {}
Checkpoint == run.since
StillPendingNever == FALSE
StillPending == pending /\ run.dir # "both"

\* _finish: a run without a failure moves its checkpoint to where its scan began.
Finish ==
    /\ run.pc = "pick" /\ run.cands = {} /\ run.won = {} /\ import = {}
    /\ IF run.failed THEN UNCHANGED <<pending, marked, fresh>>
       ELSE /\ pending' = StillPending
            /\ marked' = IF run.full THEN marked \cup {run.dir} ELSE marked
            /\ fresh' = IF run.dir \in marked' THEN [fresh EXCEPT ![run.dir] = Checkpoint] ELSE fresh
    /\ run' = Idle
    /\ UNCHANGED <<remote, world, import, history, sent, mixed, faults>>

\* Cancelled before a candidate, refused by the database, or dead with its process:
\* what was answered and not recorded is forgotten.
Stops ==
    /\ run.pc # "idle" /\ plays + faults < MaxEvents
    /\ run' = Idle
    /\ faults' = faults + 1
    /\ UNCHANGED <<remote, world, book, history, sent, mixed>>

-------------------------------------------------------------------------------
(* The servers change.                                                          *)

\* A server drops an entry: only a call that is answered "not found" tells.
Vanish(r) ==
    /\ r \notin gone /\ plays + faults < MaxEvents
    /\ gone' = gone \cup {r}
    /\ faults' = faults + 1
    /\ UNCHANGED <<remote, avail, local, evented, book, run, history, sent, mixed>>

\* apply_server_identity: another server answers under a source's address.  Its
\* entries are new ones; states and checkpoints go, the history stays.
Replace(s) ==
    LET retired == {r \in Refs : ServerOf[r] = s}
    IN  /\ import = {} /\ plays + faults < MaxEvents
        /\ remote' = [r \in Refs |-> IF r \in retired THEN Blank ELSE remote[r]]
        /\ gone' = gone \ retired /\ avail' = avail \ retired
        /\ local' = [i \in Items |-> [local[i] EXCEPT ![s] = NoRow]]
        /\ marked' = {} /\ fresh' = [d \in Directions |-> {}]
        /\ run' = IF run.pc = "idle" THEN run
                  ELSE [run EXCEPT !.old = @ \cup {s},
                                   !.since = @ \cup {ItemOf[r] : r \in retired}]
        /\ sent' = [r \in Refs |-> IF r \in retired THEN 0 ELSE sent[r]]
        /\ known' = {k \in known : k[2] # s}
        /\ faults' = faults + 1
        /\ UNCHANGED <<evented, pending, import, finished, blind, mixed, plays>>

-------------------------------------------------------------------------------
RunSteps ==
    \/ \E c \in run.cands : Pick(c)
    \/ \E r \in run.left : CallAnswered(r) \/ CallNotFound(r)
    \/ Tried \/ Record \/ Finish

Next ==
    \/ \E r \in Refs : UserPlays(r) \/ Vanish(r)
    \/ \E r \in Refs, all \in BOOLEAN : Observe(r, all)
    \/ \E r \in Refs : ImportBegin(r)
    \/ ImportCommit
    \/ \E d \in Directions, full \in BOOLEAN : Start(d, full)
    \/ RunSteps \/ CallFails \/ Stops
    \/ \E s \in Servers : Replace(s)

Spec == Init /\ [][Next]_vars

\* A run goes on, an import ends, and the jobs of each direction come round again
\* (they are queued by the day and by the page; the queue serves every job), with
\* a full scan once the last one is _FULL_SCAN_INTERVAL old.
FairSpec ==
    /\ Spec
    /\ WF_vars(RunSteps \/ ImportCommit)
    /\ \A s \in Servers : SF_vars(Start(s, TRUE))

-------------------------------------------------------------------------------
Candidate == [to : Servers, refs : SUBSET Refs, done : BOOLEAN, pos : 0 .. MaxPos]

TypeOK ==
    /\ remote \in [Refs -> [done : BOOLEAN, pos : 0 .. MaxPos]]
    /\ gone \subseteq Refs /\ avail \subseteq Refs
    /\ local \in [Items -> [Servers -> [row : BOOLEAN, done : BOOLEAN, pos : 0 .. MaxPos]]]
    /\ evented \subseteq Items \X Servers /\ known \subseteq Items \X Servers
    /\ fresh \in [Directions -> SUBSET Items] /\ marked \subseteq Directions
    /\ pending \in BOOLEAN /\ import \subseteq Items
    /\ run \in [pc : {"idle", "pick", "call"}, dir : Directions, full : BOOLEAN,
                since : SUBSET Items, late : BOOLEAN, cands : SUBSET Candidate,
                cur : Candidate \cup {NoCandidate}, left : SUBSET Refs, hits : BOOLEAN,
                won : SUBSET Candidate, failed : BOOLEAN, old : SUBSET Servers]
    /\ finished \subseteq Items /\ blind \subseteq Items /\ mixed \subseteq Servers
    /\ sent \in [Refs -> 0 .. MaxEvents + 2]

\* Rows of one title, whatever is available and whoever owns an identifier: all that
\* Groups might ever join to the row of an entry.
Alike(i, j) ==
    \/ Ids[i] \cap Ids[j] # {}
    \/ \E q, r \in Refs : ItemOf[q] = i /\ ItemOf[r] = j /\ Paths[q] \cap Paths[r] # {}
Complete(S) == \A i \in S, j \in Items : Alike(i, j) => j \in S
Title(i) == {j \in Items : \A S \in SUBSET Items : i \in S /\ Complete(S) => j \in S}
\* Identifiers alone tell a title: any two of its rows share one.
OneIdentity(i) == \A j, k \in Title(i) : j = k \/ Ids[j] \cap Ids[k] # {}

\* A completion that a full scan would propagate is also found by the incremental
\* one, run after run: the checkpoint loses nothing, except what an import stamped
\* before a scan and committed after its snapshot, what the history of a server that was
\* replaced had hidden, and titles whose rows only files or other rows join, which wait
\* for the next full scan (_incremental_scope, _finish).
IncrementalCovers ==
    run.pc = "idle" =>
        \A d \in marked : \A c \in Candidates(d, Items) :
            c.done => \/ c \in Candidates(d, Scope(d))
                      \/ RowsOf(c) \cap Related(blind) # {}
                      \/ \E i \in RowsOf(c) : <<i, c.to>> \in evented \/ ~OneIdentity(i)

\* A completion the catalog records on a server happened there or was sent there;
\* the exception is a run that outlived the replacement of its server.
RecordedIsTrue ==
    \A i \in Items, s \in Servers : local[i][s].done =>
        \/ <<i, s>> \in known \/ s \in mixed
        \/ \E r \in Refs : ServerOf[r] = s /\ sent[r] > 0

\* A completion is sent again only after something went wrong: every resend shows
\* as one more play on Plex (_record_successes after the calls).
SentOnce == \A r \in Refs : sent[r] <= 1 + faults

\* What runs record never erases a completion, not even one that a webhook or a page
\* wrote between the scan and the record (_record_successes).
CompletionKept ==
    [][\A i \in Items, s \in Servers :
          local[i][s].done /\ local'[i][s].row => local'[i][s].done]_vars

\* When the pending import is declared done, all it still owes was written after the
\* scan began or was invisible to it, but for titles that identifiers do not tell
\* (_finish with clear_pending).
PendingServed ==
    [][pending /\ ~pending' =>
          \A c \in Candidates("both", Items) :
              c.done => \/ RowsOf(c) \cap Related(run.since \cup blind) # {}
                        \/ \E i \in RowsOf(c) : ~OneIdentity(i)]_vars

\* The documented promise: no call of a run takes a completion back (connectors'
\* set_progress against a completion the catalog has not collected yet).
NeverUnwatched ==
    [][plays' = plays /\ faults' = faults =>
          \A r \in Refs : remote[r].done => remote'[r].done]_vars

TitleOf == [r \in Refs |-> Title(ItemOf[r])]

\* A title finished on one server, as far as the catalog knows, is in the end known
\* finished on the other, unless its entries there are gone.
Owed(G, t) ==
    /\ \E i \in G : local[i][Other(t)].done
    /\ ~Watched(G, t)
    /\ \A s \in Servers : Entries(G, s) \ gone # {}
Settles == \A t \in Servers : \A G \in {TitleOf[r] : r \in Refs} : Owed(G, t) ~> ~Owed(G, t)

\* The propagation implements the promise of WatchPromise.
Promise == INSTANCE WatchPromise WITH
    finished <- {TitleOf[r] : r \in {q \in Refs : ItemOf[q] \in finished}},
    done <- {r \in Refs : remote[r].done},
    outside <- plays + faults,
    Unplayable <- {r \in Refs : ServerOf[r] = "jellyfin"}
KeepsPromise == Promise!Spec
===============================================================================
