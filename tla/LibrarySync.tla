---------------------------- MODULE LibrarySync ----------------------------
(***************************************************************************)
(* The synchronization of one library (SyncOrchestrator._sync_library): a  *)
(* media server whose library changes while it is read page by page, the   *)
(* local references and history, and the checkpoint that says where the    *)
(* next run starts.                                                        *)
(*                                                                         *)
(* Every page is fetched in one step and stored, with the cursor, in       *)
(* another.  A run may end after any of them: cancellation, a connector    *)
(* error, a refused commit and the death of the process all leave what was *)
(* committed, and the next run starts from it.                             *)
(*                                                                         *)
(* Items are numbered in the order the server lists them.  Time is counted *)
(* in ticks; 0 is "never" for every time of the model.                     *)
(***************************************************************************)
EXTENDS Naturals, FiniteSets

CONSTANTS
    NumItems,       \* items the library may hold
    PageSize,       \* the orchestrator's page_size
    Overlap,        \* _WATERMARK_OVERLAP, in ticks
    FullInterval,   \* _FULL_SCAN_INTERVAL, in ticks
    MaxTime,        \* bound: the clock
    MaxEdits,       \* bound: items added or changed on the server
    MaxRemovals,    \* bound: items removed from the server
    MaxPlays,       \* bound: plays recorded by the server
    MaxEnds,        \* bound: runs that end early
    MaxFaults       \* bound: items that cannot be mapped or stored

ASSUME LibraryAssumption ==
    /\ {NumItems, PageSize, Overlap, FullInterval} \subseteq Nat \ {0}
    /\ {MaxTime, MaxEdits, MaxRemovals, MaxPlays, MaxEnds, MaxFaults} \subseteq Nat
    /\ Overlap < MaxTime

VARIABLES
    clock,
    server,     \* [Items -> [here, at]]: is the item there, and its last change
    gone,       \* items that were removed from the server once
    plays,      \* [Time -> 0..NumItems]: the item played at that time
    ref,        \* [Items -> [version, available]]: SourceMediaRef
    events,     \* times of the plays stored as WatchEvents
    cp,         \* the library's SyncCheckpoint
    run,        \* the run in progress
    clean,      \* nothing has disturbed the runs that made this checkpoint
    writer,     \* the run that wrote the cursor
    edits, removals, ends, faults

outside == <<clock, server, gone, plays, edits, removals>>
vars == <<clock, server, gone, plays, ref, events, cp, run, clean, writer,
          edits, removals, ends, faults>>

Items == 1..NumItems
Time == 1..MaxTime
Never == 0

\* The stage and position of the cursor, watermark_at and last_full_scan_at.
NoCheckpoint == [stage |-> "none", start |-> 0, wm |-> Never, full |-> Never]
Idle == [pc |-> "idle", start |-> 0, scan |-> Never, since |-> Never, wm |-> Never,
         periodic |-> FALSE, full |-> FALSE, seen |-> {}, page |-> <<>>, last |-> {},
         more |-> FALSE, dirty |-> FALSE]

\* The first watermark must be distinguishable from "never".
Init ==
    /\ clock = Overlap + 1
    /\ server = [i \in Items |-> [here |-> FALSE, at |-> Never]]
    /\ gone = {}
    /\ plays = [t \in Time |-> 0]
    /\ ref = [i \in Items |-> [version |-> Never, available |-> FALSE]]
    /\ events = {}
    /\ cp = NoCheckpoint
    /\ run = Idle
    /\ clean = [catalog |-> TRUE, history |-> TRUE]
    /\ writer = [scan |-> Never, since |-> Never, dirty |-> FALSE]
    /\ edits = 0 /\ removals = 0 /\ ends = 0 /\ faults = 0

Disturbed == [catalog |-> FALSE, history |-> FALSE]

-----------------------------------------------------------------------------
(* The media server and its users.                                          *)

Tick ==
    /\ clock < MaxTime
    /\ clock' = clock + 1
    /\ UNCHANGED <<server, gone, plays, ref, events, cp, run, clean, writer,
                   edits, removals, ends, faults>>

\* An item appears, comes back or has its metadata changed.
Edit(i) ==
    /\ edits < MaxEdits
    /\ edits' = edits + 1
    /\ server[i] # [here |-> TRUE, at |-> clock]
    /\ server' = [server EXCEPT ![i] = [here |-> TRUE, at |-> clock]]
    /\ UNCHANGED <<clock, gone, plays, ref, events, cp, run, clean, writer,
                   removals, ends, faults>>

\* A removal shifts the positions of the items listed after it: a scan in
\* progress, or one that a cursor will resume, may miss one of them.
Remove(i) ==
    /\ removals < MaxRemovals
    /\ removals' = removals + 1
    /\ server[i].here
    /\ server' = [server EXCEPT ![i] = [here |-> FALSE, at |-> clock]]
    /\ gone' = gone \cup {i}
    /\ LET scanning == run.pc \in {"media", "save"}
       IN /\ run' = [run EXCEPT !.dirty = @ \/ scanning]
          /\ clean' = IF scanning THEN Disturbed ELSE clean
    /\ writer' = [writer EXCEPT !.dirty = @ \/ cp.stage = "media"]
    /\ UNCHANGED <<clock, plays, ref, events, cp, edits, ends, faults>>

Play(i) ==
    /\ server[i].here /\ plays[clock] = 0
    /\ Cardinality({t \in Time : plays[t] # 0}) < MaxPlays
    /\ plays' = [plays EXCEPT ![clock] = i]
    /\ UNCHANGED <<clock, server, gone, ref, events, cp, run, clean, writer,
                   edits, removals, ends, faults>>

\* A page of a listing: the positions after start, in order.
Position(x, listing) == Cardinality({y \in listing : y <= x})
PageOf(listing, start) ==
    {x \in listing : start < Position(x, listing) /\ Position(x, listing) <= start + PageSize}

\* Items changed after the given time, and plays after it in time order.
Listed(since) == {i \in Items : server[i].here /\ server[i].at > since}
Played(since) == {t \in Time : plays[t] # 0 /\ t > since}

-----------------------------------------------------------------------------
(* A run over the library.                                                  *)

Periodic ==
    \/ cp.wm = Never \/ cp.full = Never
    \/ clock - cp.full >= FullInterval

\* The scan starts where the cursor points, whichever filter it was written under.
Begin ==
    LET stage == IF cp.stage = "history" THEN "history" ELSE "media"
        resumed == cp.stage # "none"
    IN  /\ run.pc = "idle"
        /\ run' = [Idle EXCEPT !.pc = stage, !.start = cp.start, !.scan = clock,
                               !.since = IF Periodic THEN Never ELSE cp.wm, !.wm = cp.wm,
                               !.periodic = Periodic,
                               !.full = Periodic /\ stage = "media" /\ cp.start = 0,
                               !.dirty = resumed]
        /\ clean' = IF resumed THEN Disturbed ELSE clean
        /\ UNCHANGED <<outside, ref, events, cp, writer, ends, faults>>

\* At most MaxFaults entries of the server's pages cannot be mapped or stored.
Faults(bad) ==
    /\ faults' = faults + Cardinality(bad)
    /\ faults' <= MaxFaults
    /\ clean' = IF bad = {} THEN clean ELSE Disturbed

\* _remember_page: the connector fails a run whose page repeats the one before it.
Repeats(entries) == entries # {} /\ entries = run.last

Fetched(pc, entries, issues, more, what) ==
    run' = IF Repeats(entries) THEN Idle
           ELSE [run EXCEPT !.pc = pc, !.page = [x \in entries |-> what[x]],
                            !.last = entries, !.more = more,
                            !.dirty = @ \/ issues # {},
                            !.seen = IF pc = "save" THEN @ \cup entries ELSE @]

\* An item that cannot be mapped is reported as an issue of the page and is
\* not among the seen ones; a full page means that there may be more.
FetchMedia ==
    LET page == PageOf(Listed(run.since), run.start)
    IN  /\ run.pc = "media"
        /\ \E bad \in SUBSET page :
              /\ Faults(bad)
              /\ Fetched("save", page \ bad, bad, Cardinality(page) = PageSize,
                         [i \in Items |-> server[i].at])
        /\ UNCHANGED <<outside, ref, events, cp, writer, ends>>

CursorAhead(stage, start) ==            \* faulty: one page too far
    [cp EXCEPT !.stage = IF stage = "complete" THEN "none" ELSE stage,
               !.start = IF stage = "media" THEN start + PageSize ELSE start]
Cursor(stage, start) ==
    [cp EXCEPT !.stage = IF stage = "complete" THEN "none" ELSE stage, !.start = start]

\* _set_checkpoint, in the transaction of the page.
SetCheckpoint(stage, start, dirty) ==
    /\ cp' = Cursor(stage, start)
    /\ writer' = [scan |-> run.scan, since |-> run.since, dirty |-> dirty]

NextStart == IF run.more THEN run.start + PageSize ELSE 0

\* Items are stored in savepoints of their own: one that fails is logged, and
\* the cursor moves on.
SaveMedia ==
    /\ run.pc = "save"
    /\ \E bad \in SUBSET DOMAIN run.page :
          LET stored == DOMAIN run.page \ bad
              dirty == run.dirty \/ bad # {}
          IN  /\ Faults(bad)
              /\ ref' = [i \in Items |-> IF i \in stored
                                         THEN [version |-> run.page[i], available |-> TRUE]
                                         ELSE ref[i]]
              /\ SetCheckpoint(IF run.more THEN "media" ELSE "history", NextStart, dirty)
              /\ run' = [run EXCEPT !.pc = IF run.more THEN "media"
                                           ELSE IF run.full THEN "mark" ELSE "history",
                                    !.start = NextStart, !.page = <<>>, !.dirty = dirty,
                                    !.last = IF run.more THEN @ ELSE {}]
    /\ UNCHANGED <<outside, events, ends>>

MissingUnlessKnown == {}                \* faulty: nothing is ever taken for missing
Missing == Items \ run.seen

\* _mark_missing_unavailable, after a scan that started at the beginning.
MarkMissing ==
    /\ run.pc = "mark"
    /\ ref' = [i \in Items |-> IF i \in Missing THEN [ref[i] EXCEPT !.available = FALSE]
                               ELSE ref[i]]
    /\ run' = [run EXCEPT !.pc = "history"]
    /\ UNCHANGED <<outside, events, cp, clean, writer, ends, faults>>

HistorySinceScan == run.scan            \* faulty: only what happened during the run
HistorySince == run.wm

\* Pages without a usable event are passed over within the call.
FetchHistory ==
    LET page == PageOf(Played(HistorySince), run.start)
        more == Cardinality(page) = PageSize
    IN  /\ run.pc = "history"
        /\ \E bad \in SUBSET page :
              /\ Faults(bad)
              /\ IF bad = page /\ more
                 THEN run' = [run EXCEPT !.start = @ + PageSize, !.dirty = TRUE]
                 ELSE Fetched("store", page \ bad, bad, more, plays)
        /\ UNCHANGED <<outside, ref, events, cp, writer, ends>>

\* An event of an item without a reference is refused by persist_event.
StoreHistory ==
    /\ run.pc = "store"
    /\ \E bad \in SUBSET DOMAIN run.page :
          LET known == {t \in DOMAIN run.page : ref[run.page[t]].version # Never}
              dirty == run.dirty \/ bad # {}
          IN  /\ Faults(bad)
              /\ events' = events \cup (known \ bad)
              /\ SetCheckpoint(IF run.more THEN "history" ELSE "complete", NextStart, dirty)
              /\ run' = [run EXCEPT !.pc = IF run.more THEN "history" ELSE "complete",
                                    !.start = NextStart, !.page = <<>>, !.dirty = dirty]
    /\ UNCHANGED <<outside, ref, ends>>

WatermarkAtEnd == clock - Overlap       \* faulty: the time the scan ended
Watermark == run.scan - Overlap

\* _complete_checkpoint.
Complete ==
    /\ run.pc = "complete"
    /\ cp' = [stage |-> "none", start |-> 0, wm |-> Watermark,
              full |-> IF run.periodic THEN Watermark ELSE cp.full]
    /\ run' = Idle
    /\ clean' = [clean EXCEPT !.catalog = @ \/ (run.full /\ ~run.dirty)]
    /\ UNCHANGED <<outside, ref, events, writer, ends, faults>>

\* The run is cancelled or fails, or the process dies: what was committed stays.
EndEarly ==
    /\ run.pc # "idle"
    /\ ends < MaxEnds
    /\ ends' = ends + 1
    /\ run' = Idle
    /\ UNCHANGED <<outside, ref, events, cp, clean, writer, faults>>

-----------------------------------------------------------------------------

Next ==
    \/ Tick
    \/ \E i \in Items : Edit(i) \/ Remove(i) \/ Play(i)
    \/ Begin \/ FetchMedia \/ SaveMedia \/ MarkMissing
    \/ FetchHistory \/ StoreHistory \/ Complete \/ EndEarly

Spec == Init /\ [][Next]_vars

-----------------------------------------------------------------------------
(* Properties.                                                               *)

AnyTime == 0..MaxTime

\* The state is well typed; in particular a cursor is either absent or names one of
\* the two stages that _resume_position accepts.
TypeOK ==
    /\ clock \in Time
    /\ server \in [Items -> [here : BOOLEAN, at : AnyTime]]
    /\ gone \subseteq Items
    /\ plays \in [Time -> {0} \cup Items]
    /\ ref \in [Items -> [version : AnyTime, available : BOOLEAN]]
    /\ events \subseteq Time
    /\ cp \in [stage : {"none", "media", "history"}, start : Nat, wm : AnyTime, full : AnyTime]
    /\ run \in [pc : {"idle", "media", "save", "mark", "history", "store", "complete"},
                start : Nat, scan : AnyTime, since : AnyTime, wm : AnyTime,
                periodic : BOOLEAN, full : BOOLEAN, seen : SUBSET Items,
                page : {run.page}, last : SUBSET (Items \cup Time),
                more : BOOLEAN, dirty : BOOLEAN]
    /\ run.pc = "save" => run.page \in [DOMAIN run.page -> Time] /\ DOMAIN run.page \subseteq Items
    /\ run.pc = "store" => run.page \in [DOMAIN run.page -> Items] /\ DOMAIN run.page \subseteq Time
    /\ clean \in [catalog : BOOLEAN, history : BOOLEAN]
    /\ writer \in [scan : AnyTime, since : AnyTime, dirty : BOOLEAN]
    /\ edits \in 0..MaxEdits /\ removals \in 0..MaxRemovals
    /\ ends \in 0..MaxEnds /\ faults \in 0..MaxFaults

Current(i) == ref[i] = [version |-> server[i].at, available |-> TRUE]

\* What the watermark hides from the incremental scans to come is stored: items
\* edited while a page was in flight, or just before and just after the scan began,
\* are either in the catalog or newer than the watermark.  Known exceptions: a
\* resumed run, a failed item and a removal during the scan (`clean'), which only
\* an undisturbed full scan repairs.
WatermarkCovers ==
    clean.catalog => \A i \in Items :
        server[i].here /\ server[i].at <= cp.wm => Current(i)

\* Checkpoint after commit: what lies before the cursor, and was there before the
\* run that wrote it began, is stored, wherever the run was cut off.
CursorCovers ==
    cp.stage # "none" /\ ~writer.dirty =>
        \A i \in Listed(writer.since) :
            /\ server[i].at < writer.scan
            /\ cp.stage = "media" => Position(i, Listed(writer.since)) <= cp.start
            => Current(i)

\* A play older than the watermark is in the history, also one of an item that was
\* added while the library was being read: the watermark lies before the media
\* stage, so the next run asks for it again.
HistoryCovers ==
    clean.history => \A t \in Time :
        t <= cp.wm /\ plays[t] # 0 /\ plays[t] \notin gone => t \in events

\* An item that was gone before the last full scan began is marked unavailable, and
\* stays so through the incremental runs that follow.
RemovedRetire ==
    clean.catalog /\ cp.full # Never => \A i \in Items :
        ~server[i].here /\ server[i].at < cp.full + Overlap => ~ref[i].available

\* A checkpoint never skips work that was not stored: the same as WatermarkCovers
\* with nothing excepted.
CheckpointSkipsNothing ==
    \A i \in Items : server[i].here /\ server[i].at <= cp.wm => Current(i)

\* An item is marked unavailable only if it was not in the library at some moment
\* since the scan began.
UnavailableMeansAbsent ==
    [][\A i \in Items : ref[i].available /\ ~ref'[i].available
                          => ~(server[i].here /\ server[i].at < run.scan)]_vars
=============================================================================
