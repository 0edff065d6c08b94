----------------------------- MODULE AsyncTasks -----------------------------
(***************************************************************************)
(* The durable queue of instant updates (src/euvieouvi/sync/async_tasks.py)*)
(* and the webhook requests that fill it (src/euvieouvi/web/routes.py).    *)
(*                                                                         *)
(* A playback event of a media item on its origin server becomes one row   *)
(* of the table async_tasks: one row per item for resume positions, one    *)
(* per completion.  A single executor thread per process claims due rows,  *)
(* forwards the event to every other server that has the item, and deletes *)
(* the row, or keeps it with a backoff, or isolates it after AttemptLimit  *)
(* failures.                                                               *)
(*                                                                         *)
(* SQLite runs in autocommit until the first write of a transaction, so a  *)
(* lookup is isolated from the write that follows it only when an earlier  *)
(* statement of the same request has already written: see ProgressEvent    *)
(* and ProgressLookup.                                                     *)
(***************************************************************************)
EXTENDS Integers, FiniteSets

CONSTANTS
    Media,          \* media items that play on the origin server
    Targets,        \* the other enabled servers, each with one reference to every item
    Starts,         \* how it may start, [catalogued, early]: the items with a reference on the
                    \* origin in the catalog, and whether requests are served before the
                    \* scheduler thread has run its recovery
    PlexTargets,    \* targets that keep a position of their own (Plex, for a Jellyfin origin)
    AttemptLimit,   \* _MAX_AUTOMATIC_ATTEMPTS (12)
    MaxEvents,      \* bound: acknowledged webhook events
    MaxFailures,    \* bound: failing calls, lookups and commits
    MaxRefusals,    \* bound: refused commits outside _run_one's own error handling
    MaxCrashes      \* bound: process restarts

ASSUME AsyncAssumption ==
    /\ Starts \subseteq [catalogued : SUBSET Media, early : BOOLEAN]
    /\ PlexTargets \subseteq Targets
    /\ AttemptLimit \in Nat \ {0}
    /\ {MaxEvents, MaxFailures, MaxRefusals, MaxCrashes} \subseteq Nat

VARIABLES
    row,        \* [Keys -> Row]: async_tasks, by dedup_key
    start,      \* how it started
    known,      \* items with an available SourceMediaRef on the origin
    finished,   \* items whose WatchState on the origin is completed
    refs,       \* [Media -> SUBSET Targets]: available references on the targets
    watch,      \* [Media -> [Targets -> Position]]: WatchState rows of the targets
    remote,     \* [Media -> [Targets -> Position]]: what each server was last told
    ex,         \* the executor thread
    hook,       \* a webhook request between its lookup and its write
    boot,       \* has the scheduler thread run recover_async_tasks?
    acked,      \* [Keys -> newest event whose request was acknowledged]
    handled,    \* [Keys -> newest event the executor has finished with]
    events, failures, refusals, crashes

queue == <<row, acked, handled, events>>
servers == <<start, known, refs, watch, remote>>
bounds == <<failures, refusals, crashes>>
vars == <<row, start, known, finished, refs, watch, remote, ex, hook, boot,
          acked, handled, events, failures, refusals, crashes>>

-----------------------------------------------------------------------------
(* Data.  An event is a number, in the order the requests were acknowledged;
   0 is "none".  A position is the last progress event, or Watched.          *)

Keys == Media \X {"progress", "completed"}
Event == 1 .. MaxEvents
None == 0
Watched == MaxEvents + 1
Position == 0 .. Watched

Row == [status : {"absent", "pending", "processing", "blocked"},
        payload : Event \cup {None}, pending : Event \cup {None},
        attempts : Nat, due : BOOLEAN]

NoRow == [status |-> "absent", payload |-> None, pending |-> None,
          attempts |-> 0, due |-> FALSE]

NoKey == <<"none", "none">>
Idle == [pc |-> "idle", key |-> NoKey, event |-> None, left |-> {}, told |-> {}]
NoHook == [key |-> NoKey, seen |-> NoRow]

Init ==
    /\ row = [k \in Keys |-> NoRow]
    /\ start \in Starts /\ known = start.catalogued
    /\ finished = {}
    /\ refs = [m \in Media |-> Targets]
    /\ watch = [m \in Media |-> [t \in Targets |-> 0]]
    /\ remote = [m \in Media |-> [t \in Targets |-> 0]]
    /\ ex = Idle
    /\ hook = NoHook
    /\ boot = "recover"
    /\ acked = [k \in Keys |-> None]
    /\ handled = [k \in Keys |-> None]
    /\ events = 0 /\ failures = 0 /\ refusals = 0 /\ crashes = 0

Serving == boot = "done" \/ start.early

\* The bound leaves an event for the request that is between its two steps.
Room == events + (IF hook = NoHook THEN 0 ELSE 1) < MaxEvents

-----------------------------------------------------------------------------
(* Webhook requests: enqueue_watch_update.                                   *)

Fresh(e) == [status |-> "pending", payload |-> e, pending |-> None,
             attempts |-> 0, due |-> TRUE]

\* What the flush makes of row r when the request had loaded it as seen: only
\* the attributes that differ from the loaded ones are written.
Enqueued(r, seen, e) ==
    IF seen.status = "processing"
    THEN [r EXCEPT !.pending = e, !.due = TRUE]
    ELSE [r EXCEPT !.payload = e, !.due = TRUE,
                   !.status = IF seen.status = "pending" THEN @ ELSE "pending",
                   !.attempts = IF seen.attempts = 0 THEN @ ELSE 0]

\* The row of key k after an enqueue whose lookup and write are one transaction.
Stored(k, e) == IF row[k] = NoRow THEN Fresh(e) ELSE Enqueued(row[k], row[k], e)

Acknowledge(k, r) ==
    /\ row' = [row EXCEPT ![k] = r]
    /\ acked' = [acked EXCEPT ![k] = events + 1]
    /\ events' = events + 1
    /\ UNCHANGED handled

\* A resume position whose request has already flushed a write when it looks
\* the task up: the WatchState of a catalogued item, which drops the event of
\* an item completed on the origin, or the changed WebhookEvent of another one.
ProgressEvent(m) ==
    /\ Serving /\ Room
    /\ m \in known => m \notin finished
    /\ Acknowledge(<<m, "progress">>, Stored(<<m, "progress">>, events + 1))
    /\ UNCHANGED <<servers, finished, ex, hook, boot, bounds>>

\* The same request for an item with no reference when nothing has changed in
\* its WebhookEvent: the lookup runs outside a transaction.
ProgressLookup(m) ==
    /\ Serving /\ Room
    /\ m \notin known
    /\ hook = NoHook
    /\ hook' = [key |-> <<m, "progress">>, seen |-> row[<<m, "progress">>]]
    /\ UNCHANGED <<queue, servers, finished, ex, boot, bounds>>

\* Its write.  A row found is updated by its id, a StaleDataError (and no
\* acknowledgement) if it is gone; no row is an INSERT, and when that collides
\* the row is looked up again, now inside the transaction.
ProgressWrite ==
    /\ hook # NoHook
    /\ hook' = NoHook
    /\ LET k == hook.key
       IN  \/ /\ hook.seen = NoRow
              /\ Acknowledge(k, Stored(k, events + 1))
           \/ /\ hook.seen # NoRow /\ row[k] # NoRow
              /\ Acknowledge(k, Enqueued(row[k], hook.seen, events + 1))
           \/ /\ hook.seen # NoRow /\ row[k] = NoRow
              /\ UNCHANGED queue
    /\ UNCHANGED <<servers, finished, ex, boot, bounds>>

\* A completion: the history event is flushed first, so the lookup is part of
\* the transaction, and each completion has a key of its own.
CompletedEvent(m) ==
    /\ Serving /\ Room
    /\ row[<<m, "completed">>] = NoRow
    /\ Acknowledge(<<m, "completed">>, Fresh(events + 1))
    /\ finished' = finished \cup ({m} \cap known)
    /\ UNCHANGED <<servers, ex, hook, boot, bounds>>

-----------------------------------------------------------------------------
(* The executor: AsyncTaskExecutor._execute, _claim_due and _run_one.        *)

\* submit: by any request, by the scheduler and by retry_all; _active keeps
\* it to one thread.  The 10 s throttle only delays it.
Submit ==
    /\ Serving
    /\ ex.pc = "idle"
    /\ ex' = [ex EXCEPT !.pc = "claim"]
    /\ UNCHANGED <<queue, servers, finished, hook, boot, bounds>>

Due(k) == row[k].status = "pending" /\ row[k].due

\* The SELECT of a due row and the conditional UPDATE are one step: no other
\* statement of the program takes a pending row out of that status.
Claim ==
    /\ ex.pc = "claim"
    /\ \/ \E k \in Keys :
            /\ Due(k)
            /\ row' = [row EXCEPT ![k].status = "processing"]
            /\ ex' = [ex EXCEPT !.pc = "load", !.key = k]
       \/ /\ \A k \in Keys : ~Due(k)
          /\ ex' = Idle
          /\ UNCHANGED row
    /\ UNCHANGED <<acked, handled, events, servers, finished, hook, boot, bounds>>

Load ==
    /\ ex.pc = "load"
    /\ ex' = [ex EXCEPT !.pc = "check", !.event = row[ex.key].payload]
    /\ UNCHANGED <<queue, servers, finished, hook, boot, bounds>>

Item == ex.key[1]
IsProgress == ex.key[2] = "progress"

SupersededNever == FALSE                \* faulty: the check is left out

\* _is_superseded: a completion of the same item is queued, whatever its status.
Superseded == IsProgress /\ row[<<Item, "completed">>].status
                              \in {"pending", "processing", "blocked"}

\* _origin_reference repairs a missing reference with a targeted lookup, in a
\* commit of its own; with no available reference on a target the event fails.
Check ==
    /\ ex.pc = "check"
    /\ \/ /\ Superseded
          /\ ex' = [ex EXCEPT !.pc = "finish"]
          /\ UNCHANGED known
       \/ /\ ~Superseded
          /\ known' = known \cup {Item}
          /\ ex' = [ex EXCEPT !.pc = IF refs[Item] = {} THEN "failed" ELSE "deliver",
                              !.left = refs[Item]]
    /\ UNCHANGED <<queue, start, refs, watch, remote, finished, hook, boot, bounds>>

\* _apply_watch_update leaves a target alone that is completed, is already at
\* this position, or keeps its own.
Skips(t) ==
    LET at == watch[Item][t]
    IN  \/ at = Watched
        \/ IsProgress /\ at = ex.event
        \/ IsProgress /\ t \in PlexTargets /\ at > 0

Told == IF IsProgress THEN ex.event ELSE Watched

Committed == [watch EXCEPT ![Item] = [t \in Targets |-> IF t \in ex.told THEN Told ELSE @[t]]]

Skip ==
    /\ ex.pc = "deliver"
    /\ \E t \in ex.left : Skips(t) /\ ex' = [ex EXCEPT !.left = @ \ {t}]
    /\ UNCHANGED <<queue, servers, finished, hook, boot, bounds>>

Deliver ==
    /\ ex.pc = "deliver"
    /\ \E t \in ex.left :
          /\ ~Skips(t)
          /\ remote' = [remote EXCEPT ![Item][t] = Told]
          /\ ex' = [ex EXCEPT !.left = @ \ {t}, !.told = @ \cup {t}]
    /\ UNCHANGED <<queue, start, known, refs, watch, finished, hook, boot, bounds>>

\* The server answers 404: _invalidate_reference disables the reference and
\* commits, with the WatchStates of the targets told before it; no other
\* reference is left on that target, so the event fails.
Stale ==
    /\ ex.pc = "deliver" /\ failures < MaxFailures
    /\ \E t \in ex.left : ~Skips(t) /\ refs' = [refs EXCEPT ![Item] = @ \ {t}]
    /\ watch' = Committed
    /\ ex' = [ex EXCEPT !.pc = "failed", !.left = {}, !.told = {}]
    /\ failures' = failures + 1
    /\ UNCHANGED <<queue, start, known, remote, finished, hook, boot, refusals, crashes>>

\* A lookup, a call or the commit raises.  A call may still have reached the server.
Raises ==
    /\ ex.pc \in {"check", "deliver", "finish"} /\ failures < MaxFailures
    /\ \/ UNCHANGED remote
       \/ /\ ex.pc = "deliver"
          /\ \E t \in ex.left : ~Skips(t) /\ remote' = [remote EXCEPT ![Item][t] = Told]
    /\ ex' = [ex EXCEPT !.pc = "failed", !.left = {}, !.told = {}]
    /\ failures' = failures + 1
    /\ UNCHANGED <<queue, start, known, refs, watch, finished, hook, boot, refusals, crashes>>

CommitWatch ==
    /\ ex.pc = "deliver" /\ ex.left = {}
    /\ watch' = Committed
    /\ ex' = [ex EXCEPT !.pc = "finish", !.told = {}]
    /\ UNCHANGED <<queue, start, known, refs, remote, finished, hook, boot, bounds>>

FinishedDeletes(r) == NoRow             \* faulty: the DELETE has no condition

FinishedKeepsStatus(r) ==               \* faulty: the successor's status is not reset
    IF r.pending = None THEN NoRow
    ELSE [r EXCEPT !.payload = r.pending, !.pending = None, !.attempts = 0, !.due = TRUE]

\* DELETE ... WHERE pending_payload IS NULL, or else the successor takes over.
Finished(r) ==
    IF r.pending = None THEN NoRow ELSE Fresh(r.pending)

Finish ==
    /\ ex.pc = "finish"
    /\ row' = [row EXCEPT ![ex.key] = Finished(@)]
    /\ handled' = [handled EXCEPT ![ex.key] = ex.event]
    /\ ex' = [Idle EXCEPT !.pc = "claim"]
    /\ UNCHANGED <<acked, events, servers, finished, hook, boot, bounds>>

Latest(r) == IF r.pending = None THEN r.payload ELSE r.pending

Failed(r) ==
    [r EXCEPT !.attempts = @ + 1, !.due = FALSE,
              !.status = IF r.attempts + 1 >= AttemptLimit THEN "blocked" ELSE "pending",
              !.payload = Latest(r), !.pending = None]

\* The error path of _run_one: rollback, then the bookkeeping in one commit.
Fail ==
    /\ ex.pc = "failed"
    /\ row' = [row EXCEPT ![ex.key] = Failed(@)]
    /\ ex' = [Idle EXCEPT !.pc = "claim"]
    /\ UNCHANGED <<acked, handled, events, servers, finished, hook, boot, bounds>>

\* A commit of the claim or of the error path is refused: _execute ends in its
\* fatal branch, and a row already claimed stays processing.
DrainDies ==
    /\ ex.pc \in {"claim", "failed"} /\ refusals < MaxRefusals
    /\ ex' = Idle
    /\ refusals' = refusals + 1
    /\ UNCHANGED <<queue, servers, finished, hook, boot, failures, crashes>>

BackoffElapses(k) ==
    /\ row[k].status = "pending" /\ ~row[k].due
    /\ row' = [row EXCEPT ![k].due = TRUE]
    /\ UNCHANGED <<acked, handled, events, servers, finished, ex, hook, boot, bounds>>

Retried(r) ==
    IF r.status \in {"pending", "blocked"}
    THEN [r EXCEPT !.status = "pending", !.attempts = 0, !.due = TRUE] ELSE r

\* retry_all, the first half of the manual queue job; its submit is Submit.
RetryAll ==
    /\ Serving
    /\ row' = [k \in Keys |-> Retried(row[k])]
    /\ row' # row
    /\ UNCHANGED <<acked, handled, events, servers, finished, ex, hook, boot, bounds>>

-----------------------------------------------------------------------------
(* Restart.                                                                  *)

RecoveredSuccessors(r) ==               \* faulty: only rows with a successor are recovered
    IF r.status = "processing" /\ r.pending # None
    THEN [r EXCEPT !.status = "pending", !.payload = r.pending, !.pending = None] ELSE r

\* recover_async_tasks, for one row.
Recovered(r) ==
    IF r.status = "processing"
    THEN [r EXCEPT !.status = "pending", !.payload = Latest(r), !.pending = None] ELSE r

BootRecover ==
    /\ boot = "recover"
    /\ boot' = "done"
    /\ row' = [k \in Keys |-> Recovered(row[k])]
    /\ UNCHANGED <<acked, handled, events, servers, finished, ex, hook, bounds>>

\* The process dies: threads, requests and uncommitted WatchStates are gone.
Crash ==
    /\ crashes < MaxCrashes
    /\ crashes' = crashes + 1
    /\ ex' = Idle /\ hook' = NoHook /\ boot' = "recover"
    /\ UNCHANGED <<queue, servers, finished, failures, refusals>>

-----------------------------------------------------------------------------

RunOne == Load \/ Check \/ Skip \/ Deliver \/ Stale \/ Raises \/ CommitWatch \/ Finish \/ Fail

Next ==
    \/ \E m \in Media : ProgressEvent(m) \/ ProgressLookup(m) \/ CompletedEvent(m)
    \/ ProgressWrite
    \/ Submit \/ Claim \/ RunOne \/ DrainDies
    \/ \E k \in Keys : BackoffElapses(k)
    \/ RetryAll
    \/ BootRecover \/ Crash

Spec == Init /\ [][Next]_vars

\* The scheduler recovers once and submits every 30 s, threads run, backoffs
\* elapse; nobody has to send an event or to start the manual queue job.
FairSpec ==
    /\ Spec
    /\ WF_vars(BootRecover) /\ WF_vars(Submit) /\ WF_vars(Claim) /\ WF_vars(RunOne)
    /\ WF_vars(ProgressWrite)
    /\ \A k \in Keys : WF_vars(BackoffElapses(k))

-----------------------------------------------------------------------------
(* Properties.                                                               *)

\* The state is well typed.  The attempts of a row are not bounded by AttemptLimit: the
\* write of a request that looked the row up long before may make an isolated row
\* pending again without resetting them (enqueue_watch_update).
TypeOK ==
    /\ row \in [Keys -> Row]
    /\ start \in Starts /\ start.catalogued \subseteq known /\ known \subseteq Media /\ finished \subseteq Media
    /\ refs \in [Media -> SUBSET Targets]
    /\ watch \in [Media -> [Targets -> Position]]
    /\ remote \in [Media -> [Targets -> Position]]
    /\ ex \in [pc : {"idle", "claim", "load", "check", "deliver", "finish", "failed"},
               key : Keys \cup {NoKey}, event : Event \cup {None},
               left : SUBSET Targets, told : SUBSET Targets]
    /\ hook \in [key : Keys \cup {NoKey}, seen : Row]
    /\ boot \in {"recover", "done"}
    /\ acked \in [Keys -> Event \cup {None}]
    /\ handled \in [Keys -> Event \cup {None}]
    /\ events \in 0 .. MaxEvents /\ failures \in 0 .. MaxFailures
    /\ refusals \in 0 .. MaxRefusals /\ crashes \in 0 .. MaxCrashes

\* The newest acknowledged event of an item the catalog knows is in its row or has been
\* dealt with: neither a newer event arriving in mid-delivery, nor a failure, nor a
\* restart loses it (enqueue_watch_update, _run_one, recover_async_tasks).  For an item
\* it does not know the lookup and the write are two steps, and one can be lost; and a
\* recovery that runs late takes rows from a drain that an early request started.
NothingLost ==
    \A k \in Keys :
        ~start.early /\ k[1] \in start.catalogued /\ acked[k] # None =>
            \/ handled[k] = acked[k]
            \/ row[k] # NoRow /\ acked[k] \in {row[k].payload, row[k].pending}

\* A server that was told the item is watched is never sent an older resume
\* position afterwards, even when the completion reached only some servers and
\* is being retried (_is_superseded and the checks of _apply_watch_update).
CompletionWins ==
    [][\A m \in Media, t \in Targets : remote[m][t] = Watched => remote'[m][t] = Watched]_vars

\* Once the start-up recovery is over, a row is processing only in the hands of
\* the executor, or because a refused commit ended a drain: nothing else but a
\* restart would ever return it to pending.
Stranded(k) == row[k].status = "processing" /\ (ex.pc \in {"idle", "claim"} \/ ex.key # k)

StrandedByRefusal ==
    boot = "done" => Cardinality({k \in Keys : Stranded(k)}) <= refusals

\* Every row ends up deleted or isolated, unless a refused commit has stranded
\* it: "automatic retries, restart recovery, periodic draining" (README).  A
\* user who starts the manual queue job for ever, which resets the attempts,
\* may keep an undeliverable row going.
EventsSettle ==
    <>[][~RetryAll]_vars =>
        \A k \in Keys : <>[](\/ row[k].status \in {"absent", "blocked"}
                             \/ refusals > 0 /\ Stranded(k))

\* The executor isolates only an event it has just tried, not a successor that
\* arrived while the failing one was being delivered.
IsolatesWhatItTried ==
    [][\A k \in Keys :
          row[k].status # "blocked" /\ row'[k].status = "blocked"
             => row'[k].payload = ex.event]_vars
=============================================================================
