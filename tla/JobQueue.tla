------------------------------ MODULE JobQueue ------------------------------
(***************************************************************************)
(* The durable job queue: the rows of table job_runs, the drain thread of  *)
(* DurableJobWorker, the web threads that submit and cancel jobs, the      *)
(* scheduler thread that recovers the queue when a process starts, and the *)
(* in-memory executors that do the work.                                   *)
(*                                                                         *)
(* One action is one transaction or one in-memory critical section.  The   *)
(* SQLite connections run SELECTs outside a transaction, so a read and the *)
(* ORM write that follows it are two actions: `seen' holds what the read   *)
(* loaded, and the flush writes only the columns that differ from it.      *)
(***************************************************************************)
EXTENDS Naturals, FiniteSets

CONSTANTS
  Jobs,           \* the job ids in use, among those of JobIds
  MaxRuns,        \* bound: rows ever inserted in job_runs
  Threads,        \* web threads (the daily scheduler submits through one too)
  Limits,         \* values of the setting jobs.retry.max_attempts
  Keep,           \* the setting jobs.retention.keep_last
  MaxSyncs,       \* bound: rows ever inserted in sync_runs
  MaxFailures,    \* bound: process deaths and commits refused by a locked database
  EarlyRequests   \* web requests are served before the startup recovery ends

JobIds == {"sync_plex", "watched_plex_to_jellyfin", "watched_jellyfin_to_plex",
           "sync_jellyfin", "metadata", "catalog_images", "catalog_reconcile",
           "async_tasks", "maintenance"}

ASSUME JobsAssumption == Jobs \subseteq JobIds
ASSUME BoundsAssumption ==
  /\ MaxRuns \in Nat /\ MaxSyncs \in Nat /\ MaxFailures \in Nat
  /\ Limits \subseteq 1..10 /\ Limits # {}
  /\ Keep \in Nat \ {0}
  /\ EarlyRequests \in BOOLEAN

Runs == 1..MaxRuns
SyncIds == 1..MaxSyncs

Priority ==
  [j \in JobIds |->
     CASE j = "sync_plex" -> 10
       [] j = "watched_plex_to_jellyfin" -> 20
       [] j = "watched_jellyfin_to_plex" -> 30
       [] j = "sync_jellyfin" -> 40
       [] j = "metadata" -> 50
       [] j = "catalog_images" -> 60
       [] j = "catalog_reconcile" -> 70
       [] j = "async_tasks" -> 80
       [] j = "maintenance" -> 90]

Dependencies ==
  [j \in JobIds |->
     CASE j = "watched_plex_to_jellyfin" -> {"sync_plex"}
       [] j = "watched_jellyfin_to_plex" -> {"sync_plex", "watched_plex_to_jellyfin"}
       [] j = "sync_jellyfin" -> {"sync_plex", "watched_plex_to_jellyfin",
                                  "watched_jellyfin_to_plex"}
       [] OTHER -> {}]

\* The executor a job is dispatched to; "inline" jobs run in the drain thread.
Kind ==
  [j \in JobIds |->
     CASE j \in {"sync_plex", "sync_jellyfin"} -> "sync"
       [] j \in {"watched_plex_to_jellyfin", "watched_jellyfin_to_plex"} -> "watch"
       [] j = "metadata" -> "metadata"
       [] j = "catalog_images" -> "images"
       [] j = "async_tasks" -> "async"
       [] OTHER -> "inline"]

ExecKinds == {Kind[j] : j \in Jobs} \ {"sync", "inline"}
Cancellable == {"watch", "metadata", "images"}

Active == {"queued", "running"}
Terminal == {"succeeded", "failed", "interrupted"}

NoRef == [kind |-> "none", id |-> 0]
Refs == [kind : {"none", "watch", "metadata", "images", "async", "inline"}, id : {0}]
        \cup [kind : {"sync"}, id : SyncIds]

\* lease: whose worker id is in lease_owner (this process, a dead one, nobody)
\* exp:   lease_expires_at;  ready: available_at has passed
Row == [job : Jobs \cup {"none"}, st : {"absent", "deleted"} \cup Active \cup Terminal,
        lease : {"none", "me", "old"}, exp : {"none", "past", "future"},
        ready : BOOLEAN, cancel : BOOLEAN, att : Nat, max : {0} \cup Limits, ref : Refs]
AbsentRow == [job |-> "none", st |-> "absent", lease |-> "none", exp |-> "none",
              ready |-> FALSE, cancel |-> FALSE, att |-> 0, max |-> 0, ref |-> NoRef]
NoRows == [r \in {} |-> AbsentRow]

VARIABLES
  row,          \* table job_runs
  worker,       \* the drain thread: where it is, its run, loaded rows, reference
  wakePending,  \* DurableJobWorker._wake_pending
  web,          \* the web threads
  boot,         \* the scheduler thread's startup recovery
  ex,           \* the local executors
  sync,         \* table sync_runs, with the thread and token of each run
  failures

vars == <<row, worker, wakePending, web, boot, ex, sync, failures>>

-----------------------------------------------------------------------------
(* Initial state: a fresh database, the scheduler thread just started.      *)

NoWorker == [pc |-> "off", run |-> 0, seen |-> NoRows, ref |-> NoRef, fwd |-> FALSE]
IdleThread == [pc |-> "idle", run |-> 0, seen |-> NoRows, ref |-> NoRef]
IdleExecutor == [busy |-> FALSE, active |-> FALSE, cancel |-> FALSE, out |-> "ok",
                 work |-> {}, tail |-> {}, ext |-> FALSE]
NoSync == [st |-> "absent", live |-> FALSE, begun |-> FALSE, token |-> FALSE]

Init ==
  /\ row = [r \in Runs |-> AbsentRow]
  /\ worker = NoWorker
  /\ wakePending = FALSE
  /\ web = [t \in Threads |-> IdleThread]
  /\ boot = [pc |-> "read", seen |-> NoRows]
  /\ ex = [k \in ExecKinds |-> IdleExecutor]
  /\ sync = [s \in SyncIds |-> NoSync]
  /\ failures = 0

-----------------------------------------------------------------------------
(* Database helpers.                                                        *)

\* An ORM flush assigns a column only when its value differs from the loaded one.
Dirty(current, old, new) == IF new # old THEN new ELSE current
\* (Faulty variant: the whole row is written back.)
FlushedWhole(current, old, new) == new
Flushed(current, old, new) ==
  [job |-> current.job,
   st |-> Dirty(current.st, old.st, new.st),
   lease |-> Dirty(current.lease, old.lease, new.lease),
   exp |-> Dirty(current.exp, old.exp, new.exp),
   ready |-> Dirty(current.ready, old.ready, new.ready),
   cancel |-> Dirty(current.cancel, old.cancel, new.cancel),
   att |-> current.att,
   max |-> current.max,
   ref |-> Dirty(current.ref, old.ref, new.ref)]
Written(seen, new) ==
  [r \in Runs |-> IF r \in DOMAIN seen THEN Flushed(row[r], seen[r], new[r]) ELSE row[r]]

\* The partial unique index uq_job_runs_active_job, and an UPDATE that matches
\* no row (StaleDataError): the two ways a flush is refused.
IndexOk(rows) ==
  \A r1, r2 \in Runs : /\ rows[r1].st \in Active /\ rows[r2].st \in Active
                       /\ rows[r1].job = rows[r2].job
                       => r1 = r2
CanFlush(seen, new) ==
  /\ \A r \in DOMAIN seen : row[r].st # "deleted"
  /\ IndexOk(Written(seen, new))

\* A commit refused with "database is locked" (busy timeout exceeded).
Locked == failures < MaxFailures /\ failures' = failures + 1
Refused(seen, new) == Locked \/ (~CanFlush(seen, new) /\ UNCHANGED failures)

Load(r) == [x \in {r} |-> row[x]]
One(r, new) == [x \in {r} |-> new]

\* (Faulty variant: the executor's word for it stored as the status.)
InterruptedAsCancelled(o) == [o EXCEPT !.st = "cancelled", !.lease = "none", !.exp = "none"]
Interrupted(o) == [o EXCEPT !.st = "interrupted", !.lease = "none", !.exp = "none"]
Failed(o) == [o EXCEPT !.st = "failed", !.lease = "none", !.exp = "none"]
Requeued(o, now) ==
  [o EXCEPT !.st = "queued", !.lease = "none", !.exp = "none", !.ref = NoRef, !.ready = now]

ActiveRowOf(j) == {r \in Runs : row[r].job = j /\ row[r].st \in Active}
RunningSyncs == {s \in SyncIds : sync[s].st \in Active}

\* DurableJobWorker.wake: one drain thread, wake-ups coalesced under the lock.
Wake ==
  /\ wakePending' = TRUE
  /\ worker' = IF worker.pc = "off" THEN [worker EXCEPT !.pc = "drain"] ELSE worker

-----------------------------------------------------------------------------
(* Web threads: submit_job and request_job_cancellation.                    *)

Serving == EarlyRequests \/ boot.pc = "done"

\* The lookup of an active row and the unique index make the insert atomic; the
\* new row gets the next id.  The worker is woken after the commit.
NextId(r) == row[r].st = "absent" /\ \A y \in 1..(r - 1) : row[y].st # "absent"

SubmitInsert(t, j) ==
  /\ Serving /\ web[t].pc = "idle"
  /\ ActiveRowOf(j) = {}
  /\ \E r \in Runs, m \in Limits :
       /\ NextId(r)
       /\ row' = [row EXCEPT ![r] = [AbsentRow EXCEPT !.job = j, !.st = "queued",
                                                    !.ready = TRUE, !.max = m]]
  /\ web' = [web EXCEPT ![t].pc = "wake"]
  /\ UNCHANGED <<worker, wakePending, boot, ex, sync, failures>>

\* The log file's name is a second commit; if it is refused nobody is woken.
SubmitWake(t) ==
  /\ web[t].pc = "wake"
  /\ web' = [web EXCEPT ![t] = IdleThread]
  /\ \/ Wake /\ UNCHANGED failures
     \/ Locked /\ UNCHANGED <<worker, wakePending>>
  /\ UNCHANGED <<row, boot, ex, sync>>

CancelRead(t, r) ==
  /\ Serving /\ web[t].pc = "idle"
  /\ row[r].st \in Active
  /\ web' = [web EXCEPT ![t] = [@ EXCEPT !.pc = "cancel", !.run = r, !.seen = Load(r)]]
  /\ UNCHANGED <<row, worker, wakePending, boot, ex, sync, failures>>

\* The run is closed at once if it was loaded as queued; otherwise only the
\* intent is stored.
CancelRequested(o) ==
  [(IF o.st = "queued" THEN Interrupted(o) ELSE o) EXCEPT !.cancel = TRUE]

CancelWrite(t) ==
  LET r == web[t].run
      new == One(r, CancelRequested(web[t].seen[r]))
  IN /\ web[t].pc = "cancel"
     /\ \/ /\ CanFlush(web[t].seen, new)
           /\ row' = Written(web[t].seen, new)
           /\ web' = [web EXCEPT ![t] = [@ EXCEPT !.pc = "reload", !.seen = NoRows]]
           /\ UNCHANGED failures
        \/ /\ Refused(web[t].seen, new)
           /\ web' = [web EXCEPT ![t] = IdleThread]
           /\ UNCHANGED row
     /\ UNCHANGED <<worker, wakePending, boot, ex, sync>>

\* After the commit the instance is refreshed: the reference forwarded is the
\* one the row has now.
CancelReload(t) ==
  LET ref == row[web[t].run].ref
  IN /\ web[t].pc = "reload"
     /\ web' = [web EXCEPT ![t] =
          IF row[web[t].run].st = "deleted" \/ ref = NoRef THEN IdleThread
          ELSE [@ EXCEPT !.pc = "forward", !.ref = ref]]
     /\ UNCHANGED <<row, worker, wakePending, boot, ex, sync, failures>>

\* _cancel_reference: a sync run has a token of its own, the other executors one
\* cancellation event that belongs to whatever they are running.
CancelReference(ref) ==
  /\ ex' = IF ref.kind \in Cancellable \cap ExecKinds /\ ex[ref.kind].busy
           THEN [ex EXCEPT ![ref.kind].cancel = TRUE] ELSE ex
  /\ sync' = IF ref.kind = "sync" /\ sync[ref.id].live
             THEN [sync EXCEPT ![ref.id].token = TRUE] ELSE sync

CancelForward(t) ==
  /\ web[t].pc = "forward"
  /\ CancelReference(web[t].ref)
  /\ web' = [web EXCEPT ![t] = IdleThread]
  /\ UNCHANGED <<row, worker, wakePending, boot, failures>>

-----------------------------------------------------------------------------
(* The drain thread: DurableJobWorker._drain.                               *)

To(pc) == worker' = [worker EXCEPT !.pc = pc]
Looping == worker' = [NoWorker EXCEPT !.pc = "drain"]
Dies == worker' = NoWorker

\* (Faulty variant: only leases that were never set count as lost.)
RecoverableUnleased(force) ==
  {r \in Runs : \/ row[r].st = "running" /\ (force \/ row[r].exp = "none")
                \/ row[r].st = "queued" /\ row[r].lease # "none"}
Recoverable(force) ==
  {r \in Runs : \/ row[r].st = "running" /\ (force \/ row[r].exp # "future")
                \/ row[r].st = "queued" /\ row[r].lease # "none"}
\* (Faulty variant: recovery ignores the attempts already made.)
RecoveredAgain(o) == IF o.cancel THEN Interrupted(o) ELSE Requeued(o, TRUE)
Recovered(o) ==
  IF o.cancel THEN Interrupted(o)
  ELSE IF o.att >= o.max THEN Failed(o)
  ELSE Requeued(o, TRUE)

\* Top of the loop: forget the wake-ups, then recover_job_runs(force=False).
DrainTop ==
  /\ worker.pc = "drain"
  /\ wakePending' = FALSE
  /\ IF Recoverable(FALSE) = {}
     THEN To("claim")
     ELSE worker' = [worker EXCEPT !.pc = "recover",
                                   !.seen = [r \in Recoverable(FALSE) |-> row[r]]]
  /\ UNCHANGED <<row, web, boot, ex, sync, failures>>

RecoverWrite ==
  LET new == [r \in DOMAIN worker.seen |-> Recovered(worker.seen[r])]
  IN /\ worker.pc = "recover"
     /\ \/ /\ CanFlush(worker.seen, new)
           /\ row' = Written(worker.seen, new)
           /\ worker' = [NoWorker EXCEPT !.pc = "claim"]
           /\ UNCHANGED failures
        \/ /\ ~CanFlush(worker.seen, new)
           /\ Dies
           /\ UNCHANGED <<row, failures>>
        \/ /\ Locked                        \* OperationalError: wait, loop again
           /\ Looping
           /\ UNCHANGED row
     /\ UNCHANGED <<wakePending, web, boot, ex, sync>>

\* claim_next_job: the best queued row whose dependencies are not queued before it.
Candidates ==
  {r \in Runs :
     /\ row[r].st = "queued" /\ row[r].ready
     /\ ~\E d \in Runs : /\ d < r /\ row[d].st = "queued"
                         /\ row[d].job \in Dependencies[row[r].job]}
Best(r) ==
  \A c \in Candidates : Priority[row[r].job] <= Priority[row[c].job]

ClaimRead ==
  /\ worker.pc = "claim"
  /\ IF Candidates = {}
     THEN To("wait")
     ELSE \E r \in Candidates :
            Best(r) /\ worker' = [worker EXCEPT !.pc = "update", !.run = r]
  /\ UNCHANGED <<row, wakePending, web, boot, ex, sync, failures>>

Claimed(o) ==
  [o EXCEPT !.st = "running", !.lease = "me", !.exp = "future", !.att = o.att + 1]

\* (Faulty variant: the UPDATE without its second condition.)
ClaimUpdateUnguarded ==
  LET r == worker.run
  IN /\ worker.pc = "update" /\ row[r].st = "queued"
     /\ row' = [row EXCEPT ![r] = Claimed(row[r])]
     /\ To("exec")
     /\ UNCHANGED <<wakePending, web, boot, ex, sync, failures>>

\* The conditional UPDATE: still queued, and no row is running.
ClaimUpdate ==
  LET r == worker.run
      free == row[r].st = "queued" /\ \A x \in Runs : row[x].st # "running"
  IN /\ worker.pc = "update"
     /\ \/ /\ free
           /\ row' = [row EXCEPT ![r] = Claimed(row[r])]
           /\ To("exec")
           /\ UNCHANGED failures
        \/ /\ ~free
           /\ worker' = [NoWorker EXCEPT !.pc = "wait"]
           /\ UNCHANGED <<row, failures>>
        \/ /\ Locked                        \* OperationalError: wait, loop again
           /\ Looping
           /\ UNCHANGED row
     /\ UNCHANGED <<wakePending, web, boot, ex, sync>>

\* seconds_until_next_job: while a row is running or queued the thread loops, after
\* a wait of at most 30 seconds that a wake-up cuts short.
WaitRead ==
  /\ worker.pc = "wait"
  /\ To(IF \E r \in Runs : row[r].st \in Active THEN "drain" ELSE "leave")
  /\ UNCHANGED <<row, wakePending, web, boot, ex, sync, failures>>

\* (Faulty variant: wake-ups that came in since the last look are dropped.)
LeaveAnyway ==
  /\ worker.pc = "leave"
  /\ To("off")
  /\ UNCHANGED <<row, wakePending, web, boot, ex, sync, failures>>

\* The thread ends under the lock, unless somebody woke it meanwhile.
Leave ==
  /\ worker.pc = "leave"
  /\ To(IF wakePending THEN "drain" ELSE "off")
  /\ UNCHANGED <<row, wakePending, web, boot, ex, sync, failures>>

-----------------------------------------------------------------------------
(* One claimed run: execute_claimed_job, then _monitor_job.                 *)

\* An ORM write of one row by the drain thread: it goes on to `next', or the
\* commit raises and _execute hands the run to fail_or_retry_job.
WorkerWrites(old, new, next) ==
  \/ /\ CanFlush(worker.seen, One(worker.run, new))
     /\ row' = Written(One(worker.run, old), One(worker.run, new))
     /\ worker' = [worker EXCEPT !.pc = next, !.seen = NoRows]
     /\ UNCHANGED failures
  \/ /\ Refused(worker.seen, One(worker.run, new))
     /\ worker' = [worker EXCEPT !.pc = "fail", !.seen = NoRows]
     /\ UNCHANGED row

ExecRead ==
  LET r == worker.run
  IN /\ worker.pc = "exec"
     /\ worker' = [worker EXCEPT
          !.seen = Load(r),
          !.pc = IF row[r].st # "running" \/ row[r].lease # "me" THEN "check"
                 ELSE IF row[r].cancel THEN "close" ELSE "dispatch"]
     /\ UNCHANGED <<row, wakePending, web, boot, ex, sync, failures>>

\* Cancelled before the start (also _run_maintenance and _run_reconcile).
CloseCancelled ==
  /\ worker.pc = "close"
  /\ WorkerWrites(worker.seen[worker.run], Interrupted(worker.seen[worker.run]), "check")
  /\ UNCHANGED <<wakePending, web, boot, ex, sync>>

Dispatched(ref) == worker' = [worker EXCEPT !.pc = "saveRef", !.ref = ref]
DispatchFails ==
  /\ worker' = [worker EXCEPT !.pc = "fail", !.seen = NoRows]
  /\ UNCHANGED <<ex, sync>>

\* (Faulty variant: the lookup of an active run is left out.)
NewSyncUnlocked(s) ==
  /\ sync[s].st = "absent" /\ \A z \in 1..(s - 1) : sync[z].st # "absent"
  /\ sync' = [sync EXCEPT ![s] = [NoSync EXCEPT !.st = "queued", !.live = TRUE]]

\* SyncOrchestrator._acquire under BEGIN IMMEDIATE: one active sync_run.
NewSync(s) ==
  /\ sync[s].st = "absent" /\ \A z \in 1..(s - 1) : sync[z].st # "absent"
  /\ RunningSyncs = {}
  /\ sync' = [sync EXCEPT ![s] = [NoSync EXCEPT !.st = "queued", !.live = TRUE]]

\* (Faulty variant: the snapshot is left for the thread itself to set.)
StartedLater(e, r) ==
  [e EXCEPT !.busy = TRUE, !.cancel = FALSE, !.out = "ok", !.work = e.work \cup {r}]
Started(e, r) ==
  [e EXCEPT !.busy = TRUE, !.active = TRUE, !.cancel = FALSE, !.out = "ok",
            !.work = e.work \cup {r}]

\* _dispatch_job: a busy executor, a running sync or a missing source is an error.
Dispatch ==
  LET k == Kind[worker.seen[worker.run].job]
  IN /\ worker.pc = "dispatch"
     /\ \/ /\ k = "sync"
           /\ \/ \E s \in SyncIds : NewSync(s) /\ Dispatched([kind |-> "sync", id |-> s])
                                    /\ UNCHANGED ex
              \/ DispatchFails
        \/ /\ k = "inline"
           /\ Dispatched([kind |-> k, id |-> 0])
           /\ UNCHANGED <<ex, sync>>
        \/ /\ k \in ExecKinds
           /\ IF ex[k].busy THEN DispatchFails
              ELSE /\ ex' = [ex EXCEPT ![k] = Started(ex[k], worker.run)]
                   /\ Dispatched([kind |-> k, id |-> 0])
                   /\ UNCHANGED sync
     /\ UNCHANGED <<row, wakePending, web, boot, failures>>

\* The reload after the dispatch returns the instance already in the session's
\* identity map (nothing expired it), so the lease check sees the row as ExecRead
\* loaded it, and always passes.
SaveRef ==
  LET o == worker.seen[worker.run]
  IN /\ worker.pc = "saveRef"
     /\ WorkerWrites(o, [o EXCEPT !.ref = worker.ref],
                     IF worker.ref.kind = "inline" THEN "inline" ELSE "monitor")
     /\ UNCHANGED <<wakePending, web, boot, ex, sync>>

\* Top of the monitor's loop: give up a row that is not ours, forward the
\* cancellation once.
MonitorRead ==
  LET r == worker.run
      forward == row[r].cancel /\ ~worker.fwd
  IN /\ worker.pc = "monitor"
     /\ IF row[r].st = "deleted" \/ row[r].lease # "me"
        THEN To("check") /\ UNCHANGED <<ex, sync>>
        ELSE /\ worker' = [worker EXCEPT !.pc = "report", !.seen = Load(r),
                                         !.fwd = @ \/ forward]
             /\ IF forward THEN CancelReference(worker.ref) ELSE UNCHANGED <<ex, sync>>
     /\ UNCHANGED <<row, wakePending, web, boot, failures>>

\* What the executor reports for the reference.
StillActive(ref) ==
  IF ref.kind = "sync" THEN sync[ref.id].st \in Active ELSE ex[ref.kind].active
Reported(ref) ==
  IF ref.kind = "sync" THEN sync[ref.id].st
  ELSE CASE ex[ref.kind].out = "cancelled" -> "interrupted"
         [] ex[ref.kind].out = "failed" -> "failed"
         [] OTHER -> "succeeded"

\* Progress is written and the lease renewed; a locked database postpones it.
MonitorProgress ==
  LET o == worker.seen[worker.run]
      stale == [o EXCEPT !.exp = "none"]       \* the new timestamp is always dirty
      new == [o EXCEPT !.st = "running", !.exp = "future"]
  IN /\ worker.pc = "report"
     /\ StillActive(worker.ref)
     /\ \/ /\ CanFlush(worker.seen, One(worker.run, new))
           /\ row' = Written(One(worker.run, stale), One(worker.run, new))
           /\ To("monitor")
           /\ UNCHANGED failures
        \/ /\ Locked
           /\ To("monitor")
           /\ UNCHANGED row
        \/ /\ ~CanFlush(worker.seen, One(worker.run, new))
           /\ To("fail")
           /\ UNCHANGED <<row, failures>>
     /\ UNCHANGED <<wakePending, web, boot, ex, sync>>

\* The executor has ended: final status, lease released, then the rotation.
MonitorFinish ==
  LET o == worker.seen[worker.run]
      st == IF o.cancel THEN "interrupted" ELSE Reported(worker.ref)
      new == [o EXCEPT !.st = st, !.lease = "none", !.exp = "none"]
  IN /\ worker.pc = "report"
     /\ ~StillActive(worker.ref)
     /\ \/ /\ CanFlush(worker.seen, One(worker.run, new))
           /\ row' = Written(One(worker.run, o), One(worker.run, new))
           /\ worker' = [worker EXCEPT !.pc = "rotate", !.seen = NoRows]
           /\ UNCHANGED failures
        \/ /\ Locked
           /\ To("monitor")
           /\ UNCHANGED row
        \/ /\ ~CanFlush(worker.seen, One(worker.run, new))
           /\ worker' = [worker EXCEPT !.pc = "fail", !.seen = NoRows]
           /\ UNCHANGED <<row, failures>>
     /\ UNCHANGED <<wakePending, web, boot, ex, sync>>

\* _rotate_job_runs: only the Keep newest rows of a job stay, whatever their status.
\* (Faulty variant: the oldest rows are kept.)
Older(r) == {x \in Runs : x < r /\ row[x].job = row[r].job /\ row[x].st # "deleted"}
Newer(r) == {x \in Runs : x > r /\ row[x].job = row[r].job /\ row[x].st # "deleted"}
Rotated(jobs) ==
  [r \in Runs |-> IF row[r].job \in jobs /\ Cardinality(Newer(r)) >= Keep
                  THEN [AbsentRow EXCEPT !.st = "deleted"] ELSE row[r]]

Rotate ==
  /\ worker.pc = "rotate"
  /\ \/ row' = Rotated({row[worker.run].job}) /\ To("check") /\ UNCHANGED failures
     \/ Locked /\ To("fail") /\ UNCHANGED row
  /\ UNCHANGED <<wakePending, web, boot, ex, sync>>

\* _run_maintenance and _run_reconcile: looked at once before the work starts,
\* closed when it ends; nothing looks at the row in between.
InlineRead ==
  LET r == worker.run
  IN /\ worker.pc = "inline"
     /\ worker' = [worker EXCEPT
          !.seen = Load(r),
          !.pc = IF row[r].st = "deleted" \/ row[r].lease # "me" THEN "check"
                 ELSE IF row[r].cancel THEN "close" ELSE "inlineWork"]
     /\ UNCHANGED <<row, wakePending, web, boot, ex, sync, failures>>

InlineWork ==
  /\ worker.pc = "inlineWork"
  /\ \/ /\ row' = IF row[worker.run].job = "maintenance" THEN Rotated(Jobs) ELSE row
        /\ UNCHANGED failures
     \/ /\ Locked                           \* one of the rotations is refused
        /\ \E jobs \in SUBSET Jobs :
             row' = IF row[worker.run].job = "maintenance" THEN Rotated(jobs) ELSE row
  /\ worker' = IF row'[worker.run].st = "deleted"
               THEN [worker EXCEPT !.pc = "check", !.seen = NoRows]
               ELSE [worker EXCEPT !.pc = "inlineEnd", !.seen = One(worker.run, row'[worker.run])]
  /\ UNCHANGED <<wakePending, web, boot, ex, sync>>

InlineEnd ==
  LET o == worker.seen[worker.run]
  IN /\ worker.pc = "inlineEnd"
     /\ \E st \in {"succeeded", "failed"} :
          WorkerWrites(o, [o EXCEPT !.st = st, !.lease = "none", !.exp = "none"], "check")
     /\ UNCHANGED <<wakePending, web, boot, ex, sync>>

\* Back in _execute: a run still running and still ours was not finished.
Check ==
  LET r == worker.run
  IN /\ worker.pc = "check"
     /\ IF row[r].st = "running" /\ row[r].lease = "me"
        THEN worker' = [worker EXCEPT !.pc = "fail", !.seen = NoRows]
        ELSE Looping
     /\ UNCHANGED <<row, wakePending, web, boot, ex, sync, failures>>

\* (Faulty variant: whoever holds the lease.)
FailReadAnyOwner ==
  LET r == worker.run
  IN /\ worker.pc = "fail"
     /\ IF row[r].st = "deleted" THEN Looping
        ELSE worker' = [worker EXCEPT !.pc = "retry", !.seen = Load(r)]
     /\ UNCHANGED <<row, wakePending, web, boot, ex, sync, failures>>

\* fail_or_retry_job; an error in it escapes _drain and ends the thread.
FailRead ==
  LET r == worker.run
  IN /\ worker.pc = "fail"
     /\ IF row[r].st = "deleted" \/ row[r].lease # "me"
        THEN Looping
        ELSE worker' = [worker EXCEPT !.pc = "retry", !.seen = Load(r)]
     /\ UNCHANGED <<row, wakePending, web, boot, ex, sync, failures>>

Retried(o) ==
  IF o.cancel THEN Interrupted(o)
  ELSE IF o.att < o.max THEN Requeued(o, FALSE)
  ELSE Failed(o)

RetryWrite ==
  LET r == worker.run
      new == One(r, Retried(worker.seen[r]))
  IN /\ worker.pc = "retry"
     /\ \/ /\ CanFlush(worker.seen, new)
           /\ row' = Written(worker.seen, new)
           /\ Looping
           /\ UNCHANGED failures
        \/ /\ Refused(worker.seen, new)
           /\ Dies
           /\ UNCHANGED row
     /\ UNCHANGED <<wakePending, web, boot, ex, sync>>

-----------------------------------------------------------------------------
(* Executor threads, sync threads, and the clock.                           *)

\* What a worker thread may leave in the snapshot: metadata and images report a
\* cancellation they were sent, the directional propagation only when it saw it.
Outcomes(k) ==
  IF k \in Cancellable /\ ex[k].cancel
  THEN CASE k = "metadata" -> {"cancelled"}
         [] k = "images" -> {"cancelled", "failed"}
         [] OTHER -> {"ok", "failed", "cancelled"}
  ELSE {"ok", "failed"}

\* The thread's last locked section.  The image executor has two of them, one in
\* execute and one in guarded_execute, and works without the lock in between.
Cleared(e) == [e EXCEPT !.busy = FALSE, !.active = FALSE]

ExecutorEnds(k, r) ==
  /\ r \in ex[k].work
  /\ \E o \in Outcomes(k) :
       ex' = [ex EXCEPT ![k] = [Cleared(ex[k]) EXCEPT
                !.out = o,
                !.work = ex[k].work \ {r},
                !.tail = ex[k].tail \cup {x \in {r} : k = "images"}]]
  /\ UNCHANGED <<row, worker, wakePending, web, boot, sync, failures>>

ImageThreadExits(r) ==
  /\ "images" \in ExecKinds /\ r \in ex["images"].tail
  /\ ex' = [ex EXCEPT !["images"] = [Cleared(ex["images"]) EXCEPT !.tail = ex["images"].tail \ {r}]]
  /\ UNCHANGED <<row, worker, wakePending, web, boot, sync, failures>>

\* Work started outside the job queue.  submit_pending_watch_sync takes the watch
\* executor without touching its snapshot; a webhook or the scheduler drains the
\* update queue, and the metadata page starts an enrichment, through the same
\* snapshot a job reads.
TakenOutside(k) ==
  [ex[k] EXCEPT !.busy = TRUE, !.ext = TRUE,
                !.active = ex[k].active \/ k # "watch",
                !.out = IF k = "watch" THEN ex[k].out ELSE "ok",
                !.cancel = ex[k].cancel /\ k # "metadata"]

ExternalStart(k) ==
  /\ k \in {"watch", "async", "metadata"} /\ Serving /\ ~ex[k].busy
  /\ ex' = [ex EXCEPT ![k] = TakenOutside(k)]
  /\ UNCHANGED <<row, worker, wakePending, web, boot, sync, failures>>

ExternalEnds(k) ==
  /\ ex[k].ext
  /\ \E o \in IF k = "watch" THEN {ex[k].out} ELSE Outcomes(k) :
       ex' = [ex EXCEPT ![k] = [ex[k] EXCEPT !.busy = FALSE, !.ext = FALSE, !.out = o,
                                             !.active = ex[k].active /\ k = "watch"]]
  /\ UNCHANGED <<row, worker, wakePending, web, boot, sync, failures>>

\* The metadata page cancels whatever the enrichment executor is doing, a job's
\* run included, without a trace in job_runs.
PageCancel ==
  /\ "metadata" \in ExecKinds /\ Serving /\ ex["metadata"].busy
  /\ ex' = [ex EXCEPT !["metadata"].cancel = TRUE]
  /\ UNCHANGED <<row, worker, wakePending, web, boot, sync, failures>>

\* The API and the webhooks start a synchronization without a job.
DirectSync(s) ==
  /\ Serving
  /\ NewSync(s)
  /\ UNCHANGED <<row, worker, wakePending, web, boot, ex, failures>>

\* run_queued: the run must still be queued.
SyncStarts(s) ==
  /\ sync[s].live /\ ~sync[s].begun
  /\ sync' = [sync EXCEPT ![s] =
       IF @.st = "queued" THEN [@ EXCEPT !.st = "running", !.begun = TRUE]
       ELSE [NoSync EXCEPT !.st = sync[s].st]]
  /\ UNCHANGED <<row, worker, wakePending, web, boot, ex, failures>>

\* _finish_run stores the outcome over whatever status the row has; if that
\* commit fails the thread dies and the row stays active.
SyncEnds(s) ==
  /\ sync[s].live /\ sync[s].begun
  /\ \/ \E st \in {"succeeded", "failed"}
                  \cup (IF sync[s].token THEN {"interrupted"} ELSE {}) :
          sync' = [sync EXCEPT ![s] = [NoSync EXCEPT !.st = st]] /\ UNCHANGED failures
     \/ /\ Locked
        /\ sync' = [sync EXCEPT ![s] = [NoSync EXCEPT !.st = sync[s].st]]
  /\ UNCHANGED <<row, worker, wakePending, web, boot, ex>>

\* The heartbeat thread keeps the lease of the run being executed in the future.
Busy == worker.pc \notin {"off", "drain", "recover", "claim", "update", "wait", "leave"}
Executing(r) == Busy /\ worker.run = r
LeaseExpires(r) ==
  /\ row[r].exp = "future" /\ ~Executing(r)
  /\ row' = [row EXCEPT ![r].exp = "past"]
  /\ UNCHANGED <<worker, wakePending, web, boot, ex, sync, failures>>

BackoffElapses(r) ==
  /\ row[r].st = "queued" /\ ~row[r].ready
  /\ row' = [row EXCEPT ![r].ready = TRUE]
  /\ UNCHANGED <<worker, wakePending, web, boot, ex, sync, failures>>

-----------------------------------------------------------------------------
(* The scheduler thread: startup recovery, then a wake-up every 30 seconds. *)

BootTo(pc) == boot' = [pc |-> pc, seen |-> NoRows]

BootRead ==
  /\ boot.pc = "read"
  /\ boot' = [pc |-> "close", seen |-> [r \in {x \in Runs : row[x].st \in Active} |-> row[r]]]
  /\ UNCHANGED <<row, worker, wakePending, web, ex, sync, failures>>

\* reconcile_completed_sync_job for every active row: take over the result of a
\* synchronization that has ended.
Reconciled(o) ==
  IF o.ref.kind = "sync" /\ sync[o.ref.id].st \in Terminal
  THEN [o EXCEPT !.st = sync[o.ref.id].st, !.lease = "none", !.exp = "none"]
  ELSE o

BootClose ==
  LET new == [r \in DOMAIN boot.seen |-> Reconciled(boot.seen[r])]
  IN /\ boot.pc = "close"
     /\ \/ /\ CanFlush(boot.seen, new)
           /\ row' = Written(boot.seen, new)
           /\ BootTo("orphans")
           /\ UNCHANGED failures
        \/ /\ Refused(boot.seen, new)
           /\ BootTo("wake")                \* logged; the worker is woken all the same
           /\ UNCHANGED row
     /\ UNCHANGED <<worker, wakePending, web, ex, sync>>

\* reconcile_orphaned_runs: every active sync_run, whoever runs it.
Orphaned == [s \in SyncIds |-> IF sync[s].st \in Active
                               THEN [sync[s] EXCEPT !.st = "interrupted"] ELSE sync[s]]
BootOrphans ==
  /\ boot.pc = "orphans"
  /\ \/ sync' = Orphaned /\ BootTo("force") /\ UNCHANGED failures
     \/ Locked /\ BootTo("wake") /\ UNCHANGED sync
  /\ UNCHANGED <<row, worker, wakePending, web, ex>>

BootForce ==
  /\ boot.pc = "force"
  /\ boot' = [pc |-> "recover", seen |-> [r \in Recoverable(TRUE) |-> row[r]]]
  /\ UNCHANGED <<row, worker, wakePending, web, ex, sync, failures>>

BootRecover ==
  LET new == [r \in DOMAIN boot.seen |-> Recovered(boot.seen[r])]
  IN /\ boot.pc = "recover"
     /\ \/ /\ CanFlush(boot.seen, new)
           /\ row' = Written(boot.seen, new)
           /\ UNCHANGED failures
        \/ /\ Refused(boot.seen, new)
           /\ UNCHANGED row
     /\ BootTo("wake")
     /\ UNCHANGED <<worker, wakePending, web, ex, sync>>

BootWake ==
  /\ boot.pc = "wake"
  /\ BootTo("done")
  /\ Wake
  /\ UNCHANGED <<row, web, ex, sync, failures>>

SchedulerWake ==
  /\ boot.pc = "done"
  /\ Wake
  /\ UNCHANGED <<row, web, boot, ex, sync, failures>>

\* The process dies.  The entrypoint reconciles the database before gunicorn
\* starts again (sync/reconcile.py), alone; a development server does not.
Abandoned == [r \in Runs |-> IF row[r].lease = "me" THEN [row[r] EXCEPT !.lease = "old"] ELSE row[r]]
Stopped(z) == [s \in SyncIds |-> [NoSync EXCEPT !.st = z[s].st]]

Crash ==
  /\ failures < MaxFailures
  /\ failures' = failures + 1
  /\ worker' = NoWorker
  /\ wakePending' = FALSE
  /\ web' = [t \in Threads |-> IdleThread]
  /\ boot' = [pc |-> "read", seen |-> NoRows]
  /\ ex' = [k \in ExecKinds |-> IdleExecutor]
  /\ \/ /\ row' = Abandoned
        /\ sync' = Stopped(sync)
     \/ /\ row' = [r \in Runs |-> IF r \in Recoverable(TRUE) THEN Recovered(Abandoned[r])
                                  ELSE Abandoned[r]]
        /\ sync' = Stopped(Orphaned)

-----------------------------------------------------------------------------
Submits == \E t \in Threads : \/ \E j \in Jobs : SubmitInsert(t, j)
                              \/ SubmitWake(t)
Cancels == \E t \in Threads : \/ \E r \in Runs : CancelRead(t, r)
                              \/ CancelWrite(t) \/ CancelReload(t) \/ CancelForward(t)
Drains == DrainTop \/ RecoverWrite \/ ClaimRead \/ ClaimUpdate \/ WaitRead \/ Leave
Executes ==
  \/ ExecRead \/ CloseCancelled \/ Dispatch \/ SaveRef
  \/ MonitorRead \/ MonitorProgress \/ MonitorFinish \/ Rotate
  \/ InlineRead \/ InlineWork \/ InlineEnd
  \/ Check \/ FailRead \/ RetryWrite
Boots == BootRead \/ BootClose \/ BootOrphans \/ BootForce \/ BootRecover \/ BootWake
Works ==
  \/ \E k \in ExecKinds : \/ \E r \in Runs : ExecutorEnds(k, r)
                          \/ ExternalStart(k) \/ ExternalEnds(k)
  \/ PageCancel
  \/ \E r \in Runs : ImageThreadExits(r)
  \/ \E s \in SyncIds : DirectSync(s) \/ SyncStarts(s) \/ SyncEnds(s)
Time == \E r \in Runs : LeaseExpires(r) \/ BackoffElapses(r)

Next == Submits \/ Cancels \/ Drains \/ Executes \/ Boots \/ SchedulerWake \/ Works \/ Time \/ Crash

Spec == Init /\ [][Next]_vars

\* Threads keep running, external calls time out, the clock moves: every thread but
\* the web clients' takes its next step.  Nothing obliges a failure to happen.
FairSpec ==
  /\ Spec
  /\ WF_vars(Drains \/ Executes)
  /\ WF_vars(Boots)
  /\ WF_vars(SchedulerWake)
  /\ \A k \in ExecKinds : /\ \A r \in Runs : WF_vars(ExecutorEnds(k, r))
                          /\ WF_vars(ExternalEnds(k))
  /\ \A s \in SyncIds : WF_vars(SyncStarts(s)) /\ WF_vars(SyncEnds(s))
  /\ \A r \in Runs : WF_vars(LeaseExpires(r)) /\ WF_vars(BackoffElapses(r))

-----------------------------------------------------------------------------
(* Properties.                                                              *)

Loaded(seen) == DOMAIN seen \subseteq Runs /\ seen \in [DOMAIN seen -> Row]

WorkerPcs == {"off", "drain", "recover", "claim", "update", "wait", "leave", "exec", "close",
              "dispatch", "saveRef", "monitor", "report", "rotate", "inline", "inlineWork",
              "inlineEnd", "check", "fail", "retry"}
IsWorker(w) ==
  /\ w \in [pc : WorkerPcs, run : {0} \cup Runs, seen : {w.seen}, ref : Refs, fwd : BOOLEAN]
  /\ Loaded(w.seen)
  /\ w.pc \notin {"off", "drain", "recover", "claim", "wait", "leave"} => w.run \in Runs
  /\ w.pc \in {"close", "dispatch", "saveRef", "report", "inlineWork", "inlineEnd", "retry"}
       => DOMAIN w.seen = {w.run}
IsThread(w) ==
  /\ w \in [pc : {"idle", "wake", "cancel", "reload", "forward"},
             run : {0} \cup Runs, seen : {w.seen}, ref : Refs]
  /\ Loaded(w.seen)
  /\ w.pc \in {"cancel", "reload", "forward"} => w.run \in Runs
  /\ w.pc = "cancel" => DOMAIN w.seen = {w.run}
IsBoot(b) ==
  /\ b \in [pc : {"read", "close", "orphans", "force", "recover", "wake", "done"},
             seen : {b.seen}]
  /\ Loaded(b.seen)
ExecStates ==
  [busy : BOOLEAN, active : BOOLEAN, cancel : BOOLEAN, out : {"ok", "failed", "cancelled"},
   work : SUBSET Runs, tail : SUBSET Runs, ext : BOOLEAN]
SyncStates ==
  [st : {"absent"} \cup Active \cup Terminal, live : BOOLEAN, begun : BOOLEAN, token : BOOLEAN]

\* Every variable has its type; a thread that is about to write a run has a run,
\* and has loaded that run and no other.
TypeOK ==
  /\ row \in [Runs -> Row]
  /\ IsWorker(worker)
  /\ wakePending \in BOOLEAN
  /\ web = [t \in Threads |-> web[t]]
  /\ \A t \in Threads : IsThread(web[t])
  /\ IsBoot(boot)
  /\ ex \in [ExecKinds -> ExecStates]
  /\ sync \in [SyncIds -> SyncStates]
  /\ failures \in 0..MaxFailures

\* No run is started more often than its max_attempts allow, whichever way its
\* attempts were lost: a failed dispatch, a refused commit, an expired lease or a
\* process death (recover_job_runs and fail_or_retry_job share the limit).
AttemptsBounded == \A r \in Runs : row[r].att <= row[r].max

\* At most one run is `running' (claim_next_job's conditional UPDATE), even when a
\* drain thread died with its run unfinished, or a monitor puts `running' back
\* over a run that was cancelled behind its back.
OneRunning == \A r1, r2 \in Runs : row[r1].st = "running" /\ row[r2].st = "running" => r1 = r2

\* While the drain thread executes a run, no other run is `running': together with
\* OneRunning this is preserved by every step.
OnlyMine == \A r \in Runs : row[r].st = "running" /\ Busy => r = worker.run

\* _rotate_job_runs deletes by age alone; the only queued or running run it may take
\* is one whose cancellation was asked for.
RotationSparesWanted ==
  [][\A r \in Runs : row[r].st \in Active /\ ~row[r].cancel => row'[r].st # "deleted"]_vars

\* A cancellation request survives everything that is written later: progress,
\* a retry, a recovery after a restart (docs/operations.md: persistent cancellation).
CancelIntentKept ==
  [][\A r \in Runs : row[r].cancel /\ row[r].st # "absent"
                     => row'[r].cancel \/ row'[r].st = "deleted"]_vars

\* A run that ended and gave up its lease is never queued or run again, though the
\* error path, the recovery and the monitor all write statuses they read earlier.
DoneIsFinal ==
  [][\A r \in Runs : row[r].st \in Terminal /\ row[r].lease = "none" => row'[r].st \notin Active]_vars

\* When a run is marked `succeeded' its executor thread has finished the work
\* (_monitor_job trusts a snapshot shared by successive runs).  The image executor
\* is left out: it clears its snapshot twice, see the README.
SucceededMeansDone ==
  \A k \in ExecKinds \ {"images"} : \A r \in ex[k].work : row[r].st # "succeeded"

\* Two synchronization threads never run at the same time (SyncOrchestrator._acquire).
SingleSync == \A s1, s2 \in SyncIds : sync[s1].begun /\ sync[s2].begun => s1 = s2

\* request_job_cancellation: "Persist cancellation before forwarding it to an
\* in-memory executor": an executor is told to cancel only on behalf of the run it
\* is working on.
CancelPersistedFirst == \A k \in ExecKinds : \A r \in ex[k].work : ex[k].cancel => row[r].cancel

\* The drain thread never ends by itself over a queued run, unless a submitter or
\* the startup recovery is about to wake it (the wake_pending protocol).
NoLostWakeup ==
  [][/\ worker.pc = "leave" /\ worker'.pc = "off"
     /\ failures' = 0 /\ boot.pc = "done"
     /\ \A t \in Threads : web[t].pc # "wake"
     => \A r \in Runs : row[r].st # "queued"]_vars

\* Every submitted run ends: it is retried, recovered or failed, and never waits
\* for ever behind a run whose thread is gone.  A user who starts enrichments, or a
\* stream of webhooks that starts drains, for ever may keep the executor a run waits
\* for busy at every poll of the monitor.
EveryRunEnds ==
  <>[][\A k \in ExecKinds : ~ExternalStart(k)]_vars =>
      \A r \in Runs : row[r].st \in Active ~> row[r].st \notin Active

=============================================================================
