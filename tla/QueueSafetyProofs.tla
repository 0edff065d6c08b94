-------------------------- MODULE QueueSafetyProofs --------------------------
(***************************************************************************)
(* What JobQueue guarantees when the startup recovery ends before the first *)
(* request is served, for every set of jobs, number of rows, threads and    *)
(* failures: attempts are bounded, ended runs stay ended, the rotation      *)
(* spares every wanted run, and one synchronization thread runs at a time.  *)
(* One inductive invariant, QueueInv, carries them all.  Two theorems need  *)
(* no such hypothesis: the drain thread never leaves a queued run, and      *)
(* `succeeded' means that the executor has finished.                        *)
(***************************************************************************)
EXTENDS JobQueueProofs, FiniteSetTheorems

-----------------------------------------------------------------------------
(* The inductive invariant.                                                 *)

\* What one row always satisfies.  Only a claimed run holds a lease, and a queued one
\* never does; a run that ended without giving its lease up was cancelled behind the
\* drain thread's back.
RowOk(c) ==
  /\ c.st = "absent" => c = AbsentRow
  /\ c.st = "deleted" => c.lease = "none"
  /\ c.st \notin {"absent", "deleted"} => c.job # "none"
  /\ c.st = "queued" => c.lease = "none" /\ c.att < c.max
  /\ c.st = "running" => c.lease # "none"
  /\ c.st \in Terminal /\ c.lease # "none" => c.st = "interrupted" /\ c.cancel
  /\ c.att <= c.max

\* How a row may go from c to n in a step that inserts no row.
Evolves(c, n) ==
  /\ n.st = "absent" <=> c.st = "absent"
  /\ c.st = "deleted" => n.st = "deleted"
  /\ n.job = c.job \/ (n.st = "deleted" /\ n.job = "none")
  /\ c.cancel => n.cancel \/ n.st = "deleted"
  /\ n.st \in Active => n.cancel \/ c.st \in Active
  /\ c.st \in Terminal /\ c.lease = "none" => n.st \notin Active

\* Ids are given in order, and a run that is active though a newer run of its job
\* exists was cancelled.
Ordered == \A x, y \in Runs : x < y /\ row[x].st = "absent" => row[y].st = "absent"
LatestUnlessCancelled ==
  \A r \in Runs : row[r].st \in Active /\ ~row[r].cancel => Newer(r) = {}
RowsInv == (\A r \in Runs : RowOk(row[r])) /\ Ordered /\ LatestUnlessCancelled

\* Until the startup recovery has ended nothing else runs.
StartupInv ==
  boot.pc # "done" => /\ worker.pc = "off"
                      /\ \A t \in Threads : web[t].pc = "idle"
                      /\ \A s \in SyncIds : ~sync[s].live
                      /\ \A k \in ExecKinds : ex[k].work = {}

\* What the drain thread loaded, o, against the row c: only a cancellation can have
\* come in between, and it leaves the lease alone.
Copy(c, o) ==
  /\ c.lease = o.lease /\ c.lease # "none"
  /\ c.job = o.job /\ c.att = o.att /\ c.max = o.max
  /\ o.cancel => c.cancel
  /\ o.st = "running" \/ o.cancel
  /\ c.st = o.st \/ (c.st = "interrupted" /\ c.cancel)
Holding == {"recover", "close", "dispatch", "saveRef", "report", "inlineWork", "inlineEnd",
            "retry"}
WorkerInv ==
  worker.pc \in Holding => \A r \in DOMAIN worker.seen : Copy(row[r], worker.seen[r])

\* What a cancelling web thread loaded.
Asked(c, o) ==
  /\ o.st \in Active
  /\ o.st = "queued" => o.lease = "none"
  /\ c.st # "absent"
  /\ o.cancel => c.cancel \/ c.st = "deleted"
WebInv ==
  \A t \in Threads : web[t].pc = "cancel" => Asked(row[web[t].run], web[t].seen[web[t].run])

\* What the startup recovery loaded is what the rows are.
Same(c, o) ==
  /\ o.st = c.st /\ o.job = c.job /\ o.lease = c.lease /\ o.cancel = c.cancel
  /\ o.att = c.att /\ o.max = c.max
BootInv ==
  boot.pc \in {"close", "recover"} =>
    \A r \in DOMAIN boot.seen : row[r].st \in Active /\ Same(row[r], boot.seen[r])

\* The executor the drain thread polls is the one of its run's job, and the
\* synchronization exists; the run it rotates for exists too.
Polling == {"saveRef", "monitor", "report", "inline", "inlineWork", "inlineEnd"}
RefInv ==
  /\ worker.pc = "rotate" => row[worker.run].job \in Jobs
  /\ worker.pc \in Polling =>
    /\ row[worker.run].st # "absent"
    /\ row[worker.run].job \in Jobs => worker.ref.kind = Kind[row[worker.run].job]
    /\ worker.ref.kind = "sync" => sync[worker.ref.id].st # "absent"
    /\ worker.pc \in {"inline", "inlineWork", "inlineEnd"} => worker.ref.kind = "inline"

\* An executor that shares its snapshot works for one run at a time, of its own jobs.
ExecutorInv ==
  \A k \in ExecKinds \ {"images"} :
    /\ ex[k].ext => ex[k].busy /\ ex[k].work = {}
    /\ ex[k].work # {} => ex[k].busy /\ ex[k].active
    /\ \A r1, r2 \in ex[k].work : r1 = r2
    /\ \A r \in ex[k].work : /\ row[r].st \notin {"absent", "succeeded"}
                             /\ row[r].job \in Jobs => Kind[row[r].job] = k

\* One synchronization is active, and every thread's is.
SyncInv ==
  /\ \A s \in SyncIds : /\ sync[s].begun => sync[s].live
                        /\ sync[s].live => sync[s].st \in Active
  /\ \A s1, s2 \in RunningSyncs : s1 = s2

QueueInv == /\ TypeOK
            /\ RowsInv /\ StartupInv /\ WorkerInv /\ WebInv /\ BootInv
            /\ RefInv /\ ExecutorInv /\ SyncInv

\* While the drain thread is about to end, a queued run has a wake-up on its way.
WakeInv ==
  worker.pc = "leave" /\ failures = 0 /\ boot.pc = "done" /\ ~wakePending
  /\ (\A t \in Threads : web[t].pc # "wake")
    => \A r \in Runs : row[r].st # "queued"


-----------------------------------------------------------------------------
(* Rows and the copies threads hold of them.                                *)

\* How the drain thread rewrites its copy o: it ends the run and gives the lease up,
\* keeps both, or puts a run back that may be tried again.
Legit(o, n) ==
  /\ n \in Row /\ n.cancel = o.cancel
  /\ \/ n.st \in Terminal /\ n.lease = "none"
     \/ n.st \in {"running", o.st} /\ n.lease = o.lease
     \/ n.st = "queued" /\ n.lease = "none" /\ ~o.cancel /\ o.att < o.max

\* A row with a lease is a fair copy of itself.
LEMMA LoadedCopy ==
  ASSUME NEW c \in Row, RowOk(c), c.lease # "none"
  PROVE  Copy(c, c)
  BY DEF RowOk, Copy, AbsentRow, Row, Active, Terminal

\* A flush of a legitimate rewriting, over a row that a cancellation may have changed
\* since it was loaded: the columns that are not written back make it safe.
LEMMA FlushIsSafe ==
  ASSUME NEW c \in Row, NEW o \in Row, NEW n \in Row,
         RowOk(c), Copy(c, o), Legit(o, n)
  PROVE  /\ RowOk(Flushed(c, o, n))
         /\ Evolves(c, Flushed(c, o, n))
         /\ Flushed(c, o, n).st \in {c.st, n.st}
<1> DEFINE f == Flushed(c, o, n)
<1>1. /\ f.job = c.job /\ f.att = c.att /\ f.max = c.max
      /\ f.st = Dirty(c.st, o.st, n.st)
      /\ f.lease = Dirty(c.lease, o.lease, n.lease)
      /\ f.cancel = c.cancel
  BY DEF Flushed, Dirty, Legit
<1>2. c.st = "running" \/ (c.st \in Terminal /\ c.cancel)
  BY DEF Copy, RowOk, AbsentRow, Row, Active, Terminal
<1>3. c.job # "none" /\ c.att <= c.max /\ c.lease # "none"
  BY <1>2 DEF RowOk, Terminal, Copy
<1> HIDE DEF f
<1> SUFFICES RowOk(f) /\ Evolves(c, f) /\ f.st \in {c.st, n.st}
  BY DEF f
<1>4. CASE n.st \in Terminal /\ n.lease = "none"
  <2>1. f.lease = "none" /\ f.st \in Terminal
    BY <1>1, <1>4 DEF Dirty, Copy, Terminal
  <2>2. f.st \in {c.st, n.st}
    BY <1>1 DEF Dirty
  <2> QED
    BY <1>1, <1>2, <1>3, <2>1, <2>2 DEF RowOk, Evolves, Terminal, Active
<1>5. CASE n.st \in {"running", o.st} /\ n.lease = o.lease
  <2>1. f.lease = c.lease /\ f.st \in {"running", c.st}
    BY <1>1, <1>5 DEF Dirty
  <2>2. f.st \in {c.st, n.st}
    BY <1>1 DEF Dirty
  <2>3. f.st = "running" => c.cancel \/ c.st = "running"
    BY <1>2
  <2> QED
    BY <1>1, <1>2, <1>3, <2>1, <2>2, <2>3 DEF RowOk, Evolves, Terminal, Active
<1>6. CASE n.st = "queued" /\ n.lease = "none" /\ ~o.cancel /\ o.att < o.max
  <2>1. f.lease = "none" /\ f.st = "queued" /\ c.att < c.max
    BY <1>1, <1>6 DEF Dirty, Copy
  <2> QED
    BY <1>1, <1>2, <1>3, <2>1, <1>6 DEF RowOk, Evolves, Terminal, Active
<1> QED
  BY <1>4, <1>5, <1>6 DEF Legit

\* The rewritten forms of a run the drain thread or the startup recovery loaded.
LEMMA RewrittenLegit ==
  ASSUME NEW o \in Row
  PROVE  /\ Legit(o, Interrupted(o))
         /\ Legit(o, Recovered(o))
         /\ Legit(o, Retried(o))
<1>0. o.att \in Nat /\ o.max \in Nat
  <2>1. o.att \in Nat /\ (o.max = 0 \/ o.max \in Limits)
    BY DEF Row
  <2>2. \A m \in Limits : m \in Nat
    BY BoundsAssumption
  <2> QED
    BY <2>1, <2>2
<1>1. Legit(o, Interrupted(o))
  <2>1. /\ Interrupted(o).cancel = o.cancel /\ Interrupted(o).lease = "none"
        /\ Interrupted(o).st = "interrupted"
    BY DEF Interrupted, Row
  <2> QED
    BY <2>1, RewrittenType DEF Legit, Terminal
<1>2. Legit(o, Failed(o))
  <2>1. Failed(o).cancel = o.cancel /\ Failed(o).lease = "none" /\ Failed(o).st = "failed"
    BY DEF Failed, Row
  <2> QED
    BY <2>1, RewrittenType DEF Legit, Terminal
<1>3. ASSUME NEW now \in BOOLEAN, ~o.cancel, o.att < o.max
      PROVE  Legit(o, Requeued(o, now))
  <2>1. /\ Requeued(o, now).cancel = o.cancel /\ Requeued(o, now).lease = "none"
        /\ Requeued(o, now).st = "queued"
    BY DEF Requeued, Row
  <2> QED
    BY <1>3, <2>1, RewrittenType DEF Legit
<1>4. Legit(o, Recovered(o))
  <2>1. ~(o.att >= o.max) => o.att < o.max
    BY <1>0
  <2> QED
    BY <1>1, <1>2, <1>3, <2>1 DEF Recovered
<1>5. Legit(o, Retried(o))
  BY <1>1, <1>2, <1>3 DEF Retried
<1> QED
  BY <1>1, <1>4, <1>5

\* A cancellation written over a row: the request stays, the lease is left alone, and
\* only a run that was loaded as queued is ended.
LEMMA CancelIsSafe ==
  ASSUME NEW c \in Row, NEW o \in Row,
         RowOk(c), Asked(c, o), c.st # "deleted"
  PROVE  LET f == Flushed(c, o, CancelRequested(o))
         IN /\ RowOk(f) /\ Evolves(c, f)
            /\ f.cancel /\ f.st \in {c.st, "interrupted"} /\ f.lease = c.lease
            /\ f.job = c.job /\ f.att = c.att /\ f.max = c.max
<1> DEFINE n == CancelRequested(o)
           f == Flushed(c, o, n)
<1>1. /\ n.cancel = TRUE
      /\ n.st = (IF o.st = "queued" THEN "interrupted" ELSE o.st)
      /\ n.lease = (IF o.st = "queued" THEN "none" ELSE o.lease)
  BY DEF CancelRequested, Interrupted, Row
<1>2. /\ f.job = c.job /\ f.att = c.att /\ f.max = c.max
      /\ f.st = Dirty(c.st, o.st, n.st)
      /\ f.lease = Dirty(c.lease, o.lease, n.lease)
      /\ f.cancel = Dirty(c.cancel, o.cancel, n.cancel)
  BY DEF Flushed
<1> HIDE DEF n, f
<1>3. f.cancel
  BY <1>1, <1>2 DEF Dirty, Asked, Row
<1>4. f.st \in {c.st, "interrupted"} /\ f.lease = c.lease
  BY <1>1, <1>2 DEF Dirty, Asked
<1>5. c.st \notin {"absent", "deleted"} /\ c.job # "none" /\ c.att <= c.max
  BY DEF Asked, RowOk
<1>6. RowOk(f) /\ Evolves(c, f)
  BY <1>2, <1>3, <1>4, <1>5 DEF RowOk, Evolves, Active, Terminal
<1> QED
  BY <1>2, <1>3, <1>4, <1>6 DEF f, n

\* A row that changes only in its lease time or in its readiness.
LEMMA SameIsSafe ==
  ASSUME NEW c \in Row, NEW n \in Row, RowOk(c), Same(c, n), c.st = "absent" => n = c
  PROVE  RowOk(n) /\ Evolves(c, n)
<1>1. RowOk(n)
  BY DEF RowOk, Same
<1>2. Evolves(c, n)
  BY DEF Evolves, Same, Active, Terminal
<1> QED
  BY <1>1, <1>2

\* What the startup recovery writes, over rows nobody else can have changed.
LEMMA RecoveryIsSafe ==
  ASSUME NEW c \in Row, NEW o \in Row, NEW n \in Row,
         RowOk(c), c.st \in Active, Same(c, o), n.cancel = o.cancel,
         \/ n = o
         \/ n.st \in Terminal /\ n.lease = "none"
         \/ n.st = "queued" /\ n.lease = "none" /\ o.att < o.max
  PROVE  /\ RowOk(Flushed(c, o, n))
         /\ Evolves(c, Flushed(c, o, n))
         /\ Flushed(c, o, n).st \in {c.st, n.st}
<1> DEFINE f == Flushed(c, o, n)
<1>1. /\ f.job = c.job /\ f.att = c.att /\ f.max = c.max
      /\ f.st = Dirty(c.st, o.st, n.st)
      /\ f.lease = Dirty(c.lease, o.lease, n.lease)
      /\ f.cancel = c.cancel
  BY DEF Flushed, Dirty
<1> HIDE DEF f
<1> SUFFICES RowOk(f) /\ Evolves(c, f) /\ f.st \in {c.st, n.st}
  BY DEF f
<1>2. c.job # "none" /\ c.att <= c.max
  BY DEF RowOk, Active
<1>3. f.st = n.st /\ f.lease = n.lease
  BY <1>1 DEF Dirty, Same
<1>4. CASE n = o
  BY <1>1, <1>2, <1>3, <1>4 DEF RowOk, Evolves, Same, Active, Terminal
<1>5. CASE n.st \in Terminal /\ n.lease = "none"
  BY <1>1, <1>2, <1>3, <1>5 DEF RowOk, Evolves, Active, Terminal
<1>6. CASE n.st = "queued" /\ n.lease = "none" /\ o.att < o.max
  <2>1. c.att < c.max
    BY <1>6 DEF Same
  <2> QED
    BY <1>1, <1>2, <1>3, <1>6, <2>1 DEF RowOk, Evolves, Active, Terminal
<1> QED
  BY <1>4, <1>5, <1>6

-----------------------------------------------------------------------------
(* What one step does to the rows.                                          *)

\* The only writes of `succeeded'.
Finishing(r) ==
  \/ boot.pc # "done"
  \/ /\ worker.run = r
     /\ worker.pc = "inlineEnd" \/ (worker.pc = "report" /\ ~StillActive(worker.ref))

\* A step that inserts no row.
RowsStep ==
  \A r \in Runs :
    /\ RowOk(row'[r]) /\ Evolves(row[r], row'[r])
    /\ row'[r].st = "succeeded" => row[r].st = "succeeded" \/ Finishing(r)
    /\ row'[r].st = "deleted" => \/ row[r].st = "deleted"
                                 \/ worker.pc \in {"rotate", "inlineWork"} /\ Newer(r) # {}

\* Rows left alone.
LEMMA SameRowsStep ==
  ASSUME RowsInv, UNCHANGED row
  PROVE  RowsStep
<1> SUFFICES ASSUME NEW r \in Runs
             PROVE  RowOk(row[r]) /\ Evolves(row[r], row[r])
  BY DEF RowsStep
<1> QED
  BY DEF RowsInv, Evolves, Active, Terminal

\* The drain thread's flush of some of the rows it loaded.
LEMMA DrainWritesStep ==
  ASSUME TypeOK, RowsInv,
         NEW seen, Loaded(seen), \A r \in DOMAIN seen : Copy(row[r], seen[r]),
         NEW new, \A r \in DOMAIN seen : Legit(seen[r], new[r]),
         \A r \in DOMAIN seen : new[r].st = "succeeded" => Finishing(r),
         \A r \in DOMAIN seen : new[r].st # "deleted",
         row' = Written(seen, new)
  PROVE  RowsStep
<1> SUFFICES ASSUME NEW r \in Runs
             PROVE  /\ RowOk(row'[r]) /\ Evolves(row[r], row'[r])
                    /\ row'[r].st = "succeeded" => row[r].st = "succeeded" \/ Finishing(r)
                    /\ row'[r].st = "deleted" => row[r].st = "deleted"
  BY DEF RowsStep
<1>1. CASE r \in DOMAIN seen
  <2>1. row'[r] = Flushed(row[r], seen[r], new[r])
    BY <1>1 DEF Written
  <2>2. row[r] \in Row /\ seen[r] \in Row /\ new[r] \in Row /\ RowOk(row[r])
    BY <1>1 DEF Loaded, Legit, TypeOK, RowsInv
  <2>3. /\ RowOk(row'[r]) /\ Evolves(row[r], row'[r])
        /\ row'[r].st \in {row[r].st, new[r].st}
    BY <1>1, <2>1, <2>2, FlushIsSafe
  <2> QED
    BY <1>1, <2>3
<1>2. CASE r \notin DOMAIN seen
  <2>1. row'[r] = row[r] /\ RowOk(row[r])
    BY <1>2 DEF Written, RowsInv
  <2> QED
    BY <2>1 DEF Evolves, Active, Terminal
<1> QED
  BY <1>1, <1>2

\* The drain thread's flush of its own run.
LEMMA OwnWriteStep ==
  ASSUME TypeOK, RowsInv,
         NEW r \in Runs, NEW old \in Row, NEW new,
         Copy(row[r], old), Legit(old, new),
         new.st = "succeeded" => Finishing(r), new.st # "deleted",
         row' = Written(One(r, old), One(r, new))
  PROVE  RowsStep
<1>1. /\ Loaded(One(r, old)) /\ DOMAIN One(r, old) = {r}
      /\ One(r, old)[r] = old /\ One(r, new)[r] = new
  BY DEF Loaded, One
<1> QED
  BY <1>1, DrainWritesStep

\* Rotation deletes nothing but runs with newer ones.
LEMMA RotatedStep ==
  ASSUME TypeOK, RowsInv, NEW jobs \in SUBSET Jobs,
         worker.pc \in {"rotate", "inlineWork"}, row' = Rotated(jobs)
  PROVE  RowsStep
<1> SUFFICES ASSUME NEW r \in Runs
             PROVE  /\ RowOk(row'[r]) /\ Evolves(row[r], row'[r])
                    /\ row'[r].st = "succeeded" => row[r].st = "succeeded"
                    /\ row'[r].st = "deleted" => row[r].st = "deleted" \/ Newer(r) # {}
  BY DEF RowsStep
<1> DEFINE gone == [AbsentRow EXCEPT !.st = "deleted"]
<1>1. RowOk(row[r])
  BY DEF RowsInv
<1>2. CASE row'[r] = row[r]
  BY <1>1, <1>2 DEF Evolves, Active, Terminal
<1>3. CASE row'[r] = gone /\ row[r].job \in jobs /\ Cardinality(Newer(r)) >= Keep
  <2>1. /\ gone.st = "deleted" /\ gone.lease = "none" /\ gone.att = 0 /\ gone.max = 0
        /\ gone.job = "none"
    BY DEF AbsentRow
  <2>2. row[r].st # "absent"
    <3>1. "none" \notin Jobs
      BY JobsAssumption DEF JobIds
    <3> QED
      BY <1>1, <1>3, <3>1 DEF RowOk, AbsentRow
  <2>3. Newer(r) # {}
    <3>1. Cardinality({}) = 0 /\ Keep # 0 /\ Keep \in Nat
      BY FS_EmptySet, BoundsAssumption
    <3> QED
      BY <1>3, <3>1
  <2> HIDE DEF gone
  <2>4. RowOk(row'[r])
    BY <1>3, <2>1 DEF RowOk, Terminal
  <2>5. Evolves(row[r], row'[r])
    BY <1>3, <2>1, <2>2 DEF Evolves, Active
  <2> QED
    BY <1>3, <2>1, <2>3, <2>4, <2>5
<1> QED
  BY <1>2, <1>3 DEF Rotated

\* No run is deleted either.
KeepsJobs == \A r \in Runs : row'[r].job = row[r].job

\* The rows are in order again after a step that inserts none: this is where it
\* matters that only a cancelled run is ever put back over a newer one.
LEMMA RowsKept ==
  ASSUME TypeOK, RowsInv, RowsStep
  PROVE  RowsInv'
<1>1. Ordered'
  BY DEF RowsStep, RowsInv, Ordered, Evolves
<1>2. ASSUME NEW r \in Runs, row'[r].st \in Active, ~row'[r].cancel
      PROVE  Newer(r)' = {}
  <2>1. row[r].st \in Active /\ ~row[r].cancel /\ row'[r].job = row[r].job
    BY <1>2 DEF RowsStep, Evolves, Active
  <2>2. Newer(r) = {}
    BY <2>1 DEF RowsInv, LatestUnlessCancelled
  <2>3. row[r].job # "none"
    BY <2>1 DEF RowsInv, RowOk, Active
  <2>4. ASSUME NEW x \in Runs, x > r, row'[x].job = row'[r].job, row'[x].st # "deleted"
        PROVE  row[x].job = row[r].job /\ row[x].st # "deleted"
    BY <2>1, <2>4 DEF RowsStep, Evolves
  <2> QED
    BY <2>2, <2>4 DEF Newer
<1> QED
  BY <1>1, <1>2 DEF RowsStep, RowsInv, LatestUnlessCancelled

\* The web threads' steps after an insertion, and the cancellations.
LEMMA WebRows ==
  ASSUME QueueInv, NEW t \in Threads,
         \/ SubmitWake(t) \/ \E r \in Runs : CancelRead(t, r)
         \/ CancelWrite(t) \/ CancelReload(t) \/ CancelForward(t)
  PROVE  /\ RowsStep /\ KeepsJobs
         /\ \A r \in Runs : \/ row'[r] = row[r]
                            \/ /\ web[t].pc = "cancel" /\ r = web[t].run
                               /\ row'[r].cancel /\ row'[r].st \in {row[r].st, "interrupted"}
                               /\ row'[r].lease = row[r].lease
                               /\ row'[r].att = row[r].att /\ row'[r].max = row[r].max
<1>1. CASE UNCHANGED row
  BY <1>1, SameRowsStep DEF QueueInv, KeepsJobs
<1>2. ASSUME CancelWrite(t), row' # row
      PROVE  LET x == web[t].run
                 o == web[t].seen[x]
             IN /\ web[t].pc = "cancel" /\ x \in Runs /\ o \in Row /\ row[x] \in Row
                /\ row[x].st # "deleted" /\ Asked(row[x], o) /\ RowOk(row[x])
                /\ row' = [row EXCEPT ![x] = Flushed(row[x], o, CancelRequested(o))]
  <2> DEFINE x == web[t].run
             o == web[t].seen[x]
  <2>1. /\ web[t].pc = "cancel" /\ CanFlush(web[t].seen, One(x, CancelRequested(o)))
        /\ row' = Written(web[t].seen, One(x, CancelRequested(o)))
    BY <1>2 DEF CancelWrite
  <2>2. IsThread(web[t]) /\ row \in [Runs -> Row]
    BY DEF QueueInv, TypeOK
  <2>3. x \in Runs /\ DOMAIN web[t].seen = {x} /\ o \in Row
    BY <2>1, <2>2 DEF IsThread, Loaded
  <2>4. row[x].st # "deleted"
    BY <2>1, <2>3 DEF CanFlush
  <2>5. Asked(row[x], o) /\ RowOk(row[x])
    BY <2>1, <2>3 DEF QueueInv, WebInv, RowsInv
  <2>6. row' = [row EXCEPT ![x] = Flushed(row[x], o, CancelRequested(o))]
    BY <2>1, <2>2, <2>3 DEF Written, One
  <2> QED
    BY <2>1, <2>2, <2>3, <2>4, <2>5, <2>6
<1>3. CASE CancelWrite(t) /\ row' # row
  <2> DEFINE x == web[t].run
             o == web[t].seen[x]
             f == Flushed(row[x], o, CancelRequested(o))
  <2>1. /\ web[t].pc = "cancel" /\ x \in Runs /\ o \in Row /\ row[x] \in Row
        /\ row[x].st # "deleted" /\ Asked(row[x], o) /\ RowOk(row[x])
        /\ row' = [row EXCEPT ![x] = f]
    BY <1>2, <1>3
  <2>2. /\ RowOk(f) /\ Evolves(row[x], f)
        /\ f.cancel /\ f.st \in {row[x].st, "interrupted"} /\ f.lease = row[x].lease
        /\ f.job = row[x].job /\ f.att = row[x].att /\ f.max = row[x].max
    BY <2>1, CancelIsSafe
  <2> HIDE DEF x, o, f
  <2>3. row'[x] = f /\ \A r \in Runs \ {x} : row'[r] = row[r]
    BY <2>1 DEF QueueInv, TypeOK
  <2>4. RowsStep
    <3>1. ASSUME NEW r \in Runs \ {x}
          PROVE  RowOk(row[r]) /\ Evolves(row[r], row[r])
      BY DEF QueueInv, RowsInv, Evolves, Active, Terminal
    <3> QED
      BY <2>1, <2>2, <2>3, <3>1 DEF RowsStep
  <2>5. KeepsJobs
    BY <2>2, <2>3 DEF KeepsJobs
  <2> QED
    BY <2>1, <2>2, <2>3, <2>4, <2>5 DEF x
<1> QED
  BY <1>1, <1>3 DEF SubmitWake, CancelRead, CancelWrite, CancelReload, CancelForward

\* The clock.
LEMMA TimeRows ==
  ASSUME QueueInv, Time, TypeOK'
  PROVE  RowsStep /\ KeepsJobs /\ \A r \in Runs : Same(row[r], row'[r])
<1>1. PICK x \in Runs : LeaseExpires(x) \/ BackoffElapses(x)
  BY DEF Time
<1>2. /\ row \in [Runs -> Row] /\ row[x] \in Row
      /\ \A r \in Runs : row[r] \in Row /\ row'[r] \in Row /\ RowOk(row[r])
  BY DEF QueueInv, TypeOK, RowsInv
<1>3. Same(row[x], row'[x]) /\ row[x].st # "absent"
  <2>1. CASE LeaseExpires(x)
    <3>1. row'[x] = [row[x] EXCEPT !.exp = "past"] /\ row[x].exp = "future"
      BY <1>2, <2>1 DEF LeaseExpires
    <3>2. row[x].st # "absent"
      BY <1>2, <3>1 DEF RowOk, AbsentRow
    <3> QED
      BY <1>2, <3>1, <3>2 DEF Same, Row
  <2>2. CASE BackoffElapses(x)
    <3>1. row'[x] = [row[x] EXCEPT !.ready = TRUE] /\ row[x].st = "queued"
      BY <1>2, <2>2 DEF BackoffElapses
    <3> QED
      BY <1>2, <3>1 DEF Same, Row
  <2> QED
    BY <1>1, <2>1, <2>2
<1>4. \A r \in Runs \ {x} : row'[r] = row[r]
  BY <1>1, <1>2 DEF LeaseExpires, BackoffElapses
<1>5. \A r \in Runs : Same(row[r], row'[r]) /\ (row[r].st = "absent" => row'[r] = row[r])
  BY <1>3, <1>4 DEF Same
<1>6. \A r \in Runs : RowOk(row'[r]) /\ Evolves(row[r], row'[r])
  BY <1>2, <1>5, SameIsSafe
<1>7. RowsStep
  BY <1>5, <1>6 DEF RowsStep, Same
<1>8. KeepsJobs
  BY <1>5 DEF KeepsJobs, Same
<1> QED
  BY <1>5, <1>7, <1>8

\* The startup recovery writes the rows as it loaded them.
LEMMA BootRows ==
  ASSUME QueueInv, Boots \/ SchedulerWake
  PROVE  RowsStep /\ KeepsJobs
<1>1. CASE UNCHANGED row
  BY <1>1, SameRowsStep DEF QueueInv, KeepsJobs
<1>2. ASSUME NEW new, row' = Written(boot.seen, new), boot.pc \in {"close", "recover"},
             \A r \in DOMAIN boot.seen :
               LET o == boot.seen[r]
                   n == new[r]
               IN /\ n \in Row /\ n.cancel = o.cancel
                  /\ \/ n = o
                     \/ n.st \in Terminal /\ n.lease = "none"
                     \/ n.st = "queued" /\ n.lease = "none" /\ o.att < o.max
      PROVE  RowsStep /\ KeepsJobs
  <2>1. \A r \in Runs : row[r] \in Row /\ RowOk(row[r])
    BY DEF QueueInv, TypeOK, RowsInv
  <2>2. ASSUME NEW r \in DOMAIN boot.seen
        PROVE  /\ r \in Runs /\ boot.seen[r] \in Row
               /\ row[r].st \in Active /\ Same(row[r], boot.seen[r])
    BY <1>2 DEF QueueInv, BootInv, TypeOK, IsBoot, Loaded
  <2>3. ASSUME NEW r \in DOMAIN boot.seen
        PROVE  /\ RowOk(row'[r]) /\ Evolves(row[r], row'[r]) /\ row'[r].job = row[r].job
               /\ row'[r].st # "deleted"
    <3> DEFINE c == row[r]
               o == boot.seen[r]
               n == new[r]
    <3>1. r \in Runs /\ c \in Row /\ RowOk(c) /\ o \in Row /\ c.st \in Active /\ Same(c, o)
      BY <2>1, <2>2
    <3>2. /\ n \in Row /\ n.cancel = o.cancel
          /\ \/ n = o
             \/ n.st \in Terminal /\ n.lease = "none"
             \/ n.st = "queued" /\ n.lease = "none" /\ o.att < o.max
      BY <1>2
    <3>3. row'[r] = Flushed(c, o, n)
      BY <1>2, <3>1 DEF Written
    <3>4. n.st # "deleted" /\ c.st # "deleted"
      BY <3>1, <3>2 DEF Same, Active, Terminal
    <3>5. Flushed(c, o, n).job = c.job
      BY DEF Flushed
    <3> HIDE DEF c, o, n
    <3>6. /\ RowOk(Flushed(c, o, n)) /\ Evolves(c, Flushed(c, o, n))
          /\ Flushed(c, o, n).st \in {c.st, n.st}
      BY <3>1, <3>2, RecoveryIsSafe
    <3> QED
      BY <3>3, <3>4, <3>5, <3>6 DEF c
  <2>4. ASSUME NEW r \in Runs \ DOMAIN boot.seen
        PROVE  RowOk(row'[r]) /\ Evolves(row[r], row'[r]) /\ row'[r] = row[r]
    BY <1>2, <2>1 DEF Written, Evolves, Active, Terminal
  <2>5. \A r \in Runs : Finishing(r)
    BY <1>2 DEF Finishing
  <2>6. RowsStep
    BY <2>3, <2>4, <2>5 DEF RowsStep
  <2>7. KeepsJobs
    BY <2>3, <2>4 DEF KeepsJobs
  <2> QED
    BY <2>6, <2>7
<1>3. CASE BootClose /\ row' # row
  <2> DEFINE new == [r \in DOMAIN boot.seen |-> Reconciled(boot.seen[r])]
  <2>1. row' = Written(boot.seen, new) /\ boot.pc = "close"
    BY <1>3 DEF BootClose
  <2>2. ASSUME NEW r \in DOMAIN boot.seen
        PROVE  LET o == boot.seen[r]
                   n == new[r]
               IN /\ n \in Row /\ n.cancel = o.cancel
                  /\ n = o \/ (n.st \in Terminal /\ n.lease = "none")
    <3> DEFINE o == boot.seen[r]
    <3>1. o \in Row /\ new[r] = Reconciled(o)
      BY DEF QueueInv, TypeOK, IsBoot, Loaded
    <3> HIDE DEF new, o
    <3>2. CASE Reconciled(o) = o
      BY <3>1, <3>2 DEF o
    <3>3. CASE /\ sync[o.ref.id].st \in Terminal
               /\ Reconciled(o) = [o EXCEPT !.st = sync[o.ref.id].st, !.lease = "none",
                                            !.exp = "none"]
      <4>1. /\ Reconciled(o) \in Row /\ Reconciled(o).cancel = o.cancel
            /\ Reconciled(o).st \in Terminal /\ Reconciled(o).lease = "none"
        BY <3>1, <3>3 DEF Row, Terminal
      <4> QED
        BY <3>1, <4>1 DEF o
    <3> QED
      BY <3>2, <3>3 DEF Reconciled
  <2> HIDE DEF new
  <2> QED
    BY <1>2, <2>1, <2>2
<1>4. CASE BootRecover /\ row' # row
  <2> DEFINE new == [r \in DOMAIN boot.seen |-> Recovered(boot.seen[r])]
  <2>1. row' = Written(boot.seen, new) /\ boot.pc = "recover"
    BY <1>4 DEF BootRecover
  <2>2. ASSUME NEW r \in DOMAIN boot.seen
        PROVE  LET o == boot.seen[r]
                   n == new[r]
               IN /\ n \in Row /\ n.cancel = o.cancel
                  /\ \/ n.st \in Terminal /\ n.lease = "none"
                     \/ n.st = "queued" /\ n.lease = "none" /\ o.att < o.max
    <3> DEFINE o == boot.seen[r]
    <3>1. o \in Row /\ new[r] = Recovered(o)
      BY DEF QueueInv, TypeOK, IsBoot, Loaded
    <3> HIDE DEF new, o
    <3>2. Recovered(o).st \in Terminal \cup {"queued"} /\ Recovered(o).lease = "none"
      BY <3>1 DEF Recovered, Interrupted, Failed, Requeued, Row, Terminal
    <3>3. Recovered(o).st = "queued" => ~(o.att >= o.max)
      BY <3>1 DEF Recovered, Interrupted, Failed, Row, Terminal
    <3>4. o.att \in Nat /\ (o.max = 0 \/ o.max \in Limits) /\ \A m \in Limits : m \in Nat
      BY <3>1, BoundsAssumption DEF Row
    <3>5. ~(o.att >= o.max) => o.att < o.max
      BY <3>4
    <3>6. Recovered(o) \in Row /\ Recovered(o).cancel = o.cancel
      BY <3>1, RewrittenLegit DEF Legit
    <3> QED
      BY <3>1, <3>2, <3>3, <3>5, <3>6 DEF o
  <2> HIDE DEF new
  <2> QED
    BY <1>2, <2>1, <2>2
<1> QED
  BY <1>1, <1>3, <1>4
  DEF Boots, BootRead, BootClose, BootOrphans, BootForce, BootRecover, BootWake, SchedulerWake

\* A process death, with either kind of restart.
LEMMA CrashRows ==
  ASSUME QueueInv, Crash
  PROVE  RowsStep
<1> SUFFICES ASSUME NEW r \in Runs
             PROVE  /\ RowOk(row'[r]) /\ Evolves(row[r], row'[r])
                    /\ row'[r].st = "succeeded" => row[r].st = "succeeded"
                    /\ row'[r].st = "deleted" => row[r].st = "deleted"
  BY DEF RowsStep
<1> DEFINE c == row[r]
           a == Abandoned[r]
<1>1. c \in Row /\ RowOk(c)
  BY DEF QueueInv, TypeOK, RowsInv
<1>2. /\ a \in Row /\ (a.lease = "none" <=> c.lease = "none")
      /\ a.st = c.st /\ a.job = c.job /\ a.cancel = c.cancel /\ a.att = c.att /\ a.max = c.max
  BY <1>1 DEF Abandoned, Row
<1>3. c.st = "absent" => a = c
  BY <1>1 DEF Abandoned, RowOk, AbsentRow
<1>4. row'[r] = a \/ (row'[r] = Recovered(a) /\ r \in Recoverable(TRUE))
  BY DEF Crash, Abandoned
<1>5. r \in Recoverable(TRUE) => c.st = "running"
  BY <1>1 DEF Recoverable, RowOk
<1> HIDE DEF c, a
<1>6. RowOk(a) /\ Evolves(c, a)
  BY <1>1, <1>2, <1>3 DEF RowOk, Evolves, Active, Terminal
<1>7. CASE row'[r] = a
  BY <1>2, <1>6, <1>7 DEF c
<1>8. CASE row'[r] = Recovered(a) /\ c.st = "running"
  <2> DEFINE n == Recovered(a)
  <2>1. n.lease = "none" /\ n.st \in {"interrupted", "failed", "queued"} /\ n.job = a.job
        /\ n.cancel = a.cancel /\ n.att = a.att /\ n.max = a.max
    BY <1>2 DEF Recovered, Interrupted, Failed, Requeued, Row
  <2>2. n.st = "queued" => ~(a.att >= a.max)
    BY <1>2 DEF Recovered, Interrupted, Failed, Row
  <2>3. a.att \in Nat /\ (a.max = 0 \/ a.max \in Limits) /\ \A m \in Limits : m \in Nat
    BY <1>2, BoundsAssumption DEF Row
  <2>4. ~(a.att >= a.max) => a.att < a.max
    BY <2>3
  <2>5. c.job # "none" /\ c.att <= c.max
    BY <1>1, <1>8 DEF RowOk
  <2> HIDE DEF n
  <2>6. RowOk(n)
    BY <1>2, <2>1, <2>2, <2>4, <2>5 DEF RowOk, Terminal
  <2>7. Evolves(c, n)
    BY <1>2, <1>8, <2>1 DEF Evolves, Active, Terminal
  <2> QED
    BY <1>8, <2>1, <2>6, <2>7 DEF n, c
<1> QED
  BY <1>4, <1>5, <1>7, <1>8

\* The drain thread's loop.
LEMMA DrainRows ==
  ASSUME QueueInv, Drains
  PROVE  RowsStep
<1>1. CASE UNCHANGED row
  BY <1>1, SameRowsStep DEF QueueInv
<1>2. CASE RecoverWrite /\ row' # row
  <2> DEFINE new == [r \in DOMAIN worker.seen |-> Recovered(worker.seen[r])]
  <2>1. row' = Written(worker.seen, new) /\ worker.pc = "recover"
    BY <1>2 DEF RecoverWrite
  <2>2. Loaded(worker.seen)
    BY DEF QueueInv, TypeOK, IsWorker
  <2>3. \A r \in DOMAIN worker.seen : Copy(row[r], worker.seen[r])
    BY <2>1 DEF QueueInv, WorkerInv, Holding
  <2>4. ASSUME NEW r \in DOMAIN worker.seen
        PROVE  /\ Legit(worker.seen[r], new[r])
               /\ new[r].st \notin {"succeeded", "deleted"}
    <3>1. worker.seen[r] \in Row /\ new[r] = Recovered(worker.seen[r])
      BY <2>2 DEF Loaded
    <3> HIDE DEF new
    <3>2. \A o \in Row : Recovered(o).st \in {"interrupted", "failed", "queued"}
      BY DEF Recovered, Interrupted, Failed, Requeued, Row
    <3> QED
      BY <3>1, <3>2, RewrittenLegit
  <2> HIDE DEF new
  <2> QED
    BY <2>1, <2>2, <2>3, <2>4, DrainWritesStep DEF QueueInv
<1>3. CASE ClaimUpdate /\ row' # row
  <2> DEFINE x == worker.run
             c == row[x]
             n == Claimed(c)
  <2>1. worker.pc = "update" /\ row[x].st = "queued" /\ row' = [row EXCEPT ![x] = n]
    BY <1>3 DEF ClaimUpdate
  <2>2. x \in Runs /\ c \in Row /\ RowOk(c)
    BY <2>1 DEF QueueInv, TypeOK, IsWorker, RowsInv
  <2>3. /\ n.st = "running" /\ n.lease = "me" /\ n.att = c.att + 1
        /\ n.job = c.job /\ n.cancel = c.cancel /\ n.max = c.max
    BY <2>2 DEF Claimed, Row
  <2>4. /\ c.att \in Nat /\ (c.max = 0 \/ c.max \in Limits)
        /\ \A m \in Limits : m \in Nat
    <3>1. \A m \in Limits : m \in Nat
      BY BoundsAssumption
    <3>2. \A b \in Row : b.att \in Nat /\ (b.max = 0 \/ b.max \in Limits)
      BY DEF Row
    <3> QED
      BY <2>2, <3>1, <3>2
  <2>5. row'[x] = n /\ c.st = "queued" /\ \A r \in Runs \ {x} : row'[r] = row[r]
    BY <2>1, <2>2 DEF QueueInv, TypeOK
  <2> HIDE DEF c, n
  <2>6. n.att <= n.max
    <3>1. c.att < c.max
      BY <2>2, <2>5 DEF RowOk
    <3> QED
      BY <2>3, <2>4, <3>1
  <2>7. c.job # "none"
    BY <2>2, <2>5 DEF RowOk
  <2>8. RowOk(n) /\ Evolves(c, n)
    BY <2>3, <2>5, <2>6, <2>7 DEF RowOk, Evolves, Active, Terminal
  <2>9. \A r \in Runs \ {x} : RowOk(row[r]) /\ Evolves(row[r], row[r])
    BY DEF QueueInv, RowsInv, Evolves, Active, Terminal
  <2> QED
    BY <2>2, <2>3, <2>5, <2>8, <2>9 DEF RowsStep, c
<1> QED
  BY <1>1, <1>2, <1>3 DEF Drains, DrainTop, RecoverWrite, ClaimRead, ClaimUpdate, WaitRead, Leave

\* What the drain thread holds when it writes the run it executes.
LEMMA InHand ==
  ASSUME QueueInv, worker.pc \in {"close", "saveRef", "report", "inlineEnd", "retry"}
  PROVE  /\ worker.run \in Runs /\ DOMAIN worker.seen = {worker.run}
         /\ Loaded(worker.seen) /\ worker.seen[worker.run] \in Row
         /\ Copy(row[worker.run], worker.seen[worker.run])
<1>1. IsWorker(worker)
  BY DEF QueueInv, TypeOK
<1>2. /\ worker.run \in Runs /\ DOMAIN worker.seen = {worker.run}
      /\ Loaded(worker.seen) /\ worker.seen[worker.run] \in Row
  BY <1>1 DEF IsWorker, Loaded
<1> QED
  BY <1>2 DEF QueueInv, WorkerInv, Holding

\* Executing a run.
LEMMA ExecuteRows ==
  ASSUME QueueInv, Executes
  PROVE  RowsStep
<1> DEFINE r == worker.run
           o == worker.seen[r]
<1>1. CASE UNCHANGED row
  BY <1>1, SameRowsStep DEF QueueInv
<1>2. ASSUME NEW old \in Row, NEW new, row' = Written(One(r, old), One(r, new)),
             worker.pc \in {"close", "saveRef", "report", "inlineEnd", "retry"},
             Copy(row[r], old), Legit(old, new),
             new.st = "succeeded" => Finishing(r), new.st # "deleted"
      PROVE  RowsStep
  BY <1>2, InHand, OwnWriteStep DEF QueueInv
<1>3. CASE CloseCancelled /\ row' # row
  <2>1. row' = Written(One(r, o), One(r, Interrupted(o))) /\ worker.pc = "close"
    BY <1>3 DEF CloseCancelled, WorkerWrites
  <2>2. o \in Row /\ Copy(row[r], o)
    BY <2>1, InHand
  <2> HIDE DEF o
  <2>3. Legit(o, Interrupted(o)) /\ Interrupted(o).st = "interrupted"
    BY <2>2, RewrittenLegit DEF Interrupted, Row
  <2> QED
    BY <1>2, <2>1, <2>2, <2>3
<1>4. CASE SaveRef /\ row' # row
  <2> DEFINE n == [o EXCEPT !.ref = worker.ref]
  <2>1. row' = Written(One(r, o), One(r, n)) /\ worker.pc = "saveRef"
    BY <1>4 DEF SaveRef, WorkerWrites
  <2>2. o \in Row /\ Copy(row[r], o) /\ row[r] \in Row /\ RowOk(row[r])
    BY <2>1, InHand DEF QueueInv, TypeOK, RowsInv
  <2>3. worker.ref \in Refs
    BY DEF QueueInv, TypeOK, IsWorker
  <2> HIDE DEF o
  <2>4. n \in Row /\ n.st = o.st /\ n.lease = o.lease /\ n.cancel = o.cancel
    BY <2>2, <2>3 DEF Row
  <2>5. Legit(o, n)
    BY <2>4 DEF Legit
  <2> HIDE DEF n
  <2>6. DOMAIN One(r, o) = {r} /\ One(r, o)[r] = o /\ One(r, n)[r] = n /\ r \in Runs
    BY <2>1, <2>2, InHand DEF One
  <2>7. \A x \in Runs \ {r} : row'[x] = row[x]
    BY <2>1, <2>6 DEF Written
  <2>8. row'[r] = Flushed(row[r], o, n)
    BY <2>1, <2>6 DEF Written
  <2>9. row'[r].st = row[r].st
    BY <2>4, <2>8 DEF Flushed, Dirty
  <2>10. RowOk(row'[r]) /\ Evolves(row[r], row'[r])
    BY <2>2, <2>4, <2>5, <2>8, FlushIsSafe
  <2>11. \A x \in Runs \ {r} : RowOk(row[x]) /\ Evolves(row[x], row[x])
    BY DEF QueueInv, RowsInv, Evolves, Active, Terminal
  <2> QED
    BY <2>7, <2>9, <2>10, <2>11 DEF RowsStep
<1>5. CASE MonitorProgress /\ row' # row
  <2> DEFINE stale == [o EXCEPT !.exp = "none"]
             n == [o EXCEPT !.st = "running", !.exp = "future"]
  <2>1. row' = Written(One(r, stale), One(r, n)) /\ worker.pc = "report"
    BY <1>5 DEF MonitorProgress
  <2>2. o \in Row /\ Copy(row[r], o)
    BY <2>1, InHand
  <2> HIDE DEF o
  <2>3. /\ stale \in Row /\ n \in Row
        /\ n.st = "running" /\ n.lease = stale.lease /\ n.cancel = stale.cancel
    BY <2>2 DEF Row, Active
  <2>4. Copy(row[r], stale)
    BY <2>2 DEF Copy, Row
  <2>5. Legit(stale, n)
    BY <2>3 DEF Legit
  <2> HIDE DEF stale, n
  <2> QED
    BY <1>2, <2>1, <2>3, <2>4, <2>5
<1>6. CASE MonitorFinish /\ row' # row
  <2> DEFINE st == IF o.cancel THEN "interrupted" ELSE Reported(worker.ref)
             n == [o EXCEPT !.st = st, !.lease = "none", !.exp = "none"]
  <2>1. /\ row' = Written(One(r, o), One(r, n)) /\ worker.pc = "report"
        /\ ~StillActive(worker.ref)
    BY <1>6 DEF MonitorFinish
  <2>2. o \in Row /\ Copy(row[r], o)
    BY <2>1, InHand
  <2>3. worker.ref \in Refs /\ (worker.ref.kind = "sync" => worker.ref.id \in SyncIds)
    BY DEF QueueInv, TypeOK, IsWorker, Refs
  <2>4. Reported(worker.ref) # "absent"
    <3>1. CASE worker.ref.kind = "sync"
      <4>1. sync[worker.ref.id].st # "absent"
        BY <2>1, <3>1 DEF QueueInv, RefInv, Polling
      <4> QED
        BY <3>1, <4>1 DEF Reported
    <3>2. CASE worker.ref.kind # "sync"
      BY <3>2 DEF Reported
    <3> QED
      BY <3>1, <3>2
  <2>5. st \in Terminal
    BY <2>1, <2>3, <2>4, ReportedType DEF QueueInv, Terminal
  <2> HIDE DEF o, st
  <2>6. n \in Row /\ n.st = st /\ n.lease = "none" /\ n.cancel = o.cancel
    BY <2>2, <2>5 DEF Row
  <2>7. Legit(o, n) /\ n.st # "deleted"
    BY <2>5, <2>6 DEF Legit, Terminal
  <2>8. Finishing(r)
    BY <2>1 DEF Finishing
  <2> HIDE DEF n
  <2> QED
    BY <1>2, <2>1, <2>2, <2>7, <2>8
<1>7. CASE InlineEnd /\ row' # row
  <2>1. PICK st \in {"succeeded", "failed"} :
          row' = Written(One(r, o), One(r, [o EXCEPT !.st = st, !.lease = "none", !.exp = "none"]))
    BY <1>7 DEF InlineEnd, WorkerWrites
  <2> DEFINE n == [o EXCEPT !.st = st, !.lease = "none", !.exp = "none"]
  <2>2. row' = Written(One(r, o), One(r, n)) /\ worker.pc = "inlineEnd"
    BY <1>7, <2>1 DEF InlineEnd
  <2>3. o \in Row /\ Copy(row[r], o)
    BY <2>2, InHand
  <2> HIDE DEF o
  <2>4. n \in Row /\ n.st = st /\ n.lease = "none" /\ n.cancel = o.cancel
    BY <2>3 DEF Row, Terminal
  <2>5. Legit(o, n) /\ n.st # "deleted"
    BY <2>4 DEF Legit, Terminal
  <2>6. Finishing(r)
    BY <2>2 DEF Finishing
  <2> HIDE DEF n
  <2> QED
    BY <1>2, <2>2, <2>3, <2>5, <2>6
<1>8. CASE RetryWrite /\ row' # row
  <2>1. row' = Written(worker.seen, One(r, Retried(o))) /\ worker.pc = "retry"
    BY <1>8 DEF RetryWrite
  <2>2. o \in Row /\ Copy(row[r], o) /\ DOMAIN worker.seen = {r} /\ Loaded(worker.seen)
    BY <2>1, InHand
  <2>3. Legit(o, Retried(o)) /\ Retried(o).st \in {"interrupted", "failed", "queued"}
    <3> HIDE DEF o
    <3>1. Retried(o).st \in {"interrupted", "failed", "queued"}
      BY <2>2 DEF Retried, Interrupted, Failed, Requeued, Row
    <3> QED
      BY <2>2, <3>1, RewrittenLegit
  <2> DEFINE new == One(r, Retried(o))
  <2>4. new[r] = Retried(o)
    BY DEF One
  <2>5. \A x \in DOMAIN worker.seen : /\ Copy(row[x], worker.seen[x])
                                      /\ Legit(worker.seen[x], new[x])
                                      /\ new[x].st \notin {"succeeded", "deleted"}
    BY <2>2, <2>3, <2>4
  <2> HIDE DEF new
  <2> QED
    BY <2>1, <2>2, <2>5, DrainWritesStep DEF QueueInv, new
<1>9. CASE Rotate /\ row' # row
  <2>1. row' = Rotated({row[r].job}) /\ worker.pc = "rotate"
    BY <1>9 DEF Rotate
  <2>2. {row[r].job} \in SUBSET Jobs
    BY <2>1 DEF QueueInv, RefInv
  <2> QED
    BY <2>1, <2>2, RotatedStep DEF QueueInv
<1>10. CASE InlineWork /\ row' # row
  <2>1. PICK jobs \in SUBSET Jobs : row' = Rotated(jobs)
    BY <1>10 DEF InlineWork
  <2> QED
    BY <1>10, <2>1, RotatedStep DEF QueueInv, InlineWork
<1> QED
  BY <1>1, <1>3, <1>4, <1>5, <1>6, <1>7, <1>8, <1>9, <1>10
  DEF Executes, ExecRead, Dispatch, MonitorRead, InlineRead, Check, FailRead

\* An insertion: the new run is the newest of its job, whose other runs have ended.
LEMMA InsertRows ==
  ASSUME QueueInv, NEW t \in Threads, NEW j \in Jobs, SubmitInsert(t, j)
  PROVE  /\ RowsInv'
         /\ \E x \in Runs : /\ row[x] = AbsentRow /\ row'[x].st = "queued"
                            /\ \A r \in Runs \ {x} : row'[r] = row[r]
<1>1. PICK x \in Runs, m \in Limits :
        /\ row[x].st = "absent" /\ \A y \in 1..(x - 1) : row[y].st # "absent"
        /\ row' = [row EXCEPT ![x] = [AbsentRow EXCEPT !.job = j, !.st = "queued",
                                                     !.ready = TRUE, !.max = m]]
  BY DEF SubmitInsert, NextId
<1> DEFINE n == [AbsentRow EXCEPT !.job = j, !.st = "queued", !.ready = TRUE, !.max = m]
<1>2. /\ n.job = j /\ n.st = "queued" /\ n.lease = "none" /\ n.cancel = FALSE
      /\ n.att = 0 /\ n.max = m
  BY DEF AbsentRow
<1>3. j # "none" /\ m \in Nat /\ m > 0
  BY JobsAssumption, BoundsAssumption DEF JobIds
<1> HIDE DEF n
<1>4. row'[x] = n /\ \A r \in Runs \ {x} : row'[r] = row[r]
  BY <1>1 DEF QueueInv, TypeOK, n
<1>5. row[x] = AbsentRow /\ \A r \in Runs : RowOk(row[r])
  BY <1>1 DEF QueueInv, RowsInv, RowOk
<1>6. RowOk(n)
  BY <1>2, <1>3 DEF RowOk, Terminal
<1>7. \A y \in Runs : y > x => row[y].st = "absent" /\ row[y].job = "none"
  <2>1. \A y \in Runs : y > x => row[y].st = "absent"
    BY <1>1 DEF QueueInv, RowsInv, Ordered, Runs
  <2> QED
    BY <1>5, <2>1 DEF RowOk, AbsentRow
<1>8. Ordered'
  <2> SUFFICES ASSUME NEW r \in Runs, NEW y \in Runs, r < y, row'[r].st = "absent"
               PROVE  row'[y].st = "absent"
    BY DEF Ordered
  <2>1. r # x /\ row[r].st = "absent"
    BY <1>2, <1>4
  <2>2. r \notin 1..(x - 1)
    BY <1>1, <2>1
  <2>3. y > x
    BY <2>1, <2>2 DEF Runs
  <2> QED
    BY <1>4, <1>7, <2>3 DEF Runs
<1>9. LatestUnlessCancelled'
  <2> SUFFICES ASSUME NEW r \in Runs, row'[r].st \in Active, ~row'[r].cancel,
                      NEW y \in Runs, y > r, row'[y].job = row'[r].job, row'[y].st # "deleted"
               PROVE  FALSE
    BY DEF LatestUnlessCancelled, Newer
  <2>1. CASE r = x
    <3>1. y # x /\ row[y].job = "none"
      BY <1>7, <2>1 DEF Runs
    <3> QED
      BY <1>2, <1>3, <1>4, <2>1, <3>1
  <2>2. CASE r # x
    <3>1. row[r].st \in Active /\ ~row[r].cancel /\ row'[r].job = row[r].job
      BY <1>4, <2>2
    <3>2. row[r].job # j
      BY <3>1 DEF SubmitInsert, ActiveRowOf
    <3>3. y # x
      BY <1>2, <1>4, <3>1, <3>2
    <3>4. y \in Newer(r)
      BY <1>4, <3>1, <3>3 DEF Newer
    <3> QED
      BY <3>1, <3>4 DEF QueueInv, RowsInv, LatestUnlessCancelled
  <2> QED
    BY <2>1, <2>2
<1> QED
  BY <1>2, <1>4, <1>5, <1>6, <1>8, <1>9 DEF RowsInv

-----------------------------------------------------------------------------
(* The other parts of the invariant.                                        *)

\* Synchronizations: one is admitted when none is active, and none is taken for an
\* orphan while its thread runs, because the recovery runs alone.
LEMMA SyncStep ==
  ASSUME QueueInv, Next
  PROVE  SyncInv' /\ \A s \in SyncIds : sync[s].st # "absent" => sync'[s].st # "absent"
<1>0. /\ sync \in [SyncIds -> SyncStates]
      /\ \A s \in SyncIds : /\ sync[s].begun => sync[s].live
                            /\ sync[s].live => sync[s].st \in Active
      /\ \A s1, s2 \in SyncIds : sync[s1].st \in Active /\ sync[s2].st \in Active => s1 = s2
  BY DEF QueueInv, TypeOK, SyncInv, RunningSyncs
<1> SUFFICES /\ \A s \in SyncIds : /\ sync'[s].begun => sync'[s].live
                                   /\ sync'[s].live => sync'[s].st \in Active
                                   /\ sync[s].st # "absent" => sync'[s].st # "absent"
             /\ \A s1, s2 \in SyncIds :
                  sync'[s1].st \in Active /\ sync'[s2].st \in Active => s1 = s2
  BY DEF SyncInv, RunningSyncs
<1>1. CASE UNCHANGED sync
  BY <1>0, <1>1
<1>2. ASSUME NEW s \in SyncIds, NewSync(s)
      PROVE  /\ sync'[s].live /\ ~sync'[s].begun /\ sync'[s].st = "queued"
             /\ \A z \in SyncIds \ {s} : sync'[z] = sync[z] /\ sync[z].st \notin Active
  BY <1>0, <1>2 DEF NewSync, NoSync, RunningSyncs
<1>3. CASE \E s \in SyncIds : NewSync(s)
  <2>1. PICK s \in SyncIds : NewSync(s)
    BY <1>3
  <2> QED
    BY <1>0, <1>2, <2>1 DEF Active
<1>4. CASE \E s \in SyncIds : sync[s].live /\ (SyncStarts(s) \/ SyncEnds(s))
  <2>1. PICK s \in SyncIds : sync[s].live /\ (SyncStarts(s) \/ SyncEnds(s))
    BY <1>4
  <2>2. /\ sync'[s].begun => sync'[s].live
        /\ sync'[s].live => sync'[s].st \in Active
        /\ sync'[s].st # "absent"
    <3>1. sync[s].st \in Active /\ sync[s].st # "absent"
      BY <1>0, <2>1 DEF Active
    <3>2. CASE SyncStarts(s)
      BY <1>0, <3>1, <3>2 DEF SyncStarts, NoSync, Active, SyncStates
    <3>3. CASE SyncEnds(s)
      BY <1>0, <3>1, <3>3 DEF SyncEnds, NoSync, Active, SyncStates
    <3> QED
      BY <2>1, <3>2, <3>3
  <2>3. \A z \in SyncIds \ {s} : sync'[z] = sync[z] /\ sync[z].st \notin Active
    BY <1>0, <2>1 DEF SyncStarts, SyncEnds
  <2> QED
    BY <1>0, <2>2, <2>3
<1>5. ASSUME NEW ref, CancelReference(ref)
      PROVE  \A s \in SyncIds : /\ sync'[s].st = sync[s].st /\ sync'[s].live = sync[s].live
                                /\ sync'[s].begun = sync[s].begun
  BY <1>0, <1>5 DEF CancelReference, SyncStates
<1>6. CASE \E ref : CancelReference(ref)
  BY <1>0, <1>5, <1>6
<1>7. CASE BootOrphans
  <2>1. \A s \in SyncIds : ~sync[s].live /\ ~sync[s].begun
    BY <1>0, <1>7 DEF QueueInv, StartupInv, BootOrphans
  <2>2. CASE sync' = Orphaned
    <3>1. \A s \in SyncIds : /\ sync'[s].live = sync[s].live /\ sync'[s].begun = sync[s].begun
                             /\ sync'[s].st \notin Active
                             /\ sync[s].st # "absent" => sync'[s].st # "absent"
      BY <1>0, <2>2 DEF Orphaned, SyncStates, Active
    <3> QED
      BY <2>1, <3>1
  <2> QED
    BY <1>1, <1>7, <2>2 DEF BootOrphans
<1>8. CASE Crash
  <2>1. \A s \in SyncIds : /\ ~sync'[s].live /\ ~sync'[s].begun
                           /\ sync'[s].st = sync[s].st \/ sync'[s].st = "interrupted"
    <3>1. ASSUME NEW z, NEW s \in SyncIds, sync' = Stopped(z)
          PROVE  ~sync'[s].live /\ ~sync'[s].begun /\ sync'[s].st = z[s].st
      BY <3>1 DEF Stopped, NoSync
    <3>2. \A s \in SyncIds : Orphaned[s].st = sync[s].st \/ Orphaned[s].st = "interrupted"
      BY <1>0 DEF Orphaned, SyncStates
    <3>3. sync' = Stopped(sync) \/ sync' = Stopped(Orphaned)
      BY <1>8 DEF Crash
    <3> QED
      BY <3>1, <3>2, <3>3
  <2> QED
    BY <1>0, <2>1 DEF Active
<1>9. CASE Submits
  BY <1>1, <1>9 DEF Submits, SubmitInsert, SubmitWake
<1>10. CASE Cancels
  BY <1>1, <1>6, <1>10 DEF Cancels, CancelRead, CancelWrite, CancelReload, CancelForward
<1>11. CASE Drains
  BY <1>1, <1>11 DEF Drains, DrainTop, RecoverWrite, ClaimRead, ClaimUpdate, WaitRead, Leave
<1>12. CASE Executes
  BY <1>1, <1>3, <1>6, <1>12
  DEF Executes, ExecRead, CloseCancelled, Dispatch, DispatchFails, SaveRef, MonitorRead,
      MonitorProgress, MonitorFinish, Rotate, InlineRead, InlineWork, InlineEnd, Check, FailRead,
      RetryWrite
<1>13. CASE Boots \/ SchedulerWake
  BY <1>1, <1>7, <1>13 DEF Boots, BootRead, BootClose, BootForce, BootRecover, BootWake,
                           SchedulerWake
<1>14. CASE Works
  BY <1>1, <1>3, <1>4, <1>14
  DEF Works, ExecutorEnds, ImageThreadExits, ExternalStart, ExternalEnds, PageCancel, DirectSync,
      SyncStarts, SyncEnds
<1>15. CASE Time
  BY <1>1, <1>15 DEF Time, LeaseExpires, BackoffElapses
<1> QED
  BY <1>8, <1>9, <1>10, <1>11, <1>12, <1>13, <1>14, <1>15 DEF Next

\* What any step does to a run that exists, and to an id that was not given yet.
Moves ==
  \A r \in Runs :
    /\ row[r].st # "absent" =>
         /\ Evolves(row[r], row'[r])
         /\ row'[r].st = "succeeded" => row[r].st = "succeeded" \/ Finishing(r)
         /\ row'[r].st = "deleted" => \/ row[r].st = "deleted"
                                      \/ worker.pc \in {"rotate", "inlineWork"} /\ Newer(r) # {}
    /\ row[r].st = "absent" => row'[r].st \in {"absent", "queued"}

\* A step that keeps every row in order moves the runs that way.
LEMMA StepMoves ==
  ASSUME RowsInv, RowsStep
  PROVE  Moves
  BY DEF RowsInv, RowsStep, Moves, Evolves

\* Every step keeps the rows in order and moves runs as described.
LEMMA RowsNext ==
  ASSUME QueueInv, Next, TypeOK'
  PROVE  RowsInv' /\ Moves
<1>1. ASSUME RowsStep
      PROVE  RowsInv' /\ Moves
  BY <1>1, RowsKept, StepMoves DEF QueueInv
<1>2. CASE \E t \in Threads, j \in Jobs : SubmitInsert(t, j)
  <2>1. PICK t \in Threads, j \in Jobs : SubmitInsert(t, j)
    BY <1>2
  <2>2. PICK x \in Runs : /\ row[x] = AbsentRow /\ row'[x].st = "queued"
                          /\ \A r \in Runs \ {x} : row'[r] = row[r]
    BY <2>1, InsertRows
  <2>3. row[x].st = "absent"
    BY <2>2 DEF AbsentRow
  <2>4. \A r \in Runs : Evolves(row[r], row[r])
    BY DEF QueueInv, Evolves, Active, Terminal
  <2>5. Moves
    BY <2>2, <2>3, <2>4 DEF Moves
  <2> QED
    BY <2>1, <2>5, InsertRows
<1>3. CASE Submits
  BY <1>1, <1>2, <1>3, WebRows DEF Submits
<1>4. CASE Cancels
  BY <1>1, <1>4, WebRows DEF Cancels
<1>5. CASE Works
  <2>1. UNCHANGED row
    BY <1>5 DEF Works, ExecutorEnds, ImageThreadExits, ExternalStart, ExternalEnds, PageCancel,
                DirectSync, SyncStarts, SyncEnds
  <2> QED
    BY <1>1, <2>1, SameRowsStep DEF QueueInv
<1> QED
  BY <1>1, <1>3, <1>4, <1>5, DrainRows, ExecuteRows, BootRows, TimeRows, CrashRows DEF Next

\* Before the startup recovery has ended, nobody submits, cancels, drains or executes.
LEMMA Alone ==
  ASSUME QueueInv, ~EarlyRequests, boot.pc # "done"
  PROVE  ~Submits /\ ~Cancels /\ ~Drains /\ ~Executes /\ ~SchedulerWake
<1>1. worker.pc = "off" /\ \A t \in Threads : web[t].pc = "idle"
  BY DEF QueueInv, StartupInv
<1>2. ~Submits
  BY <1>1 DEF Submits, SubmitInsert, SubmitWake, Serving
<1>3. ~Cancels
  BY <1>1 DEF Cancels, CancelRead, CancelWrite, CancelReload, CancelForward, Serving
<1>4. ~Drains
  BY <1>1 DEF Drains, DrainTop, RecoverWrite, ClaimRead, ClaimUpdate, WaitRead, Leave
<1>5. ~Executes
  BY <1>1
  DEF Executes, ExecRead, CloseCancelled, Dispatch, SaveRef, MonitorRead, MonitorProgress,
      MonitorFinish, Rotate, InlineRead, InlineWork, InlineEnd, Check, FailRead, RetryWrite
<1> QED
  BY <1>2, <1>3, <1>4, <1>5 DEF SchedulerWake

\* Who moves the startup recovery on, and how far.
LEMMA BootMoves ==
  ASSUME Next
  PROVE  /\ UNCHANGED boot \/ Boots \/ Crash
         /\ Crash => boot'.pc = "read"
         /\ BootRead => boot.pc = "read" /\ boot'.pc = "close"
         /\ BootClose => boot.pc = "close" /\ boot'.pc \in {"orphans", "wake"}
         /\ BootOrphans => boot.pc = "orphans" /\ boot'.pc \in {"force", "wake"}
         /\ BootForce => boot.pc = "force" /\ boot'.pc = "recover"
         /\ BootRecover => boot.pc = "recover" /\ boot'.pc = "wake"
         /\ BootWake => boot.pc = "wake" /\ boot'.pc = "done"
<1>1. UNCHANGED boot \/ Boots \/ Crash
  BY DEF Next, Submits, SubmitInsert, SubmitWake, Cancels, CancelRead, CancelWrite, CancelReload,
         CancelForward, Drains, DrainTop, RecoverWrite, ClaimRead, ClaimUpdate, WaitRead, Leave,
         Executes, ExecRead, CloseCancelled, Dispatch, SaveRef, MonitorRead, MonitorProgress,
         MonitorFinish, Rotate, InlineRead, InlineWork, InlineEnd, Check, FailRead, RetryWrite,
         SchedulerWake, Works, ExecutorEnds, ImageThreadExits, ExternalStart, ExternalEnds,
         PageCancel, DirectSync, SyncStarts, SyncEnds, Time, LeaseExpires, BackoffElapses
<1>2. Crash => boot'.pc = "read"
  BY DEF Crash
<1>3. BootRead => boot.pc = "read" /\ boot'.pc = "close"
  BY DEF BootRead
<1>4. BootForce => boot.pc = "force" /\ boot'.pc = "recover"
  BY DEF BootForce
<1>5. BootWake => boot.pc = "wake" /\ boot'.pc = "done"
  BY DEF BootWake, BootTo
<1>6. BootClose => boot.pc = "close" /\ boot'.pc \in {"orphans", "wake"}
  BY DEF BootClose, BootTo
<1>7. BootOrphans => boot.pc = "orphans" /\ boot'.pc \in {"force", "wake"}
  BY DEF BootOrphans, BootTo
<1>8. BootRecover => boot.pc = "recover" /\ boot'.pc = "wake"
  BY DEF BootRecover, BootTo
<1> QED
  BY <1>1, <1>2, <1>3, <1>4, <1>5, <1>6, <1>7, <1>8

\* The recovery runs alone until it is done.
LEMMA StartupStep ==
  ASSUME QueueInv, ~EarlyRequests, Next
  PROVE  StartupInv'
<1> SUFFICES ASSUME boot'.pc # "done"
             PROVE  /\ worker'.pc = "off"
                    /\ \A t \in Threads : web'[t].pc = "idle"
                    /\ \A s \in SyncIds : ~sync'[s].live
                    /\ \A k \in ExecKinds : ex'[k].work = {}
  BY DEF StartupInv
<1>1. CASE Crash
  <2>1. \A s \in SyncIds : ~sync'[s].live
    BY <1>1 DEF Crash, Stopped, NoSync
  <2> QED
    BY <1>1, <2>1 DEF Crash, NoWorker, IdleThread, IdleExecutor
<1>2. CASE boot.pc = "done"
  BY <1>1, <1>2, BootMoves DEF Boots
<1>3. CASE boot.pc # "done" /\ ~Crash
  <2>1. /\ worker.pc = "off" /\ \A t \in Threads : web[t].pc = "idle"
        /\ \A s \in SyncIds : ~sync[s].live
        /\ \A k \in ExecKinds : ex[k].work = {}
    BY <1>3 DEF QueueInv, StartupInv
  <2>2. Boots \/ Works \/ Time
    BY <1>3, Alone DEF Next
  <2>3. CASE Boots
    <3>1. UNCHANGED <<web, ex, worker>>
      BY <2>3, BootMoves DEF Boots, BootRead, BootClose, BootOrphans, BootForce, BootRecover
    <3>2. \A s \in SyncIds : sync'[s].live = sync[s].live
      <4>1. CASE UNCHANGED sync
        BY <4>1
      <4>2. CASE sync' = Orphaned
        BY <4>2 DEF Orphaned, QueueInv, TypeOK, SyncStates
      <4> QED
        BY <2>3, <4>1, <4>2 DEF Boots, BootRead, BootClose, BootOrphans, BootForce, BootRecover,
                                BootWake
    <3> QED
      BY <2>1, <3>1, <3>2
  <2>4. CASE Works
    <3>1. \E k \in ExecKinds : ExternalEnds(k) \/ \E r \in Runs : ImageThreadExits(r)
      <4>1. ~\E k \in ExecKinds : ExternalStart(k) \/ \E r \in Runs : ExecutorEnds(k, r)
        BY <1>3, <2>1 DEF ExternalStart, ExecutorEnds, Serving
      <4>2. ~PageCancel /\ ~\E s \in SyncIds : DirectSync(s) \/ SyncStarts(s) \/ SyncEnds(s)
        BY <1>3, <2>1 DEF PageCancel, DirectSync, SyncStarts, SyncEnds, Serving
      <4>3. (\E r \in Runs : ImageThreadExits(r)) => "images" \in ExecKinds
        BY DEF ImageThreadExits
      <4> QED
        BY <2>4, <4>1, <4>2, <4>3 DEF Works
    <3>2. UNCHANGED <<worker, web, sync>>
      BY <3>1 DEF ExternalEnds, ImageThreadExits
    <3>3. \A k \in ExecKinds : ex'[k].work = ex[k].work
      <4>1. ex \in [ExecKinds -> ExecStates]
        BY DEF QueueInv, TypeOK
      <4>2. \A k, j \in ExecKinds : ExternalEnds(k) => ex'[j].work = ex[j].work
        BY <4>1 DEF ExternalEnds, ExecStates
      <4>3. \A r \in Runs, j \in ExecKinds : ImageThreadExits(r) => ex'[j].work = ex[j].work
        BY <4>1 DEF ImageThreadExits, Cleared, ExecStates
      <4> QED
        BY <3>1, <4>2, <4>3
    <3> QED
      BY <2>1, <3>2, <3>3
  <2>5. CASE Time
    BY <2>1, <2>5 DEF Time, LeaseExpires, BackoffElapses
  <2> QED
    BY <2>2, <2>3, <2>4, <2>5
<1> QED
  BY <1>1, <1>2, <1>3

\* What the startup recovery loaded stays true until it is written.
LEMMA BootStep ==
  ASSUME QueueInv, ~EarlyRequests, Next, TypeOK'
  PROVE  BootInv'
<1> SUFFICES ASSUME boot'.pc \in {"close", "recover"}, NEW r \in DOMAIN boot'.seen
             PROVE  row'[r].st \in Active /\ Same(row'[r], boot'.seen[r])
  BY DEF BootInv
<1>1. CASE BootRead
  <2>1. row' = row /\ boot'.seen = [x \in {y \in Runs : row[y].st \in Active} |-> row[x]]
    BY <1>1 DEF BootRead
  <2> QED
    BY <2>1 DEF Same
<1>2. CASE BootForce
  <2>1. row' = row /\ boot'.seen = [x \in Recoverable(TRUE) |-> row[x]]
    BY <1>2 DEF BootForce
  <2>2. \A x \in Recoverable(TRUE) : row[x].st \in Active
    BY DEF Recoverable, Active
  <2> QED
    BY <2>1, <2>2 DEF Same
<1>3. CASE UNCHANGED boot
  <2>1. boot.pc \in {"close", "recover"} /\ r \in DOMAIN boot.seen /\ r \in Runs
    BY <1>3 DEF QueueInv, TypeOK, IsBoot, Loaded
  <2>2. row[r].st \in Active /\ Same(row[r], boot.seen[r])
    BY <2>1 DEF QueueInv, BootInv
  <2>3. CASE Works
    <3>1. UNCHANGED row
      BY <2>3 DEF Works, ExecutorEnds, ImageThreadExits, ExternalStart, ExternalEnds, PageCancel,
                  DirectSync, SyncStarts, SyncEnds
    <3> QED
      BY <1>3, <2>2, <3>1
  <2>4. CASE Time
    <3>1. Same(row[r], row'[r])
      BY <2>1, <2>4, TimeRows
    <3> QED
      BY <1>3, <2>2, <3>1 DEF Same
  <2>5. ~Boots /\ ~Crash
    BY <1>3, <2>1, BootMoves DEF Boots
  <2> QED
    BY <2>1, <2>3, <2>4, <2>5, Alone DEF Next
<1> QED
  BY <1>1, <1>2, <1>3, BootMoves DEF Boots

\* The web threads' copies.
LEMMA WebStep ==
  ASSUME QueueInv, Next, TypeOK'
  PROVE  WebInv'
<1> SUFFICES ASSUME NEW t \in Threads, web'[t].pc = "cancel"
             PROVE  Asked(row'[web'[t].run], web'[t].seen[web'[t].run])
  BY DEF WebInv
<1>1. CASE web'[t] = web[t]
  <2> DEFINE r == web[t].run
             o == web[t].seen[r]
  <2>1. r \in Runs /\ Asked(row[r], o)
    BY <1>1 DEF QueueInv, TypeOK, IsThread, WebInv
  <2>2. Moves
    BY RowsNext
  <2> HIDE DEF r, o
  <2>3. Asked(row'[r], o)
    BY <2>1, <2>2 DEF Moves, Asked, Evolves
  <2> QED
    BY <1>1, <2>3 DEF r, o
<1>2. ASSUME NEW r \in Runs, CancelRead(t, r)
      PROVE  Asked(row'[web'[t].run], web'[t].seen[web'[t].run])
  <2>1. web'[t].run = r /\ web'[t].seen = Load(r) /\ row' = row /\ row[r].st \in Active
    BY <1>2 DEF CancelRead, QueueInv, TypeOK, IsThread
  <2>2. RowOk(row[r])
    BY DEF QueueInv, RowsInv
  <2> QED
    BY <2>1, <2>2 DEF Load, Asked, RowOk, Active
<1>3. CASE Submits
  <2>1. PICK u \in Threads : SubmitWake(u) \/ \E j \in Jobs : SubmitInsert(u, j)
    BY <1>3 DEF Submits
  <2>2. IsThread(web[u]) /\ web = [x \in Threads |-> web[x]]
    BY DEF QueueInv, TypeOK
  <2>3. web'[u] = IdleThread \/ web'[u] = [web[u] EXCEPT !.pc = "wake"]
    BY <2>1, <2>2 DEF SubmitInsert, SubmitWake
  <2>4. web'[u].pc # "cancel"
    BY <2>2, <2>3 DEF IsThread, IdleThread
  <2> QED
    BY <1>1, <2>1, <2>2, <2>4 DEF SubmitInsert, SubmitWake
<1>4. CASE Cancels
  <2>1. PICK u \in Threads : \/ \E r \in Runs : CancelRead(u, r)
                             \/ CancelWrite(u) \/ CancelReload(u) \/ CancelForward(u)
    BY <1>4 DEF Cancels
  <2>2. CASE \E r \in Runs : CancelRead(u, r)
    BY <1>1, <1>2, <2>2 DEF CancelRead, QueueInv, TypeOK
  <2>3. CASE CancelWrite(u) \/ CancelReload(u) \/ CancelForward(u)
    <3>1. IsThread(web[u]) /\ web = [x \in Threads |-> web[x]]
      BY DEF QueueInv, TypeOK
    <3>2. \A x \in Threads \ {u} : web'[x] = web[x]
      BY <2>3, <3>1 DEF CancelWrite, CancelReload, CancelForward
    <3>3. web'[u].pc # "cancel"
      <4>1. CASE CancelWrite(u)
        <5>1. \/ web'[u] = IdleThread
              \/ web'[u] = [web[u] EXCEPT !.pc = "reload", !.seen = NoRows]
          BY <3>1, <4>1 DEF CancelWrite
        <5>2. IdleThread.pc = "idle"
          BY DEF IdleThread
        <5>3. ASSUME NEW w, IsThread(w)
              PROVE  [w EXCEPT !.pc = "reload", !.seen = NoRows].pc = "reload"
          BY <5>3 DEF IsThread
        <5> QED
          BY <3>1, <5>1, <5>2, <5>3
      <4>2. CASE CancelReload(u)
        BY <3>1, <4>2 DEF CancelReload, IdleThread, IsThread
      <4>3. CASE CancelForward(u)
        BY <3>1, <4>3 DEF CancelForward, IdleThread
      <4> QED
        BY <2>3, <4>1, <4>2, <4>3
    <3> QED
      BY <1>1, <3>2, <3>3
  <2> QED
    BY <2>1, <2>2, <2>3
<1>5. CASE Crash
  BY <1>5 DEF Crash, IdleThread
<1>6. CASE Drains \/ Executes \/ Boots \/ SchedulerWake \/ Works \/ Time
  <2>1. UNCHANGED web
    BY <1>6
    DEF Drains, DrainTop, RecoverWrite, ClaimRead, ClaimUpdate, WaitRead, Leave,
        Executes, ExecRead, CloseCancelled, Dispatch, SaveRef, MonitorRead, MonitorProgress,
        MonitorFinish, Rotate, InlineRead, InlineWork, InlineEnd, Check, FailRead, RetryWrite,
        Boots, BootRead, BootClose, BootOrphans, BootForce, BootRecover, BootWake,
        SchedulerWake, Works, ExecutorEnds, ImageThreadExits, ExternalStart, ExternalEnds,
        PageCancel, DirectSync, SyncStarts, SyncEnds, Time, LeaseExpires, BackoffElapses
  <2> QED
    BY <1>1, <2>1
<1> QED
  BY <1>3, <1>4, <1>5, <1>6 DEF Next

\* The drain thread's copies survive what others do.
LEMMA CopiesSurvive ==
  ASSUME QueueInv, TypeOK', worker' = worker,
         Submits \/ Cancels \/ SchedulerWake \/ Works \/ Time
  PROVE  WorkerInv'
<1> SUFFICES ASSUME worker.pc \in Holding, NEW r \in DOMAIN worker.seen
             PROVE  Copy(row'[r], worker.seen[r])
  BY DEF WorkerInv
<1> DEFINE o == worker.seen[r]
<1>1. r \in Runs /\ Copy(row[r], o) /\ o \in Row /\ row[r] \in Row
  BY DEF QueueInv, WorkerInv, TypeOK, IsWorker, Loaded
<1> HIDE DEF o
<1>2. CASE row'[r] = row[r]
  BY <1>1, <1>2 DEF o
<1>3. CASE Time
  <2>1. Same(row[r], row'[r])
    BY <1>1, <1>3, TimeRows
  <2>2. Copy(row'[r], o)
    BY <1>1, <2>1 DEF Same, Copy
  <2> QED
    BY <2>2 DEF o
<1>4. ASSUME row'[r].cancel, row'[r].st \in {row[r].st, "interrupted"},
             row'[r].lease = row[r].lease, row'[r].job = row[r].job,
             row'[r].att = row[r].att, row'[r].max = row[r].max
      PROVE  Copy(row'[r], worker.seen[r])
  <2>1. Copy(row'[r], o)
    BY <1>1, <1>4 DEF Copy
  <2> QED
    BY <2>1 DEF o
<1>5. CASE Submits
  <2>1. PICK t \in Threads : SubmitWake(t) \/ \E j \in Jobs : SubmitInsert(t, j)
    BY <1>5 DEF Submits
  <2>2. CASE SubmitWake(t)
    BY <1>2, <2>2 DEF SubmitWake
  <2>3. CASE \E j \in Jobs : SubmitInsert(t, j)
    <3>1. PICK x \in Runs : /\ row[x] = AbsentRow
                            /\ \A y \in Runs \ {x} : row'[y] = row[y]
      BY <2>3, InsertRows
    <3>2. r # x
      BY <1>1, <3>1 DEF Copy, AbsentRow
    <3> QED
      BY <1>1, <1>2, <3>1, <3>2
  <2> QED
    BY <2>1, <2>2, <2>3
<1>6. CASE Cancels
  <2>1. PICK t \in Threads : \/ \E x \in Runs : CancelRead(t, x)
                             \/ CancelWrite(t) \/ CancelReload(t) \/ CancelForward(t)
    BY <1>6 DEF Cancels
  <2>2. /\ KeepsJobs
        /\ \A x \in Runs : \/ row'[x] = row[x]
                           \/ /\ row'[x].cancel /\ row'[x].st \in {row[x].st, "interrupted"}
                              /\ row'[x].lease = row[x].lease
                              /\ row'[x].att = row[x].att /\ row'[x].max = row[x].max
    BY <2>1, WebRows
  <2> QED
    BY <1>1, <1>2, <1>4, <2>2 DEF KeepsJobs
<1>7. CASE SchedulerWake \/ Works
  <2>1. UNCHANGED row
    BY <1>7 DEF SchedulerWake, Works, ExecutorEnds, ImageThreadExits, ExternalStart, ExternalEnds,
                PageCancel, DirectSync, SyncStarts, SyncEnds
  <2> QED
    BY <1>2, <2>1
<1> QED
  BY <1>3, <1>5, <1>6, <1>7

\* Copies the drain thread has just loaded are fair, because it loads rows that have
\* a lease.
LEMMA FreshCopies ==
  ASSUME QueueInv, UNCHANGED row,
         \A r \in DOMAIN worker'.seen : /\ r \in Runs /\ worker'.seen[r] = row[r]
                                        /\ row[r].lease # "none"
  PROVE  WorkerInv'
<1>1. \A r \in Runs : row[r] \in Row /\ RowOk(row[r])
  BY DEF QueueInv, TypeOK, RowsInv
<1>2. \A r \in Runs : row[r].lease # "none" => Copy(row[r], row[r])
  BY <1>1, LoadedCopy
<1> QED
  BY <1>2 DEF WorkerInv

\* The drain thread's loop.
LEMMA DrainCopies ==
  ASSUME QueueInv, Drains
  PROVE  WorkerInv'
<1>0. IsWorker(worker)
  BY DEF QueueInv, TypeOK
<1>1. CASE worker'.pc \notin Holding
  BY <1>1 DEF WorkerInv
<1>2. CASE DrainTop
  <2>1. CASE Recoverable(FALSE) = {}
    <3>1. worker'.pc = "claim"
      BY <1>0, <1>2, <2>1 DEF DrainTop, To, IsWorker
    <3> QED
      BY <1>1, <3>1 DEF Holding
  <2>2. CASE Recoverable(FALSE) # {}
    <3>1. row' = row /\ worker'.seen = [r \in Recoverable(FALSE) |-> row[r]]
      BY <1>0, <1>2, <2>2 DEF DrainTop, IsWorker
    <3>2. \A r \in Recoverable(FALSE) : r \in Runs /\ row[r].lease # "none"
      BY DEF Recoverable, QueueInv, RowsInv, RowOk
    <3> QED
      BY <3>1, <3>2, FreshCopies
  <2> QED
    BY <2>1, <2>2
<1>3. CASE RecoverWrite
  <2>1. worker'.pc \in {"claim", "off", "drain"}
    BY <1>3 DEF RecoverWrite, Looping, Dies, NoWorker
  <2> QED
    BY <1>1, <2>1 DEF Holding
<1>4. CASE ClaimRead
  <2>1. worker'.pc \in {"wait", "update"}
    BY <1>0, <1>4 DEF ClaimRead, To, IsWorker
  <2> QED
    BY <1>1, <2>1 DEF Holding
<1>5. CASE ClaimUpdate
  <2>1. worker'.pc \in {"exec", "wait", "drain"}
    BY <1>0, <1>5 DEF ClaimUpdate, To, Looping, NoWorker, IsWorker
  <2> QED
    BY <1>1, <2>1 DEF Holding
<1>6. CASE WaitRead \/ Leave
  <2>1. worker'.pc \in {"drain", "leave", "off"}
    BY <1>0, <1>6 DEF WaitRead, Leave, To, IsWorker
  <2> QED
    BY <1>1, <2>1 DEF Holding
<1> QED
  BY <1>2, <1>3, <1>4, <1>5, <1>6 DEF Drains

\* Where each step of an execution leads, and what it keeps.
LEMMA ExecuteMoves ==
  ASSUME TypeOK, Executes
  PROVE  /\ CloseCancelled \/ Rotate \/ InlineEnd \/ Check \/ RetryWrite
              => worker'.pc \in {"check", "fail", "drain", "off"}
         /\ SaveRef \/ MonitorProgress \/ MonitorFinish
              => worker'.pc \in {"inline", "monitor", "rotate", "fail"}
         /\ Dispatch => worker'.pc \in {"saveRef", "fail"}
         /\ ExecRead => worker'.pc \in {"check", "close", "dispatch"}
         /\ FailRead => worker'.pc \in {"drain", "retry"}
         /\ worker'.pc \in Polling => worker'.run = worker.run
         /\ worker'.pc = "rotate" => worker'.run = worker.run /\ MonitorFinish
         /\ worker'.pc = "dispatch" => ExecRead
         /\ Busy' => worker'.run = worker.run
<1>0. IsWorker(worker)
  BY DEF TypeOK
<1>1. ASSUME NEW old, NEW new, NEW next, WorkerWrites(old, new, next)
      PROVE  worker'.pc \in {next, "fail"} /\ worker'.run = worker.run
  BY <1>0, <1>1 DEF WorkerWrites, IsWorker
<1>2. CloseCancelled \/ InlineEnd => worker'.pc \in {"check", "fail"} /\ worker'.run = worker.run
  BY <1>1 DEF CloseCancelled, InlineEnd
<1>3. SaveRef => worker'.pc \in {"inline", "monitor", "fail"} /\ worker'.run = worker.run
  BY <1>1 DEF SaveRef
<1>4. Rotate => worker'.pc \in {"check", "fail"} /\ worker'.run = worker.run
  BY <1>0 DEF Rotate, To, IsWorker
<1>5. Check => worker'.pc \in {"fail", "drain"}
  BY <1>0 DEF Check, Looping, NoWorker, IsWorker
<1>6. RetryWrite => worker'.pc \in {"drain", "off"}
  BY DEF RetryWrite, Looping, Dies, NoWorker
<1>7. MonitorProgress => worker'.pc \in {"monitor", "fail"} /\ worker'.run = worker.run
  BY <1>0 DEF MonitorProgress, To, IsWorker
<1>8. MonitorFinish => worker'.pc \in {"monitor", "rotate", "fail"} /\ worker'.run = worker.run
  BY <1>0 DEF MonitorFinish, To, IsWorker
<1>9. Dispatch => worker'.pc \in {"saveRef", "fail"} /\ worker'.run = worker.run
  <2>1. ASSUME NEW ref, Dispatched(ref)
        PROVE  worker'.pc = "saveRef" /\ worker'.run = worker.run
    BY <1>0, <2>1 DEF Dispatched, IsWorker
  <2>2. DispatchFails => worker'.pc = "fail" /\ worker'.run = worker.run
    BY <1>0 DEF DispatchFails, IsWorker
  <2> QED
    BY <2>1, <2>2 DEF Dispatch
<1>10. ExecRead => worker'.pc \in {"check", "close", "dispatch"} /\ worker'.run = worker.run
  BY <1>0 DEF ExecRead, IsWorker
<1>11. FailRead => worker'.pc \in {"drain", "retry"}
  BY <1>0 DEF FailRead, Looping, NoWorker, IsWorker
<1>12. MonitorRead => worker'.run = worker.run /\ worker'.pc \in {"check", "report"}
  BY <1>0 DEF MonitorRead, To, IsWorker
<1>13. InlineRead => worker'.run = worker.run /\ worker'.pc \in {"check", "close", "inlineWork"}
  BY <1>0 DEF InlineRead, IsWorker
<1>14. InlineWork => worker'.run = worker.run /\ worker'.pc \in {"check", "inlineEnd"}
  BY <1>0 DEF InlineWork, IsWorker
<1>15. /\ worker'.pc \in Polling => worker'.run = worker.run
       /\ worker'.pc = "rotate" => worker'.run = worker.run /\ MonitorFinish
       /\ worker'.pc = "dispatch" => ExecRead
  BY <1>2, <1>3, <1>4, <1>5, <1>6, <1>7, <1>8, <1>9, <1>10, <1>11, <1>12, <1>13, <1>14
  DEF Executes, Polling
<1>16. Check \/ FailRead => worker'.run = worker.run \/ ~Busy'
  BY <1>0 DEF Check, FailRead, Looping, NoWorker, Busy, IsWorker
<1>17. RetryWrite => ~Busy'
  BY <1>6 DEF Busy
<1>18. Busy' => worker'.run = worker.run
  BY <1>2, <1>3, <1>4, <1>7, <1>8, <1>9, <1>10, <1>12, <1>13, <1>14, <1>16, <1>17 DEF Executes
<1> QED
  BY <1>2, <1>3, <1>4, <1>5, <1>6, <1>7, <1>8, <1>9, <1>10, <1>11, <1>15, <1>18

\* One claimed run.
LEMMA ExecuteCopies ==
  ASSUME QueueInv, Executes
  PROVE  WorkerInv'
<1> DEFINE r == worker.run
<1>0. IsWorker(worker)
  BY DEF QueueInv, TypeOK
<1>1. CASE worker'.pc \notin Holding
  BY <1>1 DEF WorkerInv
<1>2. ASSUME UNCHANGED row, worker'.seen = Load(r), r \in Runs, row[r].lease = "me"
      PROVE  WorkerInv'
  BY <1>2, FreshCopies DEF Load
<1>3. CASE ExecRead
  <2>1. worker.pc = "exec" /\ row' = row /\ worker'.seen = Load(r) /\ r \in Runs
    BY <1>0, <1>3 DEF ExecRead, IsWorker
  <2>2. row[r].lease # "me" => worker'.pc = "check"
    BY <1>0, <1>3 DEF ExecRead, IsWorker
  <2> QED
    BY <1>1, <1>2, <2>1, <2>2 DEF Holding
<1>4. CASE Dispatch
  <2>1. worker.pc = "dispatch" /\ row' = row
    BY <1>4 DEF Dispatch
  <2>2. worker'.pc = "saveRef" => worker'.seen = worker.seen
    BY <1>0, <1>4 DEF Dispatch, Dispatched, DispatchFails, IsWorker
  <2>3. worker'.pc \in {"saveRef", "fail"}
    BY <1>4, ExecuteMoves DEF QueueInv
  <2> QED
    BY <2>1, <2>2, <2>3 DEF QueueInv, WorkerInv, Holding
<1>5. CASE MonitorRead
  <2>1. r \in Runs /\ row' = row
    BY <1>0, <1>5 DEF MonitorRead, IsWorker
  <2>2. CASE row[r].st = "deleted" \/ row[r].lease # "me"
    <3>1. worker'.pc = "check"
      BY <1>0, <1>5, <2>2 DEF MonitorRead, To, IsWorker
    <3> QED
      BY <1>1, <3>1 DEF Holding
  <2>3. CASE ~(row[r].st = "deleted" \/ row[r].lease # "me")
    <3>1. worker'.seen = Load(r)
      BY <1>0, <1>5, <2>3 DEF MonitorRead, IsWorker
    <3> QED
      BY <1>2, <2>1, <2>3, <3>1
  <2> QED
    BY <2>2, <2>3
<1>6. CASE InlineRead
  <2>1. r \in Runs /\ row' = row /\ worker'.seen = Load(r)
    BY <1>0, <1>6 DEF InlineRead, IsWorker
  <2>2. row[r].lease # "me" => worker'.pc = "check"
    BY <1>0, <1>6 DEF InlineRead, IsWorker
  <2> QED
    BY <1>1, <1>2, <2>1, <2>2 DEF Holding
<1>7. CASE InlineWork
  <2>1. r \in Runs /\ worker.pc = "inlineWork"
    BY <1>0, <1>7 DEF InlineWork, IsWorker
  <2>2. CASE row'[r].st = "deleted"
    <3>1. worker'.pc = "check"
      BY <1>0, <1>7, <2>2 DEF InlineWork, IsWorker
    <3> QED
      BY <1>1, <3>1 DEF Holding
  <2>3. CASE row'[r].st # "deleted"
    <3>1. worker'.seen = One(r, row'[r])
      BY <1>0, <1>7, <2>3 DEF InlineWork, IsWorker
    <3>2. row'[r] = row[r]
      <4>1. [AbsentRow EXCEPT !.st = "deleted"].st = "deleted"
        BY DEF AbsentRow
      <4>2. \A jobs : row' = Rotated(jobs) => row'[r] = row[r]
        BY <2>1, <2>3, <4>1 DEF Rotated
      <4> QED
        BY <1>7, <4>2 DEF InlineWork
    <3>3. DOMAIN worker'.seen = {r} /\ worker'.seen[r] = row'[r]
      BY <3>1 DEF One
    <3>4. row[r].lease # "none"
      <4>1. r \in DOMAIN worker.seen
        BY <1>0, <2>1 DEF IsWorker
      <4> QED
        BY <2>1, <4>1 DEF QueueInv, WorkerInv, Holding, Copy
    <3>5. Copy(row[r], row[r])
      BY <2>1, <3>4, LoadedCopy DEF QueueInv, TypeOK, RowsInv
    <3> QED
      BY <3>2, <3>3, <3>5 DEF WorkerInv
  <2> QED
    BY <2>2, <2>3
<1>8. CASE FailRead
  <2>1. r \in Runs /\ row' = row
    BY <1>0, <1>8 DEF FailRead, IsWorker
  <2>2. CASE row[r].st = "deleted" \/ row[r].lease # "me"
    <3>1. worker'.pc = "drain"
      BY <1>8, <2>2 DEF FailRead, Looping, NoWorker
    <3> QED
      BY <1>1, <3>1 DEF Holding
  <2>3. CASE ~(row[r].st = "deleted" \/ row[r].lease # "me")
    <3>1. worker'.seen = Load(r)
      BY <1>0, <1>8, <2>3 DEF FailRead, IsWorker
    <3> QED
      BY <1>2, <2>1, <2>3, <3>1
  <2> QED
    BY <2>2, <2>3
<1> QED
  BY <1>1, <1>3, <1>4, <1>5, <1>6, <1>7, <1>8, ExecuteMoves DEF Executes, Holding, QueueInv

\* Waking the drain thread changes nothing else about it.
LEMMA WakeMoves ==
  ASSUME TypeOK, Wake
  PROVE  worker' = worker \/ (worker.pc = "off" /\ worker'.pc = "drain")
<1>1. IsWorker(worker)
  BY DEF TypeOK
<1> QED
  BY <1>1 DEF Wake, IsWorker

\* Who else touches the drain thread's state.
LEMMA OthersWake ==
  ASSUME QueueInv, Submits \/ Cancels \/ Boots \/ SchedulerWake \/ Works \/ Time \/ Crash
  PROVE  \/ worker' = worker /\ ~Boots /\ ~Crash
         \/ worker'.pc \in {"off", "drain"}
<1>1. CASE Crash
  BY <1>1 DEF Crash, NoWorker
<1>2. CASE Boots
  <2>1. boot.pc # "done"
    BY <1>2 DEF Boots, BootRead, BootClose, BootOrphans, BootForce, BootRecover, BootWake
  <2>2. worker.pc = "off"
    BY <2>1 DEF QueueInv, StartupInv
  <2>3. Wake \/ worker' = worker
    BY <1>2 DEF Boots, BootRead, BootClose, BootOrphans, BootForce, BootRecover, BootWake
  <2> QED
    BY <2>2, <2>3, WakeMoves DEF QueueInv
<1>3. CASE (Submits \/ Cancels \/ SchedulerWake \/ Works \/ Time) /\ ~Boots /\ ~Crash
  <2>1. Wake \/ worker' = worker
    BY <1>3
    DEF Submits, SubmitInsert, SubmitWake, Cancels, CancelRead, CancelWrite, CancelReload,
        CancelForward, SchedulerWake, Works, ExecutorEnds, ImageThreadExits, ExternalStart,
        ExternalEnds, PageCancel, DirectSync, SyncStarts, SyncEnds, Time, LeaseExpires,
        BackoffElapses
  <2> QED
    BY <1>3, <2>1, WakeMoves DEF QueueInv
<1> QED
  BY <1>1, <1>2, <1>3

\* The drain thread's copies.
LEMMA WorkerStep ==
  ASSUME QueueInv, Next, TypeOK'
  PROVE  WorkerInv'
<1>1. CASE worker'.pc \in {"off", "drain"}
  BY <1>1 DEF WorkerInv, Holding
<1> QED
  BY <1>1, OthersWake, CopiesSurvive, DrainCopies, ExecuteCopies DEF Next

\* While it polls, the drain thread keeps its run and its reference.
LEMMA PollMoves ==
  ASSUME TypeOK, Executes, worker'.pc \in Polling, ~Dispatch
  PROVE  /\ worker.pc \in Polling /\ worker'.ref = worker.ref /\ worker'.run = worker.run
         /\ worker'.pc \in {"inline", "inlineWork", "inlineEnd"}
              => \/ worker.pc \in {"inline", "inlineWork", "inlineEnd"}
                 \/ worker.ref.kind = "inline"
<1>0. IsWorker(worker) /\ worker'.run = worker.run
  BY ExecuteMoves DEF TypeOK
<1>1. CASE SaveRef
  <2>1. /\ worker.pc = "saveRef"
        /\ WorkerWrites(worker.seen[worker.run],
                        [worker.seen[worker.run] EXCEPT !.ref = worker.ref],
                        IF worker.ref.kind = "inline" THEN "inline" ELSE "monitor")
    BY <1>1 DEF SaveRef
  <2>2. ASSUME NEW old, NEW new, NEW next, WorkerWrites(old, new, next)
        PROVE  worker'.pc \in {next, "fail"} /\ worker'.ref = worker.ref
    BY <1>0, <2>2 DEF WorkerWrites, IsWorker
  <2> QED
    BY <1>0, <2>1, <2>2 DEF Polling
<1>2. CASE MonitorRead
  BY <1>0, <1>2 DEF MonitorRead, To, IsWorker, Polling
<1>3. CASE MonitorProgress
  BY <1>0, <1>3 DEF MonitorProgress, To, IsWorker, Polling
<1>4. CASE MonitorFinish
  BY <1>0, <1>4 DEF MonitorFinish, To, IsWorker, Polling
<1>5. CASE InlineRead
  BY <1>0, <1>5 DEF InlineRead, IsWorker, Polling
<1>6. CASE InlineWork
  BY <1>0, <1>6 DEF InlineWork, IsWorker, Polling
<1>7. ~(CloseCancelled \/ Rotate \/ InlineEnd \/ Check \/ RetryWrite \/ ExecRead \/ FailRead)
  BY ExecuteMoves DEF Polling
<1> QED
  BY <1>1, <1>2, <1>3, <1>4, <1>5, <1>6, <1>7 DEF Executes

\* The reference of a fresh dispatch.
LEMMA DispatchRef ==
  ASSUME QueueInv, Dispatch, TypeOK', worker'.pc = "saveRef"
  PROVE  LET r == worker.run
         IN /\ worker'.run = r /\ r \in Runs /\ row' = row
            /\ row[r].st # "absent" /\ row[r].job \in Jobs
            /\ worker'.ref.kind = Kind[row[r].job]
            /\ worker'.ref.kind = "sync" => sync'[worker'.ref.id].st # "absent"
<1> DEFINE r == worker.run
           k == Kind[worker.seen[r].job]
<1>0. IsWorker(worker) /\ worker.pc = "dispatch" /\ row' = row
  BY DEF QueueInv, TypeOK, Dispatch
<1>1. r \in Runs /\ Copy(row[r], worker.seen[r])
  BY <1>0 DEF IsWorker, QueueInv, WorkerInv, Holding
<1>2. RowOk(row[r]) /\ row[r] \in Row
  BY <1>1 DEF QueueInv, TypeOK, RowsInv
<1>3. row[r].st # "absent" /\ row[r].job \in Jobs /\ k = Kind[row[r].job]
  BY <1>1, <1>2 DEF Copy, RowOk, AbsentRow, Row
<1>4. ~DispatchFails
  BY <1>0 DEF DispatchFails, IsWorker
<1>5. \/ k = "sync" /\ \E s \in SyncIds : NewSync(s) /\ Dispatched([kind |-> "sync", id |-> s])
      \/ k = "inline" /\ Dispatched([kind |-> k, id |-> 0])
      \/ k \in ExecKinds /\ Dispatched([kind |-> k, id |-> 0])
  BY <1>4 DEF Dispatch
<1>6. \A ref : Dispatched(ref) => worker'.ref = ref /\ worker'.run = r
  BY <1>0 DEF Dispatched, IsWorker
<1>7. CASE k = "sync"
  <2>1. PICK s \in SyncIds : NewSync(s) /\ Dispatched([kind |-> "sync", id |-> s])
    BY <1>5, <1>7 DEF ExecKinds
  <2>2. sync'[s].st = "queued"
    BY <2>1 DEF NewSync, NoSync, QueueInv, TypeOK
  <2> QED
    BY <1>0, <1>1, <1>3, <1>6, <1>7, <2>1, <2>2
<1>8. CASE k # "sync"
  BY <1>0, <1>1, <1>3, <1>5, <1>6, <1>8
<1> QED
  BY <1>7, <1>8

\* What the drain thread polls.
LEMMA RefStep ==
  ASSUME QueueInv, Next, TypeOK'
  PROVE  RefInv'
<1> DEFINE r == worker.run
<1>0. /\ Moves
      /\ \A s \in SyncIds : sync[s].st # "absent" => sync'[s].st # "absent"
      /\ IsWorker(worker) /\ IsWorker(worker')
      /\ "none" \notin Jobs
  BY RowsNext, SyncStep, JobsAssumption DEF QueueInv, TypeOK, JobIds
<1>1. ASSUME worker.pc \in Polling, worker'.run = r, worker'.ref = worker.ref,
             worker'.pc \in {"inline", "inlineWork", "inlineEnd"}
               => \/ worker.pc \in {"inline", "inlineWork", "inlineEnd"}
                  \/ worker.ref.kind = "inline",
             worker'.pc # "rotate"
      PROVE  RefInv'
  <2>1. /\ r \in Runs /\ row[r].st # "absent"
        /\ row[r].job \in Jobs => worker.ref.kind = Kind[row[r].job]
        /\ worker.ref.kind = "sync" => sync[worker.ref.id].st # "absent"
        /\ worker.pc \in {"inline", "inlineWork", "inlineEnd"} => worker.ref.kind = "inline"
    BY <1>0, <1>1 DEF QueueInv, RefInv, IsWorker, Polling
  <2>2. row'[r].st # "absent" /\ (row'[r].job = row[r].job \/ row'[r].job = "none")
    BY <1>0, <2>1 DEF Moves, Evolves
  <2>3. worker.ref.kind = "sync" => worker.ref.id \in SyncIds
    BY <1>0 DEF IsWorker, Refs
  <2> QED
    BY <1>0, <1>1, <2>1, <2>2, <2>3 DEF RefInv
<1>2. CASE worker'.pc \notin Polling \cup {"rotate"}
  BY <1>2 DEF RefInv
<1>3. CASE Executes /\ worker'.pc \in Polling /\ ~Dispatch
  <2>1. worker'.pc # "rotate"
    BY <1>3 DEF Polling
  <2> QED
    BY <1>1, <1>3, <2>1, PollMoves DEF QueueInv
<1>4. CASE Dispatch
  <2>1. CASE worker'.pc = "saveRef"
    BY <1>4, <2>1, DispatchRef DEF RefInv
  <2>2. CASE worker'.pc # "saveRef"
    BY <1>2, <1>4, <2>2, ExecuteMoves DEF Executes, Polling, QueueInv
  <2> QED
    BY <2>1, <2>2
<1>5. CASE Executes /\ worker'.pc = "rotate"
  <2>1. MonitorFinish /\ worker'.run = r
    BY <1>5, ExecuteMoves DEF QueueInv
  <2>2. worker.pc = "report"
    BY <2>1 DEF MonitorFinish
  <2>3. r \in Runs /\ Copy(row[r], worker.seen[r]) /\ RowOk(row[r]) /\ row[r] \in Row
    BY <2>2, InHand DEF QueueInv, RowsInv, TypeOK
  <2>4. row[r].st \notin {"absent", "deleted"} /\ row[r].job \in Jobs
    BY <2>3 DEF Copy, RowOk, AbsentRow, Row
  <2>5. row'[r].job = row[r].job
    BY <1>0, <2>2, <2>3, <2>4 DEF Moves, Evolves
  <2> QED
    BY <1>5, <2>1, <2>4, <2>5 DEF RefInv, Polling
<1>6. CASE Drains
  <2>1. worker'.pc \in {"off", "drain", "recover", "claim", "update", "wait", "leave", "exec"}
    <3>1. DrainTop => worker'.pc \in {"claim", "recover"}
      BY <1>0 DEF DrainTop, To, IsWorker
    <3>2. RecoverWrite => worker'.pc \in {"claim", "off", "drain"}
      BY DEF RecoverWrite, Looping, Dies, NoWorker
    <3>3. ClaimRead => worker'.pc \in {"wait", "update"}
      BY <1>0 DEF ClaimRead, To, IsWorker
    <3>4. ClaimUpdate => worker'.pc \in {"exec", "wait", "drain"}
      BY <1>0 DEF ClaimUpdate, To, Looping, NoWorker, IsWorker
    <3>5. WaitRead \/ Leave => worker'.pc \in {"drain", "leave", "off"}
      BY <1>0 DEF WaitRead, Leave, To, IsWorker
    <3> QED
      BY <1>6, <3>1, <3>2, <3>3, <3>4, <3>5 DEF Drains
  <2> QED
    BY <1>2, <2>1 DEF Polling
<1>7. CASE Submits \/ Cancels \/ Boots \/ SchedulerWake \/ Works \/ Time \/ Crash
  <2>1. CASE worker'.pc \in {"off", "drain"}
    BY <1>2, <2>1 DEF Polling
  <2>2. CASE worker' = worker /\ worker.pc \in Polling
    BY <1>1, <2>2 DEF Polling
  <2>3. CASE worker' = worker /\ worker.pc = "rotate" /\ ~Boots /\ ~Crash
    <3>1. r \in Runs /\ row[r].job \in Jobs
      BY <1>0, <2>3 DEF QueueInv, RefInv, IsWorker
    <3>2. row'[r].job = row[r].job
      <4>1. CASE KeepsJobs
        BY <3>1, <4>1 DEF KeepsJobs
      <4>2. CASE \E t \in Threads, j \in Jobs : SubmitInsert(t, j)
        <5>1. PICK x \in Runs : row[x] = AbsentRow /\ \A y \in Runs \ {x} : row'[y] = row[y]
          BY <4>2, InsertRows
        <5>2. r # x
          BY <1>0, <3>1, <5>1 DEF AbsentRow
        <5> QED
          BY <3>1, <5>1, <5>2
      <4>3. CASE UNCHANGED row
        BY <4>3
      <4>4. SchedulerWake \/ Works => UNCHANGED row
        BY DEF SchedulerWake, Works, ExecutorEnds, ImageThreadExits, ExternalStart, ExternalEnds,
               PageCancel, DirectSync, SyncStarts, SyncEnds
      <4>5. Time => KeepsJobs
        BY TimeRows
      <4>6. Cancels => KeepsJobs
        BY WebRows DEF Cancels
      <4>7. Submits => KeepsJobs \/ \E t \in Threads, j \in Jobs : SubmitInsert(t, j)
        BY WebRows DEF Submits
      <4> QED
        BY <1>7, <2>3, <4>1, <4>2, <4>3, <4>4, <4>5, <4>6, <4>7
    <3> QED
      BY <2>3, <3>1, <3>2 DEF RefInv, Polling
  <2> QED
    BY <1>2, <1>7, <2>1, <2>2, <2>3, OthersWake
<1> QED
  BY <1>2, <1>3, <1>4, <1>5, <1>6, <1>7 DEF Next

\* The executors' side of ExecutorInv.
LEMMA ExecutorsStep ==
  ASSUME TypeOK, ExecutorInv, Next, NEW k \in ExecKinds \ {"images"}
  PROVE  /\ ex'[k].ext => ex'[k].busy /\ ex'[k].work = {}
         /\ ex'[k].work # {} => ex'[k].busy /\ ex'[k].active
         /\ \A r1, r2 \in ex'[k].work : r1 = r2
         /\ \A r \in ex'[k].work : \/ r \in ex[k].work
                                   \/ Dispatch /\ r = worker.run /\ Kind[worker.seen[r].job] = k
<1>0. /\ ex \in [ExecKinds -> ExecStates] /\ ex[k] \in ExecStates
      /\ ex[k].ext => ex[k].busy /\ ex[k].work = {}
      /\ ex[k].work # {} => ex[k].busy /\ ex[k].active
      /\ \A r1, r2 \in ex[k].work : r1 = r2
  BY DEF TypeOK, ExecutorInv
<1>1. CASE /\ ex'[k].ext = ex[k].ext /\ ex'[k].busy = ex[k].busy
           /\ ex'[k].active = ex[k].active /\ ex'[k].work = ex[k].work
  BY <1>0, <1>1
<1>2. CASE UNCHANGED ex
  BY <1>1, <1>2
<1>3. ASSUME NEW ref, CancelReference(ref)
      PROVE  /\ ex'[k].ext = ex[k].ext /\ ex'[k].busy = ex[k].busy
             /\ ex'[k].active = ex[k].active /\ ex'[k].work = ex[k].work
  <2>1. ex' = ex \/ ex' = [ex EXCEPT ![ref.kind].cancel = TRUE]
    BY <1>3 DEF CancelReference
  <2> QED
    BY <1>0, <2>1 DEF ExecStates
<1>4. CASE Dispatch
  <2> DEFINE j == Kind[worker.seen[worker.run].job]
  <2>1. CASE j = k /\ ~ex[k].busy /\ ex' = [ex EXCEPT ![k] = Started(ex[k], worker.run)]
    <3>1. ex[k].work = {} /\ ~ex[k].ext
      BY <1>0, <2>1
    <3>2. ex'[k] = Started(ex[k], worker.run)
      BY <1>0, <2>1
    <3>3. /\ ex'[k].busy /\ ex'[k].active /\ ex'[k].ext = ex[k].ext
          /\ ex'[k].work = {worker.run}
      BY <1>0, <3>1, <3>2 DEF Started, ExecStates
    <3> QED
      BY <1>4, <2>1, <3>1, <3>3
  <2>2. CASE j # k /\ ex' = [ex EXCEPT ![j] = Started(ex[j], worker.run)]
    <3>1. ex'[k] = ex[k]
      BY <1>0, <2>2
    <3> QED
      BY <1>1, <3>1
  <2> QED
    BY <1>2, <1>4, <2>1, <2>2 DEF Dispatch, DispatchFails
<1>5. CASE \E j \in ExecKinds : \/ \E r \in Runs : ExecutorEnds(j, r)
                                \/ ExternalStart(j) \/ ExternalEnds(j)
  <2>1. PICK j \in ExecKinds : \/ \E r \in Runs : ExecutorEnds(j, r)
                               \/ ExternalStart(j) \/ ExternalEnds(j)
    BY <1>5
  <2>2. CASE j # k
    <3>1. ex'[k] = ex[k]
      BY <1>0, <2>1, <2>2 DEF ExecutorEnds, ExternalStart, ExternalEnds
    <3> QED
      BY <1>1, <3>1
  <2>3. ASSUME NEW r \in Runs, ExecutorEnds(k, r)
        PROVE  ~ex'[k].ext /\ ex'[k].work = {}
    <3>1. PICK o \in Outcomes(k), tail \in SUBSET Runs :
            ex' = [ex EXCEPT ![k] = [Cleared(ex[k]) EXCEPT
                      !.out = o, !.work = ex[k].work \ {r}, !.tail = tail]]
      BY <1>0, <2>3 DEF ExecutorEnds, ExecStates
    <3>2. ex'[k].ext = ex[k].ext /\ ex'[k].work = ex[k].work \ {r}
      BY <1>0, <3>1 DEF Cleared, ExecStates
    <3>3. ex[k].work = {r}
      BY <1>0, <2>3 DEF ExecutorEnds
    <3> QED
      BY <1>0, <3>2, <3>3
  <2>4. CASE ExternalStart(k)
    <3>1. ex'[k] = TakenOutside(k) /\ ~ex[k].busy
      BY <1>0, <2>4 DEF ExternalStart
    <3>2. ex'[k].busy /\ ex'[k].ext /\ ex'[k].work = ex[k].work
      BY <1>0, <3>1 DEF TakenOutside, ExecStates
    <3> QED
      BY <1>0, <3>1, <3>2
  <2>5. CASE ExternalEnds(k)
    <3>1. ex[k].ext /\ ~ex'[k].ext /\ ex'[k].work = ex[k].work
      BY <1>0, <2>5 DEF ExternalEnds, ExecStates
    <3> QED
      BY <1>0, <3>1
  <2>6. CASE ~ex'[k].ext /\ ex'[k].work = {}
    BY <2>6
  <2> QED
    BY <2>1, <2>2, <2>3, <2>4, <2>5, <2>6
<1>6. CASE PageCancel
  <2>1. ex' = [ex EXCEPT !["metadata"].cancel = TRUE]
    BY <1>6 DEF PageCancel
  <2> QED
    BY <1>0, <1>1, <2>1 DEF ExecStates
<1>7. CASE \E r \in Runs : ImageThreadExits(r)
  <2>1. ex'[k] = ex[k]
    BY <1>0, <1>7 DEF ImageThreadExits
  <2> QED
    BY <1>1, <2>1
<1>8. CASE Works
  BY <1>2, <1>5, <1>6, <1>7, <1>8 DEF Works, DirectSync, SyncStarts, SyncEnds
<1>9. CASE Crash
  <2>1. ex'[k] = IdleExecutor
    BY <1>9 DEF Crash
  <2> QED
    BY <2>1 DEF IdleExecutor
<1>10. CASE Cancels
  BY <1>1, <1>2, <1>3, <1>10 DEF Cancels, CancelRead, CancelWrite, CancelReload, CancelForward
<1>11. CASE MonitorRead
  BY <1>1, <1>2, <1>3, <1>11 DEF MonitorRead
<1>12. CASE Executes /\ ~Dispatch /\ ~MonitorRead
  BY <1>2, <1>12
  DEF Executes, ExecRead, CloseCancelled, SaveRef, MonitorProgress, MonitorFinish, Rotate,
      InlineRead, InlineWork, InlineEnd, Check, FailRead, RetryWrite
<1>13. CASE Submits \/ Drains \/ Boots \/ SchedulerWake \/ Time
  BY <1>2, <1>13
  DEF Submits, SubmitInsert, SubmitWake, Drains, DrainTop, RecoverWrite, ClaimRead, ClaimUpdate,
      WaitRead, Leave, Boots, BootRead, BootClose, BootOrphans, BootForce, BootRecover, BootWake,
      SchedulerWake, Time, LeaseExpires, BackoffElapses
<1> QED
  BY <1>4, <1>8, <1>9, <1>10, <1>11, <1>12, <1>13 DEF Next

\* An executor works for a run of its own kind, which nobody reports as succeeded: the
\* monitor and the startup recovery are the only ones who could.
LEMMA ExecutorStep ==
  ASSUME QueueInv, Next, TypeOK'
  PROVE  ExecutorInv'
<1>0. Moves /\ "none" \notin Jobs
  BY RowsNext, JobsAssumption DEF JobIds
<1> SUFFICES ASSUME NEW k \in ExecKinds \ {"images"}, NEW r \in ex'[k].work
             PROVE  /\ row'[r].st \notin {"absent", "succeeded"}
                    /\ row'[r].job \in Jobs => Kind[row'[r].job] = k
  BY ExecutorsStep DEF ExecutorInv, QueueInv
<1>1. CASE Dispatch /\ r = worker.run /\ Kind[worker.seen[r].job] = k
  <2>1. r \in Runs /\ Copy(row[r], worker.seen[r]) /\ row' = row
    BY <1>1 DEF Dispatch, QueueInv, TypeOK, IsWorker, WorkerInv, Holding
  <2>2. RowOk(row[r]) /\ row[r] \in Row
    BY <2>1 DEF QueueInv, TypeOK, RowsInv
  <2> QED
    BY <1>1, <2>1, <2>2 DEF Copy, RowOk, AbsentRow, Terminal
<1>2. CASE r \in ex[k].work
  <2>1. /\ r \in Runs /\ row[r].st \notin {"absent", "succeeded"}
        /\ row[r].job \in Jobs => Kind[row[r].job] = k
        /\ ex[k].active
    BY <1>2 DEF QueueInv, TypeOK, ExecStates, ExecutorInv
  <2>2. Evolves(row[r], row'[r])
    BY <1>0, <2>1 DEF Moves
  <2>3. row'[r].st # "absent" /\ (row'[r].job \in Jobs => Kind[row'[r].job] = k)
    BY <1>0, <2>1, <2>2 DEF Evolves
  <2>4. ASSUME row'[r].st = "succeeded"
        PROVE  FALSE
    <3>1. Finishing(r)
      BY <1>0, <2>1, <2>4 DEF Moves
    <3>2. row[r].st # "deleted" /\ RowOk(row[r]) /\ row[r] \in Row
      BY <2>1, <2>2, <2>4 DEF Evolves, QueueInv, TypeOK, RowsInv
    <3>3. row[r].job \in Jobs /\ Kind[row[r].job] = k
      BY <2>1, <3>2 DEF RowOk, Row
    <3>4. boot.pc = "done"
      BY <1>2 DEF QueueInv, StartupInv
    <3>5. worker.ref.kind = k
      <4>1. worker.pc \in Polling /\ worker.run = r
        BY <3>1, <3>4 DEF Finishing, Polling
      <4> QED
        BY <3>3, <4>1 DEF QueueInv, RefInv
    <3>6. CASE worker.pc = "inlineEnd"
      <4>1. worker.ref.kind = "inline"
        BY <3>6 DEF QueueInv, RefInv, Polling
      <4> QED
        BY <3>5, <4>1 DEF ExecKinds
    <3>7. CASE ~StillActive(worker.ref)
      <4>1. k # "sync"
        BY DEF ExecKinds
      <4> QED
        BY <2>1, <3>5, <3>7, <4>1 DEF StillActive
    <3> QED
      BY <3>1, <3>4, <3>6, <3>7 DEF Finishing
  <2> QED
    BY <2>3, <2>4
<1> QED
  BY <1>1, <1>2, ExecutorsStep DEF QueueInv

-----------------------------------------------------------------------------
(* The invariant is inductive.                                              *)

\* A fresh database and an idle process satisfy the invariant.
LEMMA InitQueue == Init => QueueInv
<1> SUFFICES ASSUME Init PROVE QueueInv
  OBVIOUS
<1>1. /\ row = [r \in Runs |-> AbsentRow]
      /\ worker = NoWorker
      /\ web = [t \in Threads |-> IdleThread]
      /\ boot = [pc |-> "read", seen |-> NoRows]
      /\ ex = [k \in ExecKinds |-> IdleExecutor]
      /\ sync = [s \in SyncIds |-> NoSync]
  BY DEF Init
<1>2. RowsInv
  <2>1. RowOk(AbsentRow)
    BY DEF RowOk, AbsentRow, Terminal
  <2> QED
    BY <1>1, <2>1 DEF RowsInv, Ordered, LatestUnlessCancelled, AbsentRow, Active
<1>3. StartupInv /\ WorkerInv /\ WebInv /\ BootInv /\ RefInv
  BY <1>1 DEF StartupInv, WorkerInv, WebInv, BootInv, RefInv, NoWorker, IdleThread, IdleExecutor,
              NoSync, Holding, Polling
<1>4. ExecutorInv
  BY <1>1 DEF ExecutorInv, IdleExecutor
<1>5. SyncInv
  BY <1>1 DEF SyncInv, RunningSyncs, NoSync, Active
<1> QED
  BY <1>2, <1>3, <1>4, <1>5, InitType DEF QueueInv

\* Every step preserves it when requests wait for the startup recovery: what the
\* recovery loads, and that nothing else runs meanwhile, needs that hypothesis.
LEMMA NextQueue ==
  ASSUME ~EarlyRequests
  PROVE  QueueInv /\ [Next]_vars => QueueInv'
<1> SUFFICES ASSUME QueueInv, [Next]_vars PROVE QueueInv'
  OBVIOUS
<1>1. TypeOK'
  BY NextType DEF QueueInv
<1>2. CASE Next
  BY <1>1, <1>2, RowsNext, StartupStep, WorkerStep, WebStep, BootStep, RefStep, ExecutorStep,
     SyncStep
  DEF QueueInv
<1>3. CASE UNCHANGED vars
  <2>1. RowsInv'
    BY <1>3 DEF vars, QueueInv, RowsInv, Ordered, LatestUnlessCancelled, Newer
  <2>2. StartupInv' /\ WorkerInv' /\ WebInv' /\ BootInv' /\ RefInv'
    BY <1>3 DEF vars, QueueInv, StartupInv, WorkerInv, WebInv, BootInv, RefInv
  <2>3. ExecutorInv' /\ SyncInv'
    BY <1>3 DEF vars, QueueInv, ExecutorInv, SyncInv, RunningSyncs
  <2> QED
    BY <1>1, <2>1, <2>2, <2>3 DEF QueueInv
<1> QED
  BY <1>2, <1>3

\* The invariant holds in every state of such an instance.
THEOREM QueueIsSafe ==
  ASSUME ~EarlyRequests
  PROVE  Spec => []QueueInv
<1>1. QueueInv /\ [Next]_vars => QueueInv'
  BY NextQueue
<1> QED
  BY <1>1, InitQueue, PTL DEF Spec

-----------------------------------------------------------------------------
(* The theorems.                                                            *)

\* No run is started more often than its max_attempts allow, whichever way its
\* attempts were lost, for any number of process deaths and refused commits.
THEOREM AttemptsAreBounded ==
  ASSUME ~EarlyRequests
  PROVE  Spec => []AttemptsBounded
<1>1. QueueInv => AttemptsBounded
  BY DEF QueueInv, RowsInv, RowOk, AttemptsBounded
<1> QED
  BY <1>1, QueueIsSafe, PTL

\* Two synchronization threads never run at the same time.
THEOREM OneSyncRuns ==
  ASSUME ~EarlyRequests
  PROVE  Spec => []SingleSync
<1>1. QueueInv => SingleSync
  BY DEF QueueInv, SyncInv, RunningSyncs, SingleSync
<1> QED
  BY <1>1, QueueIsSafe, PTL

\* The rotation deletes an active run only if its cancellation was asked for.
THEOREM RotationSparesTheWanted ==
  ASSUME ~EarlyRequests
  PROVE  Spec => RotationSparesWanted
<1>1. QueueInv /\ [Next]_vars =>
        [\A r \in Runs : row[r].st \in Active /\ ~row[r].cancel
                           => row'[r].st # "deleted"]_vars
  <2> SUFFICES ASSUME QueueInv, Next, NEW r \in Runs, row[r].st \in Active, ~row[r].cancel
               PROVE  row'[r].st # "deleted"
    OBVIOUS
  <2>1. Moves
    BY RowsNext, NextType DEF QueueInv
  <2> QED
    BY <2>1 DEF Moves, QueueInv, RowsInv, LatestUnlessCancelled, Active
<1> QED
  BY <1>1, QueueIsSafe, PTL DEF Spec, RotationSparesWanted

\* A run that ended and gave up its lease is never queued or run again.
THEOREM DoneStaysDone ==
  ASSUME ~EarlyRequests
  PROVE  Spec => DoneIsFinal
<1>1. QueueInv /\ [Next]_vars =>
        [\A r \in Runs : row[r].st \in Terminal /\ row[r].lease = "none"
                           => row'[r].st \notin Active]_vars
  <2> SUFFICES ASSUME QueueInv, Next, NEW r \in Runs, row[r].st \in Terminal,
                      row[r].lease = "none"
               PROVE  row'[r].st \notin Active
    OBVIOUS
  <2>1. Moves
    BY RowsNext, NextType DEF QueueInv
  <2> QED
    BY <2>1 DEF Moves, Evolves, Terminal
<1> QED
  BY <1>1, QueueIsSafe, PTL DEF Spec, DoneIsFinal

-----------------------------------------------------------------------------
(* The wake-up protocol, whether or not requests wait for the recovery.     *)

\* What the drain thread's own steps do around its end.
LEMMA LeavingMoves ==
  ASSUME TypeOK, Drains \/ Executes
  PROVE  /\ worker'.pc = "leave" => WaitRead
         /\ worker.pc = "leave" => Leave
<1>0. IsWorker(worker)
  BY DEF TypeOK
<1>1. ASSUME NEW old, NEW new, NEW next \in WorkerPcs \ {"leave"}, WorkerWrites(old, new, next)
      PROVE  worker'.pc # "leave"
  BY <1>0, <1>1 DEF WorkerWrites, IsWorker
<1>2. CASE Drains
  <2>1. DrainTop \/ ClaimRead => worker.pc # "leave" /\ worker'.pc # "leave"
    BY <1>0 DEF DrainTop, ClaimRead, To, IsWorker
  <2>2. RecoverWrite => worker.pc # "leave" /\ worker'.pc # "leave"
    BY <1>0 DEF RecoverWrite, Looping, Dies, NoWorker, IsWorker
  <2>3. ClaimUpdate => worker.pc # "leave" /\ worker'.pc # "leave"
    BY <1>0 DEF ClaimUpdate, To, Looping, NoWorker, IsWorker
  <2>4. /\ WaitRead => worker.pc # "leave"
        /\ Leave => worker'.pc # "leave"
    BY <1>0 DEF WaitRead, Leave, To, IsWorker
  <2> QED
    BY <1>2, <2>1, <2>2, <2>3, <2>4 DEF Drains
<1>3. CASE Executes
  <2>1. worker.pc # "leave"
    BY <1>3
    DEF Executes, ExecRead, CloseCancelled, Dispatch, SaveRef, MonitorRead, MonitorProgress,
        MonitorFinish, Rotate, InlineRead, InlineWork, InlineEnd, Check, FailRead, RetryWrite
  <2>2. CloseCancelled \/ SaveRef \/ InlineEnd => worker'.pc # "leave"
    BY <1>1 DEF CloseCancelled, SaveRef, InlineEnd, WorkerPcs
  <2>3. ExecRead \/ MonitorRead \/ InlineRead \/ InlineWork \/ Check \/ FailRead
          => worker'.pc # "leave"
    BY <1>0 DEF ExecRead, MonitorRead, InlineRead, InlineWork, Check, FailRead, To, Looping,
                NoWorker, IsWorker
  <2>4. Dispatch => worker'.pc # "leave"
    BY <1>0 DEF Dispatch, Dispatched, DispatchFails, IsWorker
  <2>5. MonitorProgress \/ MonitorFinish => worker'.pc # "leave"
    BY <1>0 DEF MonitorProgress, MonitorFinish, To, IsWorker
  <2>6. Rotate \/ RetryWrite => worker'.pc # "leave"
    BY <1>0 DEF Rotate, RetryWrite, To, Looping, Dies, NoWorker, IsWorker
  <2> QED
    BY <1>3, <2>1, <2>2, <2>3, <2>4, <2>5, <2>6 DEF Executes
<1> QED
  BY <1>2, <1>3

\* Everybody else either leaves a wake-up behind, announces one, records a failure,
\* or queues nothing.
LEMMA QueuedIsAnnounced ==
  ASSUME TypeOK, Submits \/ Cancels \/ Boots \/ SchedulerWake \/ Works \/ Time \/ Crash
  PROVE  \/ wakePending' \/ failures' # 0 \/ boot'.pc # "done"
         \/ \E t \in Threads : web'[t].pc = "wake"
         \/ /\ \A r \in Runs : row'[r].st = "queued" => row[r].st = "queued"
            /\ worker' = worker /\ wakePending' = wakePending /\ boot' = boot
            /\ failures' = failures
            /\ \A t \in Threads : web[t].pc # "wake"
<1>0. /\ row \in [Runs -> Row] /\ web = [t \in Threads |-> web[t]] /\ failures \in Nat
      /\ \A t \in Threads : IsThread(web[t])
      /\ IsBoot(boot)
  BY BoundsAssumption DEF TypeOK
<1> DEFINE Counted == failures' = failures \/ failures' # 0
<1>00. /\ Locked => Counted
       /\ UNCHANGED failures => Counted
       /\ \A seen, new : Refused(seen, new) => Counted
  BY <1>0 DEF Locked, Refused
<1>1. CASE Submits
  <2>1. PICK t \in Threads : (\E j \in Jobs : SubmitInsert(t, j)) \/ SubmitWake(t)
    BY <1>1 DEF Submits
  <2>2. CASE \E j \in Jobs : SubmitInsert(t, j)
    <3>1. web' = [web EXCEPT ![t].pc = "wake"]
      BY <2>2 DEF SubmitInsert
    <3>2. web'[t].pc = "wake"
      BY <1>0, <3>1 DEF IsThread
    <3> QED
      BY <3>2
  <2>3. CASE SubmitWake(t)
    BY <1>0, <2>3 DEF SubmitWake, Wake, Locked
  <2> QED
    BY <2>1, <2>2, <2>3
<1>2. CASE Cancels
  <2>1. PICK t \in Threads : \/ \E r \in Runs : CancelRead(t, r)
                             \/ CancelWrite(t) \/ CancelReload(t) \/ CancelForward(t)
    BY <1>2 DEF Cancels
  <2>2. web[t].pc # "wake" /\ worker' = worker /\ wakePending' = wakePending /\ boot' = boot
    BY <2>1 DEF CancelRead, CancelWrite, CancelReload, CancelForward
  <2>3. \A x \in Threads : web[x].pc = "wake" => web'[x].pc = "wake"
    BY <1>0, <2>1, <2>2 DEF CancelRead, CancelWrite, CancelReload, CancelForward
  <2>4. Counted
    <3> HIDE DEF Counted
    <3> QED
      BY <1>00, <2>1 DEF CancelRead, CancelWrite, CancelReload, CancelForward
  <2>5. \A r \in Runs : row'[r].st = "queued" => row[r].st = "queued"
    <3>1. CASE row' = row
      BY <3>1
    <3>2. CASE row' = Written(web[t].seen, One(web[t].run,
                                               CancelRequested(web[t].seen[web[t].run])))
               /\ web[t].pc = "cancel"
      <4> DEFINE q == web[t].run
                 o == web[t].seen[q]
      <4>1. q \in Runs /\ DOMAIN web[t].seen = {q} /\ o \in Row
        BY <1>0, <3>2 DEF IsThread, Loaded
      <4>2. \A r \in Runs : r # q => row'[r] = row[r]
        BY <3>2, <4>1 DEF Written
      <4>3. row'[q].st = Dirty(row[q].st, o.st, CancelRequested(o).st)
        BY <3>2, <4>1 DEF Written, One, Flushed
      <4>4. CancelRequested(o).st \in {o.st, "interrupted"}
        BY <4>1 DEF CancelRequested, Interrupted, Row
      <4>5. row'[q].st \in {row[q].st, "interrupted"}
        BY <4>3, <4>4 DEF Dirty
      <4> QED
        BY <4>2, <4>5
    <3> QED
      BY <2>1, <3>1, <3>2 DEF CancelRead, CancelWrite, CancelReload, CancelForward
  <2> QED
    BY <2>2, <2>3, <2>4, <2>5
<1>3. CASE Boots \/ SchedulerWake
  <2>1. BootWake \/ SchedulerWake => wakePending'
    BY DEF BootWake, SchedulerWake, Wake
  <2>2. BootRead \/ BootClose \/ BootOrphans \/ BootForce \/ BootRecover => boot'.pc # "done"
    BY <1>3, BootMoves DEF Next
  <2> QED
    BY <1>3, <2>1, <2>2 DEF Boots
<1>4. CASE Works
  <2>1. UNCHANGED <<row, worker, wakePending, web, boot>>
    BY <1>4 DEF Works, ExecutorEnds, ImageThreadExits, ExternalStart, ExternalEnds, PageCancel,
                DirectSync, SyncStarts, SyncEnds
  <2>2. Counted
    <3> HIDE DEF Counted
    <3> QED
      BY <1>00, <1>4 DEF Works, ExecutorEnds, ImageThreadExits, ExternalStart, ExternalEnds,
                         PageCancel, DirectSync, SyncStarts, SyncEnds
  <2> QED
    BY <2>1, <2>2
<1>5. CASE Time
  <2>1. /\ UNCHANGED <<worker, wakePending, web, boot, failures>>
        /\ \A r \in Runs : row'[r].st = row[r].st
    BY <1>0, <1>5 DEF Time, LeaseExpires, BackoffElapses, Row
  <2> QED
    BY <2>1
<1>6. CASE Crash
  BY <1>0, <1>6 DEF Crash
<1> QED
  BY <1>1, <1>2, <1>3, <1>4, <1>5, <1>6

\* At the start the drain thread is not about to end.
LEMMA InitWake == Init => TypeOK /\ WakeInv
  BY InitType DEF Init, NoWorker, WakeInv

\* Whoever queues a run while the drain thread is about to end announces it.
LEMMA NextWake == TypeOK /\ WakeInv /\ [Next]_vars => (TypeOK /\ WakeInv)'
<1> SUFFICES ASSUME TypeOK, WakeInv, [Next]_vars PROVE WakeInv'
  BY NextType
<1>1. CASE UNCHANGED vars
  BY <1>1 DEF vars, WakeInv
<1>2. CASE Drains \/ Executes
  <2>1. CASE WaitRead
    BY <2>1 DEF WaitRead, To, WakeInv, Active, TypeOK, IsWorker
  <2>2. CASE ~WaitRead
    BY <1>2, <2>2, LeavingMoves DEF WakeInv
  <2> QED
    BY <2>1, <2>2
<1>3. CASE Submits \/ Cancels \/ Boots \/ SchedulerWake \/ Works \/ Time \/ Crash
  BY <1>3, QueuedIsAnnounced DEF WakeInv
<1> QED
  BY <1>1, <1>2, <1>3 DEF Next

\* The drain thread never ends by itself over a queued run: whoever queued it after
\* the last look has woken the thread or is about to.
THEOREM NoWakeupIsLost == Spec => NoLostWakeup
<1>1. TypeOK /\ WakeInv /\ [Next]_vars =>
        [/\ worker.pc = "leave" /\ worker'.pc = "off"
         /\ failures' = 0 /\ boot.pc = "done"
         /\ \A t \in Threads : web[t].pc # "wake"
         => \A r \in Runs : row[r].st # "queued"]_vars
  <2> SUFFICES ASSUME TypeOK, WakeInv, Next, worker.pc = "leave", worker'.pc = "off",
                      failures' = 0, boot.pc = "done", \A t \in Threads : web[t].pc # "wake"
               PROVE  \A r \in Runs : row[r].st # "queued"
    OBVIOUS
  <2>1. IsWorker(worker) /\ failures \in Nat
    BY BoundsAssumption DEF TypeOK
  <2>2. CASE Drains \/ Executes
    <3>1. Leave
      BY <2>2, LeavingMoves
    <3>2. ~wakePending /\ failures = 0
      BY <2>1, <3>1 DEF Leave, To, IsWorker
    <3> QED
      BY <3>2 DEF WakeInv
  <2>3. CASE Submits \/ Cancels \/ Boots \/ SchedulerWake \/ Works \/ Time
    <3>1. worker' = worker \/ worker'.pc # "off"
      BY <2>1, <2>3
      DEF Submits, SubmitInsert, SubmitWake, Cancels, CancelRead, CancelWrite, CancelReload,
          CancelForward, Boots, BootRead, BootClose, BootOrphans, BootForce, BootRecover, BootWake,
          SchedulerWake, Wake, Works, ExecutorEnds, ImageThreadExits, ExternalStart, ExternalEnds,
          PageCancel, DirectSync, SyncStarts, SyncEnds, Time, LeaseExpires, BackoffElapses,
          IsWorker
    <3> QED
      BY <3>1
  <2>4. CASE Crash
    BY <2>1, <2>4 DEF Crash
  <2> QED
    BY <2>2, <2>3, <2>4 DEF Next
<1> QED
  BY <1>1, InitWake, NextWake, PTL DEF Spec, NoLostWakeup

-----------------------------------------------------------------------------
(* What `succeeded' promises, whether or not requests wait for the recovery. *)

\* A row that holds a run has its job, and refers to a synchronization only when the
\* job is one.
RowTied(c) ==
  /\ c.st = "absent" => c = AbsentRow
  /\ c.st \notin {"absent", "deleted"} => c.job \in Jobs
  /\ c.ref.kind = "sync" /\ c.job \in Jobs => Kind[c.job] = "sync"
RowsTied == \A r \in Runs : RowTied(row[r])

\* Whatever a thread has loaded was inserted before.
LoadedInv ==
  /\ \A r \in DOMAIN worker.seen : row[r].st # "absent"
  /\ \A t \in Threads : \A r \in DOMAIN web[t].seen : row[r].st # "absent"
  /\ \A r \in DOMAIN boot.seen : row[r].st # "absent"

\* The startup recovery takes over a result only for a synchronization's run.
TakeoverInv ==
  boot.pc = "close" =>
    \A r \in DOMAIN boot.seen :
      /\ boot.seen[r].job \in Jobs /\ row[r].job \in {boot.seen[r].job, "none"}
      /\ boot.seen[r].ref.kind = "sync" => Kind[boot.seen[r].job] = "sync"

\* The run in the drain thread's hands: what it dispatches is not marked `succeeded'
\* by anybody else, unless it is a synchronization, and it polls its own executor or a
\* synchronization that exists.
Inline == {"inline", "inlineWork", "inlineEnd"}
HandInv ==
  LET r == worker.run
      o == worker.seen[r]
  IN /\ worker.pc = "update" \/ Busy => row[r].st # "absent"
     /\ worker.pc = "dispatch" =>
          /\ o.job \in Jobs /\ row[r].job \in {o.job, "none"}
          /\ row[r].st = "succeeded" => Kind[o.job] = "sync"
     /\ worker.pc = "rotate" => row[r].job \in Jobs
     /\ worker.pc \in Polling =>
          /\ row[r].job \in Jobs => worker.ref.kind = Kind[row[r].job]
          /\ worker.pc \in Inline => worker.ref.kind = "inline"
          /\ worker.ref.kind = "sync" => sync[worker.ref.id].st # "absent"

TrustInv == TypeOK /\ RowsTied /\ LoadedInv /\ TakeoverInv /\ HandInv /\ ExecutorInv

\* Who writes `succeeded': the startup recovery for a synchronization that has ended,
\* and the drain thread for the run whose executor is idle.
Credited(r) ==
  \/ boot.pc = "close" /\ Kind[row[r].job] = "sync"
  \/ /\ worker.run = r
     /\ worker.pc = "inlineEnd" \/ (worker.pc = "report" /\ ~StillActive(worker.ref))

\* How any step moves the rows.
RowsMove ==
  \A r \in Runs :
    /\ RowTied(row'[r])
    /\ row[r].st # "absent" =>
         /\ row'[r].st # "absent"
         /\ row'[r].job = row[r].job \/ (row'[r].job = "none" /\ (Rotate \/ InlineWork))
    /\ row'[r].st = "succeeded" =>
         row[r].st = "succeeded" \/ (row[r].job \in Jobs /\ Credited(r))

\* A step that leaves the table alone.
LEMMA SameRowsMove ==
  ASSUME RowsTied, UNCHANGED row
  PROVE  RowsMove
  BY DEF RowsTied, RowsMove

\* What a thread may make of the row it loaded, o, when the row is now c.
Stated(c, o, n) ==
  /\ n.st = o.st \/ n.st \in Active \cup Terminal
  /\ n.ref \in {o.ref, NoRef} \/ n.ref.kind # "sync" \/ Kind[c.job] = "sync"

\* A flush of it.
LEMMA FlushTied ==
  ASSUME NEW c, NEW o, NEW n, RowTied(c), c.st \notin {"absent", "deleted"}, Stated(c, o, n)
  PROVE  LET f == Flushed(c, o, n)
         IN /\ RowTied(f) /\ f.job = c.job /\ f.st # "absent"
            /\ f.st = "succeeded" => c.st = "succeeded" \/ (n.st = "succeeded" /\ n.st # o.st)
<1> DEFINE f == Flushed(c, o, n)
<1>1. /\ f.job = c.job /\ f.st = Dirty(c.st, o.st, n.st) /\ f.ref = Dirty(c.ref, o.ref, n.ref)
  BY DEF Flushed
<1> HIDE DEF f
<1>2. f.st = c.st \/ (f.st = n.st /\ n.st # o.st)
  BY <1>1 DEF Dirty
<1>3. f.ref = c.ref \/ (f.ref = n.ref /\ n.ref # o.ref)
  BY <1>1 DEF Dirty
<1>4. f.st \notin {"absent", "deleted"}
  BY <1>2 DEF Stated, Active, Terminal
<1>5. c.job \in Jobs
  BY DEF RowTied
<1>6. f.ref.kind = "sync" => Kind[c.job] = "sync"
  BY <1>3, <1>5 DEF RowTied, Stated, NoRef
<1>7. RowTied(f)
  BY <1>1, <1>4, <1>5, <1>6 DEF RowTied
<1> QED
  BY <1>1, <1>2, <1>4, <1>7 DEF f

\* A flush of the rows a thread loaded.
LEMMA WrittenMoves ==
  ASSUME RowsTied, NEW old, NEW new,
         \A r \in DOMAIN old : /\ row[r].st \notin {"absent", "deleted"}
                               /\ Stated(row[r], old[r], new[r])
                               /\ new[r].st = "succeeded" /\ new[r].st # old[r].st => Credited(r),
         row' = Written(old, new)
  PROVE  RowsMove
<1> SUFFICES ASSUME NEW r \in Runs
             PROVE  /\ RowTied(row'[r])
                    /\ row[r].st # "absent" => row'[r].st # "absent" /\ row'[r].job = row[r].job
                    /\ row'[r].st = "succeeded" =>
                         row[r].st = "succeeded" \/ (row[r].job \in Jobs /\ Credited(r))
  BY DEF RowsMove
<1>1. RowTied(row[r])
  BY DEF RowsTied
<1>2. CASE r \in DOMAIN old
  <2>1. row'[r] = Flushed(row[r], old[r], new[r])
    BY <1>2 DEF Written
  <2>2. /\ RowTied(row'[r]) /\ row'[r].job = row[r].job /\ row'[r].st # "absent"
        /\ row'[r].st = "succeeded" =>
             row[r].st = "succeeded" \/ (new[r].st = "succeeded" /\ new[r].st # old[r].st)
    BY <1>1, <1>2, <2>1, FlushTied
  <2>3. row[r].job \in Jobs
    BY <1>1, <1>2 DEF RowTied
  <2> QED
    BY <1>2, <2>2, <2>3
<1>3. CASE r \notin DOMAIN old
  BY <1>1, <1>3 DEF Written
<1> QED
  BY <1>2, <1>3

\* The rewritings that neither finish a run nor give it a reference.
LEMMA RewrittenStated ==
  ASSUME NEW c, NEW o \in Row,
         NEW n \in {Interrupted(o), Recovered(o), Retried(o), CancelRequested(o)}
  PROVE  Stated(c, o, n) /\ (n.st = "succeeded" => n.st = o.st)
<1>1. /\ Interrupted(o).st = "interrupted" /\ Interrupted(o).ref = o.ref
      /\ Failed(o).st = "failed" /\ Failed(o).ref = o.ref
      /\ \A now \in BOOLEAN : Requeued(o, now).st = "queued" /\ Requeued(o, now).ref = NoRef
  BY DEF Interrupted, Failed, Requeued, Row
<1>2. CancelRequested(o).st \in {o.st, "interrupted"} /\ CancelRequested(o).ref = o.ref
  BY DEF CancelRequested, Interrupted, Row
<1>3. /\ n.st \in {o.st, "interrupted", "failed", "queued"} /\ n.ref \in {o.ref, NoRef}
      /\ n.st = "succeeded" => n.st = o.st
  BY <1>1, <1>2 DEF Recovered, Retried
<1> QED
  BY <1>3 DEF Stated, Active, Terminal

\* The web threads' steps and the clock's.
LEMMA WebMoves ==
  ASSUME TrustInv, Submits \/ Cancels \/ Time
  PROVE  RowsMove
<1>0. row \in [Runs -> Row] /\ \A r \in Runs : RowTied(row[r])
  BY DEF TrustInv, TypeOK, RowsTied
<1>1. ASSUME NEW x \in Runs, NEW n, row' = [row EXCEPT ![x] = n], RowTied(n),
             row[x].st # "absent" => n.st # "absent" /\ n.job = row[x].job,
             n.st = "succeeded" => row[x].st = "succeeded"
      PROVE  RowsMove
  <2>1. row'[x] = n /\ \A r \in Runs \ {x} : row'[r] = row[r]
    BY <1>0, <1>1
  <2> QED
    BY <1>0, <1>1, <2>1 DEF RowsMove
<1>2. ASSUME NEW t \in Threads, NEW j \in Jobs, SubmitInsert(t, j)
      PROVE  RowsMove
  <2> DEFINE n(m) == [AbsentRow EXCEPT !.job = j, !.st = "queued", !.ready = TRUE, !.max = m]
  <2>1. PICK x \in Runs, m \in Limits : NextId(x) /\ row' = [row EXCEPT ![x] = n(m)]
    BY <1>2 DEF SubmitInsert
  <2>2. n(m).st = "queued" /\ n(m).job = j /\ n(m).ref.kind = "none"
    BY DEF AbsentRow, NoRef
  <2>3. row[x].st = "absent"
    BY <2>1 DEF NextId
  <2> HIDE DEF n
  <2>4. RowTied(n(m))
    BY <2>2 DEF RowTied
  <2> QED
    BY <1>1, <2>1, <2>2, <2>3, <2>4
<1>3. ASSUME NEW t \in Threads, CancelWrite(t), row' # row
      PROVE  RowsMove
  <2> DEFINE x == web[t].run
             o == web[t].seen[x]
             new == One(x, CancelRequested(o))
  <2>1. web[t].pc = "cancel" /\ CanFlush(web[t].seen, new) /\ row' = Written(web[t].seen, new)
    BY <1>3 DEF CancelWrite
  <2>2. x \in Runs /\ DOMAIN web[t].seen = {x} /\ o \in Row
    BY <2>1 DEF TrustInv, TypeOK, IsThread, Loaded
  <2>3. row[x].st \notin {"absent", "deleted"}
    BY <2>1, <2>2 DEF CanFlush, TrustInv, LoadedInv
  <2>4. new[x] = CancelRequested(o)
    BY DEF One
  <2>5. Stated(row[x], o, new[x]) /\ (new[x].st = "succeeded" => new[x].st = o.st)
    BY <2>2, <2>4, RewrittenStated
  <2> HIDE DEF new
  <2> QED
    BY <2>1, <2>2, <2>3, <2>5, WrittenMoves DEF TrustInv
<1>4. ASSUME NEW x \in Runs, LeaseExpires(x) \/ BackoffElapses(x)
      PROVE  RowsMove
  <2>1. RowTied(row[x]) /\ row[x] \in Row
    BY <1>0
  <2>2. CASE LeaseExpires(x)
    <3> DEFINE n == [row[x] EXCEPT !.exp = "past"]
    <3>1. row' = [row EXCEPT ![x] = n] /\ row[x].exp = "future"
      BY <2>2 DEF LeaseExpires
    <3>2. n.st = row[x].st /\ n.job = row[x].job /\ n.ref = row[x].ref
      BY <2>1 DEF Row
    <3>3. row[x].st # "absent"
      BY <2>1, <3>1 DEF RowTied, AbsentRow
    <3> HIDE DEF n
    <3>4. RowTied(n)
      BY <2>1, <3>2, <3>3 DEF RowTied
    <3> QED
      BY <1>1, <3>1, <3>2, <3>4
  <2>3. CASE BackoffElapses(x)
    <3> DEFINE n == [row[x] EXCEPT !.ready = TRUE]
    <3>1. row' = [row EXCEPT ![x] = n] /\ row[x].st = "queued"
      BY <2>3 DEF BackoffElapses
    <3>2. n.st = row[x].st /\ n.job = row[x].job /\ n.ref = row[x].ref
      BY <2>1 DEF Row
    <3> HIDE DEF n
    <3>3. RowTied(n)
      BY <2>1, <3>1, <3>2 DEF RowTied
    <3> QED
      BY <1>1, <3>1, <3>2, <3>3
  <2> QED
    BY <1>4, <2>2, <2>3
<1>5. CASE UNCHANGED row
  BY <1>5, SameRowsMove DEF TrustInv
<1> QED
  BY <1>2, <1>3, <1>4, <1>5
  DEF Submits, SubmitWake, Cancels, CancelRead, CancelWrite, CancelReload, CancelForward, Time

\* The startup recovery, whatever was queued, claimed or ended since it read the rows.
LEMMA BootsMove ==
  ASSUME TrustInv, Boots \/ SchedulerWake
  PROVE  RowsMove
<1>0. Loaded(boot.seen)
  BY DEF TrustInv, TypeOK, IsBoot
<1>1. ASSUME NEW new, CanFlush(boot.seen, new), row' = Written(boot.seen, new),
             \A r \in DOMAIN boot.seen :
               /\ Stated(row[r], boot.seen[r], new[r])
               /\ new[r].st = "succeeded" /\ new[r].st # boot.seen[r].st /\ row[r].job \in Jobs
                    => Credited(r)
      PROVE  RowsMove
  <2>1. \A r \in DOMAIN boot.seen : row[r].st \notin {"absent", "deleted"} /\ row[r].job \in Jobs
    BY <1>0, <1>1 DEF CanFlush, TrustInv, LoadedInv, RowsTied, RowTied, Loaded
  <2> QED
    BY <1>1, <2>1, WrittenMoves DEF TrustInv
<1>2. CASE BootClose /\ row' # row
  <2> DEFINE new == [r \in DOMAIN boot.seen |-> Reconciled(boot.seen[r])]
  <2>1. /\ boot.pc = "close" /\ CanFlush(boot.seen, new)
        /\ row' = Written(boot.seen, new)
    BY <1>2 DEF BootClose
  <2>2. ASSUME NEW r \in DOMAIN boot.seen
        PROVE  LET o == boot.seen[r]
                   n == new[r]
               IN /\ n.st = o.st \/ (n.st \in Terminal /\ o.ref.kind = "sync")
                  /\ n.ref = o.ref
    <3> DEFINE o == boot.seen[r]
    <3>1. o \in Row /\ new[r] = Reconciled(o)
      BY <1>0 DEF Loaded
    <3> HIDE DEF new, o
    <3>2. \/ Reconciled(o) = o
          \/ /\ o.ref.kind = "sync" /\ sync[o.ref.id].st \in Terminal
             /\ Reconciled(o) = [o EXCEPT !.st = sync[o.ref.id].st, !.lease = "none",
                                          !.exp = "none"]
      BY DEF Reconciled
    <3>3. /\ Reconciled(o).st = o.st \/ (Reconciled(o).st \in Terminal /\ o.ref.kind = "sync")
          /\ Reconciled(o).ref = o.ref
      BY <3>1, <3>2 DEF Row
    <3> QED
      BY <3>1, <3>3 DEF o
  <2> HIDE DEF new
  <2>3. ASSUME NEW r \in DOMAIN boot.seen, row[r].job \in Jobs, boot.seen[r].ref.kind = "sync"
        PROVE  Credited(r)
    <3>1. Kind[boot.seen[r].job] = "sync" /\ row[r].job \in {boot.seen[r].job, "none"}
      BY <2>1, <2>3 DEF TrustInv, TakeoverInv
    <3>2. row[r].job # "none"
      BY <2>3, JobsAssumption DEF JobIds
    <3> QED
      BY <2>1, <3>1, <3>2 DEF Credited
  <2> QED
    BY <1>1, <2>1, <2>2, <2>3 DEF Stated
<1>3. CASE BootRecover /\ row' # row
  <2> DEFINE new == [r \in DOMAIN boot.seen |-> Recovered(boot.seen[r])]
  <2>1. CanFlush(boot.seen, new) /\ row' = Written(boot.seen, new)
    BY <1>3 DEF BootRecover
  <2>2. \A r \in DOMAIN boot.seen : boot.seen[r] \in Row /\ new[r] = Recovered(boot.seen[r])
    BY <1>0 DEF Loaded
  <2> HIDE DEF new
  <2>3. \A r \in DOMAIN boot.seen : /\ Stated(row[r], boot.seen[r], new[r])
                                    /\ new[r].st = "succeeded" => new[r].st = boot.seen[r].st
    BY <2>2, RewrittenStated
  <2> QED
    BY <1>1, <2>1, <2>3
<1>4. CASE UNCHANGED row
  BY <1>4, SameRowsMove DEF TrustInv
<1> QED
  BY <1>2, <1>3, <1>4
  DEF Boots, BootRead, BootClose, BootOrphans, BootForce, BootRecover, BootWake, SchedulerWake

\* A process death, with either kind of restart.
LEMMA CrashMoves ==
  ASSUME TrustInv, Crash
  PROVE  RowsMove
<1> SUFFICES ASSUME NEW r \in Runs
             PROVE  /\ RowTied(row'[r]) /\ row'[r].job = row[r].job
                    /\ row[r].st # "absent" => row'[r].st # "absent"
                    /\ row'[r].st = "succeeded" => row[r].st = "succeeded"
  BY DEF RowsMove
<1> DEFINE c == row[r]
           a == Abandoned[r]
<1>1. c \in Row /\ RowTied(c)
  BY DEF TrustInv, TypeOK, RowsTied
<1>2. a \in Row /\ a.st = c.st /\ a.job = c.job /\ a.ref = c.ref
  BY <1>1 DEF Abandoned, Row
<1>3. c.st = "absent" => a = c
  BY <1>1 DEF Abandoned, RowTied, AbsentRow
<1>4. row'[r] = a \/ (row'[r] = Recovered(a) /\ r \in Recoverable(TRUE))
  BY DEF Crash, Abandoned
<1>5. r \in Recoverable(TRUE) => c.st \in {"running", "queued"}
  BY DEF Recoverable
<1> HIDE DEF c, a
<1>6. RowTied(a)
  BY <1>1, <1>2, <1>3 DEF RowTied
<1>7. CASE row'[r] = a
  BY <1>2, <1>6, <1>7 DEF c
<1>8. CASE row'[r] = Recovered(a) /\ c.st \in {"running", "queued"}
  <2> DEFINE n == Recovered(a)
  <2>1. n.st \in {"interrupted", "failed", "queued"} /\ n.job = a.job /\ n.ref \in {a.ref, NoRef}
    BY <1>2 DEF Recovered, Interrupted, Failed, Requeued, Row
  <2> HIDE DEF n
  <2>2. RowTied(n)
    <3>1. a.job \in Jobs /\ (n.ref.kind = "sync" => Kind[a.job] = "sync")
      BY <1>2, <1>6, <1>8, <2>1 DEF RowTied, NoRef
    <3> QED
      BY <2>1, <3>1 DEF RowTied
  <2> QED
    BY <1>2, <1>8, <2>1, <2>2 DEF n, c
<1> QED
  BY <1>4, <1>5, <1>7, <1>8

\* What the drain thread loaded, when its flush goes through.
LEMMA HandLoaded ==
  ASSUME TrustInv, NEW new, CanFlush(worker.seen, new)
  PROVE  /\ Loaded(worker.seen)
         /\ \A r \in DOMAIN worker.seen :
              row[r].st \notin {"absent", "deleted"} /\ row[r].job \in Jobs
<1>1. Loaded(worker.seen)
  BY DEF TrustInv, TypeOK, IsWorker
<1> QED
  BY <1>1 DEF CanFlush, TrustInv, LoadedInv, RowsTied, RowTied, Loaded

\* The drain thread's loop.
LEMMA DrainsMove ==
  ASSUME TrustInv, Drains
  PROVE  RowsMove
<1>1. CASE UNCHANGED row
  BY <1>1, SameRowsMove DEF TrustInv
<1>2. CASE RecoverWrite /\ row' # row
  <2> DEFINE new == [r \in DOMAIN worker.seen |-> Recovered(worker.seen[r])]
  <2>1. CanFlush(worker.seen, new) /\ row' = Written(worker.seen, new)
    BY <1>2 DEF RecoverWrite
  <2>2. \A r \in DOMAIN worker.seen :
          worker.seen[r] \in Row /\ new[r] = Recovered(worker.seen[r])
    BY DEF TrustInv, TypeOK, IsWorker, Loaded
  <2> HIDE DEF new
  <2>3. \A r \in DOMAIN worker.seen :
          /\ Stated(row[r], worker.seen[r], new[r])
          /\ new[r].st = "succeeded" => new[r].st = worker.seen[r].st
    BY <2>2, RewrittenStated
  <2> QED
    BY <2>1, <2>3, HandLoaded, WrittenMoves DEF TrustInv
<1>3. CASE ClaimUpdate /\ row' # row
  <2> DEFINE x == worker.run
             n == Claimed(row[x])
  <2>1. worker.pc = "update" /\ row[x].st = "queued" /\ row' = [row EXCEPT ![x] = n]
    BY <1>3 DEF ClaimUpdate
  <2>2. row \in [Runs -> Row] /\ x \in Runs /\ row[x] \in Row
    BY <2>1 DEF TrustInv, TypeOK, IsWorker
  <2>3. n.st = "running" /\ n.job = row[x].job /\ n.ref = row[x].ref
    BY <2>2 DEF Claimed, Row
  <2>4. row'[x] = n /\ \A r \in Runs \ {x} : row'[r] = row[r]
    BY <2>1, <2>2
  <2> HIDE DEF n
  <2>5. \A r \in Runs : RowTied(row[r])
    BY DEF TrustInv, RowsTied
  <2>6. RowTied(n)
    BY <2>1, <2>2, <2>3, <2>5 DEF RowTied
  <2> QED
    BY <2>3, <2>4, <2>5, <2>6 DEF RowsMove
<1> QED
  BY <1>1, <1>2, <1>3 DEF Drains, DrainTop, RecoverWrite, ClaimRead, ClaimUpdate, WaitRead, Leave

\* The rotation, on request or as a part of maintenance.
LEMMA RotatedMoves ==
  ASSUME TrustInv, NEW jobs \in SUBSET Jobs, row' = Rotated(jobs), Rotate \/ InlineWork
  PROVE  RowsMove
<1> DEFINE gone == [AbsentRow EXCEPT !.st = "deleted"]
<1> SUFFICES ASSUME NEW r \in Runs
             PROVE  /\ RowTied(row'[r])
                    /\ row[r].st # "absent" => row'[r].st # "absent"
                    /\ row'[r].job \in {row[r].job, "none"}
                    /\ row'[r].st = "succeeded" => row[r].st = "succeeded"
  BY DEF RowsMove
<1>1. RowTied(row[r])
  BY DEF TrustInv, RowsTied
<1>2. gone.st = "deleted" /\ gone.job = "none" /\ gone.ref.kind = "none"
  BY DEF AbsentRow, NoRef
<1>3. row'[r] = row[r] \/ row'[r] = gone
  BY DEF Rotated
<1> HIDE DEF gone
<1>4. RowTied(gone)
  BY <1>2 DEF RowTied
<1> QED
  BY <1>1, <1>2, <1>3, <1>4

\* Executing a run: the drain thread finishes it when its executor is idle, and gives
\* it the reference it polls.
LEMMA ExecutesMove ==
  ASSUME TrustInv, Executes
  PROVE  RowsMove
<1> DEFINE r == worker.run
           o == worker.seen[r]
<1>0. IsWorker(worker) /\ "none" \notin Jobs
  BY JobsAssumption DEF TrustInv, TypeOK, JobIds
<1>1. CASE UNCHANGED row
  BY <1>1, SameRowsMove DEF TrustInv
<1>2. ASSUME NEW old, NEW new, CanFlush(worker.seen, One(r, new)),
             row' = Written(One(r, old), One(r, new)), r \in DOMAIN worker.seen,
             row[r].job \in Jobs => Stated(row[r], old, new),
             new.st = "succeeded" /\ new.st # old.st => Credited(r)
      PROVE  RowsMove
  <2>1. DOMAIN One(r, old) = {r} /\ One(r, old)[r] = old /\ One(r, new)[r] = new
    BY DEF One
  <2>2. row[r].st \notin {"absent", "deleted"} /\ row[r].job \in Jobs
    BY <1>2, HandLoaded
  <2> QED
    BY <1>2, <2>1, <2>2, WrittenMoves DEF TrustInv
<1>3. ASSUME worker.pc \in {"close", "saveRef", "report", "inlineEnd", "retry"}
      PROVE  r \in DOMAIN worker.seen /\ DOMAIN worker.seen = {r} /\ o \in Row
  BY <1>0, <1>3 DEF IsWorker, Loaded
<1>4. CASE CloseCancelled /\ row' # row
  <2>1. /\ worker.pc = "close" /\ CanFlush(worker.seen, One(r, Interrupted(o)))
        /\ row' = Written(One(r, o), One(r, Interrupted(o)))
    BY <1>4 DEF CloseCancelled, WorkerWrites
  <2>2. /\ Stated(row[r], o, Interrupted(o))
        /\ Interrupted(o).st = "succeeded" => Interrupted(o).st = o.st
    BY <1>3, <2>1, RewrittenStated
  <2> HIDE DEF o
  <2> QED
    BY <1>2, <1>3, <2>1, <2>2
<1>5. CASE SaveRef /\ row' # row
  <2> DEFINE n == [o EXCEPT !.ref = worker.ref]
  <2>1. /\ worker.pc = "saveRef" /\ CanFlush(worker.seen, One(r, n))
        /\ row' = Written(One(r, o), One(r, n))
    BY <1>5 DEF SaveRef, WorkerWrites
  <2>2. r \in DOMAIN worker.seen /\ o \in Row
    BY <1>3, <2>1
  <2> HIDE DEF o
  <2>3. n.st = o.st /\ n.ref = worker.ref
    BY <2>2 DEF Row
  <2>4. row[r].job \in Jobs => worker.ref.kind = Kind[row[r].job]
    BY <2>1 DEF TrustInv, HandInv, Polling
  <2> HIDE DEF n
  <2>5. row[r].job \in Jobs => Stated(row[r], o, n)
    BY <2>3, <2>4 DEF Stated
  <2> QED
    BY <1>2, <2>1, <2>2, <2>3, <2>5
<1>6. CASE MonitorProgress /\ row' # row
  <2> DEFINE stale == [o EXCEPT !.exp = "none"]
             n == [o EXCEPT !.st = "running", !.exp = "future"]
  <2>1. /\ worker.pc = "report" /\ CanFlush(worker.seen, One(r, n))
        /\ row' = Written(One(r, stale), One(r, n))
    BY <1>6 DEF MonitorProgress
  <2>2. r \in DOMAIN worker.seen /\ o \in Row
    BY <1>3, <2>1
  <2> HIDE DEF o
  <2>3. n.st = "running" /\ n.ref = stale.ref
    BY <2>2 DEF Row
  <2> HIDE DEF stale, n
  <2>4. Stated(row[r], stale, n)
    BY <2>3 DEF Stated, Active
  <2> QED
    BY <1>2, <2>1, <2>2, <2>3, <2>4
<1>7. CASE MonitorFinish /\ row' # row
  <2> DEFINE st == IF o.cancel THEN "interrupted" ELSE Reported(worker.ref)
             n == [o EXCEPT !.st = st, !.lease = "none", !.exp = "none"]
  <2>1. /\ worker.pc = "report" /\ ~StillActive(worker.ref)
        /\ CanFlush(worker.seen, One(r, n)) /\ row' = Written(One(r, o), One(r, n))
    BY <1>7 DEF MonitorFinish
  <2>2. r \in DOMAIN worker.seen /\ o \in Row /\ DOMAIN worker.seen = {r}
    BY <1>3, <2>1
  <2>3. st \in Terminal
    <3>1. worker.ref.kind = "sync" => worker.ref.id \in SyncIds
      BY <1>0 DEF IsWorker, Refs
    <3>2. sync \in [SyncIds -> SyncStates]
      BY DEF TrustInv, TypeOK
    <3>3. worker.ref.kind = "sync" => sync[worker.ref.id].st # "absent"
      BY <2>1 DEF TrustInv, HandInv, Polling
    <3> QED
      BY <2>1, <3>1, <3>2, <3>3 DEF Reported, StillActive, SyncStates, Terminal
  <2> HIDE DEF o, st
  <2>4. n.st = st /\ n.ref = o.ref
    BY <2>2 DEF Row
  <2>5. Credited(r)
    BY <2>1 DEF Credited
  <2> HIDE DEF n
  <2>6. Stated(row[r], o, n)
    BY <2>3, <2>4 DEF Stated
  <2> QED
    BY <1>2, <2>1, <2>2, <2>5, <2>6
<1>8. CASE InlineEnd /\ row' # row
  <2>1. PICK st \in {"succeeded", "failed"} :
          LET n == [o EXCEPT !.st = st, !.lease = "none", !.exp = "none"]
          IN CanFlush(worker.seen, One(r, n)) /\ row' = Written(One(r, o), One(r, n))
    BY <1>8 DEF InlineEnd, WorkerWrites
  <2> DEFINE n == [o EXCEPT !.st = st, !.lease = "none", !.exp = "none"]
  <2>2. worker.pc = "inlineEnd"
    BY <1>8 DEF InlineEnd
  <2>3. r \in DOMAIN worker.seen /\ o \in Row
    BY <1>3, <2>2
  <2>4. CanFlush(worker.seen, One(r, n)) /\ row' = Written(One(r, o), One(r, n))
    BY <2>1
  <2> HIDE DEF o
  <2>5. n.st = st /\ n.ref = o.ref
    BY <2>3 DEF Row
  <2>6. Credited(r)
    BY <2>2 DEF Credited
  <2> HIDE DEF n
  <2>7. Stated(row[r], o, n)
    BY <2>5 DEF Stated, Terminal
  <2> QED
    BY <1>2, <2>3, <2>4, <2>6, <2>7
<1>9. CASE RetryWrite /\ row' # row
  <2> DEFINE n == Retried(o)
             new == One(r, n)
  <2>1. /\ worker.pc = "retry" /\ CanFlush(worker.seen, new) /\ row' = Written(worker.seen, new)
    BY <1>9 DEF RetryWrite
  <2>2. DOMAIN worker.seen = {r} /\ o \in Row
    BY <1>3, <2>1
  <2>3. Stated(row[r], o, n) /\ (n.st = "succeeded" => n.st = o.st)
    BY <2>2, RewrittenStated
  <2>4. new[r] = n
    BY DEF One
  <2> HIDE DEF n, new
  <2> QED
    BY <2>1, <2>2, <2>3, <2>4, HandLoaded, WrittenMoves DEF TrustInv
<1>10. CASE Rotate /\ row' # row
  <2>1. row' = Rotated({row[r].job}) /\ worker.pc = "rotate"
    BY <1>10 DEF Rotate
  <2>2. {row[r].job} \in SUBSET Jobs
    BY <2>1 DEF TrustInv, HandInv
  <2> QED
    BY <1>10, <2>1, <2>2, RotatedMoves
<1>11. CASE InlineWork /\ row' # row
  <2>1. PICK jobs \in SUBSET Jobs : row' = Rotated(jobs)
    BY <1>11 DEF InlineWork
  <2> QED
    BY <1>11, <2>1, RotatedMoves
<1> QED
  BY <1>1, <1>4, <1>5, <1>6, <1>7, <1>8, <1>9, <1>10, <1>11
  DEF Executes, ExecRead, Dispatch, MonitorRead, InlineRead, Check, FailRead

\* Every step.
LEMMA NextMoves ==
  ASSUME TrustInv, Next
  PROVE  RowsMove
<1>1. Works => UNCHANGED row
  BY DEF Works, ExecutorEnds, ImageThreadExits, ExternalStart, ExternalEnds, PageCancel,
         DirectSync, SyncStarts, SyncEnds
<1>2. CASE UNCHANGED row
  BY <1>2, SameRowsMove DEF TrustInv
<1> QED
  BY <1>1, <1>2, WebMoves, BootsMove, CrashMoves, DrainsMove, ExecutesMove DEF Next

\* No synchronization is forgotten.
LEMMA SyncsStay ==
  ASSUME TypeOK, Next, NEW s \in SyncIds, sync[s].st # "absent"
  PROVE  sync'[s].st # "absent"
<1>0. sync \in [SyncIds -> SyncStates]
  BY DEF TypeOK
<1>1. CASE UNCHANGED sync
  BY <1>1
<1>2. ASSUME NEW z \in SyncIds, NewSync(z)
      PROVE  sync'[s].st # "absent"
  BY <1>0, <1>2 DEF NewSync
<1>3. ASSUME NEW ref, CancelReference(ref)
      PROVE  sync'[s].st # "absent"
  <2>1. sync' = sync \/ sync' = [sync EXCEPT ![ref.id].token = TRUE]
    BY <1>3 DEF CancelReference
  <2> QED
    BY <1>0, <2>1 DEF SyncStates
<1>4. ASSUME NEW z \in SyncIds, SyncStarts(z)
      PROVE  sync'[s].st # "absent"
  <2>1. sync' = [sync EXCEPT ![z] = IF sync[z].st = "queued"
                                    THEN [sync[z] EXCEPT !.st = "running", !.begun = TRUE]
                                    ELSE [NoSync EXCEPT !.st = sync[z].st]]
    BY <1>4 DEF SyncStarts
  <2>2. sync[z] \in SyncStates /\ sync[s] \in SyncStates
    BY <1>0
  <2> QED
    BY <1>0, <2>1, <2>2 DEF SyncStates, NoSync
<1>5. ASSUME NEW z \in SyncIds, SyncEnds(z)
      PROVE  sync'[s].st # "absent"
  <2>1. \/ \E st \in {"succeeded", "failed", "interrupted"} :
             sync' = [sync EXCEPT ![z] = [NoSync EXCEPT !.st = st]]
        \/ sync' = [sync EXCEPT ![z] = [NoSync EXCEPT !.st = sync[z].st]]
    BY <1>5 DEF SyncEnds
  <2> QED
    BY <1>0, <2>1 DEF NoSync
<1>6. Orphaned \in [SyncIds -> SyncStates] /\ Orphaned[s].st # "absent"
  BY <1>0 DEF Orphaned, SyncStates, Active, Terminal
<1>7. CASE Crash
  <2>1. sync' = Stopped(sync) \/ sync' = Stopped(Orphaned)
    BY <1>7 DEF Crash
  <2> QED
    BY <1>6, <2>1 DEF Stopped, NoSync
<1>8. CASE Boots
  BY <1>1, <1>6, <1>8
  DEF Boots, BootRead, BootClose, BootOrphans, BootForce, BootRecover, BootWake
<1>9. CASE Works
  BY <1>1, <1>2, <1>4, <1>5, <1>9
  DEF Works, ExecutorEnds, ImageThreadExits, ExternalStart, ExternalEnds, PageCancel, DirectSync
<1>10. CASE Executes
  BY <1>1, <1>2, <1>3, <1>10
  DEF Executes, ExecRead, CloseCancelled, Dispatch, DispatchFails, SaveRef, MonitorRead,
      MonitorProgress, MonitorFinish, Rotate, InlineRead, InlineWork, InlineEnd, Check, FailRead,
      RetryWrite
<1>11. CASE Cancels
  BY <1>1, <1>3, <1>11 DEF Cancels, CancelRead, CancelWrite, CancelReload, CancelForward
<1>12. CASE Submits \/ Drains \/ SchedulerWake \/ Time
  BY <1>1, <1>12
  DEF Submits, SubmitInsert, SubmitWake, Drains, DrainTop, RecoverWrite, ClaimRead, ClaimUpdate,
      WaitRead, Leave, SchedulerWake, Time, LeaseExpires, BackoffElapses
<1> QED
  BY <1>7, <1>8, <1>9, <1>10, <1>11, <1>12 DEF Next

\* Who else touches the drain thread's state.
LEMMA OthersTouch ==
  ASSUME TypeOK, Submits \/ Cancels \/ Boots \/ SchedulerWake \/ Works \/ Time \/ Crash
  PROVE  \/ worker' = worker
         \/ worker'.pc \in {"off", "drain"} /\ worker'.seen \in {worker.seen, NoRows}
<1>0. IsWorker(worker)
  BY DEF TypeOK
<1>1. CASE Crash
  BY <1>1 DEF Crash, NoWorker
<1>2. CASE Wake
  BY <1>0, <1>2 DEF Wake, IsWorker
<1>3. CASE Submits \/ Cancels \/ Boots \/ SchedulerWake \/ Works \/ Time
  BY <1>2, <1>3
  DEF Submits, SubmitInsert, SubmitWake, Cancels, CancelRead, CancelWrite, CancelReload,
      CancelForward, Boots, BootRead, BootClose, BootOrphans, BootForce, BootRecover, BootWake,
      SchedulerWake, Works, ExecutorEnds, ImageThreadExits, ExternalStart, ExternalEnds, PageCancel,
      DirectSync, SyncStarts, SyncEnds, Time, LeaseExpires, BackoffElapses
<1> QED
  BY <1>1, <1>3

\* The drain thread's own loop: the run it picks was queued.
LEMMA DrainTouch ==
  ASSUME TypeOK, Drains
  PROVE  /\ worker'.pc \in {"off", "drain", "recover", "claim", "update", "wait", "leave", "exec"}
         /\ worker'.pc = "update" =>
              worker'.run \in Runs /\ row[worker'.run].st = "queued"
         /\ worker'.pc = "exec" => worker.pc = "update" /\ worker'.run = worker.run
         /\ \A r \in DOMAIN worker'.seen : r \in DOMAIN worker.seen \/ row[r].st \in Active
<1>0. IsWorker(worker)
  BY DEF TypeOK
<1>1. CASE DrainTop
  <2>1. CASE Recoverable(FALSE) = {}
    BY <1>0, <1>1, <2>1 DEF DrainTop, To, IsWorker
  <2>2. CASE Recoverable(FALSE) # {}
    <3>1. worker'.pc = "recover" /\ worker'.seen = [r \in Recoverable(FALSE) |-> row[r]]
      BY <1>0, <1>1, <2>2 DEF DrainTop, IsWorker
    <3>2. \A r \in Recoverable(FALSE) : row[r].st \in Active
      BY DEF Recoverable, Active
    <3> QED
      BY <3>1, <3>2
  <2> QED
    BY <2>1, <2>2
<1>2. CASE RecoverWrite
  BY <1>2 DEF RecoverWrite, Looping, Dies, NoWorker, NoRows
<1>3. CASE ClaimRead
  BY <1>0, <1>3 DEF ClaimRead, To, Candidates, IsWorker
<1>4. CASE ClaimUpdate
  BY <1>0, <1>4 DEF ClaimUpdate, To, Looping, NoWorker, NoRows, IsWorker
<1>5. CASE WaitRead \/ Leave
  BY <1>0, <1>5 DEF WaitRead, Leave, To, IsWorker
<1> QED
  BY <1>1, <1>2, <1>3, <1>4, <1>5 DEF Drains

\* Executing a run, the drain thread loads that run alone.
LEMMA ExecuteTouch ==
  ASSUME TypeOK, Executes
  PROVE  /\ Busy
         /\ worker'.pc # "update"
         /\ \A r \in DOMAIN worker'.seen : r \in DOMAIN worker.seen \/ r = worker.run
<1> DEFINE x == worker.run
<1>0. IsWorker(worker)
  BY DEF TypeOK
<1>1. DOMAIN NoRows = {} /\ DOMAIN Load(x) = {x} /\ \A n : DOMAIN One(x, n) = {x}
  BY DEF NoRows, Load, One
<1>2. ASSUME NEW old, NEW new, NEW next, WorkerWrites(old, new, next)
      PROVE  worker'.pc \in {next, "fail"} /\ worker'.seen = NoRows
  BY <1>0, <1>2 DEF WorkerWrites, IsWorker
<1>3. worker.pc \notin {"off", "drain", "recover", "claim", "update", "wait", "leave"}
  BY DEF Executes, ExecRead, CloseCancelled, Dispatch, SaveRef, MonitorRead, MonitorProgress,
         MonitorFinish, Rotate, InlineRead, InlineWork, InlineEnd, Check, FailRead, RetryWrite
<1> SUFFICES /\ worker'.pc # "update"
             /\ worker'.seen \in {worker.seen, NoRows, Load(x)} \/ \E n : worker'.seen = One(x, n)
  BY <1>1, <1>3 DEF Busy
<1>4. CASE CloseCancelled \/ SaveRef \/ InlineEnd
  BY <1>2, <1>4 DEF CloseCancelled, SaveRef, InlineEnd
<1>5. CASE ExecRead
  BY <1>0, <1>5 DEF ExecRead, IsWorker
<1>6. CASE InlineRead
  BY <1>0, <1>6 DEF InlineRead, IsWorker
<1>7. CASE Dispatch
  <2>1. ASSUME NEW ref, Dispatched(ref)
        PROVE  worker'.pc = "saveRef" /\ worker'.seen = worker.seen
    BY <1>0, <2>1 DEF Dispatched, IsWorker
  <2>2. DispatchFails => worker'.pc = "fail" /\ worker'.seen = NoRows
    BY <1>0 DEF DispatchFails, IsWorker
  <2> QED
    BY <1>7, <2>1, <2>2 DEF Dispatch
<1>8. CASE MonitorRead
  BY <1>0, <1>8 DEF MonitorRead, To, IsWorker
<1>9. CASE MonitorProgress \/ MonitorFinish
  BY <1>0, <1>9 DEF MonitorProgress, MonitorFinish, To, IsWorker
<1>10. CASE Rotate
  BY <1>0, <1>10 DEF Rotate, To, IsWorker
<1>11. CASE InlineWork
  BY <1>0, <1>11 DEF InlineWork, IsWorker
<1>12. CASE Check \/ FailRead
  BY <1>0, <1>12 DEF Check, FailRead, Looping, NoWorker, IsWorker
<1>13. CASE RetryWrite
  BY <1>13 DEF RetryWrite, Looping, Dies, NoWorker
<1> QED
  BY <1>4, <1>5, <1>6, <1>7, <1>8, <1>9, <1>10, <1>11, <1>12, <1>13 DEF Executes

\* What a web thread has loaded after a step: the run it is about to cancel, or what
\* it had loaded before.
LEMMA WebTouch ==
  ASSUME TypeOK, Next, NEW t \in Threads
  PROVE  \/ web'[t].seen \in {web[t].seen, NoRows}
         \/ \E x \in Runs : row[x].st \in Active /\ web'[t].seen = Load(x)
<1>0. web = [s \in Threads |-> web[s]] /\ IsThread(web[t])
  BY DEF TypeOK
<1>1. CASE UNCHANGED web
  BY <1>1
<1>6. IdleThread.seen = NoRows
  BY DEF IdleThread
<1>2. CASE Submits
  <2>1. PICK u \in Threads : SubmitWake(u) \/ \E j \in Jobs : SubmitInsert(u, j)
    BY <1>2 DEF Submits
  <2>2. \/ web' = [web EXCEPT ![u] = IdleThread]
        \/ web' = [web EXCEPT ![u] = [web[u] EXCEPT !.pc = "wake"]]
    BY <2>1 DEF SubmitInsert, SubmitWake
  <2> QED
    BY <1>0, <2>2 DEF IdleThread, IsThread
<1>3. CASE Cancels
  <2>1. PICK u \in Threads : \/ \E x \in Runs : CancelRead(u, x)
                             \/ CancelWrite(u) \/ CancelReload(u) \/ CancelForward(u)
    BY <1>3 DEF Cancels
  <2>2. CASE u # t
    <3>1. web'[t] = web[t]
      BY <1>0, <2>1, <2>2 DEF CancelRead, CancelWrite, CancelReload, CancelForward
    <3> QED
      BY <3>1
  <2>3. ASSUME NEW x \in Runs, CancelRead(t, x)
        PROVE  row[x].st \in Active /\ web'[t].seen = Load(x)
    BY <1>0, <2>3 DEF CancelRead, IsThread
  <2>4. CASE CancelWrite(t)
    <3>1. \/ web'[t] = IdleThread
          \/ web'[t] = [web[t] EXCEPT !.pc = "reload", !.seen = NoRows]
      BY <1>0, <2>4 DEF CancelWrite
    <3>2. [web[t] EXCEPT !.pc = "reload", !.seen = NoRows].seen = NoRows
      BY <1>0 DEF IsThread
    <3> QED
      BY <1>6, <3>1, <3>2
  <2>5. CASE CancelReload(t)
    <3>1. \/ web'[t] = IdleThread
          \/ \E ref : web'[t] = [web[t] EXCEPT !.pc = "forward", !.ref = ref]
      BY <1>0, <2>5 DEF CancelReload
    <3>2. \A ref : [web[t] EXCEPT !.pc = "forward", !.ref = ref].seen = web[t].seen
      BY <1>0 DEF IsThread
    <3> QED
      BY <1>6, <3>1, <3>2
  <2>6. CASE CancelForward(t)
    BY <1>0, <2>6 DEF CancelForward, IdleThread
  <2> QED
    BY <2>1, <2>2, <2>3, <2>4, <2>5, <2>6
<1>4. CASE Crash
  BY <1>4 DEF Crash, IdleThread
<1>5. Boots \/ SchedulerWake \/ Drains \/ Executes \/ Works \/ Time => UNCHANGED web
  BY DEF Boots, BootRead, BootClose, BootOrphans, BootForce, BootRecover, BootWake,
         SchedulerWake, Drains, DrainTop, RecoverWrite, ClaimRead, ClaimUpdate, WaitRead, Leave,
         Executes, ExecRead, CloseCancelled, Dispatch, SaveRef, MonitorRead, MonitorProgress,
         MonitorFinish, Rotate, InlineRead, InlineWork, InlineEnd, Check, FailRead, RetryWrite,
         Works, ExecutorEnds, ImageThreadExits, ExternalStart, ExternalEnds, PageCancel,
         DirectSync, SyncStarts, SyncEnds, Time, LeaseExpires, BackoffElapses
<1> QED
  BY <1>1, <1>2, <1>3, <1>4, <1>5 DEF Next

\* What the threads load was inserted before, and stays.
LEMMA LoadedStep ==
  ASSUME TrustInv, Next
  PROVE  /\ LoadedInv'
         /\ worker'.pc = "update" \/ Busy' => row'[worker'.run].st # "absent"
<1>0. /\ IsWorker(worker) /\ "none" \notin Jobs
      /\ \A r \in DOMAIN worker.seen : r \in Runs /\ row[r].st # "absent"
      /\ \A t \in Threads : \A r \in DOMAIN web[t].seen : r \in Runs /\ row[r].st # "absent"
      /\ \A r \in DOMAIN boot.seen : r \in Runs /\ row[r].st # "absent"
  BY JobsAssumption
  DEF TrustInv, LoadedInv, TypeOK, IsWorker, IsThread, IsBoot, Loaded, JobIds
<1>1. \A r \in Runs : row[r].st # "absent" => row'[r].st # "absent"
  BY NextMoves DEF RowsMove
<1>2. worker.pc = "update" \/ Busy => worker.run \in Runs /\ row[worker.run].st # "absent"
  BY <1>0 DEF TrustInv, HandInv, Busy, IsWorker
<1>3. \A r \in DOMAIN worker'.seen : r \in Runs /\ row[r].st # "absent"
  <2>1. CASE Executes
    BY <1>0, <1>2, <2>1, ExecuteTouch DEF TrustInv
  <2>2. CASE Drains
    <3>1. IsWorker(worker')
      BY NextType DEF TrustInv, TypeOK
    <3> QED
      BY <1>0, <2>2, <3>1, DrainTouch DEF TrustInv, Active, IsWorker, Loaded
  <2>3. CASE Submits \/ Cancels \/ Boots \/ SchedulerWake \/ Works \/ Time \/ Crash
    <3>1. worker'.seen = worker.seen \/ DOMAIN worker'.seen = {}
      BY <2>3, OthersTouch DEF TrustInv, NoRows
    <3> QED
      BY <1>0, <3>1
  <2> QED
    BY <2>1, <2>2, <2>3 DEF Next
<1>4. ASSUME worker'.pc = "update" \/ Busy'
      PROVE  worker'.run \in Runs /\ row[worker'.run].st # "absent"
  <2>1. CASE Executes
    <3>1. worker'.run = worker.run
      BY <1>4, <2>1, ExecuteTouch, ExecuteMoves DEF TrustInv
    <3> QED
      BY <1>2, <2>1, <3>1, ExecuteTouch DEF TrustInv
  <2>2. CASE Drains
    BY <1>2, <1>4, <2>2, DrainTouch DEF TrustInv, Busy
  <2>3. CASE worker' = worker
    BY <1>2, <1>4, <2>3 DEF Busy
  <2>4. CASE worker'.pc \in {"off", "drain"}
    BY <1>4, <2>4 DEF Busy
  <2> QED
    BY <2>1, <2>2, <2>3, <2>4, OthersTouch DEF Next, TrustInv
<1>5. ASSUME NEW t \in Threads, NEW r \in DOMAIN web'[t].seen
      PROVE  r \in Runs /\ row[r].st # "absent"
  <2>1. DOMAIN NoRows = {} /\ \A x : DOMAIN Load(x) = {x}
    BY DEF NoRows, Load
  <2>2. \A x \in Runs : row[x].st \in Active => row[x].st # "absent"
    BY DEF Active
  <2>3. TypeOK
    BY DEF TrustInv
  <2>4. CASE web'[t].seen = web[t].seen
    BY <1>0, <1>5, <2>4
  <2>5. CASE web'[t].seen = NoRows
    BY <1>5, <2>1, <2>5
  <2>6. ASSUME NEW x \in Runs, row[x].st \in Active, web'[t].seen = Load(x)
        PROVE  r \in Runs /\ row[r].st # "absent"
    BY <1>5, <2>1, <2>2, <2>6
  <2> QED
    BY <2>3, <2>4, <2>5, <2>6, WebTouch
<1>6. ASSUME NEW r \in DOMAIN boot'.seen
      PROVE  r \in Runs /\ row[r].st # "absent"
  <2>1. CASE UNCHANGED boot
    BY <1>0, <1>6, <2>1
  <2>2. CASE BootRead
    BY <1>6, <2>2 DEF BootRead, Active
  <2>3. CASE BootForce
    BY <1>6, <2>3 DEF BootForce, Recoverable
  <2>4. CASE BootClose \/ BootOrphans \/ BootRecover \/ BootWake \/ Crash
    <3>1. boot'.seen \in {boot.seen, NoRows}
      <4>1. \A pc : BootTo(pc) => boot'.seen = NoRows
        BY DEF BootTo
      <4>2. Crash => boot'.seen = NoRows
        BY DEF Crash
      <4> QED
        BY <2>4, <4>1, <4>2 DEF BootClose, BootOrphans, BootRecover, BootWake
    <3>2. DOMAIN NoRows = {}
      BY DEF NoRows
    <3> QED
      BY <1>0, <1>6, <3>1, <3>2
  <2> QED
    BY <2>1, <2>2, <2>3, <2>4, BootMoves DEF Boots
<1> QED
  BY <1>1, <1>3, <1>4, <1>5, <1>6 DEF LoadedInv

\* What the startup recovery read still tells a synchronization's run from others.
LEMMA TakeoverStep ==
  ASSUME TrustInv, Next
  PROVE  TakeoverInv'
<1>0. Loaded(boot.seen) /\ \A r \in Runs : RowTied(row[r])
  BY DEF TrustInv, TypeOK, IsBoot, RowsTied
<1>1. CASE boot' = boot
  <2>1. ASSUME boot.pc = "close", NEW r \in DOMAIN boot.seen
        PROVE  row'[r].job \in {row[r].job, "none"}
    <3>1. r \in Runs /\ row[r].st # "absent"
      BY <1>0, <2>1 DEF TrustInv, LoadedInv, Loaded
    <3> QED
      BY <3>1, NextMoves DEF RowsMove
  <2> QED
    BY <1>1, <2>1 DEF TrustInv, TakeoverInv
<1>2. CASE BootRead
  BY <1>0, <1>2 DEF BootRead, TakeoverInv, RowTied, Active
<1>3. CASE boot'.pc # "close"
  BY <1>3 DEF TakeoverInv
<1>4. boot' = boot \/ BootRead \/ boot'.pc # "close"
  BY BootMoves DEF Boots
<1> QED
  BY <1>1, <1>2, <1>3, <1>4

\* What the drain thread is about to write or to poll.
LEMMA HandStep ==
  ASSUME TrustInv, Next
  PROVE  HandInv'
<1> DEFINE r == worker.run
           o == worker.seen[r]
<1>0. /\ TypeOK /\ IsWorker(worker) /\ IsWorker(worker') /\ "none" \notin Jobs
      /\ RowsMove /\ \A x \in Runs : row[x] \in Row /\ RowTied(row[x])
  BY NextType, NextMoves, JobsAssumption DEF TrustInv, TypeOK, RowsTied, JobIds
<1>1. worker'.pc = "update" \/ Busy' => row'[worker'.run].st # "absent"
  BY LoadedStep
<1>2. CASE worker'.pc \notin Polling \cup {"dispatch", "rotate"}
  BY <1>1, <1>2 DEF HandInv
<1>3. ASSUME Busy
      PROVE  /\ r \in Runs /\ row[r].st # "absent"
             /\ row'[r].job \in {row[r].job, "none"}
             /\ row'[r].job = row[r].job \/ Rotate \/ InlineWork
             /\ row'[r].st = "succeeded" =>
                  row[r].st = "succeeded" \/ (row[r].job \in Jobs /\ Credited(r))
  BY <1>0, <1>3 DEF TrustInv, HandInv, RowsMove, Busy, IsWorker
<1>4. ASSUME worker.pc \in Polling, worker'.pc \in Polling, worker'.run = r,
             worker'.ref = worker.ref,
             worker'.pc \in Inline => worker.pc \in Inline \/ worker.ref.kind = "inline"
      PROVE  HandInv'
  <2>1. Busy
    BY <1>4 DEF Busy, Polling
  <2>2. /\ row[r].job \in Jobs => worker.ref.kind = Kind[row[r].job]
        /\ worker.pc \in Inline => worker.ref.kind = "inline"
        /\ worker.ref.kind = "sync" =>
             worker.ref.id \in SyncIds /\ sync[worker.ref.id].st # "absent"
    BY <1>0, <1>4 DEF TrustInv, HandInv, IsWorker, Refs
  <2>3. worker.ref.kind = "sync" => sync'[worker.ref.id].st # "absent"
    BY <1>0, <2>2, SyncsStay
  <2>4. row'[r].job \in Jobs => worker.ref.kind = Kind[row'[r].job]
    BY <1>0, <1>3, <2>1, <2>2
  <2>5. worker'.pc # "dispatch" /\ worker'.pc # "rotate"
    BY <1>4 DEF Polling
  <2> QED
    BY <1>1, <1>4, <2>2, <2>3, <2>4, <2>5 DEF HandInv
<1>5. CASE Executes /\ ~Dispatch /\ worker'.pc \in Polling
  <2>1. /\ worker.pc \in Polling /\ worker'.ref = worker.ref /\ worker'.run = r
        /\ worker'.pc \in Inline => worker.pc \in Inline \/ worker.ref.kind = "inline"
    BY <1>0, <1>5, PollMoves DEF Inline
  <2> QED
    BY <1>4, <1>5, <2>1
<1>6. CASE Dispatch /\ worker'.pc \in Polling
  <2>1. /\ worker.pc = "dispatch" /\ row' = row
        /\ o.job \in Jobs /\ row[r].job \in {o.job, "none"}
    BY <1>6 DEF Dispatch, TrustInv, HandInv
  <2>2. \A ref : Dispatched(ref) =>
          worker'.ref = ref /\ worker'.run = r /\ worker'.pc = "saveRef"
    BY <1>0 DEF Dispatched, IsWorker
  <2>3. ~DispatchFails
    BY <1>0, <1>6 DEF DispatchFails, IsWorker, Polling
  <2>4. \/ Kind[o.job] = "sync" /\ \E s \in SyncIds : NewSync(s)
                                     /\ Dispatched([kind |-> "sync", id |-> s])
        \/ /\ Kind[o.job] \in ExecKinds \cup {"inline"}
           /\ Dispatched([kind |-> Kind[o.job], id |-> 0])
    BY <1>6, <2>3 DEF Dispatch
  <2>5. /\ worker'.run = r /\ worker'.pc = "saveRef" /\ worker'.ref.kind = Kind[o.job]
        /\ worker'.ref.kind = "sync" => sync'[worker'.ref.id].st # "absent"
    <3>1. CASE \E s \in SyncIds : NewSync(s) /\ Dispatched([kind |-> "sync", id |-> s])
                                  /\ Kind[o.job] = "sync"
      <4>1. PICK s \in SyncIds : NewSync(s) /\ Dispatched([kind |-> "sync", id |-> s])
        BY <3>1
      <4>2. sync'[s].st = "queued"
        BY <4>1 DEF NewSync, NoSync, TrustInv, TypeOK
      <4> QED
        BY <2>2, <3>1, <4>1, <4>2
    <3>2. CASE /\ Kind[o.job] \in ExecKinds \cup {"inline"}
               /\ Dispatched([kind |-> Kind[o.job], id |-> 0])
      <4>1. Kind[o.job] # "sync"
        BY <3>2 DEF ExecKinds
      <4> QED
        BY <2>2, <3>2, <4>1
    <3> QED
      BY <2>4, <3>1, <3>2
  <2>6. row'[r].job \in Jobs => worker'.ref.kind = Kind[row'[r].job]
    BY <1>0, <2>1, <2>5
  <2> QED
    BY <1>1, <2>5, <2>6 DEF HandInv, Inline
<1>7. CASE Executes /\ worker'.pc = "dispatch"
  <2>1. ExecRead
    BY <1>0, <1>7, ExecuteMoves
  <2>2. /\ r \in Runs /\ row' = row /\ worker'.run = r /\ worker'.seen = Load(r)
        /\ row[r].st = "running"
    BY <1>0, <1>7, <2>1 DEF ExecRead, IsWorker
  <2>3. worker'.seen[r] = row[r]
    BY <2>2 DEF Load
  <2>4. row[r].job \in Jobs
    BY <1>0, <2>2 DEF RowTied
  <2> QED
    BY <1>1, <1>7, <2>2, <2>3, <2>4 DEF HandInv, Polling
<1>8. CASE Executes /\ worker'.pc = "rotate"
  <2>1. MonitorFinish /\ worker'.run = r
    BY <1>0, <1>8, ExecuteMoves
  <2>2. worker.pc = "report" /\ ~Rotate /\ ~InlineWork
    BY <2>1 DEF MonitorFinish, Rotate, InlineWork
  <2>3. PICK n : CanFlush(worker.seen, One(r, n))
    BY <1>0, <1>8, <2>1 DEF MonitorFinish, To, IsWorker
  <2>4. r \in DOMAIN worker.seen
    BY <1>0, <2>2 DEF IsWorker
  <2>5. row[r].job \in Jobs
    BY <2>3, <2>4, HandLoaded
  <2>6. row'[r].job = row[r].job
    BY <1>3, <2>2 DEF Busy
  <2> QED
    BY <1>1, <1>8, <2>1, <2>5, <2>6 DEF HandInv, Polling
<1>9. CASE worker' = worker /\ ~Executes
  <2>1. ~Rotate /\ ~InlineWork
    BY <1>9 DEF Executes
  <2>2. CASE worker.pc \in Polling
    BY <1>4, <1>9, <2>2
  <2>3. CASE worker.pc = "dispatch"
    <3>1. /\ o.job \in Jobs /\ row[r].job \in {o.job, "none"}
          /\ row[r].st = "succeeded" => Kind[o.job] = "sync"
      BY <2>3 DEF TrustInv, HandInv
    <3>2. Busy
      BY <2>3 DEF Busy
    <3>3. row'[r].job \in {o.job, "none"}
      BY <1>3, <3>1, <3>2
    <3>4. row[r].job \in Jobs /\ Credited(r) => Kind[o.job] = "sync"
      BY <1>0, <2>3, <3>1 DEF Credited
    <3>5. row'[r].st = "succeeded" => Kind[o.job] = "sync"
      BY <1>3, <3>1, <3>2, <3>4
    <3> QED
      BY <1>1, <1>9, <2>3, <3>1, <3>3, <3>5 DEF HandInv, Polling
  <2>4. CASE worker.pc = "rotate"
    <3>1. row[r].job \in Jobs
      BY <2>4 DEF TrustInv, HandInv
    <3>2. row'[r].job = row[r].job
      BY <1>3, <2>1, <2>4 DEF Busy
    <3> QED
      BY <1>1, <1>9, <2>4, <3>1, <3>2 DEF HandInv, Polling
  <2> QED
    BY <1>2, <1>9, <2>2, <2>3, <2>4
<1>10. CASE Drains
  BY <1>0, <1>2, <1>10, DrainTouch DEF Polling
<1>11. CASE Submits \/ Cancels \/ Boots \/ SchedulerWake \/ Works \/ Time \/ Crash
  BY <1>0, <1>2, <1>5, <1>6, <1>7, <1>8, <1>9, <1>11, OthersTouch DEF Polling, Executes
<1> QED
  BY <1>2, <1>5, <1>6, <1>7, <1>8, <1>10, <1>11 DEF Next

\* An executor works for a run of its own kind; the only two who could mark it
\* `succeeded' do so when the executor is idle, or for a synchronization.
LEMMA ExecutorsTrusted ==
  ASSUME TrustInv, Next
  PROVE  ExecutorInv'
<1>0. /\ TypeOK /\ ExecutorInv /\ RowsMove /\ "none" \notin Jobs
      /\ \A x \in Runs : row[x] \in Row /\ RowTied(row[x])
  BY NextMoves, JobsAssumption DEF TrustInv, TypeOK, RowsTied, JobIds
<1> SUFFICES ASSUME NEW k \in ExecKinds \ {"images"}, NEW r \in ex'[k].work
             PROVE  /\ row'[r].st \notin {"absent", "succeeded"}
                    /\ row'[r].job \in Jobs => Kind[row'[r].job] = k
  BY <1>0, ExecutorsStep DEF ExecutorInv
<1>k. k # "sync" /\ k # "inline"
  BY DEF ExecKinds
<1>1. CASE Dispatch /\ r = worker.run /\ Kind[worker.seen[r].job] = k
  <2>1. /\ r \in Runs /\ row' = row /\ row[r].st # "absent"
        /\ row[r].job \in {worker.seen[r].job, "none"}
        /\ row[r].st # "succeeded"
    BY <1>1, <1>k DEF Dispatch, TrustInv, TypeOK, IsWorker, HandInv, Busy
  <2> QED
    BY <1>0, <1>1, <2>1
<1>2. CASE r \in ex[k].work
  <2>1. /\ r \in Runs /\ row[r].st \notin {"absent", "succeeded"}
        /\ row[r].job \in Jobs => Kind[row[r].job] = k
        /\ ex[k].active
    BY <1>0, <1>2 DEF TypeOK, ExecStates, ExecutorInv
  <2>2. /\ row'[r].st # "absent" /\ row'[r].job \in {row[r].job, "none"}
        /\ row'[r].st = "succeeded" => row[r].job \in Jobs /\ Credited(r)
    BY <1>0, <2>1 DEF RowsMove
  <2>3. ASSUME row[r].job \in Jobs, Credited(r)
        PROVE  FALSE
    <3>1. Kind[row[r].job] = k
      BY <2>1, <2>3
    <3>2. /\ worker.run = r
          /\ worker.pc = "inlineEnd" \/ (worker.pc = "report" /\ ~StillActive(worker.ref))
      BY <1>k, <2>3, <3>1 DEF Credited
    <3>3. worker.ref.kind = k
      BY <2>3, <3>1, <3>2 DEF TrustInv, HandInv, Polling
    <3>4. worker.pc # "inlineEnd"
      BY <1>k, <3>3 DEF TrustInv, HandInv, Polling, Inline
    <3> QED
      BY <1>k, <2>1, <3>2, <3>3, <3>4 DEF StillActive
  <2> QED
    BY <1>0, <2>1, <2>2, <2>3
<1> QED
  BY <1>0, <1>1, <1>2, ExecutorsStep

LEMMA InitTrust == Init => TrustInv
<1> SUFFICES ASSUME Init PROVE TrustInv
  OBVIOUS
<1>1. /\ row = [r \in Runs |-> AbsentRow] /\ worker = NoWorker
      /\ web = [t \in Threads |-> IdleThread] /\ boot = [pc |-> "read", seen |-> NoRows]
      /\ ex = [k \in ExecKinds |-> IdleExecutor]
  BY DEF Init
<1>2. RowTied(AbsentRow)
  BY DEF RowTied, AbsentRow, NoRef
<1>3. DOMAIN NoRows = {}
  BY DEF NoRows
<1>4. LoadedInv
  BY <1>1, <1>3 DEF LoadedInv, NoWorker, IdleThread
<1>5. TakeoverInv /\ HandInv
  BY <1>1 DEF TakeoverInv, HandInv, NoWorker, Busy, Polling
<1>6. ExecutorInv
  BY <1>1 DEF ExecutorInv, IdleExecutor
<1> QED
  BY <1>1, <1>2, <1>4, <1>5, <1>6, InitType DEF TrustInv, RowsTied

LEMMA NextTrust == TrustInv /\ [Next]_vars => TrustInv'
<1> SUFFICES ASSUME TrustInv, [Next]_vars PROVE TrustInv'
  OBVIOUS
<1>1. TypeOK'
  BY NextType DEF TrustInv
<1>2. CASE Next
  <2>1. RowsTied'
    BY <1>2, NextMoves DEF RowsMove, RowsTied
  <2> QED
    BY <1>1, <1>2, <2>1, LoadedStep, TakeoverStep, HandStep, ExecutorsTrusted DEF TrustInv
<1>3. CASE UNCHANGED vars
  <2>1. RowsTied' /\ LoadedInv' /\ TakeoverInv'
    BY <1>3 DEF vars, TrustInv, RowsTied, LoadedInv, TakeoverInv
  <2>2. HandInv' /\ ExecutorInv'
    BY <1>3 DEF vars, TrustInv, HandInv, Busy, ExecutorInv
  <2> QED
    BY <1>1, <2>1, <2>2 DEF TrustInv
<1> QED
  BY <1>2, <1>3

\* A run marked `succeeded' left no executor thread behind that still works for it, the
\* image executor apart, whether or not requests are served before the startup recovery
\* ends (_monitor_job and reconcile_completed_sync_job write the only successes).
THEOREM SucceededIsDone == Spec => []SucceededMeansDone
<1>1. TrustInv => SucceededMeansDone
  BY DEF TrustInv, ExecutorInv, SucceededMeansDone
<1> QED
  BY <1>1, InitTrust, NextTrust, PTL DEF Spec

=============================================================================
