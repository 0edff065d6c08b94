--------------------------- MODULE JobQueueProofs ---------------------------
(***************************************************************************)
(* Theorems about JobQueue, for every set of jobs, number of rows, threads  *)
(* and failures, and whether or not requests arrive during the startup      *)
(* recovery: type correctness, one running run at a time, and cancellation  *)
(* requests that no later write erases.                                     *)
(***************************************************************************)
EXTENDS JobQueue, TLAPS

-----------------------------------------------------------------------------
(* Types of the values the actions are built from.                          *)

\* The jobs with an executor of their own are dispatched to one of four.
LEMMA ExecKindsType == ExecKinds \subseteq {"watch", "metadata", "images", "async"}
  BY JobsAssumption DEF ExecKinds, Kind, JobIds

\* The row of a free id is a row.
LEMMA AbsentRowType == AbsentRow \in Row
  BY DEF AbsentRow, Row, NoRef, Refs, Active, Terminal

\* No rows loaded.
LEMMA NoRowsLoaded == Loaded(NoRows)
  BY DEF Loaded, NoRows

\* Loading one existing row, as session.get does.
LEMMA LoadType ==
  ASSUME row \in [Runs -> Row], NEW r \in Runs
  PROVE  Loaded(Load(r)) /\ DOMAIN Load(r) = {r} /\ Load(r)[r] \in Row
  BY DEF Loaded, Load

\* Loading several rows, as the recovery queries do.
LEMMA LoadManyType ==
  ASSUME row \in [Runs -> Row], NEW S \in SUBSET Runs
  PROVE  Loaded([r \in S |-> row[r]])
  BY DEF Loaded

\* The rewritten forms of a row are rows.
LEMMA RewrittenType ==
  ASSUME NEW o \in Row, NEW now \in BOOLEAN
  PROVE  /\ Interrupted(o) \in Row
         /\ Failed(o) \in Row
         /\ Requeued(o, now) \in Row
         /\ CancelRequested(o) \in Row
         /\ Recovered(o) \in Row
         /\ Retried(o) \in Row
<1>1. Interrupted(o) \in Row
  BY DEF Interrupted, Row, Active, Terminal
<1>2. Failed(o) \in Row
  BY DEF Failed, Row, Active, Terminal
<1>3. \A b \in BOOLEAN : Requeued(o, b) \in Row
  BY DEF Requeued, Row, Active, Terminal, NoRef, Refs
<1>4. CancelRequested(o) \in Row
  BY <1>1 DEF CancelRequested, Row
<1>5. Recovered(o) \in Row
  BY <1>1, <1>2, <1>3 DEF Recovered
<1>6. Retried(o) \in Row
  BY <1>1, <1>2, <1>3 DEF Retried
<1> QED
  BY <1>1, <1>2, <1>3, <1>4, <1>5, <1>6

\* A flush of rows writes a row.
LEMMA FlushedType ==
  ASSUME NEW c \in Row, NEW o \in Row, NEW n \in Row
  PROVE  Flushed(c, o, n) \in Row
<1>1. /\ Dirty(c.st, o.st, n.st) \in {"absent", "deleted"} \cup Active \cup Terminal
      /\ Dirty(c.lease, o.lease, n.lease) \in {"none", "me", "old"}
      /\ Dirty(c.exp, o.exp, n.exp) \in {"none", "past", "future"}
      /\ Dirty(c.ready, o.ready, n.ready) \in BOOLEAN
      /\ Dirty(c.cancel, o.cancel, n.cancel) \in BOOLEAN
      /\ Dirty(c.ref, o.ref, n.ref) \in Refs
  BY DEF Dirty, Row
<1> QED
  BY <1>1 DEF Flushed, Row

\* A flush of loaded rows leaves a table of rows.
LEMMA WrittenType ==
  ASSUME row \in [Runs -> Row],
         NEW seen, Loaded(seen),
         NEW new, \A r \in DOMAIN seen : new[r] \in Row
  PROVE  Written(seen, new) \in [Runs -> Row]
<1> SUFFICES ASSUME NEW r \in Runs
             PROVE  Written(seen, new)[r] \in Row
  BY DEF Written
<1>1. CASE r \in DOMAIN seen
  <2>1. row[r] \in Row /\ seen[r] \in Row /\ new[r] \in Row
    BY <1>1 DEF Loaded
  <2> QED
    BY <1>1, <2>1, FlushedType DEF Written
<1>2. CASE r \notin DOMAIN seen
  BY <1>2 DEF Written
<1> QED
  BY <1>1, <1>2

\* The same for a flush of one row.
LEMMA WrittenOneType ==
  ASSUME row \in [Runs -> Row],
         NEW r \in Runs, NEW old \in Row, NEW new \in Row
  PROVE  Written(One(r, old), One(r, new)) \in [Runs -> Row]
<1>1. Loaded(One(r, old)) /\ DOMAIN One(r, old) = {r} /\ One(r, new)[r] = new
  BY DEF Loaded, One
<1> QED
  BY <1>1, WrittenType

\* The ORM writes of the drain thread keep the types, whichever way they end.
LEMMA WorkerWritesType ==
  ASSUME TypeOK, worker.run \in Runs,
         NEW old \in Row, NEW new \in Row,
         NEW next \in {"check", "inline", "monitor"},
         WorkerWrites(old, new, next)
  PROVE  /\ row' \in [Runs -> Row]
         /\ IsWorker(worker')
         /\ failures' \in 0..MaxFailures
<1>1. row \in [Runs -> Row] /\ IsWorker(worker) /\ failures \in 0..MaxFailures
  BY DEF TypeOK
<1>2. CASE /\ row' = Written(One(worker.run, old), One(worker.run, new))
           /\ worker' = [worker EXCEPT !.pc = next, !.seen = NoRows]
           /\ UNCHANGED failures
  <2>1. row' \in [Runs -> Row]
    BY <1>1, <1>2, WrittenOneType
  <2>2. IsWorker(worker')
    BY <1>1, <1>2, NoRowsLoaded DEF IsWorker, WorkerPcs
  <2> QED
    BY <1>1, <1>2, <2>1, <2>2
<1>3. CASE /\ Refused(worker.seen, One(worker.run, new))
           /\ worker' = [worker EXCEPT !.pc = "fail", !.seen = NoRows]
           /\ UNCHANGED row
  <2>1. IsWorker(worker')
    BY <1>1, <1>3, NoRowsLoaded DEF IsWorker, WorkerPcs
  <2>2. failures' \in 0..MaxFailures
    BY <1>1, <1>3, BoundsAssumption DEF Refused, Locked
  <2> QED
    BY <1>1, <1>3, <2>1, <2>2
<1> QED
  BY <1>2, <1>3 DEF WorkerWrites

\* Every value of an executor's reference is a reference.
LEMMA RefsType == NoRef \in Refs
  BY DEF NoRef, Refs

\* A web thread's new state.
LEMMA WebType ==
  ASSUME TypeOK, NEW t \in Threads, NEW w, IsThread(w), web' = [web EXCEPT ![t] = w]
  PROVE  web' = [u \in Threads |-> web'[u]] /\ \A u \in Threads : IsThread(web'[u])
  BY DEF TypeOK

\* A thread that has nothing to do.
LEMMA IdleType == IsThread(IdleThread) /\ IsWorker(NoWorker)
  BY NoRowsLoaded, RefsType DEF IsThread, IdleThread, IsWorker, NoWorker, WorkerPcs

\* Where the worker thread may go next, by what it has loaded: the job of its run, if the
\* step rewrites that.
Ready(pc, run, seen) ==
  /\ pc \in WorkerPcs /\ Loaded(seen)
  /\ pc \notin {"off", "drain", "recover", "claim", "wait", "leave"} => run \in Runs
  /\ pc \in {"close", "dispatch", "saveRef", "report", "inlineWork", "inlineEnd", "retry"}
       => DOMAIN seen = {run}

\* The worker thread at another step, with what it loaded, is a worker thread.
LEMMA WorkerMoves ==
  ASSUME NEW w, IsWorker(w), NEW pc, NEW seen, Ready(pc, w.run, seen), NEW b \in BOOLEAN
  PROVE  /\ IsWorker([w EXCEPT !.pc = pc, !.seen = seen, !.fwd = b])
         /\ IsWorker([w EXCEPT !.pc = pc, !.seen = seen])
         /\ seen = w.seen => IsWorker([w EXCEPT !.pc = pc])
<1>1. w \in [pc : WorkerPcs, run : {0} \cup Runs, seen : {w.seen}, ref : Refs, fwd : BOOLEAN]
  BY DEF IsWorker
<1>2. ASSUME NEW v, v \in [pc : WorkerPcs, run : {0} \cup Runs, seen : {seen}, ref : Refs, fwd : BOOLEAN],
             v.pc = pc, v.run = w.run
      PROVE  IsWorker(v)
  <2>1. v.seen = seen
    BY <1>2
  <2> QED
    BY <1>2, <2>1 DEF IsWorker, Ready
<1>3. pc \in WorkerPcs
  BY DEF Ready
<1>4. IsWorker([w EXCEPT !.pc = pc, !.seen = seen, !.fwd = b])
  BY <1>1, <1>2, <1>3
<1>5. IsWorker([w EXCEPT !.pc = pc, !.seen = seen])
  BY <1>1, <1>2, <1>3
<1>6. ASSUME seen = w.seen PROVE IsWorker([w EXCEPT !.pc = pc])
  BY <1>1, <1>2, <1>3, <1>6
<1> QED
  BY <1>4, <1>5, <1>6

\* A worker thread that holds no run: at the top of its loop, or about to claim or wait.
LEMMA FreshType ==
  ASSUME NEW pc \in {"drain", "claim", "wait"}
  PROVE  IsWorker([NoWorker EXCEPT !.pc = pc])
<1>1. Ready(pc, NoWorker.run, NoWorker.seen)
  BY IdleType DEF Ready, IsWorker, WorkerPcs
<1> QED
  BY <1>1, IdleType, WorkerMoves

\* Waking the drain thread.
LEMMA WakeType ==
  ASSUME TypeOK, Wake
  PROVE  IsWorker(worker') /\ wakePending' \in BOOLEAN
  BY DEF TypeOK, Wake, IsWorker, WorkerPcs

\* A commit that the database refused is counted.
LEMMA FailuresType ==
  ASSUME TypeOK, Locked \/ UNCHANGED failures
  PROVE  failures' \in 0..MaxFailures
  BY BoundsAssumption DEF TypeOK, Locked

-----------------------------------------------------------------------------
(* Type correctness, one lemma per group of actions.                        *)

\* submit_job keeps the types.
LEMMA SubmitsType ==
  ASSUME TypeOK, Submits
  PROVE  TypeOK'
<1>1. ASSUME NEW t \in Threads, NEW j \in Jobs, SubmitInsert(t, j)
      PROVE  TypeOK'
  <2>1. PICK r \in Runs, m \in Limits :
          row' = [row EXCEPT ![r] = [AbsentRow EXCEPT !.job = j, !.st = "queued",
                                                      !.ready = TRUE, !.max = m]]
    BY <1>1 DEF SubmitInsert
  <2>2. [AbsentRow EXCEPT !.job = j, !.st = "queued", !.ready = TRUE, !.max = m] \in Row
    BY DEF AbsentRow, Row, NoRef, Refs, Active, Terminal
  <2>3. row' \in [Runs -> Row]
    BY <2>1, <2>2 DEF TypeOK
  <2>4. IsThread([web[t] EXCEPT !.pc = "wake"])
    BY DEF TypeOK, IsThread
  <2>5. web' = [u \in Threads |-> web'[u]] /\ \A u \in Threads : IsThread(web'[u])
    BY <1>1, <2>4, WebType DEF SubmitInsert
  <2> QED
    BY <1>1, <2>3, <2>5 DEF TypeOK, SubmitInsert
<1>2. ASSUME NEW t \in Threads, SubmitWake(t)
      PROVE  TypeOK'
  <2>1. web' = [u \in Threads |-> web'[u]] /\ \A u \in Threads : IsThread(web'[u])
    BY <1>2, IdleType, WebType DEF SubmitWake
  <2>2. IsWorker(worker') /\ wakePending' \in BOOLEAN
    BY <1>2, WakeType DEF SubmitWake, TypeOK
  <2>3. failures' \in 0..MaxFailures
    BY <1>2, FailuresType DEF SubmitWake
  <2> QED
    BY <1>2, <2>1, <2>2, <2>3 DEF TypeOK, SubmitWake
<1> QED
  BY <1>1, <1>2 DEF Submits

\* _cancel_reference keeps the types of the executors and synchronizations.
LEMMA CancelReferenceType ==
  ASSUME TypeOK, NEW ref \in Refs, CancelReference(ref)
  PROVE  ex' \in [ExecKinds -> ExecStates] /\ sync' \in [SyncIds -> SyncStates]
<1>1. ex' \in [ExecKinds -> ExecStates]
  <2>1. CASE ref.kind \in Cancellable \cap ExecKinds /\ ex[ref.kind].busy
    <3>1. ex[ref.kind] \in ExecStates
      BY <2>1 DEF TypeOK
    <3>2. [ex[ref.kind] EXCEPT !.cancel = TRUE] \in ExecStates
      BY <3>1 DEF ExecStates
    <3>3. ex' = [ex EXCEPT ![ref.kind] = [ex[ref.kind] EXCEPT !.cancel = TRUE]]
      BY <2>1 DEF CancelReference
    <3> QED
      BY <3>2, <3>3 DEF TypeOK
  <2> QED
    BY <2>1 DEF TypeOK, CancelReference
<1>2. sync' \in [SyncIds -> SyncStates]
  <2>1. CASE ref.kind = "sync" /\ sync[ref.id].live
    <3>1. sync' = [sync EXCEPT ![ref.id] = [sync[ref.id] EXCEPT !.token = TRUE]]
      BY <2>1 DEF CancelReference
    <3>2. ASSUME ref.id \in SyncIds PROVE [sync[ref.id] EXCEPT !.token = TRUE] \in SyncStates
      BY <3>2 DEF TypeOK, SyncStates
    <3> QED
      BY <3>1, <3>2 DEF TypeOK
  <2> QED
    BY <2>1 DEF TypeOK, CancelReference
<1> QED
  BY <1>1, <1>2

\* request_job_cancellation keeps the types.
LEMMA CancelsType ==
  ASSUME TypeOK, Cancels
  PROVE  TypeOK'
<1>1. ASSUME NEW t \in Threads, NEW r \in Runs, CancelRead(t, r)
      PROVE  TypeOK'
  <2>1. IsThread([web[t] EXCEPT !.pc = "cancel", !.run = r, !.seen = Load(r)])
    <3>1. IsThread(web[t]) /\ Loaded(Load(r)) /\ DOMAIN Load(r) = {r}
      BY LoadType DEF TypeOK
    <3> QED
      BY <3>1 DEF IsThread
  <2>2. web' = [u \in Threads |-> web'[u]] /\ \A u \in Threads : IsThread(web'[u])
    BY <1>1, <2>1, WebType DEF CancelRead
  <2> QED
    BY <1>1, <2>2 DEF TypeOK, CancelRead
<1>2. ASSUME NEW t \in Threads, CancelWrite(t)
      PROVE  TypeOK'
  <2> DEFINE r == web[t].run
             new == One(r, CancelRequested(web[t].seen[r]))
  <2>1. /\ Loaded(web[t].seen) /\ DOMAIN web[t].seen = {r}
        /\ new[r] = CancelRequested(web[t].seen[r])
    BY <1>2 DEF TypeOK, IsThread, CancelWrite, One
  <2>2. \A x \in DOMAIN web[t].seen : new[x] \in Row
    BY <2>1, RewrittenType DEF Loaded
  <2>3. Written(web[t].seen, new) \in [Runs -> Row]
    <3> HIDE DEF new
    <3> QED
      BY <2>1, <2>2, WrittenType DEF TypeOK
  <2>4. row' \in [Runs -> Row]
    BY <1>2, <2>3 DEF CancelWrite, TypeOK
  <2>5. IsThread([web[t] EXCEPT !.pc = "reload", !.seen = NoRows])
    <3>1. IsThread(web[t]) /\ web[t].pc = "cancel"
      BY <1>2 DEF TypeOK, CancelWrite
    <3> QED
      BY <3>1, NoRowsLoaded DEF IsThread
  <2>6. web' = [u \in Threads |-> web'[u]] /\ \A u \in Threads : IsThread(web'[u])
    BY <1>2, <2>5, IdleType, WebType DEF CancelWrite
  <2>7. failures' \in 0..MaxFailures
    BY <1>2, FailuresType DEF CancelWrite, Refused
  <2> QED
    BY <1>2, <2>4, <2>6, <2>7 DEF TypeOK, CancelWrite
<1>3. ASSUME NEW t \in Threads, CancelReload(t)
      PROVE  TypeOK'
  <2>1. web[t].run \in Runs /\ row[web[t].run].ref \in Refs
    BY <1>3 DEF TypeOK, IsThread, CancelReload, Row
  <2>2. IsThread([web[t] EXCEPT !.pc = "forward", !.ref = row[web[t].run].ref])
    <3>1. IsThread(web[t])
      BY DEF TypeOK
    <3> QED
      BY <2>1, <3>1 DEF IsThread
  <2>3. web' = [u \in Threads |-> web'[u]] /\ \A u \in Threads : IsThread(web'[u])
    BY <1>3, <2>2, IdleType, WebType DEF CancelReload
  <2> QED
    BY <1>3, <2>3 DEF TypeOK, CancelReload
<1>4. ASSUME NEW t \in Threads, CancelForward(t)
      PROVE  TypeOK'
  <2>1. web[t].ref \in Refs
    BY DEF TypeOK, IsThread
  <2>2. ex' \in [ExecKinds -> ExecStates] /\ sync' \in [SyncIds -> SyncStates]
    BY <1>4, <2>1, CancelReferenceType DEF CancelForward
  <2>3. web' = [u \in Threads |-> web'[u]] /\ \A u \in Threads : IsThread(web'[u])
    BY <1>4, IdleType, WebType DEF CancelForward
  <2> QED
    BY <1>4, <2>2, <2>3 DEF TypeOK, CancelForward
<1> QED
  BY <1>1, <1>2, <1>3, <1>4 DEF Cancels

\* The loop of the drain thread keeps the types.
LEMMA DrainsType ==
  ASSUME TypeOK, Drains
  PROVE  TypeOK'
<1>0. IsWorker(worker) /\ row \in [Runs -> Row]
  BY DEF TypeOK
<1>1. ASSUME DrainTop
      PROVE  TypeOK'
  <2>1. Loaded([r \in Recoverable(FALSE) |-> row[r]])
    BY <1>0, LoadManyType DEF Recoverable
  <2>2. IsWorker(worker')
    <3>1. CASE worker' = [worker EXCEPT !.pc = "claim"]
      <4>1. Ready("claim", worker.run, worker.seen)
        BY <1>0 DEF Ready, IsWorker, WorkerPcs
      <4> QED
        BY <1>0, <3>1, <4>1, WorkerMoves
    <3>2. CASE worker' = [worker EXCEPT !.pc = "recover", !.seen = [r \in Recoverable(FALSE) |-> row[r]]]
      <4>1. Ready("recover", worker.run, [r \in Recoverable(FALSE) |-> row[r]])
        BY <2>1 DEF Ready, WorkerPcs
      <4> QED
        BY <1>0, <3>2, <4>1, WorkerMoves
    <3> QED
      BY <1>1, <3>1, <3>2 DEF DrainTop, To
  <2> QED
    BY <1>1, <2>2 DEF TypeOK, DrainTop
<1>2. ASSUME RecoverWrite
      PROVE  TypeOK'
  <2> DEFINE new == [r \in DOMAIN worker.seen |-> Recovered(worker.seen[r])]
  <2>1. Loaded(worker.seen)
    BY <1>0 DEF IsWorker
  <2>2. \A r \in DOMAIN worker.seen : new[r] \in Row
    BY <2>1, RewrittenType DEF Loaded
  <2>3. Written(worker.seen, new) \in [Runs -> Row]
    <3> HIDE DEF new
    <3> QED
      BY <1>0, <2>1, <2>2, WrittenType
  <2>4. row' \in [Runs -> Row]
    BY <1>0, <1>2, <2>3 DEF RecoverWrite
  <2>5. IsWorker(worker')
    BY <1>2, IdleType, FreshType DEF RecoverWrite, Dies, Looping
  <2>6. failures' \in 0..MaxFailures
    BY <1>2, FailuresType DEF RecoverWrite
  <2> QED
    BY <1>2, <2>4, <2>5, <2>6 DEF TypeOK, RecoverWrite
<1>3. ASSUME ClaimRead
      PROVE  TypeOK'
  <2>1. IsWorker(worker')
    <3>1. CASE To("wait")
      <4>1. Ready("wait", worker.run, worker.seen)
        BY <1>0 DEF Ready, IsWorker, WorkerPcs
      <4> QED
        BY <1>0, <3>1, <4>1, WorkerMoves DEF To
    <3>2. ASSUME NEW r \in Runs, worker' = [worker EXCEPT !.pc = "update", !.run = r]
          PROVE  IsWorker(worker')
      <4>1. "update" \in WorkerPcs
        BY DEF WorkerPcs
      <4>2. worker' \in [pc : WorkerPcs, run : {0} \cup Runs, seen : {worker'.seen}, ref : Refs, fwd : BOOLEAN]
            /\ worker'.seen = worker.seen /\ worker'.run = r /\ worker'.pc = "update"
        BY <1>0, <3>2, <4>1 DEF IsWorker
      <4> QED
        BY <1>0, <4>2 DEF IsWorker
    <3> QED
      BY <1>3, <3>1, <3>2 DEF ClaimRead, Candidates
  <2> QED
    BY <1>3, <2>1 DEF TypeOK, ClaimRead
<1>4. ASSUME ClaimUpdate
      PROVE  TypeOK'
  <2>1. worker.run \in Runs /\ row[worker.run] \in Row
    BY <1>0, <1>4 DEF ClaimUpdate, IsWorker
  <2>2. ASSUME NEW o \in Row
        PROVE  Claimed(o) \in Row
    <3>1. o.att + 1 \in Nat
      BY DEF Row
    <3> QED
      BY <3>1 DEF Claimed, Row, Active
  <2>3. row' \in [Runs -> Row]
    BY <1>0, <1>4, <2>1, <2>2 DEF ClaimUpdate
  <2>4. IsWorker(worker')
    <3>1. Ready("exec", worker.run, worker.seen)
      BY <1>0, <2>1 DEF Ready, IsWorker, WorkerPcs
    <3>2. IsWorker([worker EXCEPT !.pc = "exec"])
      BY <1>0, <3>1, WorkerMoves
    <3> QED
      BY <1>4, <3>2, FreshType DEF ClaimUpdate, To, Looping
  <2>5. failures' \in 0..MaxFailures
    BY <1>4, FailuresType DEF ClaimUpdate
  <2> QED
    BY <1>4, <2>3, <2>4, <2>5 DEF TypeOK, ClaimUpdate
<1>5. ASSUME WaitRead
      PROVE  TypeOK'
  <2>1. IsWorker(worker')
    BY <1>0, <1>5 DEF WaitRead, To, IsWorker, WorkerPcs
  <2> QED
    BY <1>5, <2>1 DEF TypeOK, WaitRead
<1>6. ASSUME Leave
      PROVE  TypeOK'
  <2>1. IsWorker(worker')
    BY <1>0, <1>6 DEF Leave, To, IsWorker, WorkerPcs
  <2> QED
    BY <1>6, <2>1 DEF TypeOK, Leave
<1> QED
  BY <1>1, <1>2, <1>3, <1>4, <1>5, <1>6 DEF Drains

\* The scheduler thread's recovery keeps the types.
LEMMA BootsType ==
  ASSUME TypeOK, Boots \/ SchedulerWake
  PROVE  TypeOK'
<1>0. /\ IsBoot(boot) /\ row \in [Runs -> Row] /\ Loaded(boot.seen)
      /\ sync \in [SyncIds -> SyncStates]
  BY DEF TypeOK, IsBoot
<1>1. ASSUME BootRead
      PROVE  TypeOK'
  <2>1. Loaded([r \in {x \in Runs : row[x].st \in Active} |-> row[r]])
    BY <1>0, LoadManyType
  <2>2. IsBoot(boot')
    BY <1>1, <2>1 DEF BootRead, IsBoot
  <2> QED
    BY <1>1, <2>2 DEF TypeOK, BootRead
<1>2. ASSUME BootClose
      PROVE  TypeOK'
  <2> DEFINE new == [r \in DOMAIN boot.seen |-> Reconciled(boot.seen[r])]
  <2>1. ASSUME NEW o \in Row
        PROVE  Reconciled(o) \in Row
    BY DEF Reconciled, Row, Terminal
  <2>2. \A r \in DOMAIN boot.seen : new[r] \in Row
    BY <1>0, <2>1 DEF Loaded
  <2>3. Written(boot.seen, new) \in [Runs -> Row]
    <3> HIDE DEF new
    <3> QED
      BY <1>0, <2>2, WrittenType
  <2>4. row' \in [Runs -> Row]
    BY <1>0, <1>2, <2>3 DEF BootClose
  <2>5. IsBoot(boot')
    BY <1>2, NoRowsLoaded DEF BootClose, BootTo, IsBoot
  <2>6. failures' \in 0..MaxFailures
    BY <1>2, FailuresType DEF BootClose, Refused
  <2> QED
    BY <1>2, <2>4, <2>5, <2>6 DEF TypeOK, BootClose
<1>3. ASSUME BootOrphans
      PROVE  TypeOK'
  <2>1. Orphaned \in [SyncIds -> SyncStates]
    BY <1>0 DEF Orphaned, SyncStates, Terminal
  <2>2. sync' \in [SyncIds -> SyncStates]
    BY <1>0, <1>3, <2>1 DEF BootOrphans
  <2>3. IsBoot(boot')
    BY <1>3, NoRowsLoaded DEF BootOrphans, BootTo, IsBoot
  <2>4. failures' \in 0..MaxFailures
    BY <1>3, FailuresType DEF BootOrphans
  <2> QED
    BY <1>3, <2>2, <2>3, <2>4 DEF TypeOK, BootOrphans
<1>4. ASSUME BootForce
      PROVE  TypeOK'
  <2>1. Loaded([r \in Recoverable(TRUE) |-> row[r]])
    BY <1>0, LoadManyType DEF Recoverable
  <2>2. IsBoot(boot')
    BY <1>4, <2>1 DEF BootForce, IsBoot
  <2> QED
    BY <1>4, <2>2 DEF TypeOK, BootForce
<1>5. ASSUME BootRecover
      PROVE  TypeOK'
  <2> DEFINE new == [r \in DOMAIN boot.seen |-> Recovered(boot.seen[r])]
  <2>1. \A r \in DOMAIN boot.seen : new[r] \in Row
    BY <1>0, RewrittenType DEF Loaded
  <2>2. Written(boot.seen, new) \in [Runs -> Row]
    <3> HIDE DEF new
    <3> QED
      BY <1>0, <2>1, WrittenType
  <2>3. row' \in [Runs -> Row]
    BY <1>0, <1>5, <2>2 DEF BootRecover
  <2>4. IsBoot(boot')
    BY <1>5, NoRowsLoaded DEF BootRecover, BootTo, IsBoot
  <2>5. failures' \in 0..MaxFailures
    BY <1>5, FailuresType DEF BootRecover, Refused
  <2> QED
    BY <1>5, <2>3, <2>4, <2>5 DEF TypeOK, BootRecover
<1>6. ASSUME BootWake
      PROVE  TypeOK'
  <2>1. IsWorker(worker') /\ wakePending' \in BOOLEAN
    BY <1>6, WakeType DEF BootWake
  <2>2. IsBoot(boot')
    BY <1>6, NoRowsLoaded DEF BootWake, BootTo, IsBoot
  <2> QED
    BY <1>6, <2>1, <2>2 DEF TypeOK, BootWake
<1>7. ASSUME SchedulerWake
      PROVE  TypeOK'
  <2>1. IsWorker(worker') /\ wakePending' \in BOOLEAN
    BY <1>7, WakeType DEF SchedulerWake
  <2> QED
    BY <1>7, <2>1 DEF TypeOK, SchedulerWake
<1> QED
  BY <1>1, <1>2, <1>3, <1>4, <1>5, <1>6, <1>7 DEF Boots

\* A run handed to an executor or a synchronization keeps the types.
LEMMA DispatchType ==
  ASSUME TypeOK, Dispatch
  PROVE  TypeOK'
<1> DEFINE k == Kind[worker.seen[worker.run].job]
<1>0. IsWorker(worker) /\ worker.pc = "dispatch"
  BY DEF TypeOK, Dispatch
<1>1. ASSUME DispatchFails
      PROVE  IsWorker(worker')
  BY <1>0, <1>1, NoRowsLoaded DEF DispatchFails, IsWorker, WorkerPcs
<1>2. ASSUME NEW ref \in Refs, Dispatched(ref)
      PROVE  IsWorker(worker')
  BY <1>0, <1>2 DEF Dispatched, IsWorker, WorkerPcs
<1>3. CASE k = "sync"
  <2>1. CASE DispatchFails /\ UNCHANGED <<row, wakePending, web, boot, failures>>
    BY <1>1, <2>1 DEF TypeOK, DispatchFails
  <2>2. ASSUME NEW s \in SyncIds, NewSync(s), Dispatched([kind |-> "sync", id |-> s]),
               UNCHANGED ex, UNCHANGED <<row, wakePending, web, boot, failures>>
        PROVE  TypeOK'
    <3>1. [NoSync EXCEPT !.st = "queued", !.live = TRUE] \in SyncStates
      BY DEF NoSync, SyncStates, Active
    <3>2. sync' \in [SyncIds -> SyncStates]
      BY <2>2, <3>1 DEF NewSync, TypeOK
    <3>3. [kind |-> "sync", id |-> s] \in Refs
      BY DEF Refs
    <3>4. IsWorker(worker')
      BY <1>2, <2>2, <3>3
    <3> QED
      BY <2>2, <3>2, <3>4 DEF TypeOK
  <2> QED
    BY <1>3, <2>1, <2>2, ExecKindsType DEF Dispatch
<1>4. CASE k = "inline"
  <2>1. [kind |-> k, id |-> 0] \in Refs
    BY <1>4 DEF Refs
  <2>2. /\ Dispatched([kind |-> k, id |-> 0])
        /\ UNCHANGED <<ex, sync, row, wakePending, web, boot, failures>>
    BY <1>4, ExecKindsType DEF Dispatch
  <2>3. IsWorker(worker')
    BY <1>2, <2>1, <2>2
  <2> QED
    BY <2>2, <2>3 DEF TypeOK
<1>5. CASE k \in ExecKinds
  <2>1. [kind |-> k, id |-> 0] \in Refs
    BY <1>5, ExecKindsType DEF Refs
  <2>2. CASE DispatchFails /\ UNCHANGED <<row, wakePending, web, boot, failures>>
    BY <1>1, <2>2 DEF TypeOK, DispatchFails
  <2>3. CASE /\ ex' = [ex EXCEPT ![k] = Started(ex[k], worker.run)]
             /\ Dispatched([kind |-> k, id |-> 0])
             /\ UNCHANGED <<sync, row, wakePending, web, boot, failures>>
    <3>1. worker.run \in Runs /\ ex[k] \in ExecStates
      BY <1>0, <1>5 DEF IsWorker, TypeOK
    <3>2. Started(ex[k], worker.run) \in ExecStates
      BY <3>1 DEF Started, ExecStates
    <3>3. ex' \in [ExecKinds -> ExecStates]
      BY <1>5, <2>3, <3>2 DEF TypeOK
    <3>4. IsWorker(worker')
      BY <1>2, <2>1, <2>3
    <3> QED
      BY <2>3, <3>3, <3>4 DEF TypeOK
  <2> QED
    BY <1>5, <2>2, <2>3, ExecKindsType DEF Dispatch
<1> QED
  BY <1>3, <1>4, <1>5 DEF Dispatch

\* The executors, the synchronizations and the clock keep the types.
LEMMA WorksType ==
  ASSUME TypeOK, Works \/ Time
  PROVE  TypeOK'
<1>0. ex \in [ExecKinds -> ExecStates] /\ sync \in [SyncIds -> SyncStates]
  BY DEF TypeOK
<1>1. ASSUME NEW k \in ExecKinds, NEW r \in Runs, ExecutorEnds(k, r)
      PROVE  TypeOK'
  <2>1. \A o \in Outcomes(k) : o \in {"ok", "failed", "cancelled"}
    BY DEF Outcomes
  <2>2. Cleared(ex[k]) \in ExecStates /\ ex[k].work \in SUBSET Runs /\ ex[k].tail \in SUBSET Runs
    BY <1>0 DEF Cleared, ExecStates
  <2>3. ASSUME NEW o \in Outcomes(k), NEW T \in SUBSET Runs
        PROVE  [Cleared(ex[k]) EXCEPT !.out = o, !.work = ex[k].work \ {r}, !.tail = T]
                 \in ExecStates
    BY <2>1, <2>2 DEF ExecStates
  <2>4. ex[k].tail \cup {x \in {r} : k = "images"} \in SUBSET Runs
    BY <2>2
  <2>5. ex' \in [ExecKinds -> ExecStates]
    <3> DEFINE T == ex[k].tail \cup {x \in {r} : k = "images"}
               After(o) == [Cleared(ex[k]) EXCEPT !.out = o, !.work = ex[k].work \ {r}, !.tail = T]
    <3>1. PICK o \in Outcomes(k) : ex' = [ex EXCEPT ![k] = After(o)]
      BY <1>1 DEF ExecutorEnds
    <3>2. After(o) \in ExecStates
      BY <2>3, <2>4
    <3> HIDE DEF After
    <3> QED
      BY <1>0, <3>1, <3>2
  <2> QED
    BY <1>1, <2>5 DEF TypeOK, ExecutorEnds
<1>2. ASSUME NEW r \in Runs, ImageThreadExits(r)
      PROVE  TypeOK'
  <2>1. ex["images"] \in ExecStates
    BY <1>0, <1>2 DEF ImageThreadExits
  <2>2. [Cleared(ex["images"]) EXCEPT !.tail = ex["images"].tail \ {r}] \in ExecStates
    BY <2>1 DEF Cleared, ExecStates
  <2>3. ex' \in [ExecKinds -> ExecStates]
    BY <1>0, <1>2, <2>2 DEF ImageThreadExits
  <2> QED
    BY <1>2, <2>3 DEF TypeOK, ImageThreadExits
<1>3. ASSUME NEW k \in ExecKinds, ExternalStart(k)
      PROVE  TypeOK'
  <2>1. TakenOutside(k) \in ExecStates
    BY <1>0 DEF TakenOutside, ExecStates
  <2>2. ex' \in [ExecKinds -> ExecStates]
    BY <1>0, <1>3, <2>1 DEF ExternalStart
  <2> QED
    BY <1>3, <2>2 DEF TypeOK, ExternalStart
<1>4. ASSUME NEW k \in ExecKinds, ExternalEnds(k)
      PROVE  TypeOK'
  <2>1. ex[k].out \in {"ok", "failed", "cancelled"}
    BY <1>0 DEF ExecStates
  <2>2. ASSUME NEW o \in {"ok", "failed", "cancelled"}
        PROVE  [ex[k] EXCEPT !.busy = FALSE, !.ext = FALSE, !.out = o,
                             !.active = ex[k].active /\ k = "watch"] \in ExecStates
    BY <1>0 DEF ExecStates
  <2>o. Outcomes(k) \subseteq {"ok", "failed", "cancelled"}
    BY DEF Outcomes
  <2>3. ex' \in [ExecKinds -> ExecStates]
    <3>1. PICK o \in {"ok", "failed", "cancelled"} :
            ex' = [ex EXCEPT ![k] = [ex[k] EXCEPT !.busy = FALSE, !.ext = FALSE, !.out = o,
                                                  !.active = ex[k].active /\ k = "watch"]]
      BY <1>4, <2>1, <2>o DEF ExternalEnds
    <3>2. [ex[k] EXCEPT !.busy = FALSE, !.ext = FALSE, !.out = o,
                        !.active = ex[k].active /\ k = "watch"] \in ExecStates
      BY <2>2
    <3> QED
      BY <1>0, <3>1, <3>2
  <2> QED
    BY <1>4, <2>3 DEF TypeOK, ExternalEnds
<1>p. ASSUME PageCancel
      PROVE  TypeOK'
  <2>1. [ex["metadata"] EXCEPT !.cancel = TRUE] \in ExecStates
    BY <1>0, <1>p DEF PageCancel, ExecStates
  <2>2. ex' \in [ExecKinds -> ExecStates]
    BY <1>0, <1>p, <2>1 DEF PageCancel
  <2> QED
    BY <1>p, <2>2 DEF TypeOK, PageCancel
<1>5. ASSUME NEW s \in SyncIds, DirectSync(s)
      PROVE  TypeOK'
  <2>1. [NoSync EXCEPT !.st = "queued", !.live = TRUE] \in SyncStates
    BY DEF NoSync, SyncStates, Active
  <2>2. sync' \in [SyncIds -> SyncStates]
    BY <1>0, <1>5, <2>1 DEF DirectSync, NewSync
  <2> QED
    BY <1>5, <2>2 DEF TypeOK, DirectSync
<1>6. ASSUME NEW s \in SyncIds, SyncStarts(s)
      PROVE  TypeOK'
  <2>1. sync' \in [SyncIds -> SyncStates]
    BY <1>0, <1>6 DEF SyncStarts, SyncStates, NoSync, Active
  <2> QED
    BY <1>6, <2>1 DEF TypeOK, SyncStarts
<1>7. ASSUME NEW s \in SyncIds, SyncEnds(s)
      PROVE  TypeOK'
  <2>1. ASSUME NEW st \in {"absent"} \cup Active \cup Terminal
        PROVE  [NoSync EXCEPT !.st = st] \in SyncStates
    BY DEF NoSync, SyncStates
  <2>2. sync[s].st \in {"absent"} \cup Active \cup Terminal
    BY <1>0 DEF SyncStates
  <2>3. sync' \in [SyncIds -> SyncStates]
    BY <1>0, <1>7, <2>1, <2>2 DEF SyncEnds, Terminal
  <2>4. failures' \in 0..MaxFailures
    BY <1>7, FailuresType DEF SyncEnds
  <2> QED
    BY <1>7, <2>3, <2>4 DEF TypeOK, SyncEnds
<1>8. ASSUME NEW r \in Runs, LeaseExpires(r)
      PROVE  TypeOK'
  <2>1. [row[r] EXCEPT !.exp = "past"] \in Row
    BY DEF TypeOK, Row
  <2>2. row' \in [Runs -> Row]
    BY <1>8, <2>1 DEF TypeOK, LeaseExpires
  <2> QED
    BY <1>8, <2>2 DEF TypeOK, LeaseExpires
<1>9. ASSUME NEW r \in Runs, BackoffElapses(r)
      PROVE  TypeOK'
  <2>1. [row[r] EXCEPT !.ready = TRUE] \in Row
    BY DEF TypeOK, Row
  <2>2. row' \in [Runs -> Row]
    BY <1>9, <2>1 DEF TypeOK, BackoffElapses
  <2> QED
    BY <1>9, <2>2 DEF TypeOK, BackoffElapses
<1> QED
  BY <1>1, <1>2, <1>3, <1>4, <1>p, <1>5, <1>6, <1>7, <1>8, <1>9 DEF Works, Time

\* A process death keeps the types, with or without the entrypoint's recovery.
LEMMA CrashType ==
  ASSUME TypeOK, Crash
  PROVE  TypeOK'
<1>1. \A r \in Runs : Abandoned[r] \in Row
  BY DEF TypeOK, Row, Abandoned
<1>2. row' \in [Runs -> Row]
  <2>1. \A r \in Runs : Recovered(Abandoned[r]) \in Row
    BY <1>1, RewrittenType
  <2>2. Abandoned \in [Runs -> Row]
    BY <1>1 DEF Abandoned
  <2> QED
    BY <1>1, <2>1, <2>2 DEF Crash
<1>3. sync' \in [SyncIds -> SyncStates]
  <2>1. ASSUME NEW z, \A s \in SyncIds : z[s].st \in {"absent"} \cup Active \cup Terminal
        PROVE  Stopped(z) \in [SyncIds -> SyncStates]
    BY <2>1 DEF Stopped, NoSync, SyncStates
  <2>2. \A s \in SyncIds : /\ sync[s].st \in {"absent"} \cup Active \cup Terminal
                           /\ Orphaned[s].st \in {"absent"} \cup Active \cup Terminal
    BY DEF TypeOK, Orphaned, SyncStates, Terminal
  <2> QED
    BY <2>1, <2>2 DEF Crash
<1>4. web' = [t \in Threads |-> web'[t]] /\ \A t \in Threads : IsThread(web'[t])
  BY IdleType DEF Crash
<1>5. ex' \in [ExecKinds -> ExecStates]
  BY DEF Crash, IdleExecutor, ExecStates
<1>6. IsBoot(boot')
  BY NoRowsLoaded DEF Crash, IsBoot
<1>7. failures' \in 0..MaxFailures
  BY BoundsAssumption DEF TypeOK, Crash
<1> QED
  BY <1>2, <1>3, <1>4, <1>5, <1>6, <1>7, IdleType DEF TypeOK, Crash

\* What the executor of a run reports is a final status.
LEMMA ReportedType ==
  ASSUME TypeOK, NEW ref \in Refs, ~StillActive(ref)
  PROVE  Reported(ref) \in {"absent"} \cup Terminal
<1>1. CASE ref.kind = "sync"
  <2>1. ref.id \in SyncIds
    BY <1>1 DEF Refs
  <2> QED
    BY <1>1, <2>1 DEF TypeOK, SyncStates, StillActive, Reported
<1>2. CASE ref.kind # "sync"
  BY <1>2 DEF Reported, Terminal
<1> QED
  BY <1>1, <1>2

\* Executing a claimed run keeps the types.
LEMMA ExecutesType ==
  ASSUME TypeOK, Executes
  PROVE  TypeOK'
<1>0. IsWorker(worker) /\ row \in [Runs -> Row] /\ Loaded(worker.seen) /\ worker.ref \in Refs
  BY DEF TypeOK, IsWorker
<1>1. ASSUME worker.pc \in {"close", "saveRef", "report", "inlineEnd", "retry"}
      PROVE  /\ worker.run \in Runs
             /\ DOMAIN worker.seen = {worker.run}
             /\ worker.seen[worker.run] \in Row
  BY <1>0, <1>1 DEF IsWorker, Loaded
<1>2. ASSUME ExecRead
      PROVE  TypeOK'
  <2>1. worker.run \in Runs
    BY <1>0, <1>2 DEF ExecRead, IsWorker
  <2>2. IsWorker(worker')
    BY <1>0, <1>2, <2>1, LoadType DEF ExecRead, IsWorker, WorkerPcs
  <2> QED
    BY <1>2, <2>2 DEF TypeOK, ExecRead
<1>3. ASSUME CloseCancelled
      PROVE  TypeOK'
  <2> DEFINE o == worker.seen[worker.run]
  <2>1. worker.run \in Runs /\ o \in Row /\ Interrupted(o) \in Row
    BY <1>1, <1>3, RewrittenType DEF CloseCancelled
  <2>2. WorkerWrites(o, Interrupted(o), "check")
    BY <1>3 DEF CloseCancelled
  <2>3. row' \in [Runs -> Row] /\ IsWorker(worker') /\ failures' \in 0..MaxFailures
    <3> HIDE DEF o
    <3> QED
      BY <2>1, <2>2, WorkerWritesType
  <2> QED
    BY <1>3, <2>3 DEF TypeOK, CloseCancelled
<1>4. ASSUME SaveRef
      PROVE  TypeOK'
  <2> DEFINE o == worker.seen[worker.run]
             next == IF worker.ref.kind = "inline" THEN "inline" ELSE "monitor"
  <2>1. worker.run \in Runs /\ o \in Row
    BY <1>1, <1>4 DEF SaveRef
  <2>2. [o EXCEPT !.ref = worker.ref] \in Row
    BY <1>0, <2>1 DEF Row
  <2>3. WorkerWrites(o, [o EXCEPT !.ref = worker.ref], next)
    BY <1>4 DEF SaveRef
  <2>4. row' \in [Runs -> Row] /\ IsWorker(worker') /\ failures' \in 0..MaxFailures
    <3> next \in {"check", "inline", "monitor"}
      OBVIOUS
    <3> HIDE DEF o, next
    <3> QED
      BY <2>1, <2>2, <2>3, WorkerWritesType
  <2> QED
    BY <1>4, <2>4 DEF TypeOK, SaveRef
<1>5. ASSUME MonitorRead
      PROVE  TypeOK'
  <2>1. worker.run \in Runs /\ row[worker.run].cancel \in BOOLEAN
    BY <1>0, <1>5 DEF MonitorRead, IsWorker, Row
  <2>2. IsWorker(worker')
    <3>1. CASE worker' = [worker EXCEPT !.pc = "check"]
      <4>1. Ready("check", worker.run, worker.seen)
        BY <1>0, <2>1 DEF Ready, IsWorker, WorkerPcs
      <4> QED
        BY <1>0, <3>1, <4>1, WorkerMoves
    <3>2. ASSUME NEW b \in BOOLEAN,
                 worker' = [worker EXCEPT !.pc = "report", !.seen = Load(worker.run), !.fwd = b]
          PROVE  IsWorker(worker')
      <4>1. Loaded(Load(worker.run)) /\ DOMAIN Load(worker.run) = {worker.run}
        BY <1>0, <2>1, LoadType
      <4>2. Ready("report", worker.run, Load(worker.run))
        BY <2>1, <4>1 DEF Ready, WorkerPcs
      <4> QED
        BY <1>0, <3>2, <4>2, WorkerMoves
    <3>3. worker.fwd \in BOOLEAN
      BY <1>0 DEF IsWorker
    <3> QED
      BY <1>5, <2>1, <3>1, <3>2, <3>3 DEF MonitorRead, To
  <2>3. ex' \in [ExecKinds -> ExecStates] /\ sync' \in [SyncIds -> SyncStates]
    BY <1>0, <1>5, CancelReferenceType DEF MonitorRead, TypeOK
  <2> QED
    BY <1>5, <2>2, <2>3 DEF TypeOK, MonitorRead
<1>6. ASSUME MonitorProgress
      PROVE  TypeOK'
  <2> DEFINE o == worker.seen[worker.run]
             stale == [o EXCEPT !.exp = "none"]
             new == [o EXCEPT !.st = "running", !.exp = "future"]
  <2>1. worker.run \in Runs /\ o \in Row
    BY <1>1, <1>6 DEF MonitorProgress
  <2>2. stale \in Row /\ new \in Row
    BY <2>1 DEF Row, Active
  <2>3. Written(One(worker.run, stale), One(worker.run, new)) \in [Runs -> Row]
    BY <1>0, <2>1, <2>2, WrittenOneType
  <2>4. row' \in [Runs -> Row]
    BY <1>0, <1>6, <2>3 DEF MonitorProgress
  <2>5. IsWorker(worker')
    BY <1>0, <1>6 DEF MonitorProgress, To, IsWorker, WorkerPcs
  <2>6. failures' \in 0..MaxFailures
    BY <1>6, FailuresType DEF MonitorProgress
  <2> QED
    BY <1>6, <2>4, <2>5, <2>6 DEF TypeOK, MonitorProgress
<1>7. ASSUME MonitorFinish
      PROVE  TypeOK'
  <2> DEFINE o == worker.seen[worker.run]
             st == IF o.cancel THEN "interrupted" ELSE Reported(worker.ref)
             new == [o EXCEPT !.st = st, !.lease = "none", !.exp = "none"]
  <2>1. worker.run \in Runs /\ o \in Row
    BY <1>1, <1>7 DEF MonitorFinish
  <2>2. st \in {"absent"} \cup Terminal
    BY <1>0, <1>7, ReportedType DEF MonitorFinish, Terminal
  <2>3. new \in Row
    <3> HIDE DEF st
    <3> QED
      BY <2>1, <2>2 DEF Row
  <2>4. Written(One(worker.run, o), One(worker.run, new)) \in [Runs -> Row]
    BY <1>0, <2>1, <2>3, WrittenOneType
  <2>5. row' \in [Runs -> Row]
    BY <1>0, <1>7, <2>4 DEF MonitorFinish
  <2>6. IsWorker(worker')
    BY <1>0, <1>7, NoRowsLoaded DEF MonitorFinish, To, IsWorker, WorkerPcs
  <2>7. failures' \in 0..MaxFailures
    BY <1>7, FailuresType DEF MonitorFinish
  <2> QED
    BY <1>7, <2>5, <2>6, <2>7 DEF TypeOK, MonitorFinish
<1>8. ASSUME NEW jobs
      PROVE  Rotated(jobs) \in [Runs -> Row]
  <2>1. [AbsentRow EXCEPT !.st = "deleted"] \in Row
    BY AbsentRowType DEF Row
  <2> QED
    BY <1>0, <2>1 DEF Rotated
<1>9. ASSUME Rotate
      PROVE  TypeOK'
  <2>1. row' \in [Runs -> Row]
    BY <1>0, <1>8, <1>9 DEF Rotate
  <2>2. IsWorker(worker')
    BY <1>0, <1>9 DEF Rotate, To, IsWorker, WorkerPcs
  <2>3. failures' \in 0..MaxFailures
    BY <1>9, FailuresType DEF Rotate
  <2> QED
    BY <1>9, <2>1, <2>2, <2>3 DEF TypeOK, Rotate
<1>10. ASSUME InlineRead
       PROVE  TypeOK'
  <2>1. worker.run \in Runs
    BY <1>0, <1>10 DEF InlineRead, IsWorker
  <2>2. IsWorker(worker')
    BY <1>0, <1>10, <2>1, LoadType DEF InlineRead, IsWorker, WorkerPcs
  <2> QED
    BY <1>10, <2>2 DEF TypeOK, InlineRead
<1>11. ASSUME InlineWork
       PROVE  TypeOK'
  <2>1. worker.run \in Runs
    BY <1>0, <1>11 DEF InlineWork, IsWorker
  <2>2. row' \in [Runs -> Row]
    BY <1>0, <1>8, <1>11 DEF InlineWork
  <2>3. ASSUME NEW o \in Row
        PROVE  Loaded(One(worker.run, o)) /\ DOMAIN One(worker.run, o) = {worker.run}
    BY <2>1 DEF Loaded, One
  <2>4. \/ worker' = [worker EXCEPT !.pc = "check", !.seen = NoRows]
        \/ worker' = [worker EXCEPT !.pc = "inlineEnd",
                                    !.seen = One(worker.run, row'[worker.run])]
    BY <1>11 DEF InlineWork
  <2>5. IsWorker(worker')
    <3>1. CASE worker' = [worker EXCEPT !.pc = "check", !.seen = NoRows]
      BY <1>0, <2>1, <3>1, NoRowsLoaded DEF IsWorker, WorkerPcs
    <3>2. CASE worker' = [worker EXCEPT !.pc = "inlineEnd",
                                        !.seen = One(worker.run, row'[worker.run])]
      <4> DEFINE s == One(worker.run, row'[worker.run])
      <4>1. Loaded(s) /\ DOMAIN s = {worker.run}
        BY <2>1, <2>2, <2>3
      <4> HIDE DEF s
      <4> QED
        BY <1>0, <2>1, <3>2, <4>1 DEF s, IsWorker, WorkerPcs
    <3> QED
      BY <2>4, <3>1, <3>2
  <2>6. failures' \in 0..MaxFailures
    BY <1>11, FailuresType DEF InlineWork
  <2> QED
    BY <1>11, <2>2, <2>5, <2>6 DEF TypeOK, InlineWork
<1>12. ASSUME InlineEnd
       PROVE  TypeOK'
  <2> DEFINE o == worker.seen[worker.run]
  <2>1. worker.run \in Runs /\ o \in Row
    BY <1>1, <1>12 DEF InlineEnd
  <2>2. PICK st \in {"succeeded", "failed"} :
          WorkerWrites(o, [o EXCEPT !.st = st, !.lease = "none", !.exp = "none"], "check")
    BY <1>12 DEF InlineEnd
  <2>3. [o EXCEPT !.st = st, !.lease = "none", !.exp = "none"] \in Row
    BY <2>1 DEF Row, Terminal
  <2>4. row' \in [Runs -> Row] /\ IsWorker(worker') /\ failures' \in 0..MaxFailures
    <3> HIDE DEF o
    <3> QED
      BY <2>1, <2>2, <2>3, WorkerWritesType
  <2> QED
    BY <1>12, <2>4 DEF TypeOK, InlineEnd
<1>13. ASSUME Check
       PROVE  TypeOK'
  <2>1. IsWorker(worker')
    <3>1. CASE worker' = [worker EXCEPT !.pc = "fail", !.seen = NoRows]
      <4>1. worker.pc = "check"
        BY <1>13 DEF Check
      <4>2. worker.run \in Runs
        BY <1>0, <4>1 DEF IsWorker
      <4> QED
        <5>1. Ready("fail", worker.run, NoRows)
          BY <4>2, NoRowsLoaded DEF Ready, WorkerPcs
        <5> QED
          BY <1>0, <3>1, <5>1, WorkerMoves
    <3>2. CASE worker' = [NoWorker EXCEPT !.pc = "drain"]
      BY <3>2, FreshType
    <3> QED
      BY <1>13, <3>1, <3>2 DEF Check, Looping
  <2> QED
    BY <1>13, <2>1 DEF TypeOK, Check
<1>14. ASSUME FailRead
       PROVE  TypeOK'
  <2>1. worker.run \in Runs
    BY <1>0, <1>14 DEF FailRead, IsWorker
  <2>2. IsWorker(worker')
    <3>1. CASE Looping
      BY <3>1, NoRowsLoaded, RefsType DEF Looping, NoWorker, IsWorker, WorkerPcs
    <3>2. CASE worker' = [worker EXCEPT !.pc = "retry", !.seen = Load(worker.run)]
      BY <1>0, <2>1, <3>2, LoadType DEF IsWorker, WorkerPcs
    <3> QED
      BY <1>14, <3>1, <3>2 DEF FailRead
  <2> QED
    BY <1>14, <2>2 DEF TypeOK, FailRead
<1>15. ASSUME RetryWrite
       PROVE  TypeOK'
  <2> DEFINE r == worker.run
             new == One(r, Retried(worker.seen[r]))
  <2>1. DOMAIN worker.seen = {r} /\ worker.seen[r] \in Row
    BY <1>1, <1>15 DEF RetryWrite
  <2>2. \A x \in DOMAIN worker.seen : new[x] \in Row
    BY <2>1, RewrittenType DEF One
  <2>3. Written(worker.seen, new) \in [Runs -> Row]
    <3> HIDE DEF new
    <3> QED
      BY <1>0, <2>2, WrittenType
  <2>4. row' \in [Runs -> Row]
    BY <1>0, <1>15, <2>3 DEF RetryWrite
  <2>5. IsWorker(worker')
    BY <1>15, IdleType, FreshType DEF RetryWrite, Looping, Dies
  <2>6. failures' \in 0..MaxFailures
    BY <1>15, FailuresType DEF RetryWrite, Refused
  <2> QED
    BY <1>15, <2>4, <2>5, <2>6 DEF TypeOK, RetryWrite
<1> QED
  BY <1>2, <1>3, <1>4, <1>5, <1>6, <1>7, <1>9, <1>10, <1>11, <1>12, <1>13, <1>14, <1>15,
     DispatchType DEF Executes

\* The initial state has the types.
LEMMA InitType == Init => TypeOK
<1> SUFFICES ASSUME Init PROVE TypeOK
  OBVIOUS
<1>1. row \in [Runs -> Row]
  BY AbsentRowType DEF Init
<1>2. web = [t \in Threads |-> web[t]] /\ \A t \in Threads : IsThread(web[t])
  BY IdleType DEF Init
<1>3. IsBoot(boot)
  BY NoRowsLoaded DEF Init, IsBoot
<1>4. ex \in [ExecKinds -> ExecStates] /\ sync \in [SyncIds -> SyncStates]
  BY DEF Init, IdleExecutor, ExecStates, NoSync, SyncStates
<1>5. failures \in 0..MaxFailures
  BY BoundsAssumption DEF Init
<1> QED
  BY <1>1, <1>2, <1>3, <1>4, <1>5, IdleType DEF TypeOK, Init

\* Every step keeps the types.
LEMMA NextType == TypeOK /\ [Next]_vars => TypeOK'
<1> SUFFICES ASSUME TypeOK, [Next]_vars PROVE TypeOK'
  OBVIOUS
<1>1. CASE UNCHANGED vars
  BY <1>1 DEF vars, TypeOK
<1> QED
  BY <1>1, SubmitsType, CancelsType, DrainsType, ExecutesType, BootsType, WorksType, CrashType
  DEF Next

\* Every variable keeps its type: whatever interleaving of web, drain and scheduler
\* threads wrote them, rows stay rows and a writer has loaded the run it writes.
THEOREM TypeCorrect == Spec => []TypeOK
  BY InitType, NextType, PTL DEF Spec

-----------------------------------------------------------------------------
(* What one step may do to the rows.                                        *)

\* A stored cancellation request is still there after the step.
Keeps == \A r \in Runs : row[r].cancel /\ row[r].st # "absent"
                          => row'[r].cancel \/ row'[r].st = "deleted"

\* The step makes no run `running', and the drain thread takes up no run.
Quiet == /\ \A r \in Runs : row'[r].st = "running" => row[r].st = "running"
         /\ Busy' => Busy /\ worker'.run = worker.run

\* A row rewritten from what was loaded: it keeps the request, and is running
\* only if it was.
Milder(o, n) == /\ n \in Row
                /\ o.cancel => n.cancel
                /\ n.st = "running" => o.st = "running"

\* The rewritten forms of a row are all milder, those of the monitor excepted.
LEMMA RewrittenMilder ==
  ASSUME NEW o \in Row
  PROVE  /\ Milder(o, Interrupted(o)) /\ Milder(o, CancelRequested(o))
         /\ Milder(o, Recovered(o)) /\ Milder(o, Retried(o))
<1>0. \A now \in BOOLEAN : /\ Interrupted(o) \in Row /\ Failed(o) \in Row
                           /\ Requeued(o, now) \in Row /\ CancelRequested(o) \in Row
  BY RewrittenType
<1>1. Milder(o, Interrupted(o))
  BY <1>0 DEF Milder, Interrupted, Row
<1>2. Milder(o, Failed(o))
  BY <1>0 DEF Milder, Failed, Row
<1>3. ASSUME NEW now \in BOOLEAN PROVE Milder(o, Requeued(o, now))
  <2>1. Requeued(o, now).cancel = o.cancel /\ Requeued(o, now).st # "running"
    BY SMTT(30) DEF Requeued, Row
  <2> QED
    BY <1>0, <2>1 DEF Milder
<1>4. Milder(o, CancelRequested(o))
  <2>1. CancelRequested(o).cancel = TRUE
    BY DEF CancelRequested, Interrupted, Row
  <2>2. CancelRequested(o).st = "running" => o.st = "running"
    BY DEF CancelRequested, Interrupted, Row
  <2> QED
    BY <1>0, <2>1, <2>2 DEF Milder
<1>5. Milder(o, Recovered(o))
  BY <1>1, <1>2, <1>3 DEF Recovered
<1>6. Milder(o, Retried(o))
  BY <1>1, <1>2, <1>3 DEF Retried
<1> QED
  BY <1>1, <1>4, <1>5, <1>6

\* A flush keeps what the code did not change in the loaded instance: this is
\* where the ORM's column-wise UPDATE matters.
LEMMA WrittenKeeps ==
  ASSUME row \in [Runs -> Row],
         NEW seen, Loaded(seen),
         NEW new, \A r \in DOMAIN seen : Milder(seen[r], new[r]),
         row' = Written(seen, new)
  PROVE  /\ Keeps
         /\ \A r \in Runs : row'[r].st = "running" => row[r].st = "running"
<1> SUFFICES ASSUME NEW r \in Runs
             PROVE  /\ row[r].cancel => row'[r].cancel
                    /\ row'[r].st = "running" => row[r].st = "running"
  BY DEF Keeps
<1>1. CASE r \in DOMAIN seen
  <2>1. row'[r] = Flushed(row[r], seen[r], new[r])
    BY <1>1 DEF Written
  <2>2. row[r].cancel \in BOOLEAN /\ seen[r].cancel \in BOOLEAN /\ new[r].cancel \in BOOLEAN
    BY <1>1 DEF Loaded, Row, Milder
  <2> QED
    BY <1>1, <2>1, <2>2 DEF Flushed, Dirty, Milder
<1>2. CASE r \notin DOMAIN seen
  BY <1>2 DEF Written
<1> QED
  BY <1>1, <1>2

\* The same for one row.
LEMMA WrittenOneKeeps ==
  ASSUME row \in [Runs -> Row],
         NEW r \in Runs, NEW old \in Row, NEW new, Milder(old, new),
         row' = Written(One(r, old), One(r, new))
  PROVE  /\ Keeps
         /\ \A x \in Runs : row'[x].st = "running" => row[x].st = "running"
<1>1. /\ Loaded(One(r, old)) /\ DOMAIN One(r, old) = {r}
      /\ One(r, old)[r] = old /\ One(r, new)[r] = new
  BY DEF Loaded, One
<1>2. \A x \in DOMAIN One(r, old) : Milder(One(r, old)[x], One(r, new)[x])
  BY <1>1
<1> QED
  BY <1>1, <1>2, WrittenKeeps

\* A step that leaves the table alone keeps every request.
LEMMA SameRowsKeep ==
  ASSUME UNCHANGED row
  PROVE  Keeps /\ \A x \in Runs : row'[x].st = "running" => row[x].st = "running"
  BY DEF Keeps

\* Writes of the drain thread's run.
LEMMA WorkerWritesKeeps ==
  ASSUME TypeOK, Busy, worker.run \in Runs,
         NEW old \in Row, NEW new, Milder(old, new), NEW next,
         WorkerWrites(old, new, next)
  PROVE  Keeps /\ Quiet
<1>1. /\ Keeps
      /\ \A x \in Runs : row'[x].st = "running" => row[x].st = "running"
  <2>1. CASE row' = Written(One(worker.run, old), One(worker.run, new))
    BY <2>1, WrittenOneKeeps DEF TypeOK
  <2>2. CASE UNCHANGED row
    BY <2>2, SameRowsKeep
  <2> QED
    BY <2>1, <2>2 DEF WorkerWrites
<1>2. worker'.run = worker.run
  BY DEF WorkerWrites, TypeOK, IsWorker
<1> QED
  BY <1>1, <1>2 DEF Quiet

\* Waking the drain thread gives it no run.
LEMMA WakeQuiet ==
  ASSUME TypeOK, Wake
  PROVE  Busy' => Busy /\ worker'.run = worker.run
  BY DEF TypeOK, IsWorker, Wake, Busy

\* The web threads' steps.
LEMMA WebKeeps ==
  ASSUME TypeOK, Submits \/ Cancels
  PROVE  Keeps /\ Quiet
<1>1. ASSUME NEW t \in Threads, NEW j \in Jobs, SubmitInsert(t, j)
      PROVE  Keeps /\ Quiet
  <2>1. PICK r \in Runs, m \in Limits :
          /\ row[r].st = "absent"
          /\ row' = [row EXCEPT ![r] = [AbsentRow EXCEPT !.job = j, !.st = "queued",
                                                         !.ready = TRUE, !.max = m]]
    BY <1>1 DEF SubmitInsert, NextId
  <2>2. [AbsentRow EXCEPT !.job = j, !.st = "queued", !.ready = TRUE, !.max = m].st = "queued"
    BY DEF AbsentRow
  <2>3. row'[r].st = "queued" /\ \A x \in Runs \ {r} : row'[x] = row[x]
    BY <2>1, <2>2 DEF TypeOK
  <2> QED
    BY <1>1, <2>1, <2>3 DEF Keeps, Quiet, SubmitInsert, Busy
<1>2. ASSUME NEW t \in Threads, SubmitWake(t)
      PROVE  Keeps /\ Quiet
  BY <1>2, SameRowsKeep, WakeQuiet DEF SubmitWake, Quiet, Busy
<1>3. ASSUME NEW t \in Threads, CancelWrite(t)
      PROVE  Keeps /\ Quiet
  <2> DEFINE r == web[t].run
             new == One(r, CancelRequested(web[t].seen[r]))
  <2>1. /\ Loaded(web[t].seen) /\ DOMAIN web[t].seen = {r} /\ web[t].seen[r] \in Row
        /\ new[r] = CancelRequested(web[t].seen[r])
    BY <1>3 DEF TypeOK, IsThread, CancelWrite, One, Loaded
  <2>2. \A x \in DOMAIN web[t].seen : Milder(web[t].seen[x], new[x])
    <3> HIDE DEF new
    <3> QED
      BY <2>1, RewrittenMilder
  <2>3. row' = Written(web[t].seen, new) \/ UNCHANGED row
    BY <1>3 DEF CancelWrite
  <2>4. Keeps /\ \A x \in Runs : row'[x].st = "running" => row[x].st = "running"
    <3> HIDE DEF new
    <3> QED
      BY <2>1, <2>2, <2>3, WrittenKeeps, SameRowsKeep DEF TypeOK
  <2> QED
    BY <1>3, <2>4 DEF CancelWrite, Quiet, Busy
<1>4. ASSUME NEW t \in Threads,
             CancelReload(t) \/ CancelForward(t) \/ \E r \in Runs : CancelRead(t, r)
      PROVE  Keeps /\ Quiet
  BY <1>4, SameRowsKeep DEF CancelRead, CancelReload, CancelForward, Quiet, Busy
<1> QED
  BY <1>1, <1>2, <1>3, <1>4 DEF Submits, Cancels

\* The scheduler thread's steps.
LEMMA BootsKeep ==
  ASSUME TypeOK, Boots \/ SchedulerWake
  PROVE  Keeps /\ Quiet
<1>0. row \in [Runs -> Row] /\ Loaded(boot.seen)
  BY DEF TypeOK, IsBoot
<1>1. ASSUME BootClose
      PROVE  Keeps /\ Quiet
  <2> DEFINE new == [r \in DOMAIN boot.seen |-> Reconciled(boot.seen[r])]
  <2>1. ASSUME NEW o \in Row
        PROVE  Milder(o, Reconciled(o))
    <3>1. CASE Reconciled(o) = o
      BY <3>1 DEF Milder
    <3>2. CASE /\ sync[o.ref.id].st \in Terminal
               /\ Reconciled(o) = [o EXCEPT !.st = sync[o.ref.id].st, !.lease = "none",
                                            !.exp = "none"]
      BY <3>2 DEF Milder, Row, Terminal
    <3> QED
      BY <3>1, <3>2 DEF Reconciled
  <2>2. \A r \in DOMAIN boot.seen : Milder(boot.seen[r], new[r])
    BY <1>0, <2>1 DEF Loaded
  <2>3. row' = Written(boot.seen, new) \/ UNCHANGED row
    BY <1>1 DEF BootClose
  <2>4. Keeps /\ \A x \in Runs : row'[x].st = "running" => row[x].st = "running"
    <3> HIDE DEF new
    <3>1. CASE row' = Written(boot.seen, new)
      BY <1>0, <2>2, <3>1, WrittenKeeps
    <3>2. CASE UNCHANGED row
      BY <3>2, SameRowsKeep
    <3> QED
      BY <2>3, <3>1, <3>2
  <2> QED
    BY <1>1, <2>4 DEF BootClose, Quiet, Busy
<1>2. ASSUME BootRecover
      PROVE  Keeps /\ Quiet
  <2> DEFINE new == [r \in DOMAIN boot.seen |-> Recovered(boot.seen[r])]
  <2>1. \A r \in DOMAIN boot.seen : Milder(boot.seen[r], new[r])
    BY <1>0, RewrittenMilder DEF Loaded
  <2>2. row' = Written(boot.seen, new) \/ UNCHANGED row
    BY <1>2 DEF BootRecover
  <2>3. Keeps /\ \A x \in Runs : row'[x].st = "running" => row[x].st = "running"
    <3> HIDE DEF new
    <3>1. CASE row' = Written(boot.seen, new)
      BY <1>0, <2>1, <3>1, WrittenKeeps
    <3>2. CASE UNCHANGED row
      BY <3>2, SameRowsKeep
    <3> QED
      BY <2>2, <3>1, <3>2
  <2> QED
    BY <1>2, <2>3 DEF BootRecover, Quiet, Busy
<1>3. ASSUME BootRead \/ BootOrphans \/ BootForce
      PROVE  Keeps /\ Quiet
  BY <1>3, SameRowsKeep DEF BootRead, BootOrphans, BootForce, Quiet, Busy
<1>4. ASSUME BootWake \/ SchedulerWake
      PROVE  Keeps /\ Quiet
  BY <1>4, SameRowsKeep, WakeQuiet DEF BootWake, SchedulerWake, Quiet
<1> QED
  BY <1>1, <1>2, <1>3, <1>4 DEF Boots

\* The drain thread's loop: only the claim makes a run running.
LEMMA DrainsKeep ==
  ASSUME TypeOK, Drains
  PROVE  Keeps /\ (Quiet \/ ClaimUpdate)
<1>0. row \in [Runs -> Row] /\ Loaded(worker.seen) /\ IsWorker(worker)
  BY DEF TypeOK, IsWorker
<1>1. ASSUME RecoverWrite
      PROVE  Keeps /\ Quiet
  <2> DEFINE new == [r \in DOMAIN worker.seen |-> Recovered(worker.seen[r])]
  <2>1. \A r \in DOMAIN worker.seen : Milder(worker.seen[r], new[r])
    BY <1>0, RewrittenMilder DEF Loaded
  <2>2. row' = Written(worker.seen, new) \/ UNCHANGED row
    BY <1>1 DEF RecoverWrite
  <2>3. Keeps /\ \A x \in Runs : row'[x].st = "running" => row[x].st = "running"
    <3> HIDE DEF new
    <3>1. CASE row' = Written(worker.seen, new)
      BY <1>0, <2>1, <3>1, WrittenKeeps
    <3>2. CASE UNCHANGED row
      BY <3>2, SameRowsKeep
    <3> QED
      BY <2>2, <3>1, <3>2
  <2>4. ~Busy'
    BY <1>1 DEF RecoverWrite, Looping, Dies, NoWorker, Busy
  <2> QED
    BY <2>3, <2>4 DEF Quiet
<1>2. ASSUME ClaimUpdate
      PROVE  Keeps
  <2>1. \A o \in Row : Claimed(o).cancel = o.cancel
    BY DEF Claimed, Row
  <2>2. \A r \in Runs : row'[r] = row[r] \/ row'[r] = Claimed(row[r])
    BY <1>0, <1>2 DEF ClaimUpdate
  <2> QED
    BY <1>0, <2>1, <2>2 DEF Keeps
<1>3. ASSUME DrainTop \/ ClaimRead \/ WaitRead \/ Leave
      PROVE  Keeps /\ Quiet
  <2>1. ~Busy'
    BY <1>0, <1>3 DEF DrainTop, ClaimRead, WaitRead, Leave, To, Busy, IsWorker
  <2>2. UNCHANGED row
    BY <1>3 DEF DrainTop, ClaimRead, WaitRead, Leave
  <2> QED
    BY <2>1, <2>2, SameRowsKeep DEF Quiet
<1> QED
  BY <1>1, <1>2, <1>3 DEF Drains

\* Rotation deletes rows or leaves them.
LEMMA RotatedKeeps ==
  ASSUME NEW jobs, row' = Rotated(jobs)
  PROVE  Keeps /\ \A x \in Runs : row'[x].st = "running" => row[x].st = "running"
<1>1. [AbsentRow EXCEPT !.st = "deleted"].st = "deleted"
  BY DEF AbsentRow
<1>2. \A x \in Runs : row'[x] = row[x] \/ row'[x].st = "deleted"
  BY <1>1 DEF Rotated
<1> QED
  BY <1>2 DEF Keeps

\* Executing a run: only the monitor's progress report writes `running', and only
\* on the run being executed.
LEMMA ExecutesKeep ==
  ASSUME TypeOK, Executes
  PROVE  Keeps /\ (Quiet \/ MonitorProgress)
<1>0. /\ row \in [Runs -> Row] /\ Loaded(worker.seen) /\ IsWorker(worker)
      /\ worker.ref \in Refs
  BY DEF TypeOK, IsWorker
<1>1. ASSUME worker.pc \in {"close", "saveRef", "report", "inlineEnd", "retry"}
      PROVE  /\ Busy /\ worker.run \in Runs
             /\ DOMAIN worker.seen = {worker.run}
             /\ worker.seen[worker.run] \in Row
  BY <1>0, <1>1 DEF IsWorker, Loaded, Busy
<1>2. ASSUME CloseCancelled
      PROVE  Keeps /\ Quiet
  <2> DEFINE o == worker.seen[worker.run]
  <2>1. o \in Row /\ Milder(o, Interrupted(o)) /\ WorkerWrites(o, Interrupted(o), "check")
    BY <1>1, <1>2, RewrittenMilder DEF CloseCancelled
  <2>2. Busy /\ worker.run \in Runs
    BY <1>1, <1>2 DEF CloseCancelled
  <2> HIDE DEF o
  <2> QED
    BY <2>1, <2>2, WorkerWritesKeeps
<1>3. ASSUME SaveRef
      PROVE  Keeps /\ Quiet
  <2> DEFINE o == worker.seen[worker.run]
             next == IF worker.ref.kind = "inline" THEN "inline" ELSE "monitor"
             new == [o EXCEPT !.ref = worker.ref]
  <2>1. o \in Row /\ Busy /\ worker.run \in Runs
    BY <1>1, <1>3 DEF SaveRef
  <2>2. Milder(o, new)
    <3> HIDE DEF o
    <3> QED
      BY <1>0, <2>1 DEF Milder, Row
  <2>3. WorkerWrites(o, new, next)
    BY <1>3 DEF SaveRef
  <2> HIDE DEF o, new, next
  <2> QED
    BY <2>1, <2>2, <2>3, WorkerWritesKeeps
<1>4. ASSUME MonitorProgress
      PROVE  Keeps
  <2> DEFINE r == worker.run
             o == worker.seen[r]
             stale == [o EXCEPT !.exp = "none"]
             new == [o EXCEPT !.st = "running", !.exp = "future"]
  <2>1. r \in Runs /\ o \in Row
    BY <1>1, <1>4 DEF MonitorProgress
  <2>2. /\ stale.cancel = o.cancel /\ new.cancel = o.cancel
    BY <2>1 DEF Row
  <2>3. row' = Written(One(r, stale), One(r, new)) \/ UNCHANGED row
    BY <1>4 DEF MonitorProgress
  <2>4. CASE row' = Written(One(r, stale), One(r, new))
    <3> HIDE DEF stale, new, o
    <3>1. row'[r] = Flushed(row[r], stale, new) /\ \A x \in Runs \ {r} : row'[x] = row[x]
      BY <2>1, <2>4 DEF Written, One
    <3>2. row'[r].cancel = row[r].cancel
      BY <2>2, <3>1 DEF Flushed, Dirty
    <3> QED
      BY <3>1, <3>2 DEF Keeps
  <2> QED
    BY <2>3, <2>4, SameRowsKeep
<1>5. ASSUME MonitorFinish
      PROVE  Keeps /\ Quiet
  <2> DEFINE r == worker.run
             o == worker.seen[r]
             st == IF o.cancel THEN "interrupted" ELSE Reported(worker.ref)
             new == [o EXCEPT !.st = st, !.lease = "none", !.exp = "none"]
  <2>1. r \in Runs /\ o \in Row /\ Busy
    BY <1>1, <1>5 DEF MonitorFinish
  <2>2. st \in {"absent"} \cup Terminal
    BY <1>0, <1>5, ReportedType DEF MonitorFinish, Terminal
  <2>3. Milder(o, new)
    <3> HIDE DEF st, o
    <3> QED
      BY <2>1, <2>2 DEF Milder, Row, Terminal
  <2>4. row' = Written(One(r, o), One(r, new)) \/ UNCHANGED row
    BY <1>5 DEF MonitorFinish
  <2>5. Keeps /\ \A x \in Runs : row'[x].st = "running" => row[x].st = "running"
    <3> HIDE DEF new, o
    <3> QED
      BY <1>0, <2>1, <2>3, <2>4, WrittenOneKeeps, SameRowsKeep
  <2>6. worker'.run = worker.run
    BY <1>0, <1>5 DEF MonitorFinish, To, IsWorker
  <2> QED
    BY <2>1, <2>5, <2>6 DEF Quiet
<1>6. ASSUME Rotate
      PROVE  Keeps /\ Quiet
  <2>1. Keeps /\ \A x \in Runs : row'[x].st = "running" => row[x].st = "running"
    BY <1>6, RotatedKeeps, SameRowsKeep DEF Rotate
  <2>2. Busy /\ worker'.run = worker.run
    BY <1>0, <1>6 DEF Rotate, To, IsWorker, Busy
  <2> QED
    BY <2>1, <2>2 DEF Quiet
<1>7. ASSUME InlineWork
      PROVE  Keeps /\ Quiet
  <2>1. Keeps /\ \A x \in Runs : row'[x].st = "running" => row[x].st = "running"
    BY <1>7, RotatedKeeps, SameRowsKeep DEF InlineWork
  <2>2. Busy /\ worker'.run = worker.run
    BY <1>0, <1>7 DEF InlineWork, IsWorker, Busy
  <2> QED
    BY <2>1, <2>2 DEF Quiet
<1>8. ASSUME InlineEnd
      PROVE  Keeps /\ Quiet
  <2> DEFINE o == worker.seen[worker.run]
  <2>1. o \in Row /\ Busy /\ worker.run \in Runs
    BY <1>1, <1>8 DEF InlineEnd
  <2>2. PICK st \in {"succeeded", "failed"} :
          WorkerWrites(o, [o EXCEPT !.st = st, !.lease = "none", !.exp = "none"], "check")
    BY <1>8 DEF InlineEnd
  <2> DEFINE new == [o EXCEPT !.st = st, !.lease = "none", !.exp = "none"]
  <2>3. WorkerWrites(o, new, "check")
    BY <2>2
  <2>4. Milder(o, new)
    <3> HIDE DEF o
    <3> QED
      BY <2>1 DEF Milder, Row, Terminal
  <2> HIDE DEF o, new
  <2> QED
    BY <2>1, <2>3, <2>4, WorkerWritesKeeps
<1>9. ASSUME RetryWrite
      PROVE  Keeps /\ Quiet
  <2> DEFINE r == worker.run
             new == One(r, Retried(worker.seen[r]))
  <2>1. DOMAIN worker.seen = {r} /\ worker.seen[r] \in Row
    BY <1>1, <1>9 DEF RetryWrite
  <2>2. \A x \in DOMAIN worker.seen : Milder(worker.seen[x], new[x])
    BY <2>1, RewrittenMilder DEF One
  <2>3. row' = Written(worker.seen, new) \/ UNCHANGED row
    BY <1>9 DEF RetryWrite
  <2>4. Keeps /\ \A x \in Runs : row'[x].st = "running" => row[x].st = "running"
    <3> HIDE DEF new
    <3>1. CASE row' = Written(worker.seen, new)
      BY <1>0, <2>2, <3>1, WrittenKeeps
    <3>2. CASE UNCHANGED row
      BY <3>2, SameRowsKeep
    <3> QED
      BY <2>3, <3>1, <3>2
  <2>5. ~Busy'
    BY <1>9 DEF RetryWrite, Looping, Dies, NoWorker, Busy
  <2> QED
    BY <2>4, <2>5 DEF Quiet
<1>10. ASSUME ExecRead \/ Dispatch \/ MonitorRead \/ InlineRead \/ Check \/ FailRead
       PROVE  Keeps /\ Quiet
  <2>1. UNCHANGED row
    BY <1>10 DEF ExecRead, Dispatch, MonitorRead, InlineRead, Check, FailRead
  <2>2. Busy /\ (Busy' => worker'.run = worker.run)
    BY <1>0, <1>10 DEF ExecRead, Dispatch, Dispatched, DispatchFails, MonitorRead, InlineRead,
                       Check, FailRead, To, Looping, NoWorker, IsWorker, Busy
  <2> QED
    BY <2>1, <2>2, SameRowsKeep DEF Quiet
<1> QED
  BY <1>2, <1>3, <1>4, <1>5, <1>6, <1>7, <1>8, <1>9, <1>10 DEF Executes

\* Executors, synchronizations, the clock and a process death.
LEMMA RestKeeps ==
  ASSUME TypeOK, Works \/ Time \/ Crash
  PROVE  Keeps /\ Quiet
<1>1. ASSUME Works
      PROVE  Keeps /\ Quiet
  <2>1. UNCHANGED <<row, worker>>
    BY <1>1 DEF Works, ExecutorEnds, ImageThreadExits, PageCancel, ExternalStart, ExternalEnds, DirectSync,
                SyncStarts, SyncEnds
  <2> QED
    BY <2>1, SameRowsKeep DEF Quiet, Busy
<1>2. ASSUME Time
      PROVE  Keeps /\ Quiet
  <2>1. UNCHANGED worker
    BY <1>2 DEF Time, LeaseExpires, BackoffElapses
  <2>2. ASSUME NEW o \in Row
        PROVE  /\ [o EXCEPT !.exp = "past"].st = o.st /\ [o EXCEPT !.exp = "past"].cancel = o.cancel
               /\ [o EXCEPT !.ready = TRUE].st = o.st
               /\ [o EXCEPT !.ready = TRUE].cancel = o.cancel
    BY DEF Row
  <2>3. \A x \in Runs : row'[x] \in {row[x], [row[x] EXCEPT !.exp = "past"],
                                      [row[x] EXCEPT !.ready = TRUE]}
    BY <1>2 DEF Time, LeaseExpires, BackoffElapses, TypeOK
  <2>4. \A x \in Runs : row'[x].st = row[x].st /\ row'[x].cancel = row[x].cancel
    BY <2>2, <2>3 DEF TypeOK
  <2> QED
    BY <2>1, <2>4 DEF Keeps, Quiet, Busy
<1>3. ASSUME Crash
      PROVE  Keeps /\ Quiet
  <2>1. ASSUME NEW x \in Runs
        PROVE  /\ Abandoned[x] \in Row
               /\ Abandoned[x].st = row[x].st /\ Abandoned[x].cancel = row[x].cancel
    BY DEF TypeOK, Row, Abandoned
  <2>2. \A x \in Runs : Milder(Abandoned[x], Recovered(Abandoned[x]))
    BY <2>1, RewrittenMilder
  <2>3. \A x \in Runs : row'[x] \in {Abandoned[x], Recovered(Abandoned[x])}
    BY <1>3 DEF Crash, Abandoned
  <2>4. \A x \in Runs : /\ row[x].cancel => row'[x].cancel
                        /\ row'[x].st = "running" => row[x].st = "running"
    BY <2>1, <2>2, <2>3 DEF Milder
  <2>5. ~Busy'
    BY <1>3 DEF Crash, NoWorker, Busy
  <2> QED
    BY <2>4, <2>5 DEF Keeps, Quiet
<1> QED
  BY <1>1, <1>2, <1>3

\* A cancellation request, once committed, is never erased by a write of a thread
\* that loaded the row before: no run, crash or retry loses what the user asked.
THEOREM CancelIntentIsKept == Spec => CancelIntentKept
<1>1. TypeOK /\ [Next]_vars =>
        [\A r \in Runs : row[r].cancel /\ row[r].st # "absent"
                           => row'[r].cancel \/ row'[r].st = "deleted"]_vars
  BY WebKeeps, BootsKeep, DrainsKeep, ExecutesKeep, RestKeeps DEF Next, Keeps
<1> QED
  BY <1>1, TypeCorrect, PTL DEF Spec, CancelIntentKept

\* The inductive invariant behind OneRunning: besides the rows, it speaks of the
\* run in the drain thread's hands, which a progress report may set back to running.
RunningInv == TypeOK /\ OneRunning /\ OnlyMine

\* No run is running in a fresh database.
LEMMA InitRunning == Init => RunningInv
<1> SUFFICES ASSUME Init PROVE RunningInv
  OBVIOUS
<1>1. \A r \in Runs : row[r].st = "absent"
  BY DEF Init, AbsentRow
<1> QED
  BY <1>1, InitType DEF RunningInv, OneRunning, OnlyMine

\* Every step preserves the invariant: only a claim makes a run running.
LEMMA NextRunning == RunningInv /\ [Next]_vars => RunningInv'
<1> SUFFICES ASSUME RunningInv, [Next]_vars PROVE RunningInv'
  OBVIOUS
<1>1. TypeOK'
  BY NextType DEF RunningInv
<1>2. CASE Quiet
  <2>1. ASSUME NEW r \in Runs, row'[r].st = "running"
        PROVE  row[r].st = "running"
    BY <1>2, <2>1 DEF Quiet
  <2>2. OneRunning'
    BY <2>1 DEF RunningInv, OneRunning
  <2>3. OnlyMine'
    BY <1>2, <2>1 DEF Quiet, RunningInv, OnlyMine
  <2> QED
    BY <1>1, <2>2, <2>3 DEF RunningInv
<1>3. CASE ClaimUpdate
  <2> DEFINE r == worker.run
  <2>1. CASE /\ \A x \in Runs : row[x].st # "running"
             /\ row' = [row EXCEPT ![r] = Claimed(row[r])]
             /\ worker'.run = r
    <3>1. \A x \in Runs : row'[x].st = "running" => x = r
      BY <2>1 DEF RunningInv, TypeOK
    <3> QED
      BY <1>1, <2>1, <3>1 DEF RunningInv, OneRunning, OnlyMine
  <2>2. CASE UNCHANGED row /\ worker'.pc \in {"wait", "drain"}
    <3>1. ~Busy'
      BY <2>2 DEF Busy
    <3> QED
      BY <1>1, <2>2, <3>1 DEF RunningInv, OneRunning, OnlyMine
  <2> QED
    BY <1>3, <2>1, <2>2 DEF ClaimUpdate, To, Looping, NoWorker, RunningInv, TypeOK, IsWorker
<1>4. CASE MonitorProgress
  <2>1. Busy /\ worker'.run = worker.run
    BY <1>4 DEF MonitorProgress, To, Busy, RunningInv, TypeOK, IsWorker
  <2>2. \A x \in Runs \ {worker.run} : row'[x] = row[x]
    BY <1>4 DEF MonitorProgress, Written, One, RunningInv, TypeOK
  <2>3. \A x \in Runs : row'[x].st = "running" => x = worker.run
    BY <2>1, <2>2 DEF RunningInv, OnlyMine
  <2> QED
    BY <1>1, <2>1, <2>3 DEF RunningInv, OneRunning, OnlyMine
<1>5. CASE UNCHANGED vars
  BY <1>1, <1>5 DEF vars, RunningInv, OneRunning, OnlyMine, Busy
<1> QED
  BY <1>2, <1>3, <1>4, <1>5, WebKeeps, BootsKeep, DrainsKeep, ExecutesKeep, RestKeeps
  DEF RunningInv, Next

\* At most one run is `running', for any number of jobs, rows, web threads, restarts
\* and refused commits, and even when requests are served before the startup
\* recovery has ended.
THEOREM OneRunningAlways == Spec => []OneRunning
<1>1. RunningInv => OneRunning
  BY DEF RunningInv
<1> QED
  BY <1>1, InitRunning, NextRunning, PTL DEF Spec

=============================================================================
