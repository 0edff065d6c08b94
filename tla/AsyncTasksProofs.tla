--------------------------- MODULE AsyncTasksProofs ---------------------------
(***************************************************************************)
(* Theorems about AsyncTasks for any items, servers, attempt limit, events,*)
(* failures, refused commits and restarts: type correctness, no            *)
(* acknowledged event lost, completions never followed by an older         *)
(* position, and no row stranded but by a refused commit.                  *)
(***************************************************************************)
EXTENDS AsyncTasks, FiniteSetTheorems, TLAPS

-----------------------------------------------------------------------------
(* The rows a handler writes are rows.                                       *)

\* The values a variable may have name the positions of a server.
LEMMA PositionType ==
  /\ MaxEvents \in Nat /\ Watched \in Position /\ 0 \in Position
  /\ Event \cup {None} \subseteq Position /\ Watched \notin Event \cup {None}
  BY AsyncAssumption DEF Position, Watched, Event, None

\* enqueue_watch_update, _run_one, retry_all and recover_async_tasks write rows.
LEMMA RewrittenType ==
  ASSUME NEW r \in Row, NEW seen \in Row, NEW e \in Event
  PROVE  /\ NoRow \in Row
         /\ Fresh(e) \in Row
         /\ Enqueued(r, seen, e) \in Row
         /\ Finished(r) \in Row
         /\ Failed(r) \in Row
         /\ Retried(r) \in Row
         /\ Recovered(r) \in Row
<1>1. NoRow \in Row /\ Fresh(e) \in Row
  BY AsyncAssumption DEF NoRow, Fresh, Row
<1>2. Enqueued(r, seen, e) \in Row
  BY AsyncAssumption DEF Enqueued, Row
<1>3. Finished(r) \in Row
  BY <1>1 DEF Finished, Fresh, Row
<1>4. Latest(r) \in Event \cup {None}
  BY DEF Latest, Row
<1>5. r.attempts + 1 \in Nat
  BY DEF Row
<1>6. Failed(r) \in Row
  <2>1. (IF r.attempts + 1 >= AttemptLimit THEN "blocked" ELSE "pending")
           \in {"absent", "pending", "processing", "blocked"}
    OBVIOUS
  <2> HIDE DEF Latest
  <2> QED
    BY <1>4, <1>5, <2>1 DEF Failed, Row
<1>7. Recovered(r) \in Row
  BY <1>4 DEF Recovered, Row
<1>8. Retried(r) \in Row
  BY DEF Retried, Row
<1> QED
  BY <1>1, <1>2, <1>3, <1>6, <1>7, <1>8

\* The next event is an event as long as there is room for it.
LEMMA NextEventType ==
  ASSUME TypeOK, events < MaxEvents
  PROVE  events + 1 \in Event /\ events + 1 \in 0 .. MaxEvents
  BY AsyncAssumption DEF TypeOK, Event

\* What a webhook stores is a row, and its acknowledgement keeps the types.
LEMMA AcknowledgeType ==
  ASSUME TypeOK, events < MaxEvents, NEW k \in Keys, NEW r \in Row, Acknowledge(k, r)
  PROVE  /\ row' \in [Keys -> Row]
         /\ acked' \in [Keys -> Event \cup {None}]
         /\ handled' \in [Keys -> Event \cup {None}]
         /\ events' \in 0 .. MaxEvents
  BY NextEventType DEF TypeOK, Acknowledge

\* The row a request stores whose lookup and write are one transaction.
LEMMA StoredType ==
  ASSUME TypeOK, events < MaxEvents, NEW k \in Keys
  PROVE  Stored(k, events + 1) \in Row
<1>1. row[k] \in Row /\ events + 1 \in Event
  BY NextEventType DEF TypeOK
<1>2. Fresh(events + 1) \in Row /\ Enqueued(row[k], row[k], events + 1) \in Row
  BY <1>1, RewrittenType
<1> QED
  BY <1>2 DEF Stored

\* Room leaves an event for the request that is between its two steps.
LEMMA RoomEnough ==
  ASSUME TypeOK, Room
  PROVE  events < MaxEvents /\ (hook # NoHook => events + 1 < MaxEvents)
  BY AsyncAssumption DEF TypeOK, Room

\* A request between its two steps has a key of an item the catalog did not know, and
\* an event left for it.
HookInv ==
  hook # NoHook => /\ hook.key \in Media \X {"progress"}
                   /\ hook.key[1] \notin start.catalogued
                   /\ events < MaxEvents

\* The executor holds a row from the claim to the end of the event.
Holding == ex.pc \notin {"idle", "claim"}

\* The row it holds is there, whatever its status; servers are told one event at a time.
HeldInv ==
  /\ Holding => ex.key \in Keys /\ row[ex.key].status # "absent"
  /\ ex.pc # "deliver" => ex.told = {}

\* A row that is absent has no other attributes.
RowsInv == \A k \in Keys : row[k].status = "absent" <=> row[k] = NoRow

\* The type invariant is inductive together with what the executor and a request hold.
Base == TypeOK /\ HookInv /\ HeldInv /\ RowsInv

-----------------------------------------------------------------------------
(* Base is inductive: first the webhook requests.                            *)

\* No row disappears: only the end of a delivery deletes one.
RowsStay == \A k \in Keys : row[k].status # "absent" => row'[k].status # "absent"

\* A row that is not absent differs from NoRow; the writes of a request leave one.
LEMMA WrittenRows ==
  ASSUME NEW r \in Row, NEW seen \in Row, NEW e \in Event
  PROVE  /\ Fresh(e).status = "pending"
         /\ r.status # "absent" => Enqueued(r, seen, e).status # "absent"
         /\ r.status # "absent" => Failed(r).status # "absent"
  BY DEF Fresh, Enqueued, Failed, Row

\* A request that stores its row in one transaction leaves a row that is there.
LEMMA StoredPresent ==
  ASSUME Base, events < MaxEvents, NEW k \in Keys
  PROVE  Stored(k, events + 1).status # "absent"
<1>1. row[k] \in Row /\ events + 1 \in Event
  BY NextEventType DEF Base, TypeOK
<1>2. CASE row[k] = NoRow
  BY <1>2 DEF Stored, Fresh
<1>3. CASE row[k] # NoRow
  <2>1. row[k].status # "absent"
    BY <1>3 DEF Base, RowsInv
  <2>2. Enqueued(row[k], row[k], events + 1).status # "absent"
    BY <1>1, <2>1, WrittenRows
  <2> QED
    BY <1>3, <2>2 DEF Stored
<1> QED
  BY <1>2, <1>3

\* An acknowledged request that leaves its row there keeps the rows well formed.
LEMMA AcknowledgeRows ==
  ASSUME Base, NEW k \in Keys, NEW r \in Row, r.status # "absent", Acknowledge(k, r), UNCHANGED ex
  PROVE  RowsInv' /\ HeldInv' /\ RowsStay
<1>1. r # NoRow
  BY DEF NoRow
<1>2. \A j \in Keys : row'[j] = IF j = k THEN r ELSE row[j]
  BY DEF Acknowledge, Base, TypeOK
<1> QED
  BY <1>1, <1>2 DEF Base, RowsInv, HeldInv, Holding, RowsStay

\* Each request on its own, and the two-step one.
LEMMA RequestsKeepBase ==
  ASSUME Base
  PROVE  /\ \A m \in Media : ProgressEvent(m) => Base' /\ RowsStay
         /\ \A m \in Media : ProgressLookup(m) => Base' /\ RowsStay
         /\ \A m \in Media : CompletedEvent(m) => Base' /\ RowsStay
         /\ ProgressWrite => Base' /\ RowsStay
<1> USE DEF queue, servers, bounds
<1>t. TypeOK
  BY DEF Base
<1>1. ASSUME NEW m \in Media, ProgressEvent(m) PROVE Base' /\ RowsStay
  <2> DEFINE k == <<m, "progress">>
             r == Stored(k, events + 1)
  <2>1. k \in Keys
    BY DEF Keys
  <2>2. events < MaxEvents /\ (hook # NoHook => events + 1 < MaxEvents)
    BY <1>1, <1>t, RoomEnough DEF ProgressEvent
  <2>3. r \in Row /\ r.status # "absent"
    BY <2>1, <2>2, <1>t, StoredType, StoredPresent
  <2>4. Acknowledge(k, r) /\ UNCHANGED <<servers, finished, ex, hook, boot, bounds>>
    BY <1>1 DEF ProgressEvent
  <2> HIDE DEF k, r
  <2>5. TypeOK'
    BY <1>t, <2>1, <2>2, <2>3, <2>4, AcknowledgeType DEF TypeOK
  <2>6. RowsInv' /\ HeldInv' /\ RowsStay
    BY <2>1, <2>3, <2>4, AcknowledgeRows
  <2>7. HookInv'
    BY <2>2, <2>4, <1>t DEF Base, HookInv, Acknowledge, TypeOK
  <2> QED
    BY <2>5, <2>6, <2>7 DEF Base
<1>2. ASSUME NEW m \in Media, ProgressLookup(m) PROVE Base' /\ RowsStay
  <2>1. <<m, "progress">> \in Keys /\ <<m, "progress">> \in Media \X {"progress"}
    BY DEF Keys
  <2>2. TypeOK'
    BY <1>2, <1>t, <2>1 DEF ProgressLookup, TypeOK
  <2>3. events < MaxEvents
    BY <1>2, <1>t, RoomEnough DEF ProgressLookup
  <2>4. HookInv'
    BY <1>2, <1>t, <2>1, <2>3 DEF ProgressLookup, HookInv, TypeOK
  <2> QED
    BY <1>2, <2>2, <2>4 DEF ProgressLookup, Base, RowsInv, HeldInv, Holding, RowsStay
<1>3. ASSUME NEW m \in Media, CompletedEvent(m) PROVE Base' /\ RowsStay
  <2> DEFINE k == <<m, "completed">>
             r == Fresh(events + 1)
  <2>1. k \in Keys
    BY DEF Keys
  <2>2. events < MaxEvents /\ (hook # NoHook => events + 1 < MaxEvents)
    BY <1>3, <1>t, RoomEnough DEF CompletedEvent
  <2>3. r \in Row /\ r.status # "absent"
    <3>1. events + 1 \in Event
      BY <1>t, <2>2, NextEventType
    <3>2. NoRow \in Row
      BY AsyncAssumption DEF NoRow, Row
    <3> QED
      BY <3>1, <3>2, RewrittenType DEF Fresh
  <2>4. Acknowledge(k, r) /\ UNCHANGED <<servers, ex, hook, boot, bounds>>
        /\ finished' = finished \cup ({m} \cap known)
    BY <1>3 DEF CompletedEvent
  <2> HIDE DEF k, r
  <2>5. TypeOK'
    BY <1>t, <2>1, <2>2, <2>3, <2>4, AcknowledgeType DEF TypeOK
  <2>6. RowsInv' /\ HeldInv' /\ RowsStay
    BY <2>1, <2>3, <2>4, AcknowledgeRows
  <2>7. HookInv'
    BY <2>2, <2>4, <1>t DEF Base, HookInv, Acknowledge, TypeOK
  <2> QED
    BY <2>5, <2>6, <2>7 DEF Base
<1>4. ASSUME ProgressWrite PROVE Base' /\ RowsStay
  <2> DEFINE k == hook.key
  <2>1. k \in Keys /\ events < MaxEvents /\ hook.seen \in Row /\ row[k] \in Row
    BY <1>4, <1>t DEF ProgressWrite, Base, HookInv, Keys, TypeOK
  <2>2. events + 1 \in Event
    BY <1>t, <2>1, NextEventType
  <2>3. hook' = NoHook /\ UNCHANGED <<servers, finished, ex, boot, bounds>>
    BY <1>4 DEF ProgressWrite
  <2>4. NoHook \in [key : Keys \cup {NoKey}, seen : Row]
    BY AsyncAssumption DEF NoHook, NoRow, Row
  <2>5. HookInv'
    BY <2>3 DEF HookInv
  <2>6. ASSUME NEW r \in Row, r.status # "absent", Acknowledge(k, r) PROVE Base' /\ RowsStay
    <3> HIDE DEF k
    <3>1. TypeOK'
      BY <1>t, <2>1, <2>3, <2>4, <2>6, AcknowledgeType DEF TypeOK
    <3>2. RowsInv' /\ HeldInv' /\ RowsStay
      BY <2>1, <2>3, <2>6, AcknowledgeRows
    <3> QED
      BY <3>1, <3>2, <2>5 DEF Base
  <2>7. CASE Acknowledge(k, Stored(k, events + 1))
    BY <2>1, <2>6, <2>7, <1>t, StoredType, StoredPresent
  <2>8. CASE row[k] # NoRow /\ Acknowledge(k, Enqueued(row[k], hook.seen, events + 1))
    <3>1. row[k].status # "absent"
      BY <2>1, <2>8 DEF Base, RowsInv
    <3>2. Enqueued(row[k], hook.seen, events + 1) \in Row
      BY <2>1, <2>2, RewrittenType
    <3>3. Enqueued(row[k], hook.seen, events + 1).status # "absent"
      BY <2>1, <2>2, <3>1, WrittenRows
    <3> QED
      BY <2>6, <2>8, <3>2, <3>3
  <2>9. CASE UNCHANGED queue
    <3>1. TypeOK'
      BY <1>t, <2>3, <2>4, <2>9 DEF TypeOK
    <3> QED
      BY <3>1, <2>3, <2>5, <2>9 DEF Base, RowsInv, HeldInv, Holding, RowsStay
  <2> QED
    BY <1>4, <2>7, <2>8, <2>9 DEF ProgressWrite
<1> QED
  BY <1>1, <1>2, <1>3, <1>4

-----------------------------------------------------------------------------
(* The executor, the backoff, the manual retry, the recovery and the crash.  *)

\* The states of the executor thread.
Executor == [pc : {"idle", "claim", "load", "check", "deliver", "finish", "failed"},
             key : Keys \cup {NoKey}, event : Event \cup {None},
             left : SUBSET Targets, told : SUBSET Targets]

\* The executor between two drains and between two rows.
LEMMA IdleType ==
  Idle \in Executor /\ [Idle EXCEPT !.pc = "claim"] \in Executor
  BY DEF Idle, Executor, None

\* What a handler may do to the executor's record.
LEMMA ExecutorType ==
  ASSUME TypeOK, NEW p \in {"idle", "claim", "load", "check", "deliver", "finish", "failed"},
         NEW k \in Keys, NEW e \in Event \cup {None},
         NEW S \in SUBSET Targets, NEW T \in SUBSET Targets
  PROVE  /\ ex \in Executor
         /\ [ex EXCEPT !.pc = p] \in Executor
         /\ [ex EXCEPT !.pc = p, !.key = k] \in Executor
         /\ [ex EXCEPT !.pc = p, !.event = e] \in Executor
         /\ [ex EXCEPT !.pc = p, !.left = S] \in Executor
         /\ [ex EXCEPT !.pc = p, !.told = T] \in Executor
         /\ [ex EXCEPT !.left = S] \in Executor
         /\ [ex EXCEPT !.left = S, !.told = T] \in Executor
         /\ [ex EXCEPT !.pc = p, !.left = S, !.told = T] \in Executor
<1>1. ex \in Executor
  BY DEF TypeOK, Executor
<1> QED
  BY <1>1 DEF Executor

\* The executor's own steps on the row it has claimed, up to the end of the event.
LEMMA DeliveryKeepsBase ==
  ASSUME Base, Load \/ Check \/ Skip \/ Deliver \/ Stale \/ Raises \/ CommitWatch
  PROVE  Base'
<1> USE DEF queue, servers, bounds
<1>t. TypeOK
  BY DEF Base
<1>1. Holding /\ ex.key \in Keys /\ ex.key[1] \in Media
  <2>1. Holding
    BY DEF Load, Check, Skip, Deliver, Stale, Raises, CommitWatch, Holding
  <2> QED
    BY <2>1 DEF Base, HeldInv, Keys
<1>2. UNCHANGED <<queue, start, finished, hook, boot, refusals, crashes>> /\ ex'.key = ex.key
  BY DEF Load, Check, Skip, Deliver, Stale, Raises, CommitWatch, Base, TypeOK
<1>3. row[ex.key].payload \in Event \cup {None}
  BY <1>1 DEF Base, TypeOK, Row
<1>4. Told \in Position
  BY PositionType DEF Told, Base, TypeOK
<1>5. Committed \in [Media -> [Targets -> Position]]
  <2> HIDE DEF Told
  <2> QED
    BY <1>1, <1>4 DEF Committed, Item, Base, TypeOK
<1>6. ex' \in Executor
  <2>1. refs[ex.key[1]] \in SUBSET Targets /\ ex.left \in SUBSET Targets /\ ex.told \in SUBSET Targets
    BY <1>1 DEF Base, TypeOK
  <2>2. CASE Load
    BY <1>1, <1>3, <1>t, <2>2, ExecutorType DEF Load
  <2>3. CASE Check
    <3> DEFINE p == IF refs[Item] = {} THEN "failed" ELSE "deliver"
    <3>1. p \in {"idle", "claim", "load", "check", "deliver", "finish", "failed"}
      OBVIOUS
    <3>2. \/ ex' = [ex EXCEPT !.pc = "finish"]
          \/ ex' = [ex EXCEPT !.pc = p, !.left = refs[Item]]
      BY <2>3 DEF Check
    <3>3. refs[Item] \in SUBSET Targets
      BY <2>1 DEF Item
    <3> HIDE DEF p
    <3>4. [ex EXCEPT !.pc = p, !.left = refs[Item]] \in Executor
      BY <1>1, <1>t, <3>1, <3>3, ExecutorType
    <3>5. [ex EXCEPT !.pc = "finish"] \in Executor
      BY <1>1, <1>t, ExecutorType, <2>1, <1>3
    <3> QED
      BY <3>2, <3>4, <3>5
  <2>4. CASE Skip
    <3>1. PICK t \in ex.left : ex' = [ex EXCEPT !.left = ex.left \ {t}]
      BY <2>4 DEF Skip
    <3> QED
      BY <1>1, <1>t, <2>1, <3>1, ExecutorType
  <2>5. CASE Deliver
    <3>1. PICK t \in ex.left : ex' = [ex EXCEPT !.left = ex.left \ {t}, !.told = ex.told \cup {t}]
      BY <2>5 DEF Deliver
    <3>2. ex.left \ {t} \in SUBSET Targets /\ ex.told \cup {t} \in SUBSET Targets
      BY <2>1, <3>1
    <3> QED
      BY <1>1, <1>t, <3>1, <3>2, ExecutorType
  <2>6. CASE Stale \/ Raises
    <3>1. ex' = [ex EXCEPT !.pc = "failed", !.left = {}, !.told = {}]
      BY <2>6 DEF Stale, Raises
    <3>2. {} \in SUBSET Targets
      OBVIOUS
    <3>3. [ex EXCEPT !.pc = "failed", !.left = {}, !.told = {}] \in Executor
      BY <1>1, <1>t, <1>3, <3>2, ExecutorType
    <3> QED
      BY <3>1, <3>3
  <2>7. CASE CommitWatch
    BY <1>1, <1>t, <2>1, <2>7, ExecutorType DEF CommitWatch
  <2> QED
    BY <2>2, <2>3, <2>4, <2>5, <2>6, <2>7
<1>7. known' \subseteq Media /\ start.catalogued \subseteq known'
  BY <1>1 DEF Load, Check, Skip, Deliver, Stale, Raises, CommitWatch, Base, TypeOK, Item
<1>8. refs' \in [Media -> SUBSET Targets]
  <2>1. CASE Stale
    BY <1>1, <1>t, <2>1 DEF Stale, TypeOK, Item
  <2>2. CASE ~Stale
    BY <1>t, <2>2 DEF Load, Check, Skip, Deliver, Raises, CommitWatch, TypeOK
  <2> QED
    BY <2>1, <2>2
<1>9. watch' \in [Media -> [Targets -> Position]]
  <2> HIDE DEF Committed
  <2> QED
    BY <1>5 DEF Load, Check, Skip, Deliver, Stale, Raises, CommitWatch, Base, TypeOK
<1>10. remote' \in [Media -> [Targets -> Position]]
  <2> HIDE DEF Told
  <2>1. ASSUME NEW t \in Targets
        PROVE  [remote EXCEPT ![Item][t] = Told] \in [Media -> [Targets -> Position]]
    BY <1>1, <1>4 DEF Base, TypeOK, Item
  <2>2. ex.left \subseteq Targets
    BY DEF Base, TypeOK
  <2>3. CASE Deliver \/ Raises
    <3>1. UNCHANGED remote \/ \E t \in ex.left : remote' = [remote EXCEPT ![Item][t] = Told]
      BY <2>3 DEF Deliver, Raises
    <3>2. CASE UNCHANGED remote
      BY <1>t, <3>2 DEF TypeOK
    <3>3. ASSUME NEW t \in ex.left, remote' = [remote EXCEPT ![Item][t] = Told]
          PROVE  remote' \in [Media -> [Targets -> Position]]
      BY <2>1, <2>2, <3>3
    <3> QED
      BY <3>1, <3>2, <3>3
  <2>4. CASE ~(Deliver \/ Raises)
    BY <1>t, <2>4 DEF Load, Check, Skip, Stale, CommitWatch, TypeOK
  <2> QED
    BY <2>3, <2>4
<1>11. failures' \in 0 .. MaxFailures
  <2>1. CASE Stale \/ Raises
    BY <1>t, <2>1, AsyncAssumption DEF Stale, Raises, TypeOK
  <2>2. CASE ~(Stale \/ Raises)
    BY <1>t, <2>2 DEF Load, Check, Skip, Deliver, CommitWatch, TypeOK
  <2> QED
    BY <2>1, <2>2
<1>12. TypeOK'
  BY <1>t, <1>2, <1>6, <1>7, <1>8, <1>9, <1>10, <1>11 DEF TypeOK, Executor
<1>13. ex'.pc # "deliver" => ex'.told = {}
  BY DEF Load, Check, Skip, Deliver, Stale, Raises, CommitWatch, Base, TypeOK, HeldInv
<1>14. HookInv' /\ HeldInv' /\ RowsInv'
  BY <1>1, <1>2, <1>13 DEF Base, HookInv, HeldInv, RowsInv, Holding
<1> QED
  BY <1>12, <1>14 DEF Base

\* The steps of a drain that write the queue or end it.
LEMMA DrainKeepsBase ==
  ASSUME Base, Submit \/ Claim \/ Finish \/ Fail \/ DrainDies
  PROVE  Base'
<1> USE DEF queue, servers, bounds
<1>t. TypeOK /\ RowsInv
  BY DEF Base
<1>1. UNCHANGED <<servers, finished, hook, boot, acked, events>>
  BY DEF Submit, Claim, Finish, Fail, DrainDies
<1>2. ex' \in Executor
  <2>1. CASE \E k \in Keys : ex' = [ex EXCEPT !.pc = "load", !.key = k]
    <3>1. PICK k \in Keys : ex' = [ex EXCEPT !.pc = "load", !.key = k]
      BY <2>1
    <3>2. ex \in Executor
      BY <1>t DEF TypeOK, Executor
    <3> QED
      BY <3>1, <3>2 DEF Executor
  <2>2. CASE ex' = [ex EXCEPT !.pc = "claim"]
    BY <1>t, <2>2, IdleType DEF TypeOK, Executor
  <2> QED
    BY <2>1, <2>2, IdleType DEF Submit, Claim, Finish, Fail, DrainDies
<1>3. refusals' \in 0 .. MaxRefusals /\ failures' \in 0 .. MaxFailures /\ crashes' \in 0 .. MaxCrashes
  <2>1. CASE DrainDies
    BY <1>t, <2>1, AsyncAssumption DEF DrainDies, TypeOK
  <2> QED
    BY <1>t, <2>1 DEF Submit, Claim, Finish, Fail, TypeOK
<1>4. handled' \in [Keys -> Event \cup {None}]
  BY <1>t DEF Submit, Claim, Finish, Fail, DrainDies, TypeOK
<1>5. row' \in [Keys -> Row] /\ RowsInv' /\ HeldInv'
  <2>1. CASE Submit
    BY <1>t, <2>1 DEF Submit, TypeOK, Base, RowsInv, HeldInv, Holding
  <2>2. CASE DrainDies
    BY <1>t, <2>2 DEF DrainDies, TypeOK, Base, RowsInv, HeldInv, Holding, Idle
  <2>3. CASE Claim
    <3>1. ASSUME ex' = Idle, UNCHANGED row
          PROVE  row' \in [Keys -> Row] /\ RowsInv' /\ HeldInv'
      BY <1>t, <3>1 DEF TypeOK, RowsInv, HeldInv, Holding, Idle
    <3>2. ASSUME NEW k \in Keys, Due(k), row' = [row EXCEPT ![k].status = "processing"],
                 ex' = [ex EXCEPT !.pc = "load", !.key = k]
          PROVE  row' \in [Keys -> Row] /\ RowsInv' /\ HeldInv'
      <4>1. \A j \in Keys : row'[j] = IF j = k THEN [row[k] EXCEPT !.status = "processing"] ELSE row[j]
        BY <1>t, <3>2 DEF TypeOK
      <4>2. [row[k] EXCEPT !.status = "processing"] \in Row
        <5>1. row[k] \in Row
          BY <1>t DEF TypeOK
        <5> QED
          BY <5>1 DEF Row
      <4>3. row' \in [Keys -> Row]
        BY <1>t, <3>2, <4>2 DEF TypeOK
      <4>4. row'[k].status = "processing" /\ row'[k] # NoRow
        BY <4>1, <4>2 DEF Row, NoRow
      <4>5. RowsInv'
        BY <1>t, <4>1, <4>4 DEF RowsInv
      <4>6. ex'.pc = "load" /\ ex'.key = k /\ ex'.told = {}
        BY <1>t, <2>3, <3>2 DEF Claim, TypeOK, Base, HeldInv
      <4> QED
        BY <4>3, <4>4, <4>5, <4>6 DEF HeldInv, Holding
    <3> QED
      BY <2>3, <3>1, <3>2 DEF Claim
  <2>4. CASE Finish
    <3>1. ex.key \in Keys /\ Finished(row[ex.key]) \in Row
      BY <1>t, <2>4, RewrittenType DEF Base, HeldInv, Holding, Finish, TypeOK, Finished, Fresh, Row, NoRow
    <3>2. Finished(row[ex.key]) = NoRow \/ Finished(row[ex.key]).status = "pending"
      BY DEF Finished, Fresh
    <3>3. NoRow.status = "absent"
      BY DEF NoRow
    <3> HIDE DEF Finished
    <3>4. row' = [row EXCEPT ![ex.key] = Finished(row[ex.key])]
      BY <2>4 DEF Finish
    <3>5. row' \in [Keys -> Row] /\ RowsInv'
      BY <1>t, <3>1, <3>2, <3>3, <3>4 DEF TypeOK, RowsInv
    <3> QED
      BY <2>4, <3>5 DEF Finish, HeldInv, Holding, Idle
  <2>5. CASE Fail
    <3>1. ex.key \in Keys /\ row[ex.key] \in Row /\ row[ex.key].status # "absent"
      BY <1>t, <2>5 DEF Base, HeldInv, Holding, Fail, TypeOK
    <3>2. Failed(row[ex.key]) \in Row
      <4>1. row[ex.key].attempts + 1 \in Nat /\ Latest(row[ex.key]) \in Event \cup {None}
        BY <3>1 DEF Row, Latest
      <4>2. (IF row[ex.key].attempts + 1 >= AttemptLimit THEN "blocked" ELSE "pending")
              \in {"absent", "pending", "processing", "blocked"}
        OBVIOUS
      <4> HIDE DEF Latest
      <4> QED
        BY <3>1, <4>1, <4>2 DEF Failed, Row
    <3>3. Failed(row[ex.key]).status # "absent"
      BY <3>1 DEF Failed, Row
    <3> HIDE DEF Failed
    <3>4. row' = [row EXCEPT ![ex.key] = Failed(row[ex.key])]
      BY <2>5 DEF Fail
    <3>5. NoRow.status = "absent"
      BY DEF NoRow
    <3>6. row' \in [Keys -> Row] /\ RowsInv'
      BY <1>t, <3>1, <3>2, <3>3, <3>4, <3>5 DEF TypeOK, RowsInv
    <3> QED
      BY <2>5, <3>6 DEF Fail, HeldInv, Holding, Idle
  <2> QED
    BY <2>1, <2>2, <2>3, <2>4, <2>5
<1>6. TypeOK'
  BY <1>t, <1>1, <1>2, <1>3, <1>4, <1>5 DEF TypeOK, Executor
<1>7. HookInv'
  BY <1>1 DEF Base, HookInv
<1> QED
  BY <1>5, <1>6, <1>7 DEF Base

\* A row that is rewritten without becoming absent, or stays, keeps the rows well formed.
LEMMA OthersKeepBase ==
  ASSUME Base, (\E k \in Keys : BackoffElapses(k)) \/ RetryAll \/ BootRecover \/ Crash
  PROVE  Base' /\ RowsStay
<1> USE DEF queue, servers, bounds
<1>t. TypeOK /\ RowsInv
  BY DEF Base
<1>1. ASSUME row' \in [Keys -> Row], UNCHANGED <<acked, handled, events, servers, finished, ex, hook, bounds>>,
             boot' \in {"recover", "done"},
             \A k \in Keys : row'[k] = row[k] \/ (row[k].status # "absent" /\ row'[k].status # "absent")
      PROVE  Base' /\ RowsStay
  <2>1. NoRow.status = "absent"
    BY DEF NoRow
  <2>2. RowsInv' /\ HeldInv'
    BY <1>1, <2>1 DEF Base, RowsInv, HeldInv, Holding
  <2>3. TypeOK'
    BY <1>1, <1>t DEF TypeOK
  <2> QED
    BY <1>1, <2>2, <2>3 DEF Base, HookInv, RowsStay
<1>2. ASSUME NEW k \in Keys, BackoffElapses(k) PROVE Base' /\ RowsStay
  <2>1. row[k] \in Row /\ [row[k] EXCEPT !.due = TRUE] \in Row
    BY <1>t DEF TypeOK, Row
  <2>2. row' = [row EXCEPT ![k] = [row[k] EXCEPT !.due = TRUE]]
    BY <1>2 DEF BackoffElapses
  <2>3. row' \in [Keys -> Row]
    BY <1>t, <2>1, <2>2 DEF TypeOK
  <2>4. \A j \in Keys : row'[j] = row[j] \/ (row[j].status # "absent" /\ row'[j].status # "absent")
    <3>1. row[k].status = "pending" /\ row'[k].status = "pending"
      BY <1>t, <1>2, <2>1, <2>2 DEF TypeOK, BackoffElapses, Row
    <3>2. \A j \in Keys : j # k => row'[j] = row[j]
      BY <1>t, <2>2 DEF TypeOK
    <3> QED
      BY <3>1, <3>2
  <2> QED
    BY <1>1, <1>2, <1>t, <2>3, <2>4 DEF BackoffElapses, TypeOK
<1>3. ASSUME RetryAll PROVE Base' /\ RowsStay
  <2>1. ASSUME NEW k \in Keys
        PROVE  Retried(row[k]) \in Row /\ (Retried(row[k]) = row[k]
                 \/ (row[k].status # "absent" /\ Retried(row[k]).status # "absent"))
    <3>1. row[k] \in Row /\ row[k].status \in {"absent", "pending", "processing", "blocked"}
      BY <1>t DEF TypeOK, Row
    <3>2. CASE row[k].status \in {"pending", "blocked"}
      BY <3>1, <3>2 DEF Retried, Row
    <3>3. CASE row[k].status \notin {"pending", "blocked"}
      BY <3>1, <3>3 DEF Retried
    <3> QED
      BY <3>2, <3>3
  <2>2. row' = [k \in Keys |-> Retried(row[k])]
    BY <1>3 DEF RetryAll
  <2> HIDE DEF Retried
  <2>3. row' \in [Keys -> Row] /\ \A k \in Keys : row'[k] = Retried(row[k])
    BY <2>1, <2>2
  <2> QED
    BY <1>1, <1>3, <1>t, <2>1, <2>3 DEF RetryAll, TypeOK
<1>4. ASSUME BootRecover PROVE Base' /\ RowsStay
  <2>1. ASSUME NEW k \in Keys
        PROVE  Recovered(row[k]) \in Row /\ (Recovered(row[k]) = row[k]
                 \/ (row[k].status # "absent" /\ Recovered(row[k]).status # "absent"))
    <3>1. row[k] \in Row /\ Latest(row[k]) \in Event \cup {None}
      BY <1>t DEF TypeOK, Row, Latest
    <3>2. CASE row[k].status = "processing"
      BY <3>1, <3>2 DEF Recovered, Row, None
    <3>3. CASE row[k].status # "processing"
      BY <3>1, <3>3 DEF Recovered
    <3> QED
      BY <3>2, <3>3
  <2>2. row' = [k \in Keys |-> Recovered(row[k])]
    BY <1>4 DEF BootRecover
  <2> HIDE DEF Recovered
  <2>3. row' \in [Keys -> Row] /\ \A k \in Keys : row'[k] = Recovered(row[k])
    BY <2>1, <2>2
  <2> QED
    BY <1>1, <1>4, <2>1, <2>3 DEF BootRecover
<1>5. ASSUME Crash PROVE Base' /\ RowsStay
  <2>1. NoHook \in [key : Keys \cup {NoKey}, seen : Row]
    BY AsyncAssumption DEF NoHook, NoRow, Row
  <2>2. TypeOK'
    BY <1>5, <1>t, <2>1, AsyncAssumption DEF Crash, TypeOK, Idle, None
  <2> QED
    BY <1>5, <2>2 DEF Crash, Base, HookInv, HeldInv, RowsInv, Holding, Idle, RowsStay
<1> QED
  BY <1>2, <1>3, <1>4, <1>5

\* The queue starts empty.
LEMMA InitBase ==
  ASSUME Init
  PROVE  Base
<1>1. NoRow \in Row /\ NoHook \in [key : Keys \cup {NoKey}, seen : Row] /\ 0 \in Position
  BY AsyncAssumption, PositionType DEF NoHook, NoRow, Row
<1>2. TypeOK
  BY <1>1, AsyncAssumption DEF Init, TypeOK, Idle, None
<1> QED
  BY <1>2 DEF Init, Base, HookInv, HeldInv, RowsInv, Holding, Idle, NoRow

\* Every step of the program keeps Base.
LEMMA NextBase ==
  ASSUME Base, [Next]_vars
  PROVE  Base'
<1>1. CASE UNCHANGED vars
  BY <1>1 DEF vars, Base, TypeOK, HookInv, HeldInv, RowsInv, Holding
<1>2. CASE Next
  BY <1>2, RequestsKeepBase, DeliveryKeepsBase, DrainKeepsBase, OthersKeepBase DEF Next, RunOne
<1> QED
  BY <1>1, <1>2

\* Base holds in every reachable state.
LEMMA BaseInvariant == Spec => []Base
<1>1. Init => Base
  BY InitBase
<1>2. Base /\ [Next]_vars => Base'
  BY NextBase
<1> QED
  BY <1>1, <1>2, PTL DEF Spec

\* Every reachable state of the queue of instant updates is well typed (async_tasks.py).
THEOREM TypeCorrect == Spec => []TypeOK
<1>1. Base => TypeOK
  BY DEF Base
<1> QED
  BY <1>1, BaseInvariant, PTL

-----------------------------------------------------------------------------
(* A completion wins over a resume position.                                 *)

\* What is known of a server that was told that an item is watched: its own state says so,
\* it has no reference left, or the completion is still queued; while the completion is
\* delivered the server is still to be looked at, or told and waiting for the commit; and
\* a resume position on its way will not reach it.
Won(m, t) ==
  remote[m][t] = Watched =>
    /\ watch[m][t] = Watched \/ t \notin refs[m] \/ row[<<m, "completed">>].status # "absent"
    /\ ex.pc = "deliver" /\ ex.key = <<m, "progress">> =>
         watch[m][t] = Watched \/ t \notin ex.left
    /\ ex.pc = "deliver" /\ ex.key = <<m, "completed">> =>
         watch[m][t] = Watched \/ t \notin refs[m] \/ t \in ex.left \cup ex.told
    /\ ex.pc = "finish" /\ ex.key = <<m, "completed">> =>
         watch[m][t] = Watched \/ t \notin refs[m]

\* A server told a resume position, before the commit, was not told that the item is watched.
ToldInv ==
  ex.pc = "deliver" /\ IsProgress => \A t \in ex.told : remote[Item][t] # Watched

WonInv == ToldInv /\ \A m \in Media, t \in Targets : Won(m, t)

\* The key the executor holds, and what it tells the servers.
LEMMA KeyParts ==
  ASSUME Base, Holding
  PROVE  /\ Item \in Media
         /\ ex.key = IF IsProgress THEN <<Item, "progress">> ELSE <<Item, "completed">>
         /\ IsProgress => Told # Watched
         /\ ~IsProgress => Told = Watched
         /\ ex.key \in Keys /\ row[ex.key].status # "absent"
<1>1. ex.key \in Keys /\ row[ex.key].status # "absent"
  BY DEF Base, HeldInv
<1>2. ex.event # Watched
  BY PositionType DEF Base, TypeOK
<1> QED
  BY <1>1, <1>2 DEF Keys, Item, IsProgress, Told

\* As long as servers, references and the executor stay and no row disappears.
LEMMA WonStays ==
  ASSUME Base, WonInv, RowsStay, UNCHANGED <<refs, watch, remote>>,
         ex'.pc \notin {"deliver", "finish"} \/ ex' = ex
  PROVE  WonInv'
<1>1. ToldInv'
  BY DEF WonInv, ToldInv, IsProgress, Item
<1>2. ASSUME NEW m \in Media, NEW t \in Targets PROVE Won(m, t)'
  <2>1. <<m, "completed">> \in Keys
    BY DEF Keys
  <2> QED
    BY <2>1 DEF WonInv, Won, RowsStay
<1> QED
  BY <1>1, <1>2 DEF WonInv

\* The steps of a delivery.
LEMMA DeliveryKeepsWon ==
  ASSUME Base, WonInv, Load \/ Check \/ Skip \/ Deliver \/ Stale \/ Raises \/ CommitWatch
  PROVE  WonInv'
<1> USE DEF queue, servers, bounds
<1>t. TypeOK
  BY DEF Base
<1>1. Holding
  BY DEF Load, Check, Skip, Deliver, Stale, Raises, CommitWatch, Holding
<1>2. /\ Item \in Media
      /\ ex.key = IF IsProgress THEN <<Item, "progress">> ELSE <<Item, "completed">>
      /\ IsProgress => Told # Watched
      /\ ~IsProgress => Told = Watched
      /\ ex.key \in Keys /\ row[ex.key].status # "absent"
  BY <1>1, KeyParts
<1>3. UNCHANGED row /\ ex'.key = ex.key
  BY <1>t DEF Load, Check, Skip, Deliver, Stale, Raises, CommitWatch, TypeOK
<1>4. Item' = Item /\ IsProgress' = IsProgress
  BY <1>3 DEF Item, IsProgress
<1>5. RowsStay
  BY <1>3 DEF RowsStay
<1>6. CASE Load
  <2>1. ex'.pc = "check" /\ UNCHANGED <<refs, watch, remote>>
    BY <1>6, <1>t DEF Load, TypeOK
  <2> QED
    BY <2>1, <1>5, WonStays
<1>7. CASE Check
  <2>1. UNCHANGED <<refs, watch, remote>>
    BY <1>7 DEF Check
  <2>2. \/ Superseded /\ ex'.pc = "finish"
        \/ /\ ~Superseded /\ ex'.pc \in {"failed", "deliver"}
           /\ ex'.left = refs[Item] /\ ex'.told = ex.told
    BY <1>7, <1>t DEF Check, TypeOK
  <2>3. ex.told = {}
    BY <1>7 DEF Check, Base, HeldInv
  <2>4. Superseded => IsProgress
    BY DEF Superseded
  <2>5. IsProgress /\ ~Superseded => row[<<Item, "completed">>].status = "absent"
    <3>1. <<Item, "completed">> \in Keys
      BY <1>2 DEF Keys
    <3> QED
      BY <1>t, <3>1 DEF Superseded, TypeOK, Row
  <2>6. ToldInv'
    BY <2>2, <2>3 DEF ToldInv
  <2>7. ASSUME NEW m \in Media, NEW t \in Targets PROVE Won(m, t)'
    <3> HIDE DEF Superseded, Item, IsProgress
    <3> QED
      BY <1>2, <1>3, <2>1, <2>2, <2>3, <2>4, <2>5 DEF WonInv, Won
  <2> QED
    BY <2>6, <2>7 DEF WonInv
<1>8. CASE Skip
  <2>1. UNCHANGED <<refs, watch, remote>> /\ ex.pc = "deliver"
    BY <1>8 DEF Skip
  <2>2. PICK u \in ex.left : Skips(u) /\ ex' = [ex EXCEPT !.left = ex.left \ {u}]
    BY <1>8 DEF Skip
  <2>3. ex'.pc = "deliver" /\ ex'.left = ex.left \ {u} /\ ex'.told = ex.told
    BY <1>t, <2>1, <2>2 DEF TypeOK
  <2>4. ~IsProgress => watch[Item][u] = Watched
    BY <2>2 DEF Skips
  <2>5. ToldInv'
    BY <1>4, <2>1, <2>3 DEF WonInv, ToldInv
  <2>6. ASSUME NEW m \in Media, NEW t \in Targets PROVE Won(m, t)'
    <3> HIDE DEF Item, IsProgress
    <3> QED
      BY <1>2, <1>3, <2>1, <2>3, <2>4 DEF WonInv, Won
  <2> QED
    BY <2>5, <2>6 DEF WonInv
<1>9. CASE Deliver
  <2>1. UNCHANGED <<refs, watch>> /\ ex.pc = "deliver"
    BY <1>9 DEF Deliver
  <2>2. PICK u \in ex.left : /\ remote' = [remote EXCEPT ![Item][u] = Told]
                             /\ ex' = [ex EXCEPT !.left = ex.left \ {u}, !.told = ex.told \cup {u}]
    BY <1>9 DEF Deliver
  <2>3. ex'.pc = "deliver" /\ ex'.left = ex.left \ {u} /\ ex'.told = ex.told \cup {u} /\ u \in Targets
        /\ ex.told \subseteq Targets
    BY <1>t, <2>1, <2>2 DEF TypeOK
  <2>4. \A m \in Media, t \in Targets :
          remote'[m][t] = IF m = Item /\ t = u THEN Told ELSE remote[m][t]
    <3> HIDE DEF Told, Item
    <3> QED
      BY <1>t, <1>2, <2>2, <2>3 DEF TypeOK
  <2> HIDE DEF Told
  <2>5. ToldInv'
    <3> HIDE DEF Item, IsProgress
    <3> QED
      BY <1>2, <1>4, <2>1, <2>3, <2>4 DEF WonInv, ToldInv
  <2>6. ASSUME NEW m \in Media, NEW t \in Targets PROVE Won(m, t)'
    <3> HIDE DEF Item, IsProgress
    <3> QED
      BY <1>2, <1>3, <2>1, <2>3, <2>4 DEF WonInv, Won
  <2> QED
    BY <2>5, <2>6 DEF WonInv
<1>10. CASE Stale \/ CommitWatch
  <2>1. UNCHANGED remote /\ ex.pc = "deliver" /\ watch' = Committed
    BY <1>10 DEF Stale, CommitWatch
  <2>2. \A m \in Media, t \in Targets :
          watch'[m][t] = IF m = Item /\ t \in ex.told THEN Told ELSE watch[m][t]
    <3> HIDE DEF Told, Item
    <3> QED
      BY <1>t, <1>2, <2>1 DEF TypeOK, Committed
  <2>3. ex'.pc # "deliver"
    BY <1>10, <1>t DEF Stale, CommitWatch, TypeOK
  <2>4. \/ ex'.pc = "failed" /\ \E u \in ex.left : refs' = [refs EXCEPT ![Item] = @ \ {u}]
        \/ ex.left = {} /\ UNCHANGED refs
    BY <1>10, <1>t DEF Stale, CommitWatch, TypeOK
  <2>5. \A m \in Media : refs'[m] \subseteq refs[m]
    <3> HIDE DEF Item
    <3>1. refs \in [Media -> SUBSET Targets]
      BY <1>t DEF TypeOK
    <3>2. CASE UNCHANGED refs
      BY <3>2
    <3>3. ASSUME NEW u, refs' = [refs EXCEPT ![Item] = @ \ {u}]
          PROVE  \A m \in Media : refs'[m] \subseteq refs[m]
      BY <3>1, <3>3
    <3> QED
      BY <2>4, <3>2, <3>3
  <2> HIDE DEF Told
  <2>6. ToldInv'
    BY <2>3 DEF ToldInv
  <2>7. ASSUME NEW m \in Media, NEW t \in Targets PROVE Won(m, t)'
    <3>1. IsProgress /\ m = Item /\ t \in ex.told => remote[m][t] # Watched
      BY <2>1 DEF WonInv, ToldInv
    <3> HIDE DEF Item, IsProgress
    <3> QED
      BY <1>2, <1>3, <2>1, <2>2, <2>3, <2>4, <2>5, <3>1 DEF WonInv, Won
  <2> QED
    BY <2>6, <2>7 DEF WonInv
<1>11. CASE Raises
  <2>1. UNCHANGED <<refs, watch>> /\ ex'.pc = "failed"
    BY <1>11, <1>t DEF Raises, TypeOK
  <2>2. UNCHANGED remote \/ \E u \in ex.left : remote' = [remote EXCEPT ![Item][u] = Told]
    BY <1>11 DEF Raises
  <2>3. \A m \in Media, t \in Targets : remote'[m][t] \in {remote[m][t]} \cup (IF m = Item THEN {Told} ELSE {})
    <3> HIDE DEF Told, Item
    <3> QED
      BY <1>t, <1>2, <2>2 DEF TypeOK
  <2> HIDE DEF Told
  <2>4. ToldInv'
    BY <2>1 DEF ToldInv
  <2>5. ASSUME NEW m \in Media, NEW t \in Targets PROVE Won(m, t)'
    <3> HIDE DEF Item, IsProgress
    <3> QED
      BY <1>2, <1>3, <2>1, <2>3 DEF WonInv, Won
  <2> QED
    BY <2>4, <2>5 DEF WonInv
<1> QED
  BY <1>6, <1>7, <1>8, <1>9, <1>10, <1>11

\* A row the executor claims or fails to deliver stays.
LEMMA ClaimFailStay ==
  ASSUME Base, Claim \/ Fail
  PROVE  RowsStay
<1>t. TypeOK
  BY DEF Base
<1>1. CASE Claim
  <2>1. UNCHANGED row \/ \E k \in Keys : row' = [row EXCEPT ![k].status = "processing"]
    BY <1>1 DEF Claim
  <2>2. ASSUME NEW k \in Keys, row' = [row EXCEPT ![k].status = "processing"] PROVE RowsStay
    <3>1. row[k] \in Row
      BY <1>t DEF TypeOK
    <3>2. [row[k] EXCEPT !.status = "processing"].status = "processing"
      BY <3>1 DEF Row
    <3>3. \A j \in Keys : row'[j] = IF j = k THEN [row[k] EXCEPT !.status = "processing"] ELSE row[j]
      BY <1>t, <2>2 DEF TypeOK
    <3> QED
      BY <3>2, <3>3 DEF RowsStay
  <2> QED
    BY <2>1, <2>2 DEF RowsStay
<1>2. CASE Fail
  <2>1. ex.key \in Keys /\ row[ex.key] \in Row
    BY <1>t, <1>2 DEF Fail, Base, HeldInv, Holding, TypeOK
  <2>2. Failed(row[ex.key]).status \in {"pending", "blocked"}
    BY <2>1 DEF Failed, Row
  <2>3. row' = [row EXCEPT ![ex.key] = Failed(row[ex.key])]
    BY <1>2 DEF Fail
  <2> HIDE DEF Failed
  <2> QED
    BY <1>t, <2>1, <2>2, <2>3 DEF TypeOK, RowsStay
<1> QED
  BY <1>1, <1>2

\* Every step keeps what is known of the servers that were told of a completion.
LEMMA NextWon ==
  ASSUME Base, WonInv, [Next]_vars
  PROVE  WonInv'
<1> USE DEF queue, servers, bounds
<1>t. TypeOK
  BY DEF Base
<1>1. CASE UNCHANGED vars
  BY <1>1, WonStays DEF vars, RowsStay
<1>2. ASSUME NEW m \in Media, ProgressEvent(m) \/ ProgressLookup(m) \/ CompletedEvent(m) PROVE WonInv'
  <2>1. RowsStay
    BY <1>2, RequestsKeepBase
  <2>2. UNCHANGED <<refs, watch, remote, ex>>
    BY <1>2 DEF ProgressEvent, ProgressLookup, CompletedEvent
  <2> QED
    BY <2>1, <2>2, WonStays
<1>3. CASE ProgressWrite
  <2>1. RowsStay
    BY <1>3, RequestsKeepBase
  <2>2. UNCHANGED <<refs, watch, remote, ex>>
    BY <1>3 DEF ProgressWrite
  <2> QED
    BY <2>1, <2>2, WonStays
<1>4. CASE Submit \/ DrainDies
  <2>1. UNCHANGED <<row, refs, watch, remote>> /\ ex'.pc \in {"idle", "claim"}
    BY <1>t, <1>4 DEF Submit, DrainDies, TypeOK, Idle
  <2> QED
    BY <2>1, WonStays DEF RowsStay
<1>5. CASE Claim \/ Fail
  <2>1. UNCHANGED <<refs, watch, remote>> /\ ex'.pc \in {"idle", "claim", "load"}
    <3>1. UNCHANGED <<refs, watch, remote>>
      BY <1>5 DEF Claim, Fail
    <3>2. CASE ex' \in {Idle, [Idle EXCEPT !.pc = "claim"]}
      BY <3>1, <3>2 DEF Idle
    <3>3. ASSUME NEW k \in Keys, ex' = [ex EXCEPT !.pc = "load", !.key = k] PROVE ex'.pc = "load"
      BY <1>t, <3>3 DEF TypeOK
    <3> QED
      BY <1>5, <3>1, <3>2, <3>3 DEF Claim, Fail
  <2> QED
    BY <1>5, <2>1, WonStays, ClaimFailStay
<1>6. CASE Finish
  <2>1. UNCHANGED <<refs, watch, remote>> /\ ex'.pc = "claim" /\ ex.pc = "finish"
    BY <1>6 DEF Finish, Idle
  <2>2. Holding
    BY <2>1 DEF Holding
  <2>3. \A k \in Keys : k # ex.key => row'[k] = row[k]
    BY <1>t, <1>6 DEF Finish, TypeOK
  <2>4. ToldInv'
    BY <2>1 DEF ToldInv
  <2>5. ASSUME NEW m \in Media, NEW t \in Targets PROVE Won(m, t)'
    <3>1. <<m, "completed">> \in Keys
      BY DEF Keys
    <3> QED
      BY <2>1, <2>3, <3>1 DEF WonInv, Won
  <2> QED
    BY <2>4, <2>5 DEF WonInv
<1>7. CASE Load \/ Check \/ Skip \/ Deliver \/ Stale \/ Raises \/ CommitWatch
  BY <1>7, DeliveryKeepsWon
<1>8. CASE (\E k \in Keys : BackoffElapses(k)) \/ RetryAll \/ BootRecover \/ Crash
  <2>1. RowsStay
    BY <1>8, OthersKeepBase
  <2>2. UNCHANGED <<refs, watch, remote>> /\ (ex' = ex \/ ex'.pc = "idle")
    BY <1>8 DEF BackoffElapses, RetryAll, BootRecover, Crash, Idle
  <2> QED
    BY <2>1, <2>2, WonStays
<1> QED
  BY <1>1, <1>2, <1>3, <1>4, <1>5, <1>6, <1>7, <1>8 DEF Next, RunOne

\* No step sends a resume position to a server that was told of the completion.
LEMMA WatchedStays ==
  ASSUME Base, WonInv, [Next]_vars
  PROVE  \A m \in Media, t \in Targets : remote[m][t] = Watched => remote'[m][t] = Watched
<1>1. CASE UNCHANGED remote
  BY <1>1
<1>2. CASE Deliver \/ Raises
  <2>1. CASE UNCHANGED remote
    BY <2>1
  <2>2. ASSUME NEW u \in ex.left, ex.pc = "deliver", ~Skips(u), remote' = [remote EXCEPT ![Item][u] = Told]
        PROVE  \A m \in Media, t \in Targets : remote[m][t] = Watched => remote'[m][t] = Watched
    <3>1. /\ Item \in Media
          /\ ex.key = IF IsProgress THEN <<Item, "progress">> ELSE <<Item, "completed">>
          /\ ~IsProgress => Told = Watched
      BY <2>2, KeyParts DEF Holding
    <3>2. u \in Targets /\ remote \in [Media -> [Targets -> Position]]
      BY <2>2 DEF Base, TypeOK
    <3>3. watch[Item][u] # Watched
      BY <2>2 DEF Skips
    <3>4. IsProgress => remote[Item][u] # Watched
      <4> HIDE DEF Item, IsProgress
      <4> QED
        BY <2>2, <3>1, <3>2, <3>3 DEF WonInv, Won
    <3> HIDE DEF Told, Item, IsProgress
    <3> QED
      BY <2>2, <3>1, <3>2, <3>4
  <2> QED
    BY <1>2, <2>1, <2>2 DEF Deliver, Raises
<1>3. CASE ~(Deliver \/ Raises) /\ Next
  <2>1. UNCHANGED remote
    BY <1>3 DEF Next, RunOne, ProgressEvent, ProgressLookup, CompletedEvent, ProgressWrite, Submit, Claim,
                Load, Check, Skip, Stale, CommitWatch, Finish, Fail, DrainDies, BackoffElapses, RetryAll,
                BootRecover, Crash, servers
  <2> QED
    BY <1>1, <2>1
<1> QED
  BY <1>1, <1>2, <1>3 DEF vars

\* A server that was told an item is watched is never sent an older resume position, in
\* spite of failures, retries and restarts (_is_superseded and _apply_watch_update).
THEOREM CompletionsWin == Spec => CompletionWins
<1>1. Init => WonInv
  <2>1. Watched # 0
    BY PositionType DEF Event, None
  <2> QED
    BY <2>1 DEF Init, WonInv, ToldInv, Won, Idle
<1>2. Base /\ WonInv /\ [Next]_vars => WonInv'
  BY NextWon
<1>3. Base /\ WonInv /\ [Next]_vars
        => [\A m \in Media, t \in Targets : remote[m][t] = Watched => remote'[m][t] = Watched]_vars
  BY WatchedStays
<1> QED
  BY <1>1, <1>2, <1>3, BaseInvariant, PTL DEF Spec, CompletionWins

-----------------------------------------------------------------------------
(* No acknowledged event of an item the catalog knows is lost.               *)

\* A row of a catalogued item in a process that serves no request before its recovery:
\* a successor waits only behind a row in the executor's hands, the newest acknowledged
\* event is the last one the row holds or, without a row, the last one handled, and the
\* executor works on the event the row holds.
Kept(k) ==
  ~start.early /\ k[1] \in start.catalogued =>
    /\ row[k].pending # None => row[k].status = "processing"
    /\ row[k].status # "absent" => acked[k] = Latest(row[k])
    /\ row[k].status = "absent" => acked[k] = handled[k]
    /\ Holding /\ ex.key = k => row[k].status = "processing"
    /\ Holding /\ ex.pc # "load" /\ ex.key = k => ex.event = row[k].payload

\* Without early requests no row is held before the recovery.
KeptInv == (~start.early /\ ex.pc # "idle" => boot = "done") /\ \A k \in Keys : Kept(k)

\* A step that leaves a row and its events alone, and does not make the executor hold it.
LEMMA KeptStays ==
  ASSUME NEW k \in Keys, Kept(k), row'[k] = row[k], acked'[k] = acked[k], handled'[k] = handled[k],
         UNCHANGED start, ex' = ex \/ ex'.pc \in {"idle", "claim"} \/ ex'.key # k
  PROVE  Kept(k)'
  BY DEF Kept, Holding, Latest

\* A request that looks its row up in the transaction that writes it.
LEMMA StoredKept ==
  ASSUME Base, NEW k \in Keys, Kept(k), events < MaxEvents, Acknowledge(k, Stored(k, events + 1)),
         UNCHANGED <<start, ex>>
  PROVE  Kept(k)'
<1> DEFINE e == events + 1
<1>1. row[k] \in Row /\ e \in Event /\ e # None
  BY NextEventType DEF Base, TypeOK, Event, None
<1>2. row'[k] = Stored(k, e) /\ acked'[k] = e
  BY DEF Base, TypeOK, Acknowledge
<1>3. CASE row[k] = NoRow
  <2>1. row'[k] = Fresh(e) /\ row[k].status = "absent"
    BY <1>2, <1>3 DEF Stored, NoRow
  <2>2. ~(Holding /\ ex.key = k)
    BY <2>1 DEF Base, HeldInv
  <2> HIDE DEF e
  <2> QED
    BY <1>2, <2>1, <2>2 DEF Kept, Holding, Fresh, Latest
<1>4. CASE row[k] # NoRow
  <2>1. row'[k] = Enqueued(row[k], row[k], e) /\ row[k].status # "absent"
    BY <1>2, <1>4 DEF Stored, Base, RowsInv
  <2> HIDE DEF e
  <2>2. CASE row[k].status = "processing"
    <3>1. row'[k] = [row[k] EXCEPT !.pending = e, !.due = TRUE]
      BY <2>1, <2>2 DEF Enqueued
    <3>2. row'[k].pending = e /\ row'[k].status = "processing" /\ row'[k].payload = row[k].payload
      BY <1>1, <2>2, <3>1 DEF Row
    <3> QED
      BY <1>1, <1>2, <2>2, <3>2 DEF Kept, Holding, Latest
  <2>3. CASE row[k].status # "processing"
    <3>1. row'[k] = [row[k] EXCEPT !.payload = e, !.due = TRUE,
                        !.status = IF row[k].status = "pending" THEN @ ELSE "pending",
                        !.attempts = IF row[k].attempts = 0 THEN @ ELSE 0]
      BY <2>1, <2>3 DEF Enqueued
    <3>2. row'[k].pending = row[k].pending /\ row'[k].status = "pending" /\ row'[k].payload = e
      BY <1>1, <2>3, <3>1 DEF Row
    <3> QED
      BY <1>1, <1>2, <2>3, <3>2 DEF Kept, Holding, Latest
  <2> QED
    BY <2>2, <2>3
<1> QED
  BY <1>3, <1>4

\* The requests.
LEMMA RequestsKeepKept ==
  ASSUME Base, KeptInv,
         \/ \E m \in Media : ProgressEvent(m) \/ ProgressLookup(m) \/ CompletedEvent(m)
         \/ ProgressWrite
  PROVE  KeptInv'
<1> USE DEF queue, servers, bounds
<1>t. TypeOK
  BY DEF Base
<1>1. UNCHANGED <<start, ex, boot>>
  BY DEF ProgressEvent, ProgressLookup, CompletedEvent, ProgressWrite
<1>2. ASSUME NEW j \in Keys, NEW r, Acknowledge(j, r), NEW k \in Keys, k # j
      PROVE  Kept(k)'
  <2>1. row'[k] = row[k] /\ acked'[k] = acked[k] /\ handled'[k] = handled[k]
    BY <1>t, <1>2 DEF Acknowledge, TypeOK
  <2> QED
    BY <1>1, <1>2, <2>1, KeptStays DEF KeptInv
<1>3. ASSUME NEW m \in Media, ProgressEvent(m), NEW k \in Keys PROVE Kept(k)'
  <2> DEFINE j == <<m, "progress">>
  <2>1. j \in Keys /\ Acknowledge(j, Stored(j, events + 1)) /\ events < MaxEvents
    BY <1>t, <1>3, RoomEnough DEF ProgressEvent, Keys
  <2> HIDE DEF j
  <2>2. CASE k = j
    BY <1>1, <2>1, <2>2, StoredKept DEF KeptInv
  <2>3. CASE k # j
    BY <1>2, <2>1, <2>3
  <2> QED
    BY <2>2, <2>3
<1>4. ASSUME NEW m \in Media, CompletedEvent(m), NEW k \in Keys PROVE Kept(k)'
  <2> DEFINE j == <<m, "completed">>
  <2>1. j \in Keys /\ Acknowledge(j, Stored(j, events + 1)) /\ events < MaxEvents
    BY <1>t, <1>4, RoomEnough DEF CompletedEvent, Keys, Stored
  <2> HIDE DEF j
  <2>2. CASE k = j
    BY <1>1, <2>1, <2>2, StoredKept DEF KeptInv
  <2>3. CASE k # j
    BY <1>2, <2>1, <2>3
  <2> QED
    BY <2>2, <2>3
<1>5. ASSUME NEW m \in Media, ProgressLookup(m), NEW k \in Keys PROVE Kept(k)'
  BY <1>1, <1>5, KeptStays DEF ProgressLookup, KeptInv
<1>6. ASSUME ProgressWrite, NEW k \in Keys PROVE Kept(k)'
  <2>1. hook.key \in Keys /\ hook.key[1] \notin start.catalogued
    BY <1>6 DEF ProgressWrite, Base, HookInv, Keys
  <2>2. CASE k = hook.key
    BY <1>1, <2>1, <2>2 DEF Kept
  <2>3. CASE k # hook.key
    <3>1. row'[k] = row[k] /\ acked'[k] = acked[k] /\ handled'[k] = handled[k]
      BY <1>t, <1>6, <2>1, <2>3 DEF ProgressWrite, Acknowledge, TypeOK
    <3> QED
      BY <1>1, <3>1, KeptStays DEF KeptInv
  <2> QED
    BY <2>2, <2>3
<1> QED
  BY <1>1, <1>3, <1>4, <1>5, <1>6 DEF KeptInv

\* The executor.
LEMMA ExecutorKeepsKept ==
  ASSUME Base, KeptInv, Submit \/ Claim \/ RunOne \/ DrainDies
  PROVE  KeptInv'
<1> USE DEF queue, servers, bounds
<1>t. TypeOK
  BY DEF Base
<1>1. UNCHANGED <<start, boot, acked>>
  BY DEF Submit, Claim, RunOne, Load, Check, Skip, Deliver, Stale, Raises, CommitWatch, Finish, Fail, DrainDies
<1>2. ~start'.early /\ ex'.pc # "idle" => boot' = "done"
  <2>1. CASE Submit
    BY <1>1, <2>1 DEF Submit, Serving
  <2>2. CASE ~Submit
    <3>1. ex.pc # "idle" \/ ex' = Idle
      BY <2>2 DEF Claim, RunOne, Load, Check, Skip, Deliver, Stale, Raises, CommitWatch, Finish, Fail, DrainDies
    <3> QED
      BY <1>1, <3>1 DEF KeptInv, Idle
  <2> QED
    BY <2>1, <2>2
<1>3. ASSUME Submit \/ DrainDies, NEW k \in Keys PROVE Kept(k)'
  <2>1. ex'.pc \in {"idle", "claim"} /\ UNCHANGED <<row, handled>>
    BY <1>t, <1>3 DEF Submit, DrainDies, TypeOK, Idle
  <2> QED
    BY <1>1, <2>1, KeptStays DEF KeptInv
<1>4. ASSUME Claim, NEW k \in Keys PROVE Kept(k)'
  <2>1. CASE ex' = Idle /\ UNCHANGED row
    BY <1>1, <1>4, <2>1, KeptStays DEF Claim, KeptInv, Idle
  <2>2. ASSUME NEW j \in Keys, Due(j), row' = [row EXCEPT ![j].status = "processing"],
               ex' = [ex EXCEPT !.pc = "load", !.key = j]
        PROVE  Kept(k)'
    <3>1. ex'.pc = "load" /\ ex'.key = j /\ UNCHANGED handled
      BY <1>t, <1>4, <2>2 DEF Claim, TypeOK
    <3>2. CASE k # j
      <4>1. row'[k] = row[k]
        BY <1>t, <2>2, <3>2 DEF TypeOK
      <4> QED
        BY <1>1, <3>1, <3>2, <4>1, KeptStays DEF KeptInv
    <3>3. CASE k = j
      <4>1. row[k] \in Row /\ row'[k] = [row[k] EXCEPT !.status = "processing"]
        BY <1>t, <2>2, <3>3 DEF TypeOK
      <4>2. row'[k].status = "processing" /\ row'[k].payload = row[k].payload
            /\ row'[k].pending = row[k].pending
        BY <4>1 DEF Row
      <4>3. row[k].status = "pending"
        BY <2>2, <3>3 DEF Due
      <4> QED
        BY <1>1, <3>1, <4>2, <4>3 DEF KeptInv, Kept, Latest
    <3> QED
      BY <3>2, <3>3
  <2> QED
    BY <1>4, <2>1, <2>2 DEF Claim
<1>5. ASSUME Load, NEW k \in Keys PROVE Kept(k)'
  <2>1. ex'.pc = "check" /\ ex'.key = ex.key /\ ex'.event = row[ex.key].payload /\ UNCHANGED <<row, handled>>
    BY <1>t, <1>5 DEF Load, TypeOK
  <2> QED
    BY <1>1, <1>5, <2>1 DEF KeptInv, Kept, Holding, Load, Latest
<1>6. ASSUME Check \/ Skip \/ Deliver \/ Stale \/ Raises \/ CommitWatch, NEW k \in Keys PROVE Kept(k)'
  <2>1. ex.pc \notin {"idle", "claim", "load"} /\ ex'.pc \notin {"idle", "claim", "load"}
    BY <1>t, <1>6 DEF Check, Skip, Deliver, Stale, Raises, CommitWatch, TypeOK
  <2>2. ex'.key = ex.key /\ ex'.event = ex.event /\ UNCHANGED <<row, handled>>
    BY <1>t, <1>6 DEF Check, Skip, Deliver, Stale, Raises, CommitWatch, TypeOK
  <2> QED
    BY <1>1, <2>1, <2>2 DEF KeptInv, Kept, Holding, Latest
<1>7. ASSUME Finish \/ Fail, NEW k \in Keys PROVE Kept(k)'
  <2>1. ex'.pc = "claim" /\ Holding /\ ex.pc # "load" /\ ex.key \in Keys /\ row[ex.key] \in Row
    BY <1>t, <1>7 DEF Finish, Fail, Idle, Holding, Base, HeldInv, TypeOK
  <2>2. CASE k # ex.key
    <3>1. row'[k] = row[k] /\ handled'[k] = handled[k]
      BY <1>t, <1>7, <2>1, <2>2 DEF Finish, Fail, TypeOK
    <3> QED
      BY <1>1, <2>1, <3>1, KeptStays DEF KeptInv
  <2>3. CASE k = ex.key /\ Finish
    <3>1. row'[k] = Finished(row[k]) /\ handled'[k] = ex.event
      BY <1>t, <2>1, <2>3 DEF Finish, TypeOK
    <3>2. row[k].pending = None => row'[k].status = "absent" /\ row'[k].pending = None
      BY <3>1 DEF Finished, NoRow
    <3>3. row[k].pending # None => /\ row'[k].status = "pending" /\ row'[k].pending = None
                                  /\ row'[k].payload = row[k].pending
      BY <3>1 DEF Finished, Fresh
    <3>4. row[k].status # "absent"
      BY <2>1, <2>3 DEF Base, HeldInv
    <3> QED
      BY <1>1, <2>1, <2>3, <3>1, <3>2, <3>3, <3>4 DEF KeptInv, Kept, Holding, Latest
  <2>4. CASE k = ex.key /\ Fail
    <3>1. row'[k] = Failed(row[k]) /\ UNCHANGED handled
      BY <1>t, <2>1, <2>4 DEF Fail, TypeOK
    <3>2. row'[k].payload = Latest(row[k]) /\ row'[k].pending = None /\ row'[k].status \in {"pending", "blocked"}
      BY <2>1, <2>4, <3>1 DEF Failed, Row
    <3>3. row[k].status # "absent"
      BY <2>1, <2>4 DEF Base, HeldInv
    <3> QED
      BY <1>1, <2>1, <3>1, <3>2, <3>3 DEF KeptInv, Kept, Holding, Latest
  <2> QED
    BY <1>7, <2>2, <2>3, <2>4
<1> QED
  BY <1>2, <1>3, <1>4, <1>5, <1>6, <1>7 DEF KeptInv, RunOne

\* The backoff, the manual retry, the recovery and the crash.
LEMMA OthersKeepKept ==
  ASSUME Base, KeptInv, (\E k \in Keys : BackoffElapses(k)) \/ RetryAll \/ BootRecover \/ Crash
  PROVE  KeptInv'
<1> USE DEF queue, servers, bounds
<1>t. TypeOK
  BY DEF Base
<1>1. UNCHANGED <<start, acked, handled>>
  BY DEF BackoffElapses, RetryAll, BootRecover, Crash
<1>2. ~start'.early /\ ex'.pc # "idle" => boot' = "done"
  BY <1>1 DEF BackoffElapses, RetryAll, BootRecover, Crash, KeptInv, Idle
<1>3. ASSUME NEW j \in Keys, BackoffElapses(j), NEW k \in Keys PROVE Kept(k)'
  <2>1. row[j] \in Row /\ row' = [row EXCEPT ![j] = [row[j] EXCEPT !.due = TRUE]]
    BY <1>t, <1>3 DEF BackoffElapses, TypeOK
  <2>2. row'[k].status = row[k].status /\ row'[k].payload = row[k].payload /\ row'[k].pending = row[k].pending
    <3>1. [row[j] EXCEPT !.due = TRUE].status = row[j].status
          /\ [row[j] EXCEPT !.due = TRUE].payload = row[j].payload
          /\ [row[j] EXCEPT !.due = TRUE].pending = row[j].pending
      BY <2>1 DEF Row
    <3> QED
      BY <1>t, <2>1, <3>1 DEF TypeOK
  <2> QED
    BY <1>1, <1>3, <2>2 DEF BackoffElapses, KeptInv, Kept, Holding, Latest
<1>4. ASSUME RetryAll, NEW k \in Keys PROVE Kept(k)'
  <2>1. row[k] \in Row /\ row'[k] = Retried(row[k])
    BY <1>t, <1>4 DEF RetryAll, TypeOK
  <2>2. /\ row'[k].payload = row[k].payload /\ row'[k].pending = row[k].pending
        /\ (row'[k].status = "absent") <=> (row[k].status = "absent")
        /\ (row'[k].status = "processing") <=> (row[k].status = "processing")
    <3>1. CASE row[k].status \in {"pending", "blocked"}
      BY <2>1, <3>1 DEF Retried, Row
    <3>2. CASE row[k].status \notin {"pending", "blocked"}
      BY <2>1, <3>2 DEF Retried
    <3> QED
      BY <3>1, <3>2
  <2> QED
    BY <1>1, <1>4, <2>2 DEF RetryAll, KeptInv, Kept, Holding, Latest
<1>5. ASSUME BootRecover, NEW k \in Keys PROVE Kept(k)'
  <2>1. row[k] \in Row /\ row'[k] = Recovered(row[k])
    BY <1>t, <1>5 DEF BootRecover, TypeOK
  <2>2. ~start.early => ~Holding /\ ex' = ex
    BY <1>5 DEF BootRecover, KeptInv, Holding
  <2>3. CASE row[k].status = "processing"
    <3>1. row'[k].status = "pending" /\ row'[k].payload = Latest(row[k]) /\ row'[k].pending = None
      BY <2>1, <2>3 DEF Recovered, Row
    <3> QED
      BY <1>1, <2>2, <2>3, <3>1 DEF KeptInv, Kept, Holding, Latest
  <2>4. CASE row[k].status # "processing"
    <3>1. row'[k] = row[k]
      BY <2>1, <2>4 DEF Recovered
    <3> QED
      BY <1>1, <2>2, <3>1 DEF KeptInv, Kept, Holding, Latest
  <2> QED
    BY <2>3, <2>4
<1>6. ASSUME Crash, NEW k \in Keys PROVE Kept(k)'
  BY <1>1, <1>6, KeptStays DEF Crash, KeptInv, Idle
<1> QED
  BY <1>2, <1>3, <1>4, <1>5, <1>6 DEF KeptInv

\* The newest acknowledged event of a catalogued item is in its row or has been handled,
\* whatever arrives in mid-delivery, fails or restarts (enqueue_watch_update, _run_one,
\* recover_async_tasks).
THEOREM EventsKept == Spec => []NothingLost
<1>1. Init => KeptInv
  BY DEF Init, KeptInv, Kept, NoRow, Idle, Holding, None
<1>2. Base /\ KeptInv /\ [Next]_vars => KeptInv'
  <2>1. ASSUME Base, KeptInv, UNCHANGED vars PROVE KeptInv'
    BY <2>1 DEF vars, KeptInv, Kept, Holding, Latest
  <2> QED
    BY <2>1, RequestsKeepKept, ExecutorKeepsKept, OthersKeepKept DEF Next
<1>3. Base /\ KeptInv => NothingLost
  <2>1. NoRow.status = "absent"
    BY DEF NoRow
  <2> QED
    BY <2>1 DEF KeptInv, Kept, NothingLost, Latest, Base, RowsInv
<1> QED
  BY <1>1, <1>2, <1>3, BaseInvariant, PTL DEF Spec

-----------------------------------------------------------------------------
(* Rows are stranded only by refused commits.                                *)

StrandedKeys == {k \in Keys : Stranded(k)}

\* Each refused commit strands at most one row, and the recovery frees them all.
StrandedInv == boot = "done" => IsFiniteSet(StrandedKeys) /\ Cardinality(StrandedKeys) <= refusals

\* A step that strands no row.
LEMMA StrandsNone ==
  ASSUME StrandedInv, refusals \in Nat, refusals' \in Nat, refusals <= refusals', UNCHANGED boot,
         \A k \in Keys : Stranded(k)' => Stranded(k)
  PROVE  StrandedInv'
<1>1. StrandedKeys' \subseteq StrandedKeys
  BY DEF StrandedKeys
<1>2. CASE boot = "done"
  <2>1. IsFiniteSet(StrandedKeys) /\ Cardinality(StrandedKeys) <= refusals
    BY <1>2 DEF StrandedInv
  <2>2. IsFiniteSet(StrandedKeys') /\ Cardinality(StrandedKeys') <= Cardinality(StrandedKeys)
    BY <1>1, <2>1, FS_Subset
  <2>3. Cardinality(StrandedKeys) \in Nat /\ Cardinality(StrandedKeys') \in Nat
    BY <2>1, <2>2, FS_CardinalityType
  <2> QED
    BY <2>1, <2>2, <2>3 DEF StrandedInv
<1>3. CASE boot # "done"
  BY <1>3 DEF StrandedInv
<1> QED
  BY <1>2, <1>3

\* A request leaves every row in the status it has, or pending.
LEMMA RequestsStrandNone ==
  ASSUME Base,
         \/ \E m \in Media : ProgressEvent(m) \/ ProgressLookup(m) \/ CompletedEvent(m)
         \/ ProgressWrite
  PROVE  UNCHANGED <<ex, boot, refusals>> /\ \A k \in Keys : row'[k].status = "processing" => row[k].status = "processing"
<1> USE DEF queue, servers, bounds
<1>t. TypeOK
  BY DEF Base
<1>1. UNCHANGED <<ex, boot, refusals>>
  BY DEF ProgressEvent, ProgressLookup, CompletedEvent, ProgressWrite
<1>2. ASSUME NEW j \in Keys, NEW r, Acknowledge(j, r), r.status = "processing" => row[j].status = "processing"
      PROVE  \A k \in Keys : row'[k].status = "processing" => row[k].status = "processing"
  <2>1. \A k \in Keys : row'[k] = IF k = j THEN r ELSE row[k]
    BY <1>t, <1>2 DEF Acknowledge, TypeOK
  <2> QED
    BY <1>2, <2>1
<1>3. ASSUME NEW r \in Row, NEW seen \in Row, NEW e \in Event, Enqueued(r, seen, e).status = "processing"
      PROVE  r.status = "processing"
  <2>1. CASE seen.status = "processing"
    BY <1>3, <2>1 DEF Enqueued, Row
  <2>2. CASE seen.status # "processing" /\ seen.status = "pending"
    BY <1>3, <2>2 DEF Enqueued, Row
  <2>3. CASE seen.status # "processing" /\ seen.status # "pending"
    BY <1>3, <2>3 DEF Enqueued, Row
  <2> QED
    BY <2>1, <2>2, <2>3
<1>4. ASSUME NEW e \in Event PROVE Fresh(e).status = "pending"
  BY DEF Fresh
<1>5. ASSUME NEW j \in Keys, events < MaxEvents, Stored(j, events + 1).status = "processing"
      PROVE  row[j].status = "processing"
  <2>1. row[j] \in Row /\ events + 1 \in Event
    BY <1>t, <1>5, NextEventType DEF TypeOK
  <2> QED
    BY <1>3, <1>4, <1>5, <2>1 DEF Stored
<1>6. ASSUME NEW m \in Media, ProgressEvent(m)
      PROVE  \A k \in Keys : row'[k].status = "processing" => row[k].status = "processing"
  <2> DEFINE j == <<m, "progress">>
  <2>1. j \in Keys /\ Acknowledge(j, Stored(j, events + 1)) /\ events < MaxEvents
    BY <1>t, <1>6, RoomEnough DEF ProgressEvent, Keys
  <2> HIDE DEF j
  <2> QED
    BY <1>2, <1>5, <2>1
<1>7. ASSUME NEW m \in Media, CompletedEvent(m)
      PROVE  \A k \in Keys : row'[k].status = "processing" => row[k].status = "processing"
  <2> DEFINE j == <<m, "completed">>
  <2>1. j \in Keys /\ Acknowledge(j, Fresh(events + 1)) /\ events + 1 \in Event
    BY <1>t, <1>7, RoomEnough, NextEventType DEF CompletedEvent, Keys
  <2> HIDE DEF j
  <2> QED
    BY <1>2, <1>4, <2>1
<1>8. ASSUME ProgressWrite
      PROVE  \A k \in Keys : row'[k].status = "processing" => row[k].status = "processing"
  <2> DEFINE j == hook.key
  <2>1. /\ j \in Keys /\ events < MaxEvents /\ row[j] \in Row /\ hook.seen \in Row
        /\ events + 1 \in Event
    BY <1>t, <1>8, NextEventType DEF ProgressWrite, Base, HookInv, Keys, TypeOK
  <2>2. \/ Acknowledge(j, Stored(j, events + 1))
        \/ Acknowledge(j, Enqueued(row[j], hook.seen, events + 1))
        \/ UNCHANGED row
    BY <1>8 DEF ProgressWrite
  <2>3. Enqueued(row[j], hook.seen, events + 1).status = "processing" => row[j].status = "processing"
    BY <1>3, <2>1
  <2>4. Stored(j, events + 1).status = "processing" => row[j].status = "processing"
    BY <1>5, <2>1
  <2> HIDE DEF j
  <2> QED
    BY <1>2, <2>1, <2>2, <2>3, <2>4
<1> QED
  BY <1>1, <1>6, <1>7, <1>8 DEF ProgressLookup

\* The executor strands a row only when a commit is refused while it holds one.
LEMMA ExecutorStrands ==
  ASSUME Base, StrandedInv, Submit \/ Claim \/ RunOne \/ DrainDies
  PROVE  StrandedInv'
<1> USE DEF queue, servers, bounds
<1>t. TypeOK /\ refusals \in Nat
  BY AsyncAssumption DEF Base, TypeOK
<1>1. UNCHANGED boot
  BY DEF Submit, Claim, RunOne, Load, Check, Skip, Deliver, Stale, Raises, CommitWatch, Finish, Fail, DrainDies
<1>2. CASE Submit
  <2>1. UNCHANGED <<row, refusals>> /\ ex.pc = "idle" /\ ex'.pc = "claim"
    BY <1>t, <1>2 DEF Submit, TypeOK
  <2> QED
    BY <1>1, <1>t, <2>1, StrandsNone DEF Stranded
<1>3. CASE Claim
  <2>1. ex.pc = "claim" /\ UNCHANGED refusals
    BY <1>3 DEF Claim
  <2>2. CASE ex' = Idle /\ UNCHANGED row
    BY <1>1, <1>t, <2>1, <2>2, StrandsNone DEF Stranded, Idle
  <2>3. ASSUME NEW j \in Keys, row' = [row EXCEPT ![j].status = "processing"],
               ex' = [ex EXCEPT !.pc = "load", !.key = j]
        PROVE  StrandedInv'
    <3>1. ex'.pc = "load" /\ ex'.key = j /\ \A k \in Keys : k # j => row'[k] = row[k]
      BY <1>t, <2>3 DEF TypeOK
    <3> QED
      BY <1>1, <1>t, <2>1, <3>1, StrandsNone DEF Stranded
  <2> QED
    BY <1>3, <2>2, <2>3 DEF Claim
<1>4. CASE Load \/ Check \/ Skip \/ Deliver \/ Stale \/ Raises \/ CommitWatch
  <2>1. UNCHANGED <<row, refusals>> /\ ex'.key = ex.key /\ ex'.pc \notin {"idle", "claim"}
        /\ ex.pc \notin {"idle", "claim"}
    BY <1>t, <1>4 DEF Load, Check, Skip, Deliver, Stale, Raises, CommitWatch, TypeOK
  <2> QED
    BY <1>1, <1>t, <2>1, StrandsNone DEF Stranded
<1>5. CASE Finish \/ Fail
  <2>1. ex'.pc = "claim" /\ Holding /\ ex.key \in Keys /\ row[ex.key] \in Row /\ UNCHANGED refusals
    BY <1>t, <1>5 DEF Finish, Fail, Idle, Holding, Base, HeldInv, TypeOK
  <2>2. \A k \in Keys : k # ex.key => row'[k] = row[k]
    BY <1>t, <1>5 DEF Finish, Fail, TypeOK
  <2>3. row'[ex.key].status # "processing"
    <3>1. CASE Finish
      <4>1. row'[ex.key] = Finished(row[ex.key])
        BY <1>t, <2>1, <3>1 DEF Finish, TypeOK
      <4> QED
        BY <4>1 DEF Finished, Fresh, NoRow
    <3>2. CASE Fail
      <4>1. row'[ex.key] = Failed(row[ex.key])
        BY <1>t, <2>1, <3>2 DEF Fail, TypeOK
      <4> QED
        BY <2>1, <4>1 DEF Failed, Row
    <3> QED
      BY <1>5, <3>1, <3>2
  <2> QED
    BY <1>1, <1>t, <2>1, <2>2, <2>3, StrandsNone DEF Stranded, Holding
<1>6. CASE DrainDies
  <2>1. UNCHANGED row /\ ex'.pc = "idle" /\ refusals' = refusals + 1
    BY <1>6 DEF DrainDies, Idle
  <2>2. CASE ex.pc = "claim"
    BY <1>1, <1>t, <2>1, <2>2, StrandsNone DEF Stranded
  <2>3. CASE ex.pc # "claim"
    <3>1. StrandedKeys' \subseteq StrandedKeys \cup {ex.key}
      BY <2>1 DEF StrandedKeys, Stranded
    <3>2. CASE boot = "done"
      <4>1. IsFiniteSet(StrandedKeys) /\ Cardinality(StrandedKeys) <= refusals
        BY <3>2 DEF StrandedInv
      <4>2. /\ IsFiniteSet(StrandedKeys \cup {ex.key})
            /\ Cardinality(StrandedKeys \cup {ex.key}) <= Cardinality(StrandedKeys) + 1
        <5>1. Cardinality(StrandedKeys) \in Nat
          BY <4>1, FS_CardinalityType
        <5>2. /\ IsFiniteSet(StrandedKeys \cup {ex.key})
              /\ Cardinality(StrandedKeys \cup {ex.key})
                   = IF ex.key \in StrandedKeys THEN Cardinality(StrandedKeys) ELSE Cardinality(StrandedKeys) + 1
          BY <4>1, FS_AddElement
        <5> QED
          BY <5>1, <5>2
      <4>3. /\ IsFiniteSet(StrandedKeys')
            /\ Cardinality(StrandedKeys') <= Cardinality(StrandedKeys \cup {ex.key})
        BY <3>1, <4>2, FS_Subset
      <4>4. /\ Cardinality(StrandedKeys) \in Nat /\ Cardinality(StrandedKeys') \in Nat
            /\ Cardinality(StrandedKeys \cup {ex.key}) \in Nat
        BY <4>1, <4>2, <4>3, FS_CardinalityType
      <4> QED
        BY <1>t, <2>1, <4>1, <4>2, <4>3, <4>4 DEF StrandedInv
    <3>3. CASE boot # "done"
      BY <1>1, <3>3 DEF StrandedInv
    <3> QED
      BY <3>2, <3>3
  <2> QED
    BY <2>2, <2>3
<1> QED
  BY <1>2, <1>3, <1>4, <1>5, <1>6 DEF RunOne

\* The backoff, the manual retry, the recovery and the crash.
LEMMA OthersStrand ==
  ASSUME Base, StrandedInv, (\E k \in Keys : BackoffElapses(k)) \/ RetryAll \/ BootRecover \/ Crash
  PROVE  StrandedInv'
<1> USE DEF queue, servers, bounds
<1>t. TypeOK /\ refusals \in Nat
  BY AsyncAssumption DEF Base, TypeOK
<1>1. CASE Crash
  BY <1>1 DEF Crash, StrandedInv
<1>2. CASE BootRecover
  <2>1. ASSUME NEW k \in Keys PROVE row'[k].status # "processing"
    <3>1. row[k] \in Row /\ row'[k] = Recovered(row[k])
      BY <1>t, <1>2 DEF BootRecover, TypeOK
    <3>2. CASE row[k].status = "processing"
      BY <3>1, <3>2 DEF Recovered, Row
    <3>3. CASE row[k].status # "processing"
      BY <3>1, <3>3 DEF Recovered
    <3> QED
      BY <3>2, <3>3
  <2>2. StrandedKeys' = {}
    BY <2>1 DEF StrandedKeys, Stranded
  <2>3. IsFiniteSet(StrandedKeys') /\ Cardinality(StrandedKeys') = 0
    BY <2>2, FS_EmptySet
  <2> QED
    BY <1>2, <1>t, <2>3 DEF StrandedInv, BootRecover
<1>3. ASSUME NEW j \in Keys, BackoffElapses(j) PROVE StrandedInv'
  <2>1. row[j] \in Row /\ row' = [row EXCEPT ![j] = [row[j] EXCEPT !.due = TRUE]]
    BY <1>t, <1>3 DEF BackoffElapses, TypeOK
  <2>2. [row[j] EXCEPT !.due = TRUE].status = row[j].status
    BY <2>1 DEF Row
  <2>3. \A k \in Keys : row'[k].status = row[k].status
    BY <1>t, <2>1, <2>2 DEF TypeOK
  <2> QED
    BY <1>3, <1>t, <2>3, StrandsNone DEF BackoffElapses, Stranded
<1>4. CASE RetryAll
  <2>1. ASSUME NEW k \in Keys PROVE row'[k].status = "processing" => row[k].status = "processing"
    <3>1. row[k] \in Row /\ row'[k] = Retried(row[k])
      BY <1>t, <1>4 DEF RetryAll, TypeOK
    <3>2. CASE row[k].status \in {"pending", "blocked"}
      BY <3>1, <3>2 DEF Retried, Row
    <3>3. CASE row[k].status \notin {"pending", "blocked"}
      BY <3>1, <3>3 DEF Retried
    <3> QED
      BY <3>2, <3>3
  <2> QED
    BY <1>4, <1>t, <2>1, StrandsNone DEF RetryAll, Stranded
<1> QED
  BY <1>1, <1>2, <1>3, <1>4

\* Once the recovery is over, a row is processing only in the executor's hands, or because
\* a refused commit ended a drain (_execute's fatal branch).
THEOREM OnlyRefusalsStrand == Spec => []StrandedByRefusal
<1>1. Init => StrandedInv
  BY DEF Init, StrandedInv
<1>2. Base /\ StrandedInv /\ [Next]_vars => StrandedInv'
  <2>1. ASSUME Base, StrandedInv, UNCHANGED vars PROVE StrandedInv'
    BY <2>1 DEF vars, StrandedInv, StrandedKeys, Stranded
  <2>2. ASSUME Base, StrandedInv,
               \/ \E m \in Media : ProgressEvent(m) \/ ProgressLookup(m) \/ CompletedEvent(m)
               \/ ProgressWrite
        PROVE  StrandedInv'
    <3>1. /\ UNCHANGED <<ex, boot, refusals>>
          /\ \A k \in Keys : row'[k].status = "processing" => row[k].status = "processing"
      BY <2>2, RequestsStrandNone
    <3>2. refusals \in Nat
      BY <2>2, AsyncAssumption DEF Base, TypeOK
    <3> QED
      BY <2>2, <3>1, <3>2, StrandsNone DEF Stranded
  <2> QED
    BY <2>1, <2>2, ExecutorStrands, OthersStrand DEF Next
<1>3. StrandedInv => StrandedByRefusal
  BY DEF StrandedInv, StrandedByRefusal, StrandedKeys
<1> QED
  BY <1>1, <1>2, <1>3, BaseInvariant, PTL DEF Spec
===============================================================================
