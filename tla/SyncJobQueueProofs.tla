------------------------- MODULE SyncJobQueueProofs -------------------------
(* Theorems about SyncJobQueue, for any number of jobs, runners and slots.    *)
EXTENDS SyncJobQueue, FiniteSetTheorems, TLAPS

(* What Unlocked and WriteRow return.                                         *)
LEMMA UnlockedType ==
  ASSUME NEW r \in Row, NEW st \in Status
  PROVE  Unlocked(r, st) \in Row
BY ConstantsAssumption DEF Unlocked, Row

(* A write by id leaves a row of the table, or nothing.                      *)
LEMMA WriteRowType ==
  ASSUME TypeOK, NEW j \in Jobs, NEW id, NEW new \in Row, WriteRow(j, id, new)
  PROVE  row' \in [Jobs -> Row]
BY DEF WriteRow, TypeOK

(* No row is a row too.                                                       *)
LEMMA AbsentRowType == AbsentRow \in Row
BY ConstantsAssumption DEF AbsentRow, Row, Status, Live, Terminal

LEMMA BusyTaskType ==
  ASSUME TypeOK, NEW t \in Tasks, Busy(t)
  PROVE  task[t] \in BusyTask
BY DEF TypeOK, Busy, IdleTask

-----------------------------------------------------------------------------
(* Type correctness: every statement of the code leaves a row, a snapshot and *)
(* a task of the shapes the next statement expects.                           *)
LEMMA TypeInit == Init => TypeOK
BY AbsentRowType DEF Init, TypeOK

(* Statement by statement.                                                    *)
LEMMA TypeStep == TypeOK /\ [Next]_vars => TypeOK'
<1> SUFFICES ASSUME TypeOK, [Next]_vars PROVE TypeOK'
  OBVIOUS
<1> USE ConstantsAssumption
<1>1. ASSUME NEW j \in Jobs, CreateIfNotExists(j) PROVE TypeOK'
  <2> DEFINE n == row[j].id + 1
  <2>1. [AbsentRow EXCEPT !.status = "queued", !.due = TRUE, !.id = n] \in Row
    <3>1. n \in Nat
      BY DEF TypeOK, Row
    <3> HIDE DEF n
    <3> QED BY <3>1 DEF AbsentRow, Row, Status, Live, Terminal
  <2> QED BY <1>1, <2>1 DEF CreateIfNotExists, TypeOK
<1>2. ASSUME NEW j \in Jobs, BackoffElapses(j) PROVE TypeOK'
  BY ZenonT(60), <1>2 DEF BackoffElapses, TypeOK, Row
<1>3. ASSUME NEW j \in Jobs, LockGoesStale(j) PROVE TypeOK'
  <2>1. [row[j] EXCEPT !.stale = TRUE] \in Row
    BY DEF TypeOK, Row
  <2> QED BY <1>3, <2>1 DEF LockGoesStale, Fault, TypeOK
<1>4. ASSUME NEW j \in Jobs, RetentionElapses(j) PROVE TypeOK'
  BY ZenonT(60), <1>4 DEF RetentionElapses, TypeOK, Row
<1>5. ASSUME NEW w \in Workers, NEW S \in SUBSET Jobs, ClaimDueJobs(w, S) PROVE TypeOK'
  <2>1. \A j \in Jobs : [row[j] EXCEPT !.status = "running", !.owner = w, !.stale = FALSE] \in Row
    BY ZenonT(60) DEF TypeOK, Row, Status, Live
  <2>2. \A j \in Jobs : Entity(j) \in Snapshot
    BY DEF TypeOK, Row, Entity, Snapshot
  <2>3. row' \in [Jobs -> Row]
    BY <1>5, <2>1 DEF ClaimDueJobs, TypeOK
  <2>4. {Entity(j) : j \in S} \in SUBSET Snapshot
    BY <2>2
  <2>5. batch' \in [Workers -> SUBSET Snapshot]
    BY <1>5, <2>4 DEF ClaimDueJobs, TypeOK
  <2> QED BY <1>5, <2>3, <2>5 DEF ClaimDueJobs, TypeOK
<1>6. ASSUME NEW w \in Workers, NEW e \in batch[w], ReleaseSurplusClaim(w, e) PROVE TypeOK'
  <2>1. e \in Snapshot /\ e.job \in Jobs
    BY DEF TypeOK, Snapshot
  <2>2. Unlocked(row[e.job], "queued") \in Row
    BY <2>1, UnlockedType DEF TypeOK, Status, Live
  <2>3. row' \in [Jobs -> Row]
    <3>1. [Unlocked(row[e.job], "queued") EXCEPT !.due = TRUE] \in Row
      BY <2>2 DEF Row
    <3> QED BY <1>6, <2>1, <3>1, WriteRowType DEF ReleaseSurplusClaim, TypeOK
  <2> QED BY <1>6, <2>3 DEF ReleaseSurplusClaim, Fault, TypeOK
<1>7. ASSUME NEW w \in Workers, NEW e \in batch[w], NEW s \in Slots, StartJob(w, e, s) PROVE TypeOK'
  <2>1. e \in Snapshot
    BY DEF TypeOK
  <2>2. [pc |-> "exec", job |-> e.job, id |-> e.id, attempts |-> e.attempts,
         deferred |-> e.deferred, result |-> "ok"] \in BusyTask
    BY <2>1 DEF Snapshot, BusyTask, ResultKinds
  <2> QED BY <1>7, <2>2 DEF StartJob, TypeOK
<1>8. ASSUME NEW w \in Workers, Crash(w) PROVE TypeOK'
  BY <1>8 DEF Crash, Fault, TypeOK
<1>9. ASSUME NEW t \in Tasks, Heartbeat(t) PROVE TypeOK'
  BY ZenonT(60), <1>9 DEF Heartbeat, TypeOK, Row
<1>10. ASSUME NEW t \in Tasks, NEW r \in Results, FinishHandler(t, r) PROVE TypeOK'
  <2>1. task[t] \in BusyTask
    BY <1>10, BusyTaskType DEF FinishHandler, Busy
  <2>2. [task[t] EXCEPT !.pc = "settle", !.result = r] \in BusyTask
    BY <2>1 DEF BusyTask
  <2>3. task' = [task EXCEPT ![t] = [task[t] EXCEPT !.pc = "settle", !.result = r]]
    BY <1>10, <2>1 DEF FinishHandler, TypeOK, BusyTask
  <2> QED BY <1>10, <2>2, <2>3 DEF FinishHandler, TypeOK
<1>11. ASSUME NEW t \in Tasks, MarkSucceeded(t) PROVE TypeOK'
  <2>1. task[t] \in BusyTask /\ task[t].job \in Jobs
    BY <1>11, BusyTaskType DEF MarkSucceeded, Busy, BusyTask
  <2>2. row' \in [Jobs -> Row]
    BY <1>11, <2>1, UnlockedType, WriteRowType DEF MarkSucceeded, TypeOK, Status, Terminal
  <2>3. task' \in [Tasks -> BusyTask \cup {IdleTask}]
    BY <1>11, <2>1 DEF MarkSucceeded, Release, TypeOK, BusyTask, ResultKinds
  <2> QED BY <1>11, <2>2, <2>3 DEF MarkSucceeded, Fault, TypeOK
<1>12. ASSUME NEW t \in Tasks, HandleFailure(t) PROVE TypeOK'
  <2>1. task[t] \in BusyTask /\ task[t].job \in Jobs /\ row[task[t].job] \in Row
    <3>1. Busy(t)
      BY <1>12 DEF HandleFailure, RequeueRateLimited, Defer, ReadConnection,
        FlagConnection, MarkDead, OnDead, ReadAttempts, MarkFailed, OnLadder, Busy
    <3> QED BY <3>1, BusyTaskType DEF BusyTask, TypeOK
  <2> DEFINE j == task[t].job
             id == task[t].id
  <2>2. Unlocked(row[j], "queued") \in Row /\ Unlocked(row[j], "dead") \in Row
    BY <2>1, UnlockedType DEF Status, Live, Terminal
  <2>3. CASE RequeueRateLimited(t)
    <3>1. [Unlocked(row[j], "queued") EXCEPT !.due = FALSE] \in Row
      BY <2>2 DEF Row
    <3>2. row' \in [Jobs -> Row]
      BY <2>1, <2>3, <3>1, WriteRowType DEF RequeueRateLimited
    <3> QED BY <2>3, <3>2 DEF RequeueRateLimited, Release, TypeOK
  <2>4. CASE Defer(t)
    <3>1. [Unlocked(row[j], "queued") EXCEPT !.due = FALSE,
             !.deferred = task[t].deferred + 1] \in Row
      <4>1. task[t].deferred + 1 \in Nat
        BY <2>1 DEF BusyTask
      <4> QED BY <4>1, <2>2 DEF Row
    <3>2. row' \in [Jobs -> Row]
      BY <2>1, <2>4, <3>1, WriteRowType DEF Defer, DeferredTotal
    <3> QED BY <2>4, <3>2 DEF Defer, Release, TypeOK
  <2>5. CASE ReadConnection(t)
    <3>1. task'[t] \in BusyTask
      BY <2>1, <2>5 DEF ReadConnection, BusyTask, ResultKinds, TypeOK
    <3> QED BY <2>5, <3>1 DEF ReadConnection, Fault, TypeOK
  <2>6. CASE FlagConnection(t)
    <3>1. task'[t] \in BusyTask
      BY <2>1, <2>6 DEF FlagConnection, BusyTask, ResultKinds, TypeOK
    <3>2. ConnOf[j] \in Conns
      BY <2>1
    <3> QED BY <2>6, <3>1, <3>2 DEF FlagConnection, Fault, TypeOK
  <2>7. CASE MarkDead(t)
    <3>1. row' \in [Jobs -> Row]
      BY <2>1, <2>2, <2>7, WriteRowType DEF MarkDead
    <3>2. task'[t] \in BusyTask
      BY <2>1, <2>7 DEF MarkDead, BusyTask, TypeOK
    <3> QED BY <2>7, <3>1, <3>2 DEF MarkDead, TypeOK
  <2>8. CASE OnDead(t)
    BY <2>8 DEF OnDead, Release, TypeOK
  <2>9. CASE ReadAttempts(t)
    <3>1. [task[t] EXCEPT !.pc = "bump", !.attempts = row[j].attempts] \in BusyTask
      BY <2>1 DEF BusyTask, Row
    <3> QED BY <2>9, <3>1 DEF ReadAttempts, TypeOK
  <2>10. CASE MarkFailed(t)
    <3>1. [Unlocked(row[j], "queued") EXCEPT !.due = FALSE,
             !.attempts = task[t].attempts + 1] \in Row
      <4>1. task[t].attempts + 1 \in Nat
        BY <2>1 DEF BusyTask
      <4> QED BY <4>1, <2>2 DEF Row
    <3>2. row' \in [Jobs -> Row]
      BY <2>1, <2>10, <3>1, WriteRowType DEF MarkFailed
    <3> QED BY <2>10, <3>2 DEF MarkFailed, Release, TypeOK
  <2> QED BY <1>12, <2>3, <2>4, <2>5, <2>6, <2>7, <2>8, <2>9, <2>10 DEF HandleFailure
<1>13. ASSUME NEW t \in Tasks, SettleFails(t) PROVE TypeOK'
  BY <1>13 DEF SettleFails, Fault, Release, TypeOK
<1>14. ASSUME NEW S \in SUBSET Jobs, RequeueDeadJobs(S) PROVE TypeOK'
  <2>1. \A j \in Jobs : [Unlocked(row[j], "queued") EXCEPT !.attempts = 0, !.due = TRUE] \in Row
    <3> TAKE j \in Jobs
    <3>1. Unlocked(row[j], "queued") \in Row
      BY UnlockedType DEF TypeOK, Status, Live
    <3> QED BY <3>1 DEF Row
  <2>2. row' \in [Jobs -> Row]
    BY <1>14, <2>1 DEF RequeueDeadJobs, TypeOK
  <2>3. retries' \in Nat
    <3>1. retries \in Nat /\ retries' = retries + 1
      BY <1>14 DEF RequeueDeadJobs, TypeOK
    <3> QED BY <3>1
  <2>4. UNCHANGED <<batch, task, conn, pruning, faults>>
    BY <1>14 DEF RequeueDeadJobs
  <2> QED BY <2>2, <2>3, <2>4 DEF TypeOK
<1>15. ASSUME NEW st \in Terminal, SelectPrunable(st) PROVE TypeOK'
  BY <1>15 DEF SelectPrunable, TypeOK, Row
<1>16. ASSUME NEW c \in Conns, NEW st \in {"active", "disabled"}, SetConnection(c, st) PROVE TypeOK'
  BY <1>16 DEF SetConnection, TypeOK
<1>17. ASSUME RequeueStuckJobs PROVE TypeOK'
  <2>1. \A j \in Jobs : Unlocked(row[j], "queued") \in Row
    BY UnlockedType DEF TypeOK, Status, Live
  <2>2. row' \in [Jobs -> Row]
    BY <1>17, <2>1 DEF RequeueStuckJobs, TypeOK
  <2> QED BY <1>17, <2>2 DEF RequeueStuckJobs, TypeOK
<1>18. ASSUME PruneTerminalJobs PROVE TypeOK'
  <2>1. \A j \in Jobs : [AbsentRow EXCEPT !.id = row[j].id] \in Row
    BY AbsentRowType DEF TypeOK, Row
  <2>2. row' \in [Jobs -> Row]
    BY <1>18, <2>1 DEF PruneTerminalJobs, TypeOK
  <2> QED BY <1>18, <2>2 DEF PruneTerminalJobs, TypeOK
<1>19. CASE UNCHANGED vars
  BY <1>19 DEF vars, TypeOK
<1> QED
  BY <1>1, <1>2, <1>3, <1>4, <1>5, <1>6, <1>7, <1>8, <1>9, <1>10, <1>11,
     <1>12, <1>13, <1>14, <1>15, <1>16, <1>17, <1>18, <1>19 DEF Next

THEOREM TypeCorrect == Spec => []TypeOK
BY TypeInit, TypeStep, PTL DEF Spec

-----------------------------------------------------------------------------
(* The inductive invariant.  Its parts, for a queue whose heartbeats reach    *)
(* the database: no task or claim names an id the table has not issued yet;   *)
(* a claim not started is as current as a task; a row somebody holds is not   *)
(* stale, so recovery leaves it alone; and a task about to charge an attempt  *)
(* has one left.                                                              *)
IdsIssued ==
  /\ \A t \in Tasks : Busy(t) => task[t].id <= row[task[t].job].id
  /\ \A w \in Workers : \A e \in batch[w] : e.id <= row[e.job].id

TaskCurrent ==
  \A t \in Tasks : Holding(t) /\ Present(task[t].job, task[t].id) =>
    /\ row[task[t].job].status = "running"
    /\ row[task[t].job].owner = WorkerOf(t)
    /\ row[task[t].job].attempts = task[t].attempts
    /\ row[task[t].job].deferred = task[t].deferred

ClaimCurrent ==
  \A w \in Workers : \A e \in batch[w] : Present(e.job, e.id) =>
    /\ row[e.job].status = "running"
    /\ row[e.job].owner = w
    /\ row[e.job].attempts = e.attempts
    /\ row[e.job].deferred = e.deferred

HoldersDistinct ==
  \A j \in Jobs :
    /\ \A t, u \in Tasks : Holds(t, j) /\ Holds(u, j) => t = u
    /\ \A t \in Tasks, w \in Workers : ~(Holds(t, j) /\ Claimed(w, j))
    /\ \A v, w \in Workers : Claimed(v, j) /\ Claimed(w, j) => v = w

BatchDistinct ==
  \A w \in Workers : \A e, f \in batch[w] : e.job = f.job /\ e.id = f.id => e = f

FreshWhileHeld ==
  \A j \in Jobs : row[j].status # "absent" /\ Held(j) => ~row[j].stale

Budgets ==
  \A j \in Jobs : row[j].attempts < MaxAttempts /\ row[j].deferred <= DeferBudget

BumpAffordable ==
  \A t \in Tasks : task[t].pc = "bump" => task[t].attempts + 1 < MaxAttempts

Exclusive ==
  /\ IdsIssued /\ TaskCurrent /\ ClaimCurrent /\ HoldersDistinct
  /\ BatchDistinct /\ FreshWhileHeld /\ Budgets /\ BumpAffordable

IInv == TypeOK /\ (HeartbeatsReliable => Exclusive)

(* A task settles its job: it holds the row alone, so the write by id reaches *)
(* no other run, and the task stops holding it.                               *)
LEMMA SettleWrite ==
  ASSUME TypeOK, Exclusive, NEW t \in Tasks, Holding(t), task[t] \in BusyTask,
         NEW new \in Row, new.id = row[task[t].job].id,
         new.attempts < MaxAttempts, new.deferred <= DeferBudget,
         WriteRow(task[t].job, task[t].id, new),
         NEW x, task' = [task EXCEPT ![t] = x],
         x.pc = "idle" \/ (x.pc = "notify" /\ x.job = task[t].job /\ x.id = task[t].id),
         batch' = batch
  PROVE  Exclusive'
<1> DEFINE j == task[t].job
           id == task[t].id
<1>1. j \in Jobs /\ id \in Nat /\ row \in [Jobs -> Row] /\ Busy(t)
  BY DEF TypeOK, BusyTask, Holding, Busy
<1>2. \A u \in Tasks : u # t => task'[u] = task[u]
  BY DEF TypeOK
<1>3. task'[t] = x
  BY DEF TypeOK
<1>4. \A k \in Jobs : k # j \/ ~Present(j, id) => row'[k] = row[k]
  BY <1>1 DEF WriteRow
<1>5. Present(j, id) => row'[j] = new
  BY <1>1 DEF WriteRow
<1>6. \A k \in Jobs : row'[k].id = row[k].id
  BY <1>4, <1>5
<1>7. ~Holding(t)'
  BY <1>3 DEF Holding
<1>8. \A u \in Tasks : Holding(u)' => u # t /\ Holding(u) /\ task'[u] = task[u]
  BY <1>2, <1>7 DEF Holding
<1>9. \A u \in Tasks, k \in Jobs : Holds(u, k)' => u # t /\ Holds(u, k)
  BY <1>6, <1>8 DEF Holds
<1>10. \A w \in Workers, k \in Jobs : Claimed(w, k)' <=> Claimed(w, k)
  BY <1>6 DEF Claimed
<1>11. Present(j, id) =>
         /\ \A u \in Tasks : u # t => ~Holds(u, j)
         /\ \A w \in Workers : ~Claimed(w, j)
  BY <1>1 DEF Exclusive, HoldersDistinct, Holds, Present
<1>12. IdsIssued'
  <2>1. ASSUME NEW u \in Tasks, Busy(u)' PROVE task'[u].id <= row'[task'[u].job].id
    <3>1. CASE u = t
      BY <1>1, <1>3, <1>6, <2>1, <3>1 DEF Exclusive, IdsIssued, Busy
    <3>2. CASE u # t
      <4>1. task[u] \in BusyTask /\ Busy(u)
        BY <1>2, <2>1, <3>2, BusyTaskType DEF Busy
      <4> QED BY <1>2, <1>6, <3>2, <4>1 DEF Exclusive, IdsIssued, BusyTask
    <3> QED BY <3>1, <3>2
  <2>2. ASSUME NEW w \in Workers, NEW e \in batch[w] PROVE e.id <= row'[e.job].id
    <3>1. e.job \in Jobs
      BY DEF TypeOK, Snapshot
    <3> QED BY <1>6, <3>1 DEF Exclusive, IdsIssued
  <2> QED BY <2>1, <2>2 DEF IdsIssued
<1>13. TaskCurrent'
  <2> SUFFICES ASSUME NEW u \in Tasks, Holding(u)', row'[task[u].job].status # "absent",
                      row'[task[u].job].id = task[u].id
               PROVE  /\ row'[task[u].job].status = "running"
                      /\ row'[task[u].job].owner = WorkerOf(u)
                      /\ row'[task[u].job].attempts = task[u].attempts
                      /\ row'[task[u].job].deferred = task[u].deferred
    BY <1>8 DEF TaskCurrent, Present, Holding
  <2>1. u # t /\ Holding(u) /\ task[u].job \in Jobs
    BY <1>8, BusyTaskType DEF Holding, Busy, BusyTask
  <2>2. row'[task[u].job] = row[task[u].job]
    <3>1. ASSUME task[u].job = j, Present(j, id) PROVE FALSE
      <4>1. task[u].id = row[j].id
        BY <1>1, <1>6, <3>1 DEF Present
      <4> QED BY <1>11, <2>1, <3>1, <4>1 DEF Holds
    <3> QED BY <1>4, <2>1, <3>1
  <2>3. Present(task[u].job, task[u].id)
    BY <2>2 DEF Present
  <2> QED BY <2>1, <2>2, <2>3 DEF Exclusive, TaskCurrent
<1>14. ClaimCurrent'
  <2> SUFFICES ASSUME NEW w \in Workers, NEW e \in batch[w], Present(e.job, e.id)'
               PROVE  /\ row'[e.job].status = "running"
                      /\ row'[e.job].owner = w
                      /\ row'[e.job].attempts = e.attempts
                      /\ row'[e.job].deferred = e.deferred
    BY DEF ClaimCurrent, Present
  <2>1. e.job \in Jobs
    BY DEF TypeOK, Snapshot
  <2>2. row'[e.job] = row[e.job]
    <3>1. ASSUME e.job = j, Present(j, id) PROVE FALSE
      <4>1. e.id = row[j].id
        BY <1>1, <1>6, <3>1 DEF Present
      <4> QED BY <1>11, <3>1, <4>1 DEF Claimed
    <3> QED BY <1>4, <2>1, <3>1
  <2>3. Present(e.job, e.id)
    BY <2>2 DEF Present
  <2> QED BY <2>1, <2>2, <2>3 DEF Exclusive, ClaimCurrent
<1>15. HoldersDistinct'
  BY <1>9, <1>10 DEF Exclusive, HoldersDistinct
<1>16. BatchDistinct'
  BY DEF Exclusive, BatchDistinct
<1>17. FreshWhileHeld'
  <2> SUFFICES ASSUME NEW k \in Jobs, row'[k].status # "absent", Held(k)'
               PROVE  ~row'[k].stale
    BY DEF FreshWhileHeld
  <2>1. (\E u \in Tasks : u # t /\ Holds(u, k)) \/ (\E w \in Workers : Claimed(w, k))
    BY <1>9, <1>10 DEF Held
  <2>2. Held(k)
    BY <2>1 DEF Held
  <2>3. row'[k] = row[k]
    BY <1>4, <1>11, <2>1
  <2> QED BY <2>2, <2>3 DEF Exclusive, FreshWhileHeld
<1>18. Budgets'
  BY <1>1, <1>4, <1>5 DEF Exclusive, Budgets
<1>19. BumpAffordable'
  <2> SUFFICES ASSUME NEW u \in Tasks, task'[u].pc = "bump"
               PROVE  task'[u].attempts + 1 < MaxAttempts
    BY DEF BumpAffordable
  <2>1. u # t
    BY <1>3
  <2> QED BY <1>2, <2>1 DEF Exclusive, BumpAffordable
<1> QED
  BY <1>12, <1>13, <1>14, <1>15, <1>16, <1>17, <1>18, <1>19 DEF Exclusive

(* A task moves on by itself: it may stop holding its row, or keep it with a  *)
(* snapshot that is still current.                                            *)
LEMMA TaskStep ==
  ASSUME TypeOK, TypeOK', Exclusive, row' = row, batch' = batch,
         NEW t \in Tasks, NEW x, task' = [task EXCEPT ![t] = x],
         \/ x.pc = "idle"
         \/ /\ Busy(t) /\ x.job = task[t].job /\ x.id = task[t].id
            /\ x.pc \in {"settle", "flag", "bump"} => Holding(t)
            /\ x.pc \in {"settle", "flag", "bump", "notify"}
            /\ Present(x.job, x.id) /\ x.pc # "notify" =>
                 x.attempts = row[x.job].attempts /\ x.deferred = row[x.job].deferred
            /\ x.pc = "bump" => x.attempts + 1 < MaxAttempts
  PROVE  Exclusive'
<1>1. \A u \in Tasks : u # t => task'[u] = task[u]
  BY DEF TypeOK
<1>2. task'[t] = x
  BY DEF TypeOK
<1>3. \A u \in Tasks : Holding(u)' => Holding(u) /\ task'[u].job = task[u].job /\ task'[u].id = task[u].id
  BY <1>1, <1>2 DEF Holding
<1>4. \A u \in Tasks, k \in Jobs : Holds(u, k)' => Holds(u, k)
  BY <1>3 DEF Holds
<1>5. \A w \in Workers, k \in Jobs : Claimed(w, k)' <=> Claimed(w, k)
  BY DEF Claimed
<1>6. IdsIssued'
  BY <1>1, <1>2 DEF Exclusive, IdsIssued, Busy
<1>7. TaskCurrent'
  <2> SUFFICES ASSUME NEW u \in Tasks, Holding(u)', row[task'[u].job].status # "absent",
                      row[task'[u].job].id = task'[u].id
               PROVE  /\ row[task'[u].job].status = "running"
                      /\ row[task'[u].job].owner = WorkerOf(u)
                      /\ row[task'[u].job].attempts = task'[u].attempts
                      /\ row[task'[u].job].deferred = task'[u].deferred
    BY DEF TaskCurrent, Present, WorkerOf
  <2>1. /\ row[task'[u].job].status = "running"
        /\ row[task'[u].job].owner = WorkerOf(u)
    BY <1>3 DEF Exclusive, TaskCurrent, Present
  <2>2. /\ row[task'[u].job].attempts = task'[u].attempts
        /\ row[task'[u].job].deferred = task'[u].deferred
    <3>1. CASE u = t
      BY <1>2, <3>1 DEF Holding, Present
    <3>2. CASE u # t
      BY <1>1, <1>3, <3>2 DEF Exclusive, TaskCurrent, Present
    <3> QED BY <3>1, <3>2
  <2> QED BY <2>1, <2>2
<1>8. ClaimCurrent'
  BY DEF Exclusive, ClaimCurrent, Present
<1>9. HoldersDistinct'
  BY <1>4, <1>5 DEF Exclusive, HoldersDistinct
<1>10. BatchDistinct'
  BY DEF Exclusive, BatchDistinct
<1>11. FreshWhileHeld'
  <2>1. \A k \in Jobs : Held(k)' => Held(k)
    BY <1>4, <1>5 DEF Held
  <2> QED BY <2>1 DEF Exclusive, FreshWhileHeld
<1>12. Budgets'
  BY DEF Exclusive, Budgets
<1>13. BumpAffordable'
  <2> SUFFICES ASSUME NEW u \in Tasks, task'[u].pc = "bump"
               PROVE  task'[u].attempts + 1 < MaxAttempts
    BY DEF BumpAffordable
  <2> QED BY <1>1, <1>2 DEF Exclusive, BumpAffordable
<1> QED
  BY <1>6, <1>7, <1>8, <1>9, <1>10, <1>11, <1>12, <1>13 DEF Exclusive

(* The table changes under the runners: what a statement may do to a row      *)
(* while it leaves the invariant alone.                                       *)
Quiet(k) ==
  /\ row'[k].id = row[k].id /\ row'[k].status = row[k].status
  /\ row'[k].owner = row[k].owner /\ row'[k].attempts = row[k].attempts
  /\ row'[k].deferred = row[k].deferred
  /\ row'[k].stale => row[k].stale \/ ~Held(k)
Removed(k) == row'[k].status = "absent" /\ row'[k].id = row[k].id
NobodysRow(k) == row'[k].id = row[k].id /\ row[k].status # "absent" /\ ~Held(k)
NewRow(k) == row'[k].id = row[k].id + 1

LEMMA RowStep ==
  ASSUME TypeOK, TypeOK', Exclusive, task' = task, batch' = batch,
         \A k \in Jobs : Quiet(k) \/ Removed(k) \/ NobodysRow(k) \/ NewRow(k),
         \A k \in Jobs : row'[k].attempts < MaxAttempts /\ row'[k].deferred <= DeferBudget
  PROVE  Exclusive'
<1>1. \A k \in Jobs : row[k].id \in Nat /\ row'[k].id \in Nat
  BY DEF TypeOK, Row
<1>2. \A k \in Jobs : row[k].id <= row'[k].id
  BY <1>1 DEF Quiet, Removed, NobodysRow, NewRow
<1>3. \A u \in Tasks : Busy(u) =>
        /\ task[u].job \in Jobs /\ task[u].id \in Nat
        /\ task[u].id <= row[task[u].job].id
  BY BusyTaskType DEF BusyTask, Exclusive, IdsIssued
<1>4. \A w \in Workers : \A e \in batch[w] :
        e.job \in Jobs /\ e.id \in Nat /\ e.id <= row[e.job].id
  BY DEF TypeOK, Snapshot, Exclusive, IdsIssued
<1>5. \A u \in Tasks, k \in Jobs : Holds(u, k)' => Holds(u, k) /\ ~NewRow(k)
  BY <1>1, <1>2, <1>3 DEF Holds, Holding, Busy, NewRow, Quiet, Removed, NobodysRow
<1>6. \A w \in Workers, k \in Jobs : Claimed(w, k)' => Claimed(w, k) /\ ~NewRow(k)
  BY <1>1, <1>2, <1>4 DEF Claimed, NewRow, Quiet, Removed, NobodysRow
<1>7. IdsIssued'
  BY <1>1, <1>2, <1>3, <1>4 DEF IdsIssued, Busy
<1>8. TaskCurrent'
  <2> SUFFICES ASSUME NEW u \in Tasks, Holding(u), row'[task[u].job].status # "absent",
                      row'[task[u].job].id = task[u].id
               PROVE  /\ row'[task[u].job].status = "running"
                      /\ row'[task[u].job].owner = WorkerOf(u)
                      /\ row'[task[u].job].attempts = task[u].attempts
                      /\ row'[task[u].job].deferred = task[u].deferred
    BY DEF TaskCurrent, Present, Holding, WorkerOf
  <2>1. Holds(u, task[u].job)' /\ task[u].job \in Jobs
    BY <1>3 DEF Holds, Holding, Busy
  <2>2. Holds(u, task[u].job) /\ ~NewRow(task[u].job)
    BY <1>5, <2>1
  <2>3. Quiet(task[u].job)
    BY <2>1, <2>2 DEF Held, Removed, NobodysRow
  <2>4. Present(task[u].job, task[u].id)
    BY <2>3 DEF Present, Quiet
  <2> QED BY <2>3, <2>4 DEF Exclusive, TaskCurrent, Quiet
<1>9. ClaimCurrent'
  <2> SUFFICES ASSUME NEW w \in Workers, NEW e \in batch[w], row'[e.job].status # "absent",
                      row'[e.job].id = e.id
               PROVE  /\ row'[e.job].status = "running"
                      /\ row'[e.job].owner = w
                      /\ row'[e.job].attempts = e.attempts
                      /\ row'[e.job].deferred = e.deferred
    BY DEF ClaimCurrent, Present
  <2>1. Claimed(w, e.job)' /\ e.job \in Jobs
    BY <1>4 DEF Claimed
  <2>2. Claimed(w, e.job) /\ ~NewRow(e.job)
    BY <1>6, <2>1
  <2>3. Quiet(e.job)
    BY <2>1, <2>2 DEF Held, Removed, NobodysRow
  <2>4. Present(e.job, e.id)
    BY <2>3 DEF Present, Quiet
  <2> QED BY <2>3, <2>4 DEF Exclusive, ClaimCurrent, Quiet
<1>10. HoldersDistinct'
  BY <1>5, <1>6 DEF Exclusive, HoldersDistinct
<1>11. BatchDistinct'
  BY DEF Exclusive, BatchDistinct
<1>12. FreshWhileHeld'
  <2> SUFFICES ASSUME NEW k \in Jobs, row'[k].status # "absent", Held(k)'
               PROVE  ~row'[k].stale
    BY DEF FreshWhileHeld
  <2>1. Held(k) /\ ~NewRow(k)
    BY <1>5, <1>6 DEF Held
  <2>2. Quiet(k)
    BY <2>1 DEF Removed, NobodysRow
  <2> QED BY <2>1, <2>2 DEF Quiet, Exclusive, FreshWhileHeld
<1>13. Budgets'
  BY DEF Budgets
<1>14. BumpAffordable'
  BY DEF Exclusive, BumpAffordable
<1> QED
  BY <1>7, <1>8, <1>9, <1>10, <1>11, <1>12, <1>13, <1>14 DEF Exclusive

(* A claim: a due row has no holder, since a held row that exists is running. *)
LEMMA ClaimStep ==
  ASSUME TypeOK, Exclusive, NEW w \in Workers, NEW S \in SUBSET Jobs,
         ClaimDueJobs(w, S)
  PROVE  Exclusive'
<1>1. \A k \in S : row[k].status = "queued"
  BY DEF ClaimDueJobs, Due
<1>2. \A k \in S : ~Held(k)
  <2>1. ASSUME NEW k \in S, NEW t \in Tasks, Holds(t, k) PROVE FALSE
    BY <1>1, <2>1 DEF Exclusive, TaskCurrent, Holds, Present
  <2>2. ASSUME NEW k \in S, NEW v \in Workers, Claimed(v, k) PROVE FALSE
    BY <1>1, <2>2 DEF Exclusive, ClaimCurrent, Claimed, Present
  <2> QED BY <2>1, <2>2 DEF Held
<1>3. \A k \in Jobs : /\ row'[k].id = row[k].id /\ row'[k].attempts = row[k].attempts
                      /\ row'[k].deferred = row[k].deferred
                      /\ k \in S => row'[k].status = "running" /\ row'[k].owner = w /\ ~row'[k].stale
                      /\ k \notin S => row'[k] = row[k]
  BY DEF ClaimDueJobs, TypeOK, Row
<1>4. task' = task /\ batch[w] = {} /\ batch' = [batch EXCEPT ![w] = {Entity(k) : k \in S}]
  BY DEF ClaimDueJobs
<1>5. \A v \in Workers : v # w => batch'[v] = batch[v]
  BY <1>4 DEF TypeOK
<1>6. batch'[w] = {Entity(k) : k \in S}
  BY <1>4 DEF TypeOK
<1>7. \A t \in Tasks, k \in Jobs : Holds(t, k)' <=> Holds(t, k)
  BY <1>3, <1>4 DEF Holds, Holding
<1>8. \A e \in batch'[w] : e.job \in S /\ e = Entity(e.job)
  BY <1>6 DEF Entity
<1>9. \A k \in Jobs : Claimed(w, k)' => k \in S
  BY <1>8 DEF Claimed
<1>10. \A v \in Workers, k \in Jobs : v # w => (Claimed(v, k)' <=> Claimed(v, k))
  BY <1>3, <1>5 DEF Claimed
<1>11. IdsIssued'
  <2>1. \A t \in Tasks : Busy(t) => task[t].job \in Jobs
    BY BusyTaskType DEF BusyTask
  <2>2. ASSUME NEW v \in Workers, NEW e \in batch'[v] PROVE e.id <= row'[e.job].id
    <3>1. CASE v = w
      BY <1>3, <1>8, <2>2, <3>1 DEF Entity, TypeOK, Row
    <3>2. CASE v # w
      BY <1>3, <1>5, <2>2, <3>2 DEF Exclusive, IdsIssued, TypeOK, Snapshot
    <3> QED BY <3>1, <3>2
  <2> QED BY <1>3, <1>4, <2>1, <2>2 DEF Exclusive, IdsIssued, Busy
<1>12. TaskCurrent'
  <2> SUFFICES ASSUME NEW t \in Tasks, Holding(t), row'[task[t].job].status # "absent",
                      row'[task[t].job].id = task[t].id
               PROVE  /\ row'[task[t].job].status = "running"
                      /\ row'[task[t].job].owner = WorkerOf(t)
                      /\ row'[task[t].job].attempts = task[t].attempts
                      /\ row'[task[t].job].deferred = task[t].deferred
    BY <1>4 DEF TaskCurrent, Present, Holding, WorkerOf
  <2>1. task[t].job \in Jobs
    BY BusyTaskType DEF BusyTask, Holding, Busy
  <2>2. Holds(t, task[t].job)
    BY <1>3, <2>1 DEF Holds
  <2>3. row'[task[t].job] = row[task[t].job]
    BY <1>2, <1>3, <2>1, <2>2 DEF Held
  <2> QED BY <2>3 DEF Exclusive, TaskCurrent, Present
<1>13. ClaimCurrent'
  <2> SUFFICES ASSUME NEW v \in Workers, NEW e \in batch'[v], row'[e.job].status # "absent",
                      row'[e.job].id = e.id
               PROVE  /\ row'[e.job].status = "running"
                      /\ row'[e.job].owner = v
                      /\ row'[e.job].attempts = e.attempts
                      /\ row'[e.job].deferred = e.deferred
    BY DEF ClaimCurrent, Present
  <2>1. CASE v = w
    BY <1>3, <1>8, <2>1 DEF Entity
  <2>2. CASE v # w
    <3>1. e \in batch[v] /\ e.job \in Jobs
      BY <1>5, <2>2 DEF TypeOK, Snapshot
    <3>2. Claimed(v, e.job)
      BY <1>3, <3>1 DEF Claimed
    <3>3. row'[e.job] = row[e.job]
      BY <1>2, <1>3, <3>1, <3>2 DEF Held
    <3> QED BY <3>1, <3>3 DEF Exclusive, ClaimCurrent, Present
  <2> QED BY <2>1, <2>2
<1>14. HoldersDistinct'
  BY <1>2, <1>7, <1>9, <1>10 DEF Exclusive, HoldersDistinct, Held
<1>15. BatchDistinct'
  BY <1>5, <1>8 DEF Exclusive, BatchDistinct
<1>16. FreshWhileHeld'
  <2> SUFFICES ASSUME NEW k \in Jobs, row'[k].status # "absent", Held(k)', k \notin S
               PROVE  ~row'[k].stale
    BY <1>3 DEF FreshWhileHeld
  <2>1. Held(k)
    BY <1>7, <1>9, <1>10 DEF Held
  <2> QED BY <1>3, <2>1 DEF Exclusive, FreshWhileHeld
<1>17. Budgets'
  BY <1>3 DEF Exclusive, Budgets
<1>18. BumpAffordable'
  BY <1>4 DEF Exclusive, BumpAffordable
<1> QED
  BY <1>11, <1>12, <1>13, <1>14, <1>15, <1>16, <1>17, <1>18 DEF Exclusive

(* A claimed entity becomes a task of an idle slot.                           *)
LEMMA StartStep ==
  ASSUME TypeOK, Exclusive, NEW w \in Workers, NEW e \in batch[w], NEW s \in Slots,
         StartJob(w, e, s)
  PROVE  Exclusive'
<1> DEFINE t == <<w, s>>
           x == [pc |-> "exec", job |-> e.job, id |-> e.id, attempts |-> e.attempts,
                 deferred |-> e.deferred, result |-> "ok"]
<1>1. t \in Tasks /\ WorkerOf(t) = w /\ e.job \in Jobs /\ e.id \in Nat
  BY DEF Tasks, WorkerOf, TypeOK, Snapshot
<1>2. row' = row /\ task' = [task EXCEPT ![t] = x] /\ batch' = [batch EXCEPT ![w] = @ \ {e}]
  BY DEF StartJob
<1> HIDE DEF t
<1>3. task'[t] = x /\ \A u \in Tasks : u # t => task'[u] = task[u]
  BY <1>1, <1>2 DEF TypeOK
<1>4. batch'[w] = batch[w] \ {e} /\ \A v \in Workers : v # w => batch'[v] = batch[v]
  BY <1>2 DEF TypeOK
<1>5. \A v \in Workers : batch'[v] \subseteq batch[v]
  BY <1>4
<1>6. \A u \in Tasks, k \in Jobs : u # t => (Holds(u, k)' <=> Holds(u, k))
  BY <1>2, <1>3 DEF Holds, Holding
<1>7. \A k \in Jobs : Holds(t, k)' => k = e.job /\ row[k].id = e.id /\ Claimed(w, k)
  BY <1>2, <1>3 DEF Holds, Holding, Claimed
<1>8. \A v \in Workers, k \in Jobs : Claimed(v, k)' => Claimed(v, k)
  BY <1>2, <1>5 DEF Claimed
<1>9. \A k \in Jobs : Holds(t, k)' => ~Claimed(w, k)'
  <2> SUFFICES ASSUME NEW k \in Jobs, Holds(t, k)', NEW f \in batch'[w],
                      f.job = k, f.id = row[k].id
               PROVE  FALSE
    BY <1>2 DEF Claimed
  <2>1. f \in batch[w] /\ f # e
    BY <1>4
  <2> QED BY <1>7, <2>1 DEF Exclusive, BatchDistinct
<1>10. IdsIssued'
  BY <1>1, <1>2, <1>3, <1>5 DEF Exclusive, IdsIssued, Busy
<1>11. TaskCurrent'
  BY <1>1, <1>2, <1>3 DEF Exclusive, TaskCurrent, ClaimCurrent, Holding, Present
<1>12. ClaimCurrent'
  BY <1>2, <1>5 DEF Exclusive, ClaimCurrent, Present
<1>13. HoldersDistinct'
  <2> SUFFICES ASSUME NEW k \in Jobs
               PROVE  /\ \A u, v \in Tasks : Holds(u, k)' /\ Holds(v, k)' => u = v
                      /\ \A u \in Tasks, v \in Workers : ~(Holds(u, k)' /\ Claimed(v, k)')
                      /\ \A u, v \in Workers : Claimed(u, k)' /\ Claimed(v, k)' => u = v
    BY DEF HoldersDistinct
  <2>1. CASE Holds(t, k)'
    BY <1>6, <1>7, <1>8, <1>9, <2>1 DEF Exclusive, HoldersDistinct
  <2>2. CASE ~Holds(t, k)'
    BY <1>6, <1>8, <2>2 DEF Exclusive, HoldersDistinct
  <2> QED BY <2>1, <2>2
<1>14. BatchDistinct'
  BY <1>5 DEF Exclusive, BatchDistinct
<1>15. FreshWhileHeld'
  <2>1. \A k \in Jobs : Held(k)' => Held(k)
    BY <1>6, <1>7, <1>8 DEF Held
  <2> QED BY <1>2, <2>1 DEF Exclusive, FreshWhileHeld
<1>16. Budgets'
  BY <1>2 DEF Exclusive, Budgets
<1>17. BumpAffordable'
  <2> SUFFICES ASSUME NEW u \in Tasks, task'[u].pc = "bump"
               PROVE  task'[u].attempts + 1 < MaxAttempts
    BY DEF BumpAffordable
  <2> QED BY <1>3 DEF Exclusive, BumpAffordable
<1> QED
  BY <1>10, <1>11, <1>12, <1>13, <1>14, <1>15, <1>16, <1>17 DEF Exclusive

(* A surplus claim is given back, or the release fails and it is forgotten.   *)
LEMMA ReleaseStep ==
  ASSUME TypeOK, Exclusive, NEW w \in Workers, NEW e \in batch[w],
         ReleaseSurplusClaim(w, e)
  PROVE  Exclusive'
<1> DEFINE j == e.job
<1>1. j \in Jobs /\ e.id \in Nat /\ row \in [Jobs -> Row]
  BY DEF TypeOK, Snapshot
<1>2. task' = task /\ batch'[w] = batch[w] \ {e} /\ \A v \in Workers : v # w => batch'[v] = batch[v]
  BY DEF ReleaseSurplusClaim, TypeOK
<1>3. \A v \in Workers : batch'[v] \subseteq batch[v]
  BY <1>2
<1>4. \A k \in Jobs : /\ row'[k].id = row[k].id /\ row'[k].attempts = row[k].attempts
                      /\ row'[k].deferred = row[k].deferred
                      /\ k # j \/ ~Present(j, e.id) => row'[k] = row[k]
  <2>1. CASE row' = row
    BY <2>1
  <2>2. CASE WriteRow(j, e.id, [Unlocked(row[j], "queued") EXCEPT !.due = TRUE])
    BY <1>1, <2>2 DEF WriteRow, Unlocked, Row
  <2> QED BY <2>1, <2>2 DEF ReleaseSurplusClaim
<1>5. Present(j, e.id) =>
         /\ \A u \in Tasks : ~Holds(u, j)
         /\ \A v \in Workers : v # w => ~Claimed(v, j)
         /\ \A f \in batch[w] : f.job = j /\ f.id = row[j].id => f = e
  BY <1>1 DEF Exclusive, HoldersDistinct, BatchDistinct, Claimed, Present
<1>6. \A u \in Tasks, k \in Jobs : Holds(u, k)' <=> Holds(u, k)
  BY <1>2, <1>4 DEF Holds, Holding
<1>7. \A v \in Workers, k \in Jobs : Claimed(v, k)' => Claimed(v, k)
  BY <1>3, <1>4 DEF Claimed
<1>8. Present(j, e.id) => \A v \in Workers : ~Claimed(v, j)'
  BY <1>1, <1>2, <1>4, <1>5, <1>7 DEF Claimed
<1>9. IdsIssued'
  <2>1. \A u \in Tasks : Busy(u) => task[u].job \in Jobs
    BY BusyTaskType DEF BusyTask
  <2>2. \A v \in Workers : \A f \in batch[v] : f.job \in Jobs
    BY DEF TypeOK, Snapshot
  <2> QED BY <1>2, <1>3, <1>4, <2>1, <2>2 DEF Exclusive, IdsIssued, Busy
<1>10. TaskCurrent'
  <2> SUFFICES ASSUME NEW u \in Tasks, Holding(u), row'[task[u].job].status # "absent",
                      row'[task[u].job].id = task[u].id
               PROVE  /\ row'[task[u].job].status = "running"
                      /\ row'[task[u].job].owner = WorkerOf(u)
                      /\ row'[task[u].job].attempts = task[u].attempts
                      /\ row'[task[u].job].deferred = task[u].deferred
    BY <1>2 DEF TaskCurrent, Present, Holding, WorkerOf
  <2>1. task[u].job \in Jobs
    BY BusyTaskType DEF BusyTask, Holding, Busy
  <2>2. Holds(u, task[u].job)
    BY <1>4, <2>1 DEF Holds
  <2>3. row'[task[u].job] = row[task[u].job]
    BY <1>4, <1>5, <2>1, <2>2
  <2> QED BY <2>3 DEF Exclusive, TaskCurrent, Present
<1>11. ClaimCurrent'
  <2> SUFFICES ASSUME NEW v \in Workers, NEW f \in batch'[v], row'[f.job].status # "absent",
                      row'[f.job].id = f.id
               PROVE  /\ row'[f.job].status = "running"
                      /\ row'[f.job].owner = v
                      /\ row'[f.job].attempts = f.attempts
                      /\ row'[f.job].deferred = f.deferred
    BY DEF ClaimCurrent, Present
  <2>1. f \in batch[v] /\ f.job \in Jobs /\ Claimed(v, f.job)'
    BY <1>3 DEF TypeOK, Snapshot, Claimed
  <2>2. row'[f.job] = row[f.job]
    BY <1>4, <1>8, <2>1
  <2> QED BY <2>1, <2>2 DEF Exclusive, ClaimCurrent, Present
<1>12. HoldersDistinct'
  BY <1>6, <1>7 DEF Exclusive, HoldersDistinct
<1>13. BatchDistinct'
  BY <1>3 DEF Exclusive, BatchDistinct
<1>14. FreshWhileHeld'
  <2> SUFFICES ASSUME NEW k \in Jobs, row'[k].status # "absent", Held(k)'
               PROVE  ~row'[k].stale
    BY DEF FreshWhileHeld
  <2>1. Held(k)
    BY <1>6, <1>7 DEF Held
  <2>2. row'[k] = row[k]
    BY <1>4, <1>5, <1>6, <1>8 DEF Held
  <2> QED BY <2>1, <2>2 DEF Exclusive, FreshWhileHeld
<1>15. Budgets'
  BY <1>4 DEF Exclusive, Budgets
<1>16. BumpAffordable'
  BY <1>2 DEF Exclusive, BumpAffordable
<1> QED
  BY <1>9, <1>10, <1>11, <1>12, <1>13, <1>14, <1>15, <1>16 DEF Exclusive

(* A crash only takes holders away.                                           *)
LEMMA CrashStep ==
  ASSUME TypeOK, Exclusive, NEW w \in Workers, Crash(w)
  PROVE  Exclusive'
<1>1. row' = row /\ \A v \in Workers : batch'[v] \subseteq batch[v]
  BY DEF Crash, TypeOK
<1>2. \A u \in Tasks : task'[u] = task[u] \/ task'[u] = IdleTask
  BY DEF Crash, TypeOK
<1>3. \A u \in Tasks : Busy(u)' => task'[u] = task[u]
  BY <1>2 DEF Busy, IdleTask
<1>4. \A u \in Tasks : Holding(u)' => Holding(u) /\ task'[u] = task[u]
  BY <1>2 DEF Holding, IdleTask
<1>5. \A u \in Tasks, k \in Jobs : Holds(u, k)' => Holds(u, k)
  BY <1>1, <1>4 DEF Holds
<1>6. \A v \in Workers, k \in Jobs : Claimed(v, k)' => Claimed(v, k)
  BY <1>1 DEF Claimed
<1>7. IdsIssued'
  BY <1>1, <1>3 DEF Exclusive, IdsIssued, Busy
<1>8. TaskCurrent'
  BY <1>1, <1>4 DEF Exclusive, TaskCurrent, Present, WorkerOf
<1>9. ClaimCurrent'
  BY <1>1 DEF Exclusive, ClaimCurrent, Present
<1>10. HoldersDistinct'
  BY <1>5, <1>6 DEF Exclusive, HoldersDistinct
<1>11. BatchDistinct'
  BY <1>1 DEF Exclusive, BatchDistinct
<1>12. FreshWhileHeld'
  BY <1>1, <1>5, <1>6 DEF Exclusive, FreshWhileHeld, Held
<1>13. Budgets'
  BY <1>1 DEF Exclusive, Budgets
<1>14. BumpAffordable'
  <2>1. \A u \in Tasks : task'[u].pc = "bump" => task'[u] = task[u]
    BY <1>2 DEF IdleTask
  <2> QED BY <2>1 DEF Exclusive, BumpAffordable
<1> QED
  BY <1>7, <1>8, <1>9, <1>10, <1>11, <1>12, <1>13, <1>14 DEF Exclusive

LEMMA ExclusiveInit == Init => Exclusive
<1> SUFFICES ASSUME Init PROVE Exclusive
  OBVIOUS
<1>1. /\ \A t \in Tasks : task[t] = IdleTask /\ task[t].pc = "idle"
      /\ \A w \in Workers : batch[w] = {}
      /\ \A j \in Jobs : row[j] = AbsentRow
  BY DEF Init, IdleTask
<1>2. \A t \in Tasks : ~Busy(t) /\ ~Holding(t) /\ \A j \in Jobs : ~Holds(t, j)
  BY <1>1 DEF Busy, Holding, Holds
<1>3. \A w \in Workers, j \in Jobs : ~Claimed(w, j)
  BY <1>1 DEF Claimed
<1>4. Budgets
  BY <1>1, ConstantsAssumption DEF Budgets, AbsentRow
<1> QED
  BY <1>1, <1>2, <1>3, <1>4 DEF Exclusive, IdsIssued, TaskCurrent, ClaimCurrent,
     HoldersDistinct, BatchDistinct, FreshWhileHeld, Held, BumpAffordable

(* A row that somebody holds and that is still in the table is running.       *)
LEMMA HeldRuns ==
  ASSUME Exclusive, NEW k \in Jobs, row[k].status \notin {"absent", "running"}
  PROVE  ~Held(k)
<1>1. ASSUME NEW t \in Tasks, Holds(t, k) PROVE FALSE
  BY <1>1 DEF Exclusive, TaskCurrent, Holds, Present
<1>2. ASSUME NEW v \in Workers, Claimed(v, k) PROVE FALSE
  BY <1>2 DEF Exclusive, ClaimCurrent, Claimed, Present
<1> QED BY <1>1, <1>2 DEF Held

(* Every branch of handleJobFailure.                                          *)
LEMMA HandleFailureStep ==
  ASSUME TypeOK, TypeOK', Exclusive, NEW t \in Tasks, HandleFailure(t)
  PROVE  Exclusive'
<1> USE ConstantsAssumption
<1> DEFINE j == task[t].job
           id == task[t].id
<1>1. Busy(t) /\ task[t] \in BusyTask /\ j \in Jobs /\ id \in Nat /\ row[j] \in Row
      /\ task[t].attempts \in Nat /\ task[t].deferred \in Nat
  <2>1. Busy(t)
    BY DEF HandleFailure, RequeueRateLimited, Defer, ReadConnection,
      FlagConnection, MarkDead, OnDead, ReadAttempts, MarkFailed, OnLadder, Busy
  <2> QED BY <2>1, BusyTaskType DEF BusyTask, TypeOK
<1>2. row[j].attempts < MaxAttempts /\ row[j].deferred <= DeferBudget
  BY <1>1 DEF Exclusive, Budgets
<1>3. Unlocked(row[j], "queued") \in Row /\ Unlocked(row[j], "dead") \in Row
  BY <1>1, UnlockedType DEF Status, Live, Terminal
<1>4. \A st \in Status : /\ Unlocked(row[j], st).id = row[j].id
                          /\ Unlocked(row[j], st).attempts = row[j].attempts
                          /\ Unlocked(row[j], st).deferred = row[j].deferred
  BY <1>1 DEF Unlocked, Row
<1>5. "queued" \in Status /\ "dead" \in Status
  BY DEF Status, Live, Terminal
<1>6. Holding(t) /\ Present(j, id) =>
        row[j].attempts = task[t].attempts /\ row[j].deferred = task[t].deferred
  BY DEF Exclusive, TaskCurrent
<1>7. CASE RequeueRateLimited(t)
  <2> DEFINE new == [Unlocked(row[j], "queued") EXCEPT !.due = FALSE]
  <2>1. new \in Row /\ new.id = row[j].id /\ new.attempts < MaxAttempts
        /\ new.deferred <= DeferBudget
    BY <1>2, <1>3, <1>4, <1>5 DEF Row
  <2>2. Holding(t) /\ WriteRow(j, id, new) /\ task' = [task EXCEPT ![t] = IdleTask]
        /\ batch' = batch
    BY <1>7 DEF RequeueRateLimited, Release, Holding
  <2> HIDE DEF new
  <2> QED BY <1>1, <2>1, <2>2, SettleWrite DEF IdleTask
<1>8. CASE Defer(t)
  <2> DEFINE n == DeferredTotal(t)
             new == [Unlocked(row[j], "queued") EXCEPT !.due = FALSE, !.deferred = n]
  <2>1. n \in Nat /\ n <= DeferBudget
    BY <1>1, <1>8 DEF Defer, WithinBudget, DeferredTotal
  <2>2. Holding(t) /\ WriteRow(j, id, new) /\ task' = [task EXCEPT ![t] = IdleTask]
        /\ batch' = batch
    BY <1>8 DEF Defer, Release, Holding
  <2> HIDE DEF n
  <2>3. new \in Row /\ new.id = row[j].id /\ new.attempts < MaxAttempts
        /\ new.deferred <= DeferBudget
    BY <1>2, <1>3, <1>4, <1>5, <2>1 DEF Row
  <2> HIDE DEF new
  <2> QED BY <1>1, <2>2, <2>3, SettleWrite DEF IdleTask
<1>9. CASE ReadConnection(t)
  <2>1. Holding(t) /\ row' = row /\ batch' = batch
    BY <1>9 DEF ReadConnection, Holding
  <2>2. CASE task' = [task EXCEPT ![t].pc = "flag"]
    <3> DEFINE x == [task[t] EXCEPT !.pc = "flag"]
    <3>1. task' = [task EXCEPT ![t] = x]
      BY <1>1, <2>2 DEF TypeOK, BusyTask
    <3>2. x.pc = "flag" /\ x.job = j /\ x.id = id /\ x.attempts = task[t].attempts
          /\ x.deferred = task[t].deferred
      BY <1>1 DEF BusyTask
    <3> HIDE DEF x
    <3> QED BY <1>1, <1>6, <2>1, <3>1, <3>2, TaskStep
  <2>3. CASE task' = [task EXCEPT ![t].result = "nonRetryable"]
    <3> DEFINE x == [task[t] EXCEPT !.result = "nonRetryable"]
    <3>1. task' = [task EXCEPT ![t] = x]
      BY <1>1, <2>3 DEF TypeOK, BusyTask
    <3>2. x.pc = "settle" /\ x.job = j /\ x.id = id /\ x.attempts = task[t].attempts
          /\ x.deferred = task[t].deferred
      BY <1>1, <1>9 DEF BusyTask, ReadConnection
    <3> HIDE DEF x
    <3> QED BY <1>1, <1>6, <2>1, <3>1, <3>2, TaskStep
  <2> QED BY <1>9, <2>2, <2>3 DEF ReadConnection
<1>10. CASE FlagConnection(t)
  <2> DEFINE x == [task[t] EXCEPT !.pc = "settle", !.result = "nonRetryable"]
  <2>1. Holding(t) /\ row' = row /\ batch' = batch
    BY <1>10 DEF FlagConnection, Holding
  <2>2. task' = [task EXCEPT ![t] = x]
    BY <1>1, <1>10 DEF FlagConnection, TypeOK, BusyTask
  <2>3. x.pc = "settle" /\ x.job = j /\ x.id = id /\ x.attempts = task[t].attempts
        /\ x.deferred = task[t].deferred
    BY <1>1 DEF BusyTask
  <2> HIDE DEF x
  <2> QED BY <1>1, <1>6, <2>1, <2>2, <2>3, TaskStep
<1>11. CASE MarkDead(t)
  <2> DEFINE new == Unlocked(row[j], "dead")
             x == [task[t] EXCEPT !.pc = "notify"]
  <2>1. new \in Row /\ new.id = row[j].id /\ new.attempts < MaxAttempts
        /\ new.deferred <= DeferBudget
    BY <1>2, <1>3, <1>4, <1>5
  <2>2. Holding(t) /\ WriteRow(j, id, new) /\ batch' = batch
    BY <1>11 DEF MarkDead, OnLadder, Holding
  <2>3. task' = [task EXCEPT ![t] = x]
    BY <1>1, <1>11 DEF MarkDead, TypeOK, BusyTask
  <2>4. x.pc = "notify" /\ x.job = j /\ x.id = id
    BY <1>1 DEF BusyTask
  <2> HIDE DEF new, x
  <2> QED BY <1>1, <2>1, <2>2, <2>3, <2>4, SettleWrite
<1>12. CASE OnDead(t)
  BY <1>12, TaskStep DEF OnDead, Release, IdleTask
<1>13. CASE ReadAttempts(t)
  <2>1. Holding(t) /\ row' = row /\ batch' = batch /\ ~Exhausted(t)
    BY <1>13 DEF ReadAttempts, OnLadder, Holding
  <2>2. CASE Present(j, id)
    <3> DEFINE x == [task[t] EXCEPT !.pc = "bump", !.attempts = row[j].attempts]
    <3>1. task' = [task EXCEPT ![t] = x]
      BY <1>1, <1>13, <2>2 DEF ReadAttempts
    <3>2. x.pc = "bump" /\ x.job = j /\ x.id = id /\ x.attempts = row[j].attempts
          /\ x.deferred = task[t].deferred
      BY <1>1 DEF BusyTask
    <3>3. row[j].attempts + 1 < MaxAttempts
      BY <1>1, <1>6, <2>1, <2>2 DEF Exhausted
    <3> HIDE DEF x
    <3> QED BY <1>1, <1>6, <2>1, <3>1, <3>2, <3>3, TaskStep
  <2>3. CASE ~Present(j, id)
    BY <1>13, <2>1, <2>3, TaskStep DEF ReadAttempts, IdleTask
  <2> QED BY <2>2, <2>3
<1>14. CASE MarkFailed(t)
  <2> DEFINE n == task[t].attempts + 1
             new == [Unlocked(row[j], "queued") EXCEPT !.due = FALSE, !.attempts = n]
  <2>1. n \in Nat /\ n < MaxAttempts
    BY <1>1, <1>14 DEF MarkFailed, Exclusive, BumpAffordable
  <2>2. Holding(t) /\ WriteRow(j, id, new) /\ task' = [task EXCEPT ![t] = IdleTask]
        /\ batch' = batch
    BY <1>14 DEF MarkFailed, Release, Holding
  <2> HIDE DEF n
  <2>3. new \in Row /\ new.id = row[j].id /\ new.attempts < MaxAttempts
        /\ new.deferred <= DeferBudget
    BY <1>2, <1>3, <1>4, <1>5, <2>1 DEF Row
  <2> HIDE DEF new
  <2> QED BY <1>1, <2>2, <2>3, SettleWrite DEF IdleTask
<1> QED
  BY <1>7, <1>8, <1>9, <1>10, <1>11, <1>12, <1>13, <1>14 DEF HandleFailure

(* Every step keeps it: one case per action.                                  *)
LEMMA ExclusiveStep ==
  ASSUME HeartbeatsReliable, TypeOK, Exclusive, [Next]_vars
  PROVE  Exclusive'
<1> USE ConstantsAssumption
<1>0. TypeOK'
  BY TypeStep
<1>1. ASSUME NEW j \in Jobs, CreateIfNotExists(j) PROVE Exclusive'
  <2>1. NewRow(j) /\ row'[j].attempts = 0 /\ row'[j].deferred = 0
    BY <1>1 DEF CreateIfNotExists, NewRow, AbsentRow, TypeOK
  <2>2. \A k \in Jobs : k # j => row'[k] = row[k]
    BY <1>1 DEF CreateIfNotExists, TypeOK
  <2>3. task' = task /\ batch' = batch
    BY <1>1 DEF CreateIfNotExists
  <2>4. \A k \in Jobs : row'[k].attempts < MaxAttempts /\ row'[k].deferred <= DeferBudget
    BY <2>1, <2>2 DEF Exclusive, Budgets
  <2>5. \A k \in Jobs : Quiet(k) \/ NewRow(k)
    BY <2>1, <2>2 DEF Quiet
  <2> QED BY <1>0, <2>3, <2>4, <2>5, RowStep
<1>2. ASSUME NEW j \in Jobs, BackoffElapses(j) PROVE Exclusive'
  <2>1. \A k \in Jobs : Quiet(k)
    BY <1>2 DEF BackoffElapses, TypeOK, Row, Quiet
  <2> QED BY <1>0, <1>2, <2>1, RowStep DEF BackoffElapses, Quiet, Exclusive, Budgets
<1>3. ASSUME NEW j \in Jobs, LockGoesStale(j) PROVE Exclusive'
  <2>1. ~Held(j)
    BY <1>3 DEF LockGoesStale
  <2>2. \A k \in Jobs : Quiet(k)
    BY <1>3, <2>1 DEF LockGoesStale, TypeOK, Row, Quiet
  <2> QED BY <1>0, <1>3, <2>2, RowStep DEF LockGoesStale, Quiet, Exclusive, Budgets
<1>4. ASSUME NEW j \in Jobs, RetentionElapses(j) PROVE Exclusive'
  <2>1. \A k \in Jobs : Quiet(k)
    BY <1>4 DEF RetentionElapses, TypeOK, Row, Quiet
  <2> QED BY <1>0, <1>4, <2>1, RowStep DEF RetentionElapses, Quiet, Exclusive, Budgets
<1>5. ASSUME NEW w \in Workers, NEW S \in SUBSET Jobs, ClaimDueJobs(w, S) PROVE Exclusive'
  BY <1>5, ClaimStep
<1>6. ASSUME NEW w \in Workers, NEW e \in batch[w], ReleaseSurplusClaim(w, e) PROVE Exclusive'
  BY <1>6, ReleaseStep
<1>7. ASSUME NEW w \in Workers, NEW e \in batch[w], NEW s \in Slots, StartJob(w, e, s)
      PROVE Exclusive'
  BY <1>7, StartStep
<1>8. ASSUME NEW w \in Workers, Crash(w) PROVE Exclusive'
  BY <1>8, CrashStep
<1>9. ASSUME NEW t \in Tasks, Heartbeat(t) PROVE Exclusive'
  <2>1. \A k \in Jobs : Quiet(k)
    BY <1>9 DEF Heartbeat, TypeOK, Row, Quiet
  <2> QED BY <1>0, <1>9, <2>1, RowStep DEF Heartbeat, Quiet, Exclusive, Budgets
<1>10. ASSUME NEW t \in Tasks, NEW r \in Results, FinishHandler(t, r) PROVE Exclusive'
  <2>1. task[t] \in BusyTask /\ Busy(t) /\ Holding(t)
    BY <1>10, BusyTaskType DEF FinishHandler, Busy, Holding
  <2> DEFINE x == [task[t] EXCEPT !.pc = "settle", !.result = r]
  <2>2. task' = [task EXCEPT ![t] = x] /\ row' = row /\ batch' = batch
    BY <1>10, <2>1 DEF FinishHandler, TypeOK, BusyTask
  <2>3. x.pc = "settle" /\ x.job = task[t].job /\ x.id = task[t].id
        /\ x.attempts = task[t].attempts /\ x.deferred = task[t].deferred
    BY <2>1 DEF BusyTask
  <2>4. Present(x.job, x.id) =>
          x.attempts = row[x.job].attempts /\ x.deferred = row[x.job].deferred
    BY <2>1, <2>3 DEF Exclusive, TaskCurrent
  <2> HIDE DEF x
  <2> QED BY <1>0, <2>1, <2>2, <2>3, <2>4, TaskStep
<1>11. ASSUME NEW t \in Tasks, MarkSucceeded(t) PROVE Exclusive'
  <2>1. task[t] \in BusyTask /\ Holding(t) /\ Busy(t) /\ row[task[t].job] \in Row
    BY <1>11, BusyTaskType DEF MarkSucceeded, Busy, Holding, BusyTask, TypeOK
  <2>2. CASE WriteRow(task[t].job, task[t].id, Unlocked(row[task[t].job], "succeeded"))
             /\ Release(t)
    <3> DEFINE new == Unlocked(row[task[t].job], "succeeded")
    <3>1. new \in Row
      BY <2>1, UnlockedType DEF Status, Terminal
    <3>2. new.id = row[task[t].job].id /\ new.attempts < MaxAttempts
          /\ new.deferred <= DeferBudget
      BY <2>1 DEF Unlocked, Row, Exclusive, Budgets, BusyTask
    <3>3. WriteRow(task[t].job, task[t].id, new) /\ batch' = batch
          /\ task' = [task EXCEPT ![t] = IdleTask]
      BY <1>11, <2>2 DEF MarkSucceeded, Release
    <3> HIDE DEF new
    <3> QED BY <2>1, <3>1, <3>2, <3>3, SettleWrite DEF IdleTask
  <2>3. CASE task' = [task EXCEPT ![t].result = "retryable"] /\ UNCHANGED row
    <3> DEFINE x == [task[t] EXCEPT !.result = "retryable"]
    <3>1. task' = [task EXCEPT ![t] = x] /\ batch' = batch /\ row' = row
      BY <1>11, <2>1, <2>3 DEF MarkSucceeded, TypeOK, BusyTask
    <3>2. x.pc = "settle" /\ x.job = task[t].job /\ x.id = task[t].id
          /\ x.attempts = task[t].attempts /\ x.deferred = task[t].deferred
      BY <1>11, <2>1 DEF BusyTask, MarkSucceeded
    <3>3. Present(x.job, x.id) =>
            x.attempts = row[x.job].attempts /\ x.deferred = row[x.job].deferred
      BY <2>1, <3>2 DEF Exclusive, TaskCurrent
    <3> HIDE DEF x
    <3> QED BY <1>0, <2>1, <3>1, <3>2, <3>3, TaskStep
  <2> QED BY <1>11, <2>2, <2>3 DEF MarkSucceeded
<1>12. ASSUME NEW t \in Tasks, HandleFailure(t) PROVE Exclusive'
  BY <1>0, <1>12, HandleFailureStep
<1>13. ASSUME NEW t \in Tasks, SettleFails(t) PROVE Exclusive'
  BY <1>0, <1>13, TaskStep DEF SettleFails, Release, IdleTask
<1>14. ASSUME NEW S \in SUBSET Jobs, RequeueDeadJobs(S) PROVE Exclusive'
  <2>1. \A k \in S : row[k].status = "dead"
    BY <1>14 DEF RequeueDeadJobs, Retriable
  <2>2. \A k \in S : ~Held(k)
    BY <2>1, HeldRuns
  <2>3. task' = task /\ batch' = batch
    BY <1>14 DEF RequeueDeadJobs
  <2>4. \A k \in Jobs : k \notin S => row'[k] = row[k]
    BY <1>14 DEF RequeueDeadJobs
  <2>5. \A k \in S : /\ row'[k].id = row[k].id /\ row'[k].attempts = 0
                     /\ row'[k].deferred = row[k].deferred
    BY ZenonT(60), <1>14 DEF RequeueDeadJobs, Unlocked, TypeOK, Row
  <2>6. \A k \in Jobs : Quiet(k) \/ NobodysRow(k)
    BY <2>1, <2>2, <2>4, <2>5 DEF Quiet, NobodysRow
  <2>7. \A k \in Jobs : row'[k].attempts < MaxAttempts /\ row'[k].deferred <= DeferBudget
    BY <2>4, <2>5 DEF Exclusive, Budgets
  <2> QED BY <1>0, <2>3, <2>6, <2>7, RowStep
<1>15. ASSUME NEW st \in Terminal, SelectPrunable(st) PROVE Exclusive'
  BY <1>0, <1>15, RowStep DEF SelectPrunable, Quiet, Exclusive, Budgets
<1>16. ASSUME NEW c \in Conns, NEW st \in {"active", "disabled"}, SetConnection(c, st)
       PROVE Exclusive'
  BY <1>0, <1>16, RowStep DEF SetConnection, Quiet, Exclusive, Budgets
<1>17. ASSUME RequeueStuckJobs PROVE Exclusive'
  <2>1. \A k \in Jobs : Stuck(k) => row[k].status # "absent" /\ ~Held(k)
    BY DEF Stuck, Exclusive, FreshWhileHeld
  <2>2. task' = task /\ batch' = batch
    BY <1>17 DEF RequeueStuckJobs
  <2>3. \A k \in Jobs : ~Stuck(k) => row'[k] = row[k]
    BY <1>17 DEF RequeueStuckJobs
  <2>4. \A k \in Jobs : Stuck(k) =>
          /\ row'[k].id = row[k].id /\ row'[k].attempts = row[k].attempts
          /\ row'[k].deferred = row[k].deferred
    BY ZenonT(60), <1>17 DEF RequeueStuckJobs, Unlocked, TypeOK, Row
  <2>5. \A k \in Jobs : Quiet(k) \/ NobodysRow(k)
    BY <2>1, <2>3, <2>4 DEF Quiet, NobodysRow
  <2>6. \A k \in Jobs : row'[k].attempts < MaxAttempts /\ row'[k].deferred <= DeferBudget
    BY <2>3, <2>4 DEF Exclusive, Budgets
  <2> QED BY <1>0, <2>2, <2>5, <2>6, RowStep
<1>18. ASSUME PruneTerminalJobs PROVE Exclusive'
  <2> DEFINE Gone(k) == row[k].status # "absent" /\ <<k, row[k].id>> \in pruning
  <2>1. task' = task /\ batch' = batch
    BY <1>18 DEF PruneTerminalJobs
  <2>2. \A k \in Jobs : ~Gone(k) => row'[k] = row[k]
    BY <1>18 DEF PruneTerminalJobs
  <2>3. \A k \in Jobs : Gone(k) =>
          /\ row'[k].status = "absent" /\ row'[k].id = row[k].id
          /\ row'[k].attempts = 0 /\ row'[k].deferred = 0
    BY <1>18 DEF PruneTerminalJobs, AbsentRow
  <2> HIDE DEF Gone
  <2>4. \A k \in Jobs : Quiet(k) \/ Removed(k)
    BY <2>2, <2>3 DEF Quiet, Removed
  <2>5. \A k \in Jobs : row'[k].attempts < MaxAttempts /\ row'[k].deferred <= DeferBudget
    BY <2>2, <2>3 DEF Exclusive, Budgets
  <2> QED BY <1>0, <2>1, <2>4, <2>5, RowStep
<1>19. CASE UNCHANGED vars
  BY <1>0, <1>19, RowStep DEF vars, Quiet, Exclusive, Budgets
<1> QED
  BY <1>1, <1>2, <1>3, <1>4, <1>5, <1>6, <1>7, <1>8, <1>9, <1>10, <1>11,
     <1>12, <1>13, <1>14, <1>15, <1>16, <1>17, <1>18, <1>19 DEF Next

(* The inductive invariant holds of every behaviour.                          *)
LEMMA Invariance == Spec => []IInv
<1>1. Init => IInv
  BY TypeInit, ExclusiveInit DEF IInv
<1>2. IInv /\ [Next]_vars => IInv'
  BY TypeStep, ExclusiveStep DEF IInv
<1> QED
  BY <1>1, <1>2, PTL DEF Spec

(* No row is worked on twice at a time, whatever the number of runners, slots *)
(* and jobs and whatever fails, as long as heartbeats arrive: the skip-locked *)
(* claim of sync-job.repository.ts and its stuck recovery never hand out a    *)
(* row somebody still holds.                                                  *)
THEOREM OneRun == Spec => []OneRunPerRow
<1>1. IInv => OneRunPerRow
  BY DEF IInv, Exclusive, HoldersDistinct, OneRunPerRow
<1> QED
  BY <1>1, Invariance, PTL

(* The unguarded writes by id of the runner only ever reach a row that is     *)
(* still running under it with the counters of its snapshot.                  *)
THEOREM Current == Spec => []SnapshotCurrent
<1>1. IInv => SnapshotCurrent
  BY DEF IInv, Exclusive, TaskCurrent, SnapshotCurrent
<1> QED
  BY <1>1, Invariance, PTL

(* No sequence of failures, deferrals, recoveries and operator retries lets a *)
(* live job exceed its attempts or its deferral budget.                       *)
THEOREM Budgeted == Spec => []RetryBudget
<1>1. IInv => RetryBudget
  BY DEF IInv, Exclusive, Budgets, RetryBudget
<1> QED
  BY <1>1, Invariance, PTL

-----------------------------------------------------------------------------
(* The lock of a row.                                                         *)

(* What Unlocked leaves of a row.                                             *)
LEMMA UnlockedIs ==
  ASSUME NEW r \in Row, NEW st \in Status
  PROVE  /\ Unlocked(r, st).status = st /\ Unlocked(r, st).owner = NoWorker
         /\ Unlocked(r, st).id = r.id /\ Unlocked(r, st).attempts = r.attempts
BY ConstantsAssumption DEF Unlocked, Row

(* A write that settles a row unlocks it.                                     *)
LEMMA WriteUnlocks ==
  ASSUME TypeOK, LockPaired, NEW j \in Jobs, NEW id, NEW new, WriteRow(j, id, new),
         new.status # "running", new.owner = NoWorker
  PROVE  LockPaired'
<1>1. \A k \in Jobs : row'[k] = row[k] \/ (k = j /\ row'[k] = new)
  BY DEF WriteRow, TypeOK
<1> QED BY <1>1 DEF LockPaired

(* Every other statement locks what it sets running, or does neither.         *)
LEMMA LockPairedStep == ASSUME TypeOK, LockPaired, [Next]_vars PROVE LockPaired'
<1> USE ConstantsAssumption
<1>0. \A k \in Jobs : row[k] \in Row
  BY DEF TypeOK
<1>1. ASSUME NEW j \in Jobs, CreateIfNotExists(j) PROVE LockPaired'
  <2>1. \A k \in Jobs : row'[k] = row[k] \/ (row'[k].status = "queued" /\ row'[k].owner = NoWorker)
    BY <1>1 DEF CreateIfNotExists, AbsentRow, TypeOK
  <2> QED BY <2>1 DEF LockPaired
<1>2. ASSUME NEW j \in Jobs, BackoffElapses(j) \/ LockGoesStale(j) \/ RetentionElapses(j) PROVE LockPaired'
  <2>1. row' \in {[row EXCEPT ![j].due = TRUE], [row EXCEPT ![j].stale = TRUE], [row EXCEPT ![j].aged = TRUE]}
    BY <1>2 DEF BackoffElapses, LockGoesStale, RetentionElapses
  <2>2. \A k \in Jobs : row'[k].status = row[k].status /\ row'[k].owner = row[k].owner
    <3>1. CASE row' = [row EXCEPT ![j].due = TRUE]
      BY <1>0, <3>1 DEF TypeOK, Row
    <3>2. CASE row' = [row EXCEPT ![j].stale = TRUE]
      BY <1>0, <3>2 DEF TypeOK, Row
    <3>3. CASE row' = [row EXCEPT ![j].aged = TRUE]
      BY <1>0, <3>3 DEF TypeOK, Row
    <3> QED BY <2>1, <3>1, <3>2, <3>3
  <2> QED BY <2>2 DEF LockPaired
<1>3. ASSUME NEW w \in Workers, NEW S \in SUBSET Jobs, ClaimDueJobs(w, S) PROVE LockPaired'
  <2>1. \A k \in Jobs : row'[k] = row[k] \/ (row'[k].status = "running" /\ row'[k].owner = w)
    BY <1>0, <1>3 DEF ClaimDueJobs, Row
  <2>2. w # NoWorker
    OBVIOUS
  <2> QED BY <2>1, <2>2 DEF LockPaired
<1>4. ASSUME NEW w \in Workers, NEW e \in batch[w], ReleaseSurplusClaim(w, e) PROVE LockPaired'
  <2>1. e.job \in Jobs
    BY DEF TypeOK, Snapshot
  <2>2. Unlocked(row[e.job], "queued") \in Row /\ Unlocked(row[e.job], "queued").status = "queued"
        /\ Unlocked(row[e.job], "queued").owner = NoWorker
    BY <1>0, <2>1, UnlockedIs, UnlockedType DEF Status, Live
  <2> DEFINE new == [Unlocked(row[e.job], "queued") EXCEPT !.due = TRUE]
  <2>3. new.status = "queued" /\ new.owner = NoWorker
    BY <2>2 DEF Row
  <2>4. WriteRow(e.job, e.id, new) \/ row' = row
    BY <1>4 DEF ReleaseSurplusClaim
  <2> HIDE DEF new
  <2> QED BY <2>1, <2>3, <2>4, WriteUnlocks DEF LockPaired
<1>5. ASSUME NEW w \in Workers, NEW e \in batch[w], NEW s \in Slots, StartJob(w, e, s) PROVE LockPaired'
  BY <1>5 DEF StartJob, LockPaired
<1>6. ASSUME NEW w \in Workers, Crash(w) PROVE LockPaired'
  BY <1>6 DEF Crash, LockPaired
<1>7. ASSUME NEW t \in Tasks, Heartbeat(t) PROVE LockPaired'
  <2>1. \A k \in Jobs : row'[k].status = row[k].status /\ row'[k].owner = row[k].owner
    BY <1>7, ZenonT(60) DEF Heartbeat, TypeOK, Row
  <2> QED BY <2>1 DEF LockPaired
<1>8. ASSUME NEW t \in Tasks, MarkSucceeded(t) \/ HandleFailure(t) PROVE LockPaired'
  <2> DEFINE j == task[t].job
  <2>1. j \in Jobs
    <3>1. Busy(t)
      BY <1>8 DEF MarkSucceeded, HandleFailure, RequeueRateLimited, Defer, ReadConnection,
        FlagConnection, MarkDead, OnDead, ReadAttempts, MarkFailed, OnLadder, Busy
    <3> QED BY <3>1, BusyTaskType DEF BusyTask
  <2>2. \A st \in {"queued", "succeeded", "dead"} : Unlocked(row[j], st) \in Row
          /\ Unlocked(row[j], st).status = st /\ Unlocked(row[j], st).owner = NoWorker
    <3> TAKE st \in {"queued", "succeeded", "dead"}
    <3>1. st \in Status
      BY DEF Status, Live, Terminal
    <3> QED BY <1>0, <2>1, <3>1, UnlockedIs, UnlockedType
  <2> DEFINE q == Unlocked(row[j], "queued")
  <2>3. \E new : new.status # "running" /\ new.owner = NoWorker
          /\ (WriteRow(j, task[t].id, new) \/ row' = row)
    <3>1. CASE MarkSucceeded(t)
      BY <2>2, <3>1 DEF MarkSucceeded
    <3>2. CASE RequeueRateLimited(t)
      <4>1. [q EXCEPT !.due = FALSE].status # "running" /\ [q EXCEPT !.due = FALSE].owner = NoWorker
        BY <2>2 DEF Row
      <4> QED BY <3>2, <4>1 DEF RequeueRateLimited
    <3>3. CASE Defer(t)
      <4> DEFINE new == [q EXCEPT !.due = FALSE, !.deferred = DeferredTotal(t)]
      <4>1. new.status # "running" /\ new.owner = NoWorker
        BY <2>2 DEF Row
      <4>2. WriteRow(j, task[t].id, new)
        BY <3>3 DEF Defer
      <4> QED BY <4>1, <4>2
    <3>4. CASE MarkDead(t)
      BY <2>2, <3>4 DEF MarkDead
    <3>5. CASE MarkFailed(t)
      <4> DEFINE new == [q EXCEPT !.due = FALSE, !.attempts = task[t].attempts + 1]
      <4>1. new.status # "running" /\ new.owner = NoWorker
        BY <2>2 DEF Row
      <4>2. WriteRow(j, task[t].id, new)
        BY <3>5 DEF MarkFailed
      <4> QED BY <4>1, <4>2
    <3>6. CASE ReadConnection(t) \/ FlagConnection(t) \/ OnDead(t) \/ ReadAttempts(t)
      <4>1. row' = row
        BY <3>6 DEF ReadConnection, FlagConnection, OnDead, ReadAttempts
      <4> QED BY <2>2, <4>1
    <3> QED BY <1>8, <3>1, <3>2, <3>3, <3>4, <3>5, <3>6 DEF HandleFailure
  <2> HIDE DEF j
  <2>4. PICK new : new.status # "running" /\ new.owner = NoWorker
          /\ (WriteRow(j, task[t].id, new) \/ row' = row)
    BY <2>3
  <2> QED BY <2>1, <2>4, WriteUnlocks DEF LockPaired
<1>9. ASSUME NEW t \in Tasks, NEW r \in Results, SettleFails(t) \/ FinishHandler(t, r) PROVE LockPaired'
  BY <1>9 DEF SettleFails, FinishHandler, LockPaired
<1>10. ASSUME NEW t \in Tasks, SettleFails(t) PROVE LockPaired'
  BY <1>10 DEF SettleFails, LockPaired
<1>11. ASSUME NEW S \in SUBSET Jobs, RequeueDeadJobs(S) PROVE LockPaired'
  <2>1. \A k \in Jobs : Unlocked(row[k], "queued") \in Row /\ Unlocked(row[k], "queued").status = "queued"
           /\ Unlocked(row[k], "queued").owner = NoWorker
    BY <1>0, UnlockedIs, UnlockedType DEF Status, Live
  <2>2. \A k \in Jobs : row'[k] = row[k] \/ (row'[k].status = "queued" /\ row'[k].owner = NoWorker)
    BY <1>11, <2>1 DEF RequeueDeadJobs, Row
  <2> QED BY <2>2 DEF LockPaired
<1>12. ASSUME NEW st \in Terminal, SelectPrunable(st) PROVE LockPaired'
  BY <1>12 DEF SelectPrunable, LockPaired
<1>13. ASSUME NEW c \in Conns, NEW st \in {"active", "disabled"}, SetConnection(c, st) PROVE LockPaired'
  BY <1>13 DEF SetConnection, LockPaired
<1>14. ASSUME RequeueStuckJobs PROVE LockPaired'
  <2>1. \A k \in Jobs : Unlocked(row[k], "queued").status = "queued" /\ Unlocked(row[k], "queued").owner = NoWorker
    BY <1>0, UnlockedIs DEF Status, Live
  <2>2. \A k \in Jobs : row'[k] = row[k] \/ (row'[k].status = "queued" /\ row'[k].owner = NoWorker)
    BY <1>14, <2>1 DEF RequeueStuckJobs
  <2> QED BY <2>2 DEF LockPaired
<1>15. ASSUME PruneTerminalJobs PROVE LockPaired'
  <2>1. \A k \in Jobs : row'[k] = row[k] \/ (row'[k].status = "absent" /\ row'[k].owner = NoWorker)
    BY <1>15 DEF PruneTerminalJobs, AbsentRow
  <2> QED BY <2>1 DEF LockPaired
<1>16. CASE UNCHANGED vars
  BY <1>16 DEF vars, LockPaired
<1> QED
  BY <1>1, <1>2, <1>3, <1>4, <1>5, <1>6, <1>7, <1>8, <1>9, <1>10, <1>11, <1>12, <1>13, <1>14, <1>15, <1>16
  DEF Next

(* However heartbeats are missed, a row is locked exactly while it is running.*)
THEOREM LockWithRun == Spec => []LockPaired
<1>1. Init => LockPaired
  BY DEF Init, LockPaired, AbsentRow
<1>2. TypeOK /\ LockPaired /\ [Next]_vars => LockPaired'
  BY LockPairedStep
<1> QED BY <1>1, <1>2, TypeCorrect, PTL DEF Spec

-----------------------------------------------------------------------------
(* Scopes.                                                                    *)

(* The slots a scope takes in a runner.                                       *)
Load(w, c) == {s \in Slots : Busy(<<w, s>>) /\ ConnOf[task[<<w, s>>].job] = c}

(* A step that takes no slot it had not taken keeps the caps.                 *)
LEMMA NoNewLoad ==
  ASSUME ScopeCap, NEW w \in Workers, NEW c \in Conns, Load(w, c)' \subseteq Load(w, c)
  PROVE  ScopeLoad(w, c)' <= PerScope
<1>1. IsFiniteSet(Load(w, c)) /\ IsFiniteSet(Load(w, c)')
  BY FS_Subset, ConstantsAssumption DEF Load
<1>2. Cardinality(Load(w, c)') <= Cardinality(Load(w, c))
  BY <1>1, FS_Subset
<1>3. Cardinality(Load(w, c)) \in Nat /\ Cardinality(Load(w, c)') \in Nat
  BY <1>1, FS_CardinalityType
<1> QED BY <1>2, <1>3, ConstantsAssumption DEF ScopeCap, ScopeLoad, Load

(* A claim is started only where its scope has a slot left.                   *)
LEMMA StartKeepsCap ==
  ASSUME TypeOK, ScopeCap, NEW w \in Workers, NEW e \in batch[w], NEW s \in Slots, StartJob(w, e, s)
  PROVE  ScopeCap'
<1> DEFINE t == <<w, s>>
<1>1. t \in Tasks /\ e.job \in Jobs
  BY DEF Tasks, TypeOK, Snapshot
<1>2. /\ \A u \in Tasks : u # t => task'[u] = task[u]
      /\ task'[t].pc = "exec" /\ task'[t].job = e.job
  BY <1>1 DEF StartJob, TypeOK
<1>3. ASSUME NEW v \in Workers, NEW c \in Conns, v # w \/ c # ConnOf[e.job] PROVE Load(v, c)' \subseteq Load(v, c)
  BY <1>2, <1>3 DEF Load, Busy, Tasks
<1>4. Load(w, ConnOf[e.job])' \subseteq Load(w, ConnOf[e.job]) \cup {s}
  BY <1>2 DEF Load, Busy, Tasks
<1>5. ScopeLoad(w, ConnOf[e.job])' <= PerScope
  <2> DEFINE c == ConnOf[e.job]
  <2>1. c \in Conns
    BY <1>1, ConstantsAssumption
  <2>2. IsFiniteSet(Load(w, c)) /\ IsFiniteSet(Load(w, c)') /\ IsFiniteSet(Load(w, c) \cup {s})
    BY FS_Subset, FS_AddElement, ConstantsAssumption DEF Load
  <2>3. Cardinality(Load(w, c) \cup {s}) <= Cardinality(Load(w, c)) + 1
    BY <2>2, FS_AddElement, FS_CardinalityType
  <2>4. Cardinality(Load(w, c)') <= Cardinality(Load(w, c) \cup {s})
    BY <1>4, <2>2, FS_Subset
  <2>5. ~(Cardinality(Load(w, c)) >= PerScope)
    BY DEF StartJob, ScopeFull, ScopeLoad, Load
  <2>6. ScopeLoad(w, c)' = Cardinality(Load(w, c)')
    BY DEF ScopeLoad, Load
  <2>7. /\ Cardinality(Load(w, c)) \in Nat /\ Cardinality(Load(w, c)') \in Nat
        /\ Cardinality(Load(w, c) \cup {s}) \in Nat
    BY <2>2, FS_CardinalityType
  <2> QED BY <2>3, <2>4, <2>5, <2>6, <2>7, ConstantsAssumption
<1>6. ASSUME NEW v \in Workers, NEW c \in Conns PROVE ScopeLoad(v, c)' <= PerScope
  BY <1>3, <1>5, <1>6, NoNewLoad
<1> QED BY <1>6 DEF ScopeCap

(* Only a start takes a slot.                                                 *)
LEMMA ScopeCapStep == ASSUME TypeOK, ScopeCap, [Next]_vars PROVE ScopeCap'
<1> DEFINE NoneTaken == \A t \in Tasks : Busy(t)' => Busy(t) /\ task'[t].job = task[t].job
<1>1. ASSUME NoneTaken PROVE ScopeCap'
  <2>1. \A v \in Workers, c \in Conns : Load(v, c)' \subseteq Load(v, c)
    BY <1>1 DEF Load, Tasks
  <2> QED BY <2>1, NoNewLoad DEF ScopeCap
<1>2. ASSUME NEW w \in Workers, NEW e \in batch[w], NEW s \in Slots, StartJob(w, e, s) PROVE ScopeCap'
  BY <1>2, StartKeepsCap
<1>3. ASSUME task' = task PROVE NoneTaken
  BY <1>3 DEF Busy
<1>4. ASSUME NEW w \in Workers, Crash(w) PROVE NoneTaken
  BY <1>4 DEF Crash, Busy, IdleTask
<1>5. ASSUME NEW t \in Tasks, NEW x, task' = [task EXCEPT ![t] = x], x = IdleTask \/ (Busy(t) /\ x.job = task[t].job)
      PROVE NoneTaken
  BY <1>5 DEF Busy, IdleTask, TypeOK
<1>6. \A t \in Tasks : Busy(t) => task[t] \in BusyTask
  BY BusyTaskType
<1>7. ASSUME NEW t \in Tasks, NEW r \in Results, FinishHandler(t, r) PROVE NoneTaken
  <2>1. Busy(t)
    BY <1>7 DEF FinishHandler, Busy
  <2> DEFINE x == [task[t] EXCEPT !.pc = "settle", !.result = r]
  <2>2. x.job = task[t].job
    BY <1>6, <2>1 DEF BusyTask
  <2>3. task' = [task EXCEPT ![t] = x]
    BY <1>6, <1>7, <2>1 DEF FinishHandler, BusyTask, TypeOK
  <2> HIDE DEF x
  <2> QED BY <1>5, <2>1, <2>2, <2>3
<1>8. ASSUME NEW t \in Tasks, MarkSucceeded(t) \/ HandleFailure(t) \/ SettleFails(t) PROVE NoneTaken
  <2>1. Busy(t)
    BY <1>8 DEF MarkSucceeded, SettleFails, HandleFailure, RequeueRateLimited, Defer, ReadConnection,
      FlagConnection, MarkDead, OnDead, ReadAttempts, MarkFailed, OnLadder, Busy
  <2>2. task[t] \in BusyTask
    BY <1>6, <2>1
  <2>3. \A u \in Tasks : u # t => task'[u] = task[u]
    BY <1>8 DEF MarkSucceeded, SettleFails, HandleFailure, RequeueRateLimited, Defer, ReadConnection,
      FlagConnection, MarkDead, OnDead, ReadAttempts, MarkFailed, OnLadder, Release, TypeOK
  <2>4. task'[t] = IdleTask \/ task'[t].job = task[t].job
    <3>1. CASE MarkSucceeded(t) \/ SettleFails(t)
      BY <2>2, <3>1 DEF MarkSucceeded, SettleFails, Release, TypeOK, BusyTask
    <3>2. CASE RequeueRateLimited(t) \/ Defer(t) \/ OnDead(t) \/ MarkFailed(t)
      BY <3>2 DEF RequeueRateLimited, Defer, OnDead, MarkFailed, Release, TypeOK
    <3>3. CASE ReadConnection(t) \/ FlagConnection(t)
      BY <2>2, <3>3 DEF ReadConnection, FlagConnection, TypeOK, BusyTask
    <3>4. CASE MarkDead(t) \/ ReadAttempts(t)
      BY <2>2, <3>4 DEF MarkDead, ReadAttempts, TypeOK, BusyTask
    <3> QED BY <1>8, <3>1, <3>2, <3>3, <3>4 DEF HandleFailure
  <2> QED BY <2>1, <2>3, <2>4 DEF Busy, IdleTask
<1> HIDE DEF NoneTaken
<1>9. ASSUME NEW j \in Jobs, CreateIfNotExists(j) \/ BackoffElapses(j) \/ LockGoesStale(j) \/ RetentionElapses(j)
      PROVE task' = task
  BY <1>9 DEF CreateIfNotExists, BackoffElapses, LockGoesStale, RetentionElapses
<1>10. ASSUME NEW w \in Workers, NEW S \in SUBSET Jobs, ClaimDueJobs(w, S) PROVE task' = task
  BY <1>10 DEF ClaimDueJobs
<1>11. ASSUME NEW w \in Workers, NEW e \in batch[w], ReleaseSurplusClaim(w, e) PROVE task' = task
  BY <1>11 DEF ReleaseSurplusClaim
<1>12. ASSUME NEW t \in Tasks, Heartbeat(t) PROVE task' = task
  BY <1>12 DEF Heartbeat
<1>13. ASSUME NEW S \in SUBSET Jobs, RequeueDeadJobs(S) PROVE task' = task
  BY <1>13 DEF RequeueDeadJobs
<1>14. ASSUME NEW st, NEW c, SelectPrunable(st) \/ SetConnection(c, st) \/ RequeueStuckJobs \/ PruneTerminalJobs
       PROVE task' = task
  BY <1>14 DEF SelectPrunable, SetConnection, RequeueStuckJobs, PruneTerminalJobs
<1>15. ASSUME UNCHANGED vars PROVE task' = task
  BY <1>15 DEF vars
<1> QED
  BY <1>1, <1>2, <1>3, <1>4, <1>7, <1>8, <1>9, <1>10, <1>11, <1>12, <1>13, <1>14, <1>15 DEF Next

(* A claim may return more jobs of a scope than it has slots left, and still  *)
(* no runner works on more of them than the cap.                              *)
THEOREM ScopesCapped == Spec => []ScopeCap
<1>1. Init => ScopeCap
  <2> SUFFICES ASSUME Init, NEW w \in Workers, NEW c \in Conns PROVE ScopeLoad(w, c) <= PerScope
    BY DEF ScopeCap
  <2>1. Load(w, c) = {}
    BY DEF Init, Busy, IdleTask, Tasks, Load
  <2>2. ScopeLoad(w, c) = Cardinality(Load(w, c))
    BY DEF ScopeLoad, Load
  <2>3. ScopeLoad(w, c) = 0
    BY <2>1, <2>2, FS_EmptySet
  <2> QED BY <2>3, ConstantsAssumption
<1>2. TypeOK /\ ScopeCap /\ [Next]_vars => ScopeCap'
  BY ScopeCapStep
<1> QED BY <1>1, <1>2, TypeCorrect, PTL DEF Spec

-----------------------------------------------------------------------------
(* The refinement.  What a statement may do to a row, read off the row itself:*)
(* the moves of JobLifecycle.                                                 *)
Turns(k, from, to) == row[k].status = from /\ row'[k].status = to
NotCharged(k) == row'[k].attempts = row[k].attempts

RowMoves(k) ==
  \/ row'[k].status = row[k].status /\ NotCharged(k)
  \/ Turns(k, "absent", "queued") /\ row'[k].attempts = 0
  \/ Turns(k, "queued", "running") /\ NotCharged(k)
  \/ row[k].status = "running" /\ row'[k].status \in {"succeeded", "dead", "queued"} /\ NotCharged(k)
  \/ Turns(k, "running", "queued") /\ row'[k].attempts = row[k].attempts + 1 /\ row'[k].attempts < MaxAttempts
  \/ Turns(k, "dead", "queued") /\ row'[k].attempts = 0
  \/ row[k].status # "absent" /\ row'[k].status = "absent" /\ row'[k].attempts = 0

(* A task, or a claim, settles a row it holds: the row was running.           *)
LEMMA WriteMoves ==
  ASSUME TypeOK, NEW j \in Jobs, NEW id, NEW new, WriteRow(j, id, new),
         Present(j, id) => row[j].status = "running",
         new.status \in {"succeeded", "dead", "queued"},
         \/ new.attempts = row[j].attempts
         \/ /\ new.status = "queued"
            /\ Present(j, id) => new.attempts = row[j].attempts + 1 /\ new.attempts < MaxAttempts
  PROVE  \A k \in Jobs : RowMoves(k)
<1>1. \A k \in Jobs : row'[k] = row[k] \/ (k = j /\ Present(j, id) /\ row'[k] = new)
  BY DEF WriteRow, TypeOK
<1> QED BY <1>1 DEF RowMoves, Turns, NotCharged

(* Every step of the queue moves each row so, or leaves it.                   *)
LEMMA RefinementStep ==
  ASSUME HeartbeatsReliable, TypeOK, Exclusive, [Next]_vars, NEW k \in Jobs
  PROVE  RowMoves(k)
<1> USE ConstantsAssumption
<1>0. \A j \in Jobs : row[j] \in Row
  BY DEF TypeOK
<1>a. \A r \in Row : \A st \in {"queued", "succeeded", "dead"} :
        /\ Unlocked(r, st) \in Row /\ Unlocked(r, st).status = st /\ Unlocked(r, st).attempts = r.attempts
  BY UnlockedIs, UnlockedType DEF Status, Live, Terminal
<1>b. ASSUME row' = row PROVE RowMoves(k)
  BY <1>b DEF RowMoves, NotCharged
<1>c. ASSUME row'[k].status = row[k].status, row'[k].attempts = row[k].attempts PROVE RowMoves(k)
  BY <1>c DEF RowMoves, NotCharged
<1>1. ASSUME NEW j \in Jobs, CreateIfNotExists(j) PROVE RowMoves(k)
  BY <1>1 DEF CreateIfNotExists, AbsentRow, TypeOK, RowMoves, Turns, NotCharged
<1>2. ASSUME NEW j \in Jobs, BackoffElapses(j) \/ LockGoesStale(j) \/ RetentionElapses(j) PROVE RowMoves(k)
  <2>1. row' \in {[row EXCEPT ![j].due = TRUE], [row EXCEPT ![j].stale = TRUE], [row EXCEPT ![j].aged = TRUE]}
    BY <1>2 DEF BackoffElapses, LockGoesStale, RetentionElapses
  <2>2. CASE row' = [row EXCEPT ![j].due = TRUE]
    BY <1>0, <1>c, <2>2 DEF TypeOK, Row
  <2>3. CASE row' = [row EXCEPT ![j].stale = TRUE]
    BY <1>0, <1>c, <2>3 DEF TypeOK, Row
  <2>4. CASE row' = [row EXCEPT ![j].aged = TRUE]
    BY <1>0, <1>c, <2>4 DEF TypeOK, Row
  <2> QED BY <2>1, <2>2, <2>3, <2>4
<1>3. ASSUME NEW w \in Workers, NEW S \in SUBSET Jobs, ClaimDueJobs(w, S) PROVE RowMoves(k)
  <2>1. \/ row'[k] = row[k]
        \/ row[k].status = "queued" /\ row'[k].status = "running" /\ row'[k].attempts = row[k].attempts
    BY <1>0, <1>3 DEF ClaimDueJobs, Row, Due
  <2> QED BY <2>1 DEF RowMoves, Turns, NotCharged
<1>4. ASSUME NEW w \in Workers, NEW e \in batch[w], ReleaseSurplusClaim(w, e) PROVE RowMoves(k)
  <2>1. e.job \in Jobs
    BY DEF TypeOK, Snapshot
  <2> DEFINE new == [Unlocked(row[e.job], "queued") EXCEPT !.due = TRUE]
  <2>2. new.status = "queued" /\ new.attempts = row[e.job].attempts
    BY <1>0, <1>a, <2>1 DEF Row
  <2>3. WriteRow(e.job, e.id, new) \/ row' = row
    BY <1>4 DEF ReleaseSurplusClaim
  <2>4. Present(e.job, e.id) => row[e.job].status = "running"
    BY DEF Exclusive, ClaimCurrent
  <2> HIDE DEF new
  <2> QED BY <1>b, <2>1, <2>2, <2>3, <2>4, WriteMoves
<1>5. ASSUME NEW w \in Workers, NEW e \in batch[w], NEW s \in Slots, StartJob(w, e, s) PROVE RowMoves(k)
  BY <1>5, <1>b DEF StartJob
<1>6. ASSUME NEW w \in Workers, Crash(w) PROVE RowMoves(k)
  BY <1>6, <1>b DEF Crash
<1>7. ASSUME NEW t \in Tasks, Heartbeat(t) PROVE RowMoves(k)
  <2>1. row' = [row EXCEPT ![task[t].job].stale = FALSE]
    BY <1>7 DEF Heartbeat
  <2> QED BY <1>0, <1>c, <2>1 DEF TypeOK, Row
<1>8. ASSUME NEW t \in Tasks, MarkSucceeded(t) \/ HandleFailure(t) PROVE RowMoves(k)
  <2> DEFINE j == task[t].job
             id == task[t].id
             q == Unlocked(row[j], "queued")
  <2>1. j \in Jobs /\ task[t].attempts \in Nat
    <3>1. Busy(t)
      BY <1>8 DEF MarkSucceeded, HandleFailure, RequeueRateLimited, Defer, ReadConnection,
        FlagConnection, MarkDead, OnDead, ReadAttempts, MarkFailed, OnLadder, Busy
    <3> QED BY <3>1, BusyTaskType DEF BusyTask
  <2>2. /\ q \in Row /\ q.status = "queued" /\ q.attempts = row[j].attempts
        /\ Unlocked(row[j], "dead").status = "dead" /\ Unlocked(row[j], "dead").attempts = row[j].attempts
        /\ Unlocked(row[j], "succeeded").status = "succeeded"
        /\ Unlocked(row[j], "succeeded").attempts = row[j].attempts
    BY <1>0, <1>a, <2>1
  <2>3. Holding(t) /\ Present(j, id) => row[j].status = "running" /\ row[j].attempts = task[t].attempts
    BY DEF Exclusive, TaskCurrent
  <2>4. CASE MarkSucceeded(t)
    <3>1. Holding(t) /\ (WriteRow(j, id, Unlocked(row[j], "succeeded")) \/ row' = row)
      BY <2>4 DEF MarkSucceeded, Holding
    <3> QED BY <1>b, <2>1, <2>2, <2>3, <3>1, WriteMoves
  <2>5. CASE RequeueRateLimited(t)
    <3> DEFINE new == [q EXCEPT !.due = FALSE]
    <3>1. Holding(t) /\ WriteRow(j, id, new)
      BY <2>5 DEF RequeueRateLimited, Holding
    <3>2. new.status = "queued" /\ new.attempts = row[j].attempts
      BY <2>2 DEF Row
    <3> HIDE DEF new
    <3> QED BY <2>1, <2>3, <3>1, <3>2, WriteMoves
  <2>6. CASE Defer(t)
    <3> DEFINE new == [q EXCEPT !.due = FALSE, !.deferred = DeferredTotal(t)]
    <3>1. Holding(t) /\ WriteRow(j, id, new)
      BY <2>6 DEF Defer, Holding
    <3>2. new.status = "queued" /\ new.attempts = row[j].attempts
      BY <2>2 DEF Row
    <3> HIDE DEF new
    <3> QED BY <2>1, <2>3, <3>1, <3>2, WriteMoves
  <2>7. CASE MarkDead(t)
    <3>1. Holding(t) /\ WriteRow(j, id, Unlocked(row[j], "dead"))
      BY <2>7 DEF MarkDead, OnLadder, Holding
    <3> QED BY <2>1, <2>2, <2>3, <3>1, WriteMoves
  <2>8. CASE MarkFailed(t)
    <3> DEFINE n == task[t].attempts + 1
               new == [q EXCEPT !.due = FALSE, !.attempts = n]
    <3>1. Holding(t) /\ WriteRow(j, id, new)
      BY <2>8 DEF MarkFailed, Holding
    <3>2. new.status = "queued" /\ new.attempts = n
      BY <2>2 DEF Row
    <3>3. n < MaxAttempts
      BY <2>8 DEF MarkFailed, Exclusive, BumpAffordable
    <3>4. Present(j, id) => row[j].status = "running" /\ n = row[j].attempts + 1
      BY <2>3, <3>1
    <3> HIDE DEF new, n
    <3> QED BY <2>1, <3>1, <3>2, <3>3, <3>4, WriteMoves
  <2>9. CASE ReadConnection(t) \/ FlagConnection(t) \/ OnDead(t) \/ ReadAttempts(t)
    BY <1>b, <2>9 DEF ReadConnection, FlagConnection, OnDead, ReadAttempts
  <2> QED BY <1>8, <2>4, <2>5, <2>6, <2>7, <2>8, <2>9 DEF HandleFailure
<1>9. ASSUME NEW t \in Tasks, NEW r, SettleFails(t) \/ FinishHandler(t, r) PROVE RowMoves(k)
  BY <1>9, <1>b DEF SettleFails, FinishHandler
<1>10. ASSUME NEW S \in SUBSET Jobs, RequeueDeadJobs(S) PROVE RowMoves(k)
  <2>1. \/ row'[k] = row[k]
        \/ row[k].status = "dead" /\ row'[k].status = "queued" /\ row'[k].attempts = 0
    <3> DEFINE q == Unlocked(row[k], "queued")
    <3>1. q \in Row /\ q.status = "queued"
      BY <1>0, <1>a
    <3>2. row'[k] = IF k \in S THEN [q EXCEPT !.attempts = 0, !.due = TRUE] ELSE row[k]
      BY <1>10 DEF RequeueDeadJobs
    <3>3. k \in S => row[k].status = "dead"
      BY <1>10 DEF RequeueDeadJobs, Retriable
    <3> HIDE DEF q
    <3> QED BY <3>1, <3>2, <3>3 DEF Row
  <2> QED BY <2>1 DEF RowMoves, Turns, NotCharged
<1>11. ASSUME NEW st, NEW c, SelectPrunable(st) \/ SetConnection(c, st) PROVE RowMoves(k)
  BY <1>11, <1>b DEF SelectPrunable, SetConnection
<1>12. ASSUME RequeueStuckJobs PROVE RowMoves(k)
  <2>1. \/ row'[k] = row[k]
        \/ row[k].status = "running" /\ row'[k].status = "queued" /\ row'[k].attempts = row[k].attempts
    BY <1>0, <1>a, <1>12 DEF RequeueStuckJobs, Stuck
  <2> QED BY <2>1 DEF RowMoves, Turns, NotCharged
<1>13. ASSUME PruneTerminalJobs PROVE RowMoves(k)
  BY <1>13 DEF PruneTerminalJobs, AbsentRow, RowMoves, Turns, NotCharged
<1>14. CASE UNCHANGED vars
  BY <1>14, <1>b DEF vars
<1> QED
  BY <1>1, <1>2, <1>3, <1>4, <1>5, <1>6, <1>7, <1>8, <1>9, <1>10, <1>11, <1>12, <1>13, <1>14 DEF Next

(* Such a move is a move of JobLifecycle.                                     *)
LEMMA RowMovesMap ==
  ASSUME TypeOK, TypeOK', \A k \in Jobs : RowMoves(k)
  PROVE  Lifecycle!Next
<1>1. ASSUME NEW k \in Jobs PROVE Lifecycle!Move(k) \/ Lifecycle!Stay(k)
  BY <1>1 DEF RowMoves, Turns, NotCharged, Lifecycle!Move, Lifecycle!Stay, Lifecycle!Insert, Lifecycle!Begin,
    Lifecycle!Succeed, Lifecycle!Retry, Lifecycle!Yield, Lifecycle!GiveUp, Lifecycle!Revive, Lifecycle!Remove,
    Lifecycle!Goes, Lifecycle!Uncharged
<1> QED BY <1>1 DEF Lifecycle!Next

(* While heartbeats arrive, the queue with its runners, snapshots, sweeps and *)
(* crashes does to a row only what JobLifecycle promises of it.               *)
THEOREM LifecycleKept ==
  ASSUME HeartbeatsReliable
  PROVE  Spec => ImplementsLifecycle
<1>1. Init => Lifecycle!Init
  BY DEF Init, AbsentRow, Lifecycle!Init
<1>2. IInv /\ IInv' /\ [Next]_vars => [Lifecycle!Next]_(Lifecycle!vars)
  BY RefinementStep, RowMovesMap DEF IInv
<1> QED BY <1>1, <1>2, Invariance, PTL DEF Spec, ImplementsLifecycle, Lifecycle!Spec
==============================================================================
