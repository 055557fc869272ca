---------------------------- MODULE SyncJobQueue ----------------------------
(* The durable job queue of OpenLinker: the sync_jobs table of Postgres, the  *)
(* SyncJobRunner processes that claim rows from it and run their handlers,    *)
(* the stuck-job recovery and retention sweeps, and the operator's retry of   *)
(* dead jobs.                                                                 *)
(*                                                                            *)
(* A job is named by its idempotency key.  A row of the table is identified   *)
(* by a key and an id, because a pruned key may be inserted again under a     *)
(* fresh id; every write of the code addresses the id.  One SQL statement is  *)
(* one action, and what a runner keeps in memory between two awaits is in     *)
(* batch (claimed, not started) and task (started).                           *)
(*                                                                            *)
(* Time is abstracted to what the statements compare: due (nextRunAt <= now), *)
(* stale (lockedAt older than the recovery timeout) and aged (updatedAt older *)
(* than the retention window).                                                *)
EXTENDS Naturals, FiniteSets

CONSTANTS
  Jobs,               \* idempotency keys
  Workers,            \* runner processes
  Slots,              \* places of one lane in a runner; Cardinality = cap.total
  Conns,              \* connections, which are also the scopes of the lane
  ConnOf,             \* the connection a job belongs to
  PerScope,           \* cap.perScope of the lane
  MaxAttempts,        \* sync_jobs.maxAttempts
  DeferBudget,        \* how many deferrals fit maxDeferredTotalSeconds
  Results,            \* how a handler may end, a subset of ResultKinds
  HeartbeatsReliable, \* a lock held by a live task never goes stale
  MaxFaults,          \* bound: crashes, failed writes and missed heartbeats
  MaxRows,            \* bound: rows ever inserted for one key
  MaxRetries,         \* bound: operator retries of dead jobs
  NoWorker,           \* lockedBy IS NULL
  NoJob

ResultKinds ==
  {"ok", "retryable", "nonRetryable", "credential", "rateLimit", "deferrable"}

ASSUME ConstantsAssumption ==
  /\ IsFiniteSet(Slots)
  /\ ConnOf \in [Jobs -> Conns]
  /\ PerScope \in Nat \ {0}
  /\ MaxAttempts \in Nat \ {0}
  /\ DeferBudget \in Nat
  /\ Results \subseteq ResultKinds
  /\ HeartbeatsReliable \in BOOLEAN
  /\ MaxFaults \in Nat
  /\ MaxRows \in Nat
  /\ MaxRetries \in Nat
  /\ NoWorker \notin Workers
  /\ NoJob \notin Jobs

VARIABLES
  row,      \* the sync_jobs row of each key, or an absent one
  batch,    \* per runner: entities its last claim returned and it has not started
  task,     \* per runner and slot: the job being processed there
  conn,     \* connections.status
  pruning,  \* rows the running DELETE of the retention sweep has selected
  faults,   \* faults so far
  retries   \* operator retries so far

vars == <<row, batch, task, conn, pruning, faults, retries>>

Tasks == Workers \X Slots
WorkerOf(t) == t[1]

Terminal == {"succeeded", "dead"}
Live == {"queued", "running"}

AbsentRow ==
  [status |-> "absent", id |-> 0, attempts |-> 0, deferred |-> 0,
   owner |-> NoWorker, due |-> FALSE, stale |-> FALSE, aged |-> FALSE]

IdleTask ==
  [pc |-> "idle", job |-> NoJob, id |-> 0, attempts |-> 0, deferred |-> 0,
   result |-> "ok"]

Present(j, id) == row[j].status # "absent" /\ row[j].id = id

(* The entity the claim returns: the runner's snapshot of the row.            *)
Entity(j) ==
  [job |-> j, id |-> row[j].id, attempts |-> row[j].attempts,
   deferred |-> row[j].deferred]

(* A task is idle, runs its handler (exec), or awaits a write that settles    *)
(* the job: settle (outcome known), flag (the connection was read active),    *)
(* bump (markFailed has read attempts), notify (markDead done, onDead runs).  *)
Busy(t) == task[t].pc # "idle"
Holding(t) == task[t].pc \in {"exec", "settle", "flag", "bump"}
Holds(t, j) == Holding(t) /\ task[t].job = j /\ task[t].id = row[j].id
Claimed(w, j) == \E e \in batch[w] : e.job = j /\ e.id = row[j].id
Held(j) == (\E t \in Tasks : Holds(t, j)) \/ (\E w \in Workers : Claimed(w, j))

FreeSlots(w) == {s \in Slots : task[<<w, s>>].pc = "idle"}
ScopeLoad(w, c) ==
  Cardinality({s \in Slots : Busy(<<w, s>>) /\ ConnOf[task[<<w, s>>].job] = c})
ScopeFull_OffByOne(w, c) == ScopeLoad(w, c) > PerScope
ScopeFull(w, c) == ScopeLoad(w, c) >= PerScope
ExcludedScopes(w) == {c \in Conns : ScopeFull(w, c)}

-----------------------------------------------------------------------------
Init ==
  /\ row = [j \in Jobs |-> AbsentRow]
  /\ batch = [w \in Workers |-> {}]
  /\ task = [t \in Tasks |-> IdleTask]
  /\ conn = [c \in Conns |-> "active"]
  /\ pruning = {}
  /\ faults = 0
  /\ retries = 0

Unlocked_OwnerKept(r, status) ==
  [r EXCEPT !.status = status, !.stale = FALSE, !.aged = FALSE]
Unlocked(r, status) ==
  [r EXCEPT !.status = status, !.owner = NoWorker, !.stale = FALSE,
            !.aged = FALSE]

(* UPDATE sync_jobs ... WHERE id = $1, with no guard on status or lockedBy:   *)
(* it writes whatever row bears the id and is a no-op when there is none.     *)
WriteRow(j, id, new) ==
  row' = IF Present(j, id) THEN [row EXCEPT ![j] = new] ELSE row

Fault == faults < MaxFaults /\ faults' = faults + 1
Release_EntityKept(t) == task' = [task EXCEPT ![t].pc = "idle"]
Release(t) == task' = [task EXCEPT ![t] = IdleTask]

-----------------------------------------------------------------------------
(* Inserting a job: the unique idempotency key makes a second insert return   *)
(* the row that is there.                                                     *)
CreateIfNotExists(j) ==
  /\ row[j].status = "absent"
  /\ row[j].id < MaxRows
  /\ row' = [row EXCEPT ![j] =
               [AbsentRow EXCEPT !.status = "queued", !.due = TRUE,
                                 !.id = row[j].id + 1]]
  /\ UNCHANGED <<batch, task, conn, pruning, faults, retries>>

(* SELECT ... FOR UPDATE SKIP LOCKED and the UPDATE in one transaction.  The  *)
(* runner awaits the start or release of one batch before the next claim.     *)
Due_AnyStatus(j) == row[j].due
Due(j) == row[j].status = "queued" /\ row[j].due

ClaimDueJobs(w, S) ==
  /\ batch[w] = {}
  /\ S # {}
  /\ Cardinality(S) <= Cardinality(FreeSlots(w))
  /\ \A j \in S : Due(j) /\ ConnOf[j] \notin ExcludedScopes(w)
  /\ row' = [j \in Jobs |->
               IF j \in S
                 THEN [row[j] EXCEPT !.status = "running", !.owner = w,
                                     !.stale = FALSE]
                 ELSE row[j]]
  /\ batch' = [batch EXCEPT ![w] = {Entity(j) : j \in S}]
  /\ UNCHANGED <<task, conn, pruning, faults, retries>>

StartJob(w, e, s) ==
  /\ e \in batch[w]
  /\ task[<<w, s>>].pc = "idle"
  /\ ~ScopeFull(w, ConnOf[e.job])
  /\ batch' = [batch EXCEPT ![w] = @ \ {e}]
  /\ task' = [task EXCEPT ![<<w, s>>] =
                [pc |-> "exec", job |-> e.job, id |-> e.id,
                 attempts |-> e.attempts, deferred |-> e.deferred,
                 result |-> "ok"]]
  /\ UNCHANGED <<row, conn, pruning, faults, retries>>

(* A batch may hold more jobs of one scope than the scope has slots: the      *)
(* surplus goes back without penalty.  A failed release leaves the row        *)
(* running for the recovery sweep.                                            *)
ReleaseSurplusClaim(w, e) ==
  /\ e \in batch[w]
  /\ ScopeFull(w, ConnOf[e.job])
  /\ batch' = [batch EXCEPT ![w] = @ \ {e}]
  /\ \/ /\ WriteRow(e.job, e.id, [Unlocked(row[e.job], "queued") EXCEPT !.due = TRUE])
        /\ UNCHANGED faults
     \/ Fault /\ UNCHANGED row
  /\ UNCHANGED <<task, conn, pruning, retries>>

(* Guarded on status and lockedBy; runs while the handler does.               *)
Heartbeat(t) ==
  /\ task[t].pc = "exec"
  /\ LET j == task[t].job IN
       /\ Present(j, task[t].id)
       /\ row[j].status = "running"
       /\ row[j].owner = WorkerOf(t)
       /\ row' = [row EXCEPT ![j].stale = FALSE]
  /\ UNCHANGED <<batch, task, conn, pruning, faults, retries>>

FinishHandler(t, r) ==
  /\ task[t].pc = "exec"
  /\ task' = [task EXCEPT ![t].pc = "settle", ![t].result = r]
  /\ UNCHANGED <<row, batch, conn, pruning, faults, retries>>

(* A success whose write fails is handled as a failure of the job.            *)
MarkSucceeded(t) ==
  /\ task[t].pc = "settle" /\ task[t].result = "ok"
  /\ \/ /\ WriteRow(task[t].job, task[t].id, Unlocked(row[task[t].job], "succeeded"))
        /\ Release(t)
        /\ UNCHANGED faults
     \/ /\ Fault
        /\ task' = [task EXCEPT ![t].result = "retryable"]
        /\ UNCHANGED row
  /\ UNCHANGED <<batch, conn, pruning, retries>>

(* handleJobFailure, branch by branch, from the snapshot in the task.         *)
DeferredTotal_DelayLost(t) == task[t].deferred
DeferredTotal(t) == task[t].deferred + 1
WithinBudget(t) == DeferredTotal(t) <= DeferBudget
Exhausted_OffByOne(t) == task[t].attempts + 1 > MaxAttempts
Exhausted(t) == task[t].attempts + 1 >= MaxAttempts

RequeueRateLimited(t) ==
  /\ task[t].pc = "settle" /\ task[t].result = "rateLimit"
  /\ WriteRow(task[t].job, task[t].id,
              [Unlocked(row[task[t].job], "queued") EXCEPT !.due = FALSE])
  /\ Release(t)
  /\ UNCHANGED <<batch, conn, pruning, faults, retries>>

Defer(t) ==
  /\ task[t].pc = "settle" /\ task[t].result = "deferrable"
  /\ WithinBudget(t)
  /\ WriteRow(task[t].job, task[t].id,
              [Unlocked(row[task[t].job], "queued") EXCEPT
                 !.due = FALSE, !.deferred = DeferredTotal(t)])
  /\ Release(t)
  /\ UNCHANGED <<batch, conn, pruning, faults, retries>>

OnLadder(t) ==
  /\ task[t].pc = "settle"
  /\ \/ task[t].result = "retryable"
     \/ task[t].result = "deferrable" /\ ~WithinBudget(t)

(* A credential rejection first flags the connection: read its status, then   *)
(* write it if it was active.  Both are best effort.                          *)
ReadConnection(t) ==
  /\ task[t].pc = "settle" /\ task[t].result = "credential"
  /\ \/ /\ conn[ConnOf[task[t].job]] = "active"
        /\ task' = [task EXCEPT ![t].pc = "flag"]
        /\ UNCHANGED faults
     \/ /\ conn[ConnOf[task[t].job]] # "active"
        /\ task' = [task EXCEPT ![t].result = "nonRetryable"]
        /\ UNCHANGED faults
     \/ /\ Fault
        /\ task' = [task EXCEPT ![t].result = "nonRetryable"]
  /\ UNCHANGED <<row, batch, conn, pruning, retries>>

FlagConnection(t) ==
  /\ task[t].pc = "flag"
  /\ \/ /\ conn' = [conn EXCEPT ![ConnOf[task[t].job]] = "needs_reauth"]
        /\ UNCHANGED faults
     \/ Fault /\ UNCHANGED conn
  /\ task' = [task EXCEPT ![t].pc = "settle", ![t].result = "nonRetryable"]
  /\ UNCHANGED <<row, batch, pruning, retries>>

MarkDead(t) ==
  /\ task[t].pc = "settle"
  /\ \/ task[t].result = "nonRetryable"
     \/ OnLadder(t) /\ Exhausted(t)
  /\ WriteRow(task[t].job, task[t].id, Unlocked(row[task[t].job], "dead"))
  /\ task' = [task EXCEPT ![t].pc = "notify"]
  /\ UNCHANGED <<batch, conn, pruning, faults, retries>>

(* The handler's onDead hook; it keeps the slot until it returns.             *)
OnDead(t) ==
  /\ task[t].pc = "notify"
  /\ Release(t)
  /\ UNCHANGED <<row, batch, conn, pruning, faults, retries>>

(* markFailed reads attempts again and throws when the row is gone.           *)
ReadAttempts(t) ==
  /\ OnLadder(t)
  /\ ~Exhausted(t)
  /\ task' = [task EXCEPT ![t] =
                IF Present(task[t].job, task[t].id)
                  THEN [@ EXCEPT !.pc = "bump",
                                 !.attempts = row[task[t].job].attempts]
                  ELSE IdleTask]
  /\ UNCHANGED <<row, batch, conn, pruning, faults, retries>>

MarkFailed(t) ==
  /\ task[t].pc = "bump"
  /\ WriteRow(task[t].job, task[t].id,
              [Unlocked(row[task[t].job], "queued") EXCEPT
                 !.due = FALSE, !.attempts = task[t].attempts + 1])
  /\ Release(t)
  /\ UNCHANGED <<batch, conn, pruning, faults, retries>>

(* A write of the failure path fails: processJob rejects, the catch of        *)
(* startJob logs it and the row stays as it is.                               *)
SettleFails(t) ==
  /\ \/ task[t].pc = "settle" /\ task[t].result \notin {"ok", "credential"}
     \/ task[t].pc = "bump"
  /\ Fault
  /\ Release(t)
  /\ UNCHANGED <<row, batch, conn, pruning, retries>>

(* The process dies with its slots and its batch; a new one takes its place.  *)
Crash(w) ==
  /\ Fault
  /\ batch[w] # {} \/ \E s \in Slots : Busy(<<w, s>>)
  /\ batch' = [batch EXCEPT ![w] = {}]
  /\ task' = [t \in Tasks |-> IF WorkerOf(t) = w THEN IdleTask ELSE task[t]]
  /\ UNCHANGED <<row, conn, pruning, retries>>

-----------------------------------------------------------------------------
(* The passing of time.                                                       *)
BackoffElapses(j) ==
  /\ row[j].status = "queued" /\ ~row[j].due
  /\ row' = [row EXCEPT ![j].due = TRUE]
  /\ UNCHANGED <<batch, task, conn, pruning, faults, retries>>

(* Fifteen minutes without a heartbeat.  For a lock some live process still   *)
(* works under that is a fault: its heartbeats, or its settling write, stall. *)
LockGoesStale(j) ==
  /\ row[j].status = "running" /\ ~row[j].stale
  /\ IF Held(j) THEN ~HeartbeatsReliable /\ Fault ELSE UNCHANGED faults
  /\ row' = [row EXCEPT ![j].stale = TRUE]
  /\ UNCHANGED <<batch, task, conn, pruning, retries>>

RetentionElapses(j) ==
  /\ row[j].status \in Terminal /\ ~row[j].aged
  /\ row' = [row EXCEPT ![j].aged = TRUE]
  /\ UNCHANGED <<batch, task, conn, pruning, faults, retries>>

(* One conditional UPDATE over the whole table; attempts are left alone.      *)
Stuck_EvenIfFresh(j) == row[j].status = "running"
Stuck_WrongStatus(j) == row[j].status = "queued" /\ row[j].stale
Stuck(j) == row[j].status = "running" /\ row[j].stale

RequeueStuckJobs ==
  /\ \E j \in Jobs : Stuck(j)
  /\ row' = [j \in Jobs |->
               IF Stuck(j)
                 THEN Unlocked(row[j], "queued") ELSE row[j]]
  /\ UNCHANGED <<batch, task, conn, pruning, faults, retries>>

(* DELETE ... WHERE id IN (SELECT id ... LIMIT n).  Under READ COMMITTED the  *)
(* outer DELETE waits for a concurrent writer of a selected row and then      *)
(* deletes the new version: the status was only tested by the sub-select.     *)
SelectPrunable(st) ==
  /\ pruning = {}
  /\ pruning' = {<<j, row[j].id>> : j \in {k \in Jobs : row[k].status = st /\ row[k].aged}}
  /\ pruning' # {}
  /\ UNCHANGED <<row, batch, task, conn, faults, retries>>

PruneTerminalJobs ==
  /\ pruning # {}
  /\ row' = [j \in Jobs |->
               IF row[j].status # "absent" /\ <<j, row[j].id>> \in pruning
                 THEN [AbsentRow EXCEPT !.id = row[j].id] ELSE row[j]]
  /\ pruning' = {}
  /\ UNCHANGED <<batch, task, conn, faults, retries>>

(* The operator retries dead jobs, one by id or key or a group of them; the   *)
(* guard on status is in the UPDATE.                                          *)
Retriable_AnyTerminal(j) == row[j].status \in Terminal
Retriable(j) == row[j].status = "dead"

RequeueDeadJobs(S) ==
  /\ S # {}
  /\ \A j \in S : Retriable(j)
  /\ retries < MaxRetries
  /\ retries' = retries + 1
  /\ row' = [j \in Jobs |->
               IF j \in S
                 THEN [Unlocked(row[j], "queued") EXCEPT !.attempts = 0, !.due = TRUE]
                 ELSE row[j]]
  /\ UNCHANGED <<batch, task, conn, pruning, faults>>

(* An administrator disables a connection, or re-authenticates it.            *)
SetConnection(c, st) ==
  /\ conn[c] # st
  /\ conn' = [conn EXCEPT ![c] = st]
  /\ UNCHANGED <<row, batch, task, pruning, faults, retries>>

-----------------------------------------------------------------------------
HandleFailure(t) ==
  \/ RequeueRateLimited(t) \/ Defer(t) \/ ReadConnection(t)
  \/ FlagConnection(t) \/ MarkDead(t) \/ OnDead(t) \/ ReadAttempts(t)
  \/ MarkFailed(t)

Next ==
  \/ \E j \in Jobs : \/ CreateIfNotExists(j) \/ BackoffElapses(j)
                     \/ LockGoesStale(j) \/ RetentionElapses(j)
  \/ \E w \in Workers :
       \/ \E S \in SUBSET Jobs : ClaimDueJobs(w, S)
       \/ \E e \in batch[w] : \/ ReleaseSurplusClaim(w, e)
                              \/ \E s \in Slots : StartJob(w, e, s)
       \/ Crash(w)
  \/ \E t \in Tasks : \/ Heartbeat(t) \/ MarkSucceeded(t)
                      \/ HandleFailure(t) \/ SettleFails(t)
                      \/ \E r \in Results : FinishHandler(t, r)
  \/ \E S \in SUBSET Jobs : RequeueDeadJobs(S)
  \/ \E st \in Terminal : SelectPrunable(st)
  \/ \E c \in Conns, st \in {"active", "disabled"} : SetConnection(c, st)
  \/ RequeueStuckJobs
  \/ PruneTerminalJobs

Spec == Init /\ [][Next]_vars

(* Fairness.  A handler is taken to return (its outbound calls carry          *)
(* deadlines) and an awaited statement to complete or fail; timers elapse;    *)
(* the sweeps tick for ever; the claim orders by nextRunAt, so a job that is  *)
(* due again and again is claimed in the end.                                 *)
StartsOrReleases(w) ==
  \E e \in batch[w] : ReleaseSurplusClaim(w, e) \/ \E s \in Slots : StartJob(w, e, s)
Settles(t) ==
  MarkSucceeded(t) \/ HandleFailure(t) \/ \E r \in Results : FinishHandler(t, r)

Fairness ==
  /\ \A j \in Jobs :
       /\ WF_vars(BackoffElapses(j))
       /\ WF_vars(LockGoesStale(j) /\ ~Held(j))
       /\ SF_vars(\E w \in Workers, S \in SUBSET Jobs : j \in S /\ ClaimDueJobs(w, S))
  /\ \A w \in Workers : WF_vars(StartsOrReleases(w))
  /\ \A t \in Tasks : WF_vars(Settles(t))
  /\ WF_vars(RequeueStuckJobs)
  /\ WF_vars(PruneTerminalJobs)

FairSpec == Spec /\ Fairness

-----------------------------------------------------------------------------
Status == {"absent"} \cup Live \cup Terminal

Row ==
  [status : Status, id : Nat, attempts : Nat, deferred : Nat,
   owner : Workers \cup {NoWorker}, due : BOOLEAN, stale : BOOLEAN,
   aged : BOOLEAN]

Snapshot == [job : Jobs, id : Nat, attempts : Nat, deferred : Nat]

BusyTask ==
  [pc : {"exec", "settle", "flag", "bump", "notify"}, job : Jobs, id : Nat,
   attempts : Nat, deferred : Nat, result : ResultKinds]

(* Type invariant.                                                            *)
TypeOK ==
  /\ row \in [Jobs -> Row]
  /\ batch \in [Workers -> SUBSET Snapshot]
  /\ task \in [Tasks -> BusyTask \cup {IdleTask}]
  /\ conn \in [Conns -> {"active", "disabled", "needs_reauth"}]
  /\ pruning \subseteq (Jobs \X Nat)
  /\ faults \in Nat
  /\ retries \in Nat

(* A row is never worked on twice at a time: among all the tasks of all the   *)
(* runners at most one processes a given row, and none does while a claim of  *)
(* it waits to be started.  The code's only defence is the skip-locked claim  *)
(* together with the heartbeat that keeps recovery away from a live lock.     *)
OneRunPerRow ==
  HeartbeatsReliable =>
    \A j \in Jobs :
      /\ \A t, u \in Tasks : Holds(t, j) /\ Holds(u, j) => t = u
      /\ \A t \in Tasks, w \in Workers : ~(Holds(t, j) /\ Claimed(w, j))
      /\ \A v, w \in Workers : Claimed(v, j) /\ Claimed(w, j) => v = w

(* What a task does to the row it relies on being allowed to do: while it     *)
(* holds a row that still exists, the row is running under its worker and the *)
(* retry and deferral counters are still the ones of its snapshot, so that    *)
(* the unguarded writes of the runner overwrite nobody's work.                *)
SnapshotCurrent ==
  HeartbeatsReliable =>
    \A t \in Tasks :
      LET j == task[t].job IN
      Holding(t) /\ Present(j, task[t].id) =>
        /\ row[j].status = "running"
        /\ row[j].owner = WorkerOf(t)
        /\ row[j].attempts = task[t].attempts
        /\ row[j].deferred = task[t].deferred

(* A job that may still run has an attempt left, and the waiting it was       *)
(* granted free of charge is within the budget, over any sequence of          *)
(* failures, deferrals, recoveries and operator retries.                      *)
RetryBudget ==
  HeartbeatsReliable =>
    \A j \in Jobs : row[j].status \in Live =>
      row[j].attempts < MaxAttempts /\ row[j].deferred <= DeferBudget

(* In no runner does one scope take more slots than its cap, although a claim *)
(* may return more jobs of a scope than it has slots left.                    *)
ScopeCap ==
  \A w \in Workers, c \in Conns : ScopeLoad(w, c) <= PerScope

(* A row is locked exactly while it is running, whatever zombies write.       *)
LockPaired ==
  \A j \in Jobs : (row[j].status = "running") <=> (row[j].owner # NoWorker)

(* Each row follows the lifecycle of JobLifecycle: attempts are charged one   *)
(* at a time and below the maximum, a succeeded job stays so, and only an     *)
(* operator revives a dead one.                                               *)
Lifecycle == INSTANCE JobLifecycle WITH
  status <- [j \in Jobs |-> row[j].status],
  attempts <- [j \in Jobs |-> row[j].attempts]
ImplementsLifecycle == Lifecycle!Spec

(* A row left running by a crash, a failed settling write or a failed release *)
(* does not stay so: the recovery sweep gives it back.                        *)
Orphan(j) == row[j].status = "running" /\ ~Held(j)
OrphansRecovered == \A j \in Jobs : Orphan(j) ~> ~Orphan(j)

(* When handlers do not ask for rate-limit slots for ever, every job that is  *)
(* accepted comes to an end, even after heartbeats were missed and two        *)
(* runners worked on it: it succeeds, is declared dead or is removed.         *)
JobsSettle == \A j \in Jobs : row[j].status \in Live ~> row[j].status \notin Live

(* sync-job-retention.service.ts says queued and running rows can never be    *)
(* touched by the retention sweep.                                            *)
PruneTakesOnlyTerminal ==
  [][\A j \in Jobs : row[j].status \in Live => row'[j].status # "absent"]_vars

(* flagConnectionNeedsReauth says it never clobbers an admin-set disabled.    *)
(* The code does not keep this: README, "What the code does not keep".        *)
DisabledNotClobbered ==
  [][\A c \in Conns : conn[c] = "disabled" => conn'[c] # "needs_reauth"]_vars
=============================================================================
