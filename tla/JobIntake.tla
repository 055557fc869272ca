------------------------------ MODULE JobIntake ------------------------------
(* How a job request travels from enqueueJob to a row of sync_jobs: the       *)
(* jobdedup key and the XADD of the producers, the jobs.sync stream with its  *)
(* consumer group, and the job-intake consumers with their startup drain,     *)
(* their retry of own pending entries, their reclaim of orphaned ones, the    *)
(* poison counter and the stream_dead_letters table.                          *)
(*                                                                            *)
(* One Redis command or SQL statement is one action.  A stream entry is named *)
(* by its position; its body is what the consumers tell apart: the job type   *)
(* is known to all of them (valid) or only to the newer release (newer), the  *)
(* fields do not parse (malformed), or the insert always fails (poison).      *)
(* The clock counts weeks, the unit of the two retention periods.             *)
EXTENDS Naturals, Sequences, FiniteSets

CONSTANTS
  Keys,          \* idempotency keys
  Producers,     \* concurrent enqueueJob calls
  Consumers,     \* consumer names, one per worker
  Old,           \* consumers of the release that does not know newer types
  Kinds,         \* the bodies producers may send, a subset of BodyKinds
  Count,         \* COUNT, the entries of one page
  MaxRecovery,   \* MAX_RECOVERY_ATTEMPTS
  PagesPerTick,  \* RECOVERY_PAGES_PER_TICK
  MaxEntries,    \* bound: entries ever added
  MaxWeeks,      \* bound: the clock
  MaxFaults,     \* bound: crashes and failed commands
  MaxRetries,    \* bound: operator retries of dead jobs
  Nobody,
  NoKey

BodyKinds == {"valid", "newer", "malformed", "poison"}

ASSUME ConstantsAssumption ==
  /\ Old \subseteq Consumers
  /\ Kinds \subseteq BodyKinds
  /\ {Count, MaxRecovery, PagesPerTick, MaxEntries} \subseteq Nat \ {0}
  /\ {MaxWeeks, MaxFaults, MaxRetries} \subseteq Nat
  /\ Nobody \notin Consumers
  /\ NoKey \notin Keys

VARIABLES
  clock,
  dedup,     \* jobdedup:<key>: the week it expires and the entry it names
  entries,   \* every entry ever added, in order
  stream,    \* the positions retention has not trimmed
  group,     \* the consumer group: where it started and what it delivered last
  pel,       \* its pending entries: the owner of each position, or Nobody
  idle,      \* pending entries idle beyond RECLAIM_IDLE_MS
  failures,  \* poison:<entry> counters in Redis
  letters,   \* positions recorded in stream_dead_letters
  row,       \* sync_jobs by key
  call,      \* what each producer is about to do
  cons,      \* what each consumer is about to do
  faults,
  retries

redis == <<dedup, entries, stream, group, pel, idle, failures>>
vars == <<clock, redis, letters, row, call, cons, faults, retries>>

Ids == 1..MaxEntries
Body(i) == entries[i].kind
KeyOf(i) == entries[i].key

IdleCall == [pc |-> "idle", key |-> NoKey, kind |-> "valid", id |-> 0]
NoRow == [status |-> "absent", junk |-> FALSE]

(* A consumer that is down; the fields are what it holds in memory.           *)
Down ==
  [pc |-> "down",     \* next await; see the actions
   phase |-> "drain", \* drain, retry or reclaim while recovering, else batch
   batch |-> {},      \* entries of the last read, not yet processed
   page |-> {},       \* recovered entries not yet processed, with their bodies
   claims |-> {},     \* ids listed for XCLAIM
   cursor |-> 0, pages |-> 0,
   id |-> 0, trimmed |-> FALSE]  \* the entry at hand

LowestOf(S) == CHOOSE i \in S : \A j \in S : i <= j
FirstOf(S, n) == {i \in S : Cardinality({j \in S : j < i}) < n}

-----------------------------------------------------------------------------
Init ==
  /\ clock = 0
  /\ dedup = [k \in Keys |-> [until |-> 0, id |-> 0]]
  /\ entries = <<>>
  /\ stream = {}
  /\ group = [exists |-> FALSE, start |-> 0, last |-> 0]
  /\ pel = [i \in Ids |-> Nobody]
  /\ idle = {}
  /\ failures = [i \in Ids |-> 0]
  /\ letters = {}
  /\ row = [k \in Keys |-> NoRow]
  /\ call = [p \in Producers |-> IdleCall]
  /\ cons = [c \in Consumers |-> Down]
  /\ faults = 0
  /\ retries = 0

Fault == faults < MaxFaults /\ faults' = faults + 1
NoFault == UNCHANGED faults

-----------------------------------------------------------------------------
(* enqueueJob: SET NX, XADD, SET XX.                                          *)
DedupTTL == 1
Horizon_BelowTTL == 0
Horizon == 2
DedupLive(k) == dedup[k].until > clock
SetDedup(k, id) ==
  dedup' = [dedup EXCEPT ![k] = [until |-> clock + DedupTTL, id |-> id]]

Enqueue(p, k, kind) ==
  /\ call[p].pc = "idle"
  /\ Len(entries) < MaxEntries
  /\ call' = [call EXCEPT ![p] =
                [pc |-> IF DedupLive(k) THEN "existing" ELSE "add",
                 key |-> k, kind |-> kind, id |-> 0]]
  /\ IF DedupLive(k) THEN UNCHANGED dedup ELSE SetDedup(k, 0)
  /\ UNCHANGED <<clock, entries, stream, group, pel, idle, failures, letters,
                 row, cons, faults, retries>>

(* XADD with MINID ~: it appends and lets Redis drop a prefix of the entries  *)
(* older than the horizon.  A failed one may have been applied or not.        *)
Expired(i) == entries[i].at + Horizon <= clock
Append1(k, kind) ==
  /\ Len(entries) < MaxEntries
  /\ entries' = Append(entries, [key |-> k, kind |-> kind, at |-> clock])
  /\ \E cut \in 0..Len(entries) :
       /\ \A i \in stream : i <= cut => Expired(i)
       /\ stream' = {i \in stream : i > cut} \cup {Len(entries) + 1}

AddToStream(p) ==
  /\ call[p].pc = "add"
  /\ \/ /\ Append1(call[p].key, call[p].kind)
        /\ call' = [call EXCEPT ![p].pc = "name", ![p].id = Len(entries) + 1]
        /\ NoFault
     \/ /\ Fault
        /\ call' = [call EXCEPT ![p].pc = "undo"]
        /\ Append1(call[p].key, call[p].kind) \/ UNCHANGED <<entries, stream>>
  /\ UNCHANGED <<clock, dedup, group, pel, idle, failures, letters, row,
                 cons, retries>>

(* The DEL after a failed XADD is best effort; the call throws.               *)
UndoDedup(p) ==
  /\ call[p].pc = "undo"
  /\ \/ NoFault /\ dedup' = [dedup EXCEPT ![call[p].key] = [until |-> 0, id |-> 0]]
     \/ Fault /\ UNCHANGED dedup
  /\ call' = [call EXCEPT ![p] = IdleCall]
  /\ UNCHANGED <<clock, entries, stream, group, pel, idle, failures, letters,
                 row, cons, retries>>

(* If this SET fails the call throws although the entry is there.             *)
NameDedup(p) ==
  /\ call[p].pc = "name"
  /\ \/ /\ NoFault
        /\ IF DedupLive(call[p].key) THEN SetDedup(call[p].key, call[p].id)
                                     ELSE UNCHANGED dedup
     \/ Fault /\ UNCHANGED dedup
  /\ call' = [call EXCEPT ![p] = IdleCall]
  /\ UNCHANGED <<clock, entries, stream, group, pel, idle, failures, letters,
                 row, cons, retries>>

ReturnExisting(p) ==
  /\ call[p].pc = "existing"
  /\ call' = [call EXCEPT ![p] = IdleCall]
  /\ UNCHANGED <<clock, redis, letters, row, cons, faults, retries>>

CrashProducer(p) ==
  /\ call[p].pc # "idle"
  /\ Fault
  /\ call' = [call EXCEPT ![p] = IdleCall]
  /\ UNCHANGED <<clock, redis, letters, row, cons, retries>>

-----------------------------------------------------------------------------
(* The consumer.  Moves(c, r) is a step of its control to the record r.       *)
Moves(c, r) == cons' = [cons EXCEPT ![c] = r]
At(c, pc) == cons[c].pc = pc
Goes(c, pc) == Moves(c, [cons[c] EXCEPT !.pc = pc])
ToNext(c) == Moves(c, [cons[c] EXCEPT !.pc = "next", !.id = 0, !.trimmed = FALSE])

(* onModuleInit: the group starts at $, the end of the stream, unless it      *)
(* exists; then the drain.                                                    *)
Boot(c) ==
  /\ At(c, "down")
  /\ group' = IF group.exists THEN group
                ELSE [exists |-> TRUE, start |-> Len(entries), last |-> Len(entries)]
  /\ Moves(c, [Down EXCEPT !.pc = "page"])
  /\ UNCHANGED <<clock, dedup, entries, stream, pel, idle, failures, letters,
                 row, call, faults, retries>>

(* XREADGROUP >.  Every five minutes a recovery pass comes before the batch.  *)
Read(c, recover) ==
  /\ At(c, "loop")
  /\ LET new == FirstOf({i \in stream : i > group.last}, Count) IN
       /\ group' = IF new = {} THEN group
                     ELSE [group EXCEPT !.last = CHOOSE i \in new : \A j \in new : j <= i]
       /\ pel' = [i \in Ids |-> IF i \in new THEN c ELSE pel[i]]
       /\ Moves(c, [Down EXCEPT !.pc = IF recover THEN "page" ELSE "next",
                                !.phase = IF recover THEN "retry" ELSE "batch",
                                !.batch = new])
  /\ UNCHANGED <<clock, dedup, entries, stream, idle, failures, letters, row,
                 call, faults, retries>>

(* A recovery pass ends, when it is through or when a command of its own      *)
(* throws: after the drain comes the loop, after a tick the batch.            *)
EndPass(c) ==
  Moves(c, [Down EXCEPT !.pc = IF cons[c].phase = "drain" THEN "loop" ELSE "next",
                        !.phase = "batch", !.batch = cons[c].batch])

(* readOwnPending: a page of own pending entries beyond the cursor, each with *)
(* its body or found trimmed.                                                 *)
OwnPending(c) == {i \in Ids : pel[i] = c}
OwnPage(c) == FirstOf({i \in OwnPending(c) : i > cons[c].cursor}, Count)

PagesLeft_NoCap(c) == TRUE
PagesLeft(c) == cons[c].phase = "retry" => cons[c].pages < PagesPerTick

PageOf(c) ==
  /\ At(c, "page")
  /\ \/ /\ OwnPage(c) # {}
        /\ PagesLeft(c)
        /\ Moves(c, [cons[c] EXCEPT
                       !.pc = "next",
                       !.page = {<<i, i \notin stream>> : i \in OwnPage(c)},
                       !.cursor = CHOOSE i \in OwnPage(c) : \A j \in OwnPage(c) : j <= i,
                       !.pages = IF cons[c].phase = "retry" THEN @ + 1 ELSE @])
        /\ NoFault
     \/ /\ OwnPage(c) = {} \/ ~PagesLeft(c)
        /\ IF cons[c].phase = "retry"
             THEN Moves(c, [cons[c] EXCEPT !.pc = "list", !.phase = "reclaim",
                                           !.cursor = 0, !.pages = 0])
             ELSE EndPass(c)
        /\ NoFault
     \/ Fault /\ EndPass(c)
  /\ UNCHANGED <<clock, redis, letters, row, call, retries>>

(* reclaimOrphans: list idle entries, then claim the foreign ones one by one. *)
ListIdle(c) ==
  /\ At(c, "list")
  /\ LET listed == FirstOf({i \in Ids : pel[i] # Nobody /\ i \in idle}, Count) IN
       Moves(c, [cons[c] EXCEPT !.pc = "claim",
                                !.claims = {i \in listed : pel[i] # c}])
  /\ UNCHANGED <<clock, redis, letters, row, call, faults, retries>>

ClaimOne(c) ==
  /\ At(c, "claim")
  /\ \/ /\ cons[c].claims = {}
        /\ Moves(c, [cons[c] EXCEPT !.pc = "next"])
        /\ UNCHANGED <<pel, idle>>
     \/ /\ cons[c].claims # {}
        /\ LET i == LowestOf(cons[c].claims)
               free == pel[i] # Nobody /\ i \in idle
               gone == i \notin stream IN
             /\ pel' = IF free THEN [pel EXCEPT ![i] = IF gone THEN Nobody ELSE c] ELSE pel
             /\ idle' = IF free THEN idle \ {i} ELSE idle
             /\ Moves(c, [cons[c] EXCEPT
                            !.claims = @ \ {i},
                            !.page = IF free \/ gone THEN @ \cup {<<i, gone>>} ELSE @])
  /\ UNCHANGED <<clock, dedup, entries, stream, group, failures, letters, row,
                 call, faults, retries>>

(* The next entry of the page, or of the batch; at the end of a page the next *)
(* page, at the end of the reclaimed entries the batch, then the loop.        *)
Recovering(c) == cons[c].phase # "batch"

NextEntry(c) ==
  /\ At(c, "next")
  /\ \/ /\ Recovering(c) /\ cons[c].page # {}
        /\ LET i == LowestOf({e[1] : e \in cons[c].page})
               e == CHOOSE x \in cons[c].page : x[1] = i IN
             Moves(c, [cons[c] EXCEPT !.pc = IF e[2] THEN "ack" ELSE "persist",
                                      !.page = @ \ {e}, !.id = i, !.trimmed = e[2]])
     \/ /\ Recovering(c) /\ cons[c].page = {}
        /\ IF cons[c].phase = "reclaim" THEN EndPass(c)
             ELSE Moves(c, [cons[c] EXCEPT !.pc = "page"])
     \/ /\ ~Recovering(c) /\ cons[c].batch # {}
        /\ LET i == LowestOf(cons[c].batch) IN
             Moves(c, [cons[c] EXCEPT !.pc = "persist", !.batch = @ \ {i},
                                      !.id = i, !.trimmed = FALSE])
     \/ /\ ~Recovering(c) /\ cons[c].batch = {}
        /\ Moves(c, [Down EXCEPT !.pc = "loop"])
  /\ UNCHANGED <<clock, redis, letters, row, call, faults, retries>>

(* processMessage throws: the loop drops the rest of the batch, a recovery    *)
(* pass counts the failure and goes on.                                       *)
Throws(c) ==
  IF Recovering(c) THEN Moves(c, [cons[c] EXCEPT !.pc = "count"])
                   ELSE Moves(c, [Down EXCEPT !.pc = "loop"])


Known(c, i) == Body(i) \in {"valid", "poison"} \/ (Body(i) = "newer" /\ c \notin Old)
Insert(k, junk) ==
  row' = IF row[k] = NoRow THEN [row EXCEPT ![k] = [status |-> "queued", junk |-> junk]]
                           ELSE row

(* createIfNotExistsByIdempotencyKey, of the job or of its placeholder; the   *)
(* placeholder is marked dead next if the row it got back was queued.         *)
Persist(c) ==
  LET i == cons[c].id
      k == KeyOf(i) IN
  /\ At(c, "persist")
  /\ \/ /\ Body(i) # "poison" /\ NoFault
        /\ Insert(k, ~Known(c, i))
        /\ Goes(c, IF ~Known(c, i) /\ row'[k].status = "queued" THEN "kill" ELSE "ack")
     \/ /\ \/ Body(i) = "poison" /\ NoFault
           \/ Fault
        /\ IF Body(i) = "malformed" THEN Goes(c, "ack") ELSE Throws(c)
        /\ UNCHANGED row
  /\ UNCHANGED <<clock, redis, letters, call, retries>>

(* markDead is an UPDATE by id with no guard on the status.                   *)
Kill(c) ==
  LET i == cons[c].id IN
  /\ At(c, "kill")
  /\ \/ /\ NoFault
        /\ row' = [row EXCEPT ![KeyOf(i)].status = "dead"]
        /\ Goes(c, "ack")
     \/ /\ Fault
        /\ IF Body(i) = "malformed" THEN Goes(c, "ack") ELSE Throws(c)
        /\ UNCHANGED row
  /\ UNCHANGED <<clock, redis, letters, call, retries>>

XAck(i) == pel' = [pel EXCEPT ![i] = Nobody] /\ idle' = idle \ {i}

Ack(c) ==
  /\ At(c, "ack")
  /\ \/ /\ NoFault
        /\ XAck(cons[c].id)
        /\ IF Recovering(c) THEN Goes(c, "forget") ELSE ToNext(c)
     \/ Fault /\ Throws(c) /\ UNCHANGED <<pel, idle>>
  /\ UNCHANGED <<clock, dedup, entries, stream, group, failures, letters, row,
                 call, retries>>

(* recoveryAttempts.succeeded; if the DEL throws, the entry counts as failed. *)
Forget(c) ==
  /\ At(c, "forget")
  /\ \/ /\ NoFault
        /\ failures' = [failures EXCEPT ![cons[c].id] = 0]
        /\ ToNext(c)
     \/ Fault /\ Throws(c) /\ UNCHANGED failures
  /\ UNCHANGED <<clock, dedup, entries, stream, group, pel, idle, letters, row,
                 call, retries>>

(* recordFailure.  The counter is capped one above the threshold, the code    *)
(* only compares it with the threshold.                                       *)
HasReachedThreshold_Equal(n) == n = MaxRecovery
HasReachedThreshold(n) == n >= MaxRecovery
Bumped(n) == IF n > MaxRecovery THEN n ELSE n + 1

CountFailure(c) ==
  /\ At(c, "count")
  /\ \/ /\ NoFault
        /\ failures' = [failures EXCEPT ![cons[c].id] = Bumped(@)]
        /\ IF HasReachedThreshold(failures'[cons[c].id]) THEN Goes(c, "record") ELSE ToNext(c)
     \/ Fault /\ EndPass(c) /\ UNCHANGED failures
  /\ UNCHANGED <<clock, dedup, entries, stream, group, pel, idle, letters, row,
                 call, retries>>

(* deadLetterEntry: the row, the XACK, the counter.                           *)
Record_AckAnyway(c) ==
  /\ At(c, "record")
  /\ \/ NoFault /\ letters' = letters \cup {cons[c].id} /\ Goes(c, "bury")
     \/ Fault /\ Goes(c, "bury") /\ UNCHANGED letters
  /\ UNCHANGED <<clock, redis, row, call, retries>>
Record(c) ==
  /\ At(c, "record")
  /\ \/ NoFault /\ letters' = letters \cup {cons[c].id} /\ Goes(c, "bury")
     \/ Fault /\ ToNext(c) /\ UNCHANGED letters
  /\ UNCHANGED <<clock, redis, row, call, retries>>

Bury(c) ==
  /\ At(c, "bury")
  /\ \/ NoFault /\ XAck(cons[c].id) /\ Goes(c, "clear")
     \/ Fault /\ ToNext(c) /\ UNCHANGED <<pel, idle>>
  /\ UNCHANGED <<clock, dedup, entries, stream, group, failures, letters, row,
                 call, retries>>

Clear(c) ==
  /\ At(c, "clear")
  /\ \/ /\ NoFault
        /\ failures' = [failures EXCEPT ![cons[c].id] = 0]
        /\ ToNext(c)
     \/ Fault /\ EndPass(c) /\ UNCHANGED failures
  /\ UNCHANGED <<clock, dedup, entries, stream, group, pel, idle, letters, row,
                 call, retries>>

CrashConsumer(c) ==
  /\ ~At(c, "down")
  /\ Fault
  /\ Moves(c, Down)
  /\ UNCHANGED <<clock, redis, letters, row, call, retries>>

-----------------------------------------------------------------------------
(* Around it: five idle minutes, a week, and the queue the rows are for,      *)
(* where a runner starts a row and an operator retries a dead one.            *)
GoesIdle(i) ==
  /\ pel[i] # Nobody /\ i \notin idle
  /\ idle' = idle \cup {i}
  /\ UNCHANGED <<clock, dedup, entries, stream, group, pel, failures, letters,
                 row, call, cons, faults, retries>>

WeekPasses ==
  /\ clock < MaxWeeks
  /\ clock' = clock + 1
  /\ \A p \in Producers : call[p].pc = "idle"
  /\ \A c \in Consumers : cons[c].pc \in {"down", "loop"}
  /\ UNCHANGED <<redis, letters, row, call, cons, faults, retries>>

RunnerStarts(k) ==
  /\ row[k].status = "queued"
  /\ row' = [row EXCEPT ![k].status = "running"]
  /\ UNCHANGED <<clock, redis, letters, call, cons, faults, retries>>

Revive(k) ==
  /\ row[k].status = "dead"
  /\ retries < MaxRetries
  /\ retries' = retries + 1
  /\ row' = [row EXCEPT ![k].status = "queued"]
  /\ UNCHANGED <<clock, redis, letters, call, cons, faults>>

-----------------------------------------------------------------------------
Proceed(c) ==
  \/ PageOf(c) \/ ListIdle(c) \/ ClaimOne(c) \/ NextEntry(c) \/ Persist(c)
  \/ Kill(c) \/ Ack(c) \/ Forget(c) \/ CountFailure(c) \/ Record(c) \/ Bury(c)
  \/ Clear(c)

Next ==
  \/ \E p \in Producers :
       \/ \E k \in Keys, kind \in Kinds : Enqueue(p, k, kind)
       \/ AddToStream(p) \/ UndoDedup(p) \/ NameDedup(p)
       \/ ReturnExisting(p) \/ CrashProducer(p)
  \/ \E c \in Consumers :
       \/ Boot(c) \/ CrashConsumer(c) \/ Proceed(c)
       \/ \E recover \in BOOLEAN : Read(c, recover)
  \/ \E i \in Ids : GoesIdle(i)
  \/ \E k \in Keys : RunnerStarts(k) \/ Revive(k)
  \/ WeekPasses

Spec == Init /\ [][Next]_vars

(* Fairness: a worker is restarted, its awaits complete, its recovery pass    *)
(* comes round every five minutes, and five minutes pass.                     *)
Fairness ==
  /\ \A c \in Consumers :
       /\ WF_vars(Boot(c)) /\ WF_vars(Proceed(c))
       /\ SF_vars(Read(c, TRUE))
  /\ \A i \in Ids : WF_vars(GoesIdle(i))

FairSpec == Spec /\ Fairness

-----------------------------------------------------------------------------
Entry == [key : Keys, kind : BodyKinds, at : Nat]
Positions == 0..MaxEntries

TypeOK ==
  /\ clock \in Nat /\ faults \in Nat /\ retries \in Nat
  /\ dedup \in [Keys -> [until : Nat, id : Positions]]
  /\ entries \in Seq(Entry) /\ Len(entries) <= MaxEntries
  /\ stream \subseteq 1..Len(entries)
  /\ group \in [exists : BOOLEAN, start : Positions, last : Positions]
  /\ pel \in [Ids -> Consumers \cup {Nobody}]
  /\ idle \subseteq Ids /\ letters \subseteq Ids
  /\ failures \in [Ids -> Nat]
  /\ row \in [Keys -> [status : {"absent", "queued", "running", "dead"},
                       junk : BOOLEAN]]
  /\ call \in [Producers -> [pc : {"idle", "existing", "add", "undo", "name"},
                             key : Keys \cup {NoKey},
                             kind : BodyKinds, id : Positions]]
  /\ cons \in [Consumers ->
       [pc : {"down", "loop", "page", "list", "claim", "next", "persist", "kill",
              "ack", "forget", "count", "record", "bury", "clear"},
        phase : {"drain", "retry", "reclaim", "batch"},
        batch : SUBSET Ids, page : SUBSET (Ids \X BOOLEAN), claims : SUBSET Ids,
        cursor : Positions, pages : 0..PagesPerTick, id : Positions,
        trimmed : BOOLEAN]]

(* An entry a consumer group can deliver is never dropped on the way to the   *)
(* database: it waits in the stream, is pending, was recorded as a dead       *)
(* letter or has its row, unless retention trimmed it.  It holds through any  *)
(* crash, failed command, redelivery and reclaim, because every XACK comes    *)
(* after the write it acknowledges.                                           *)
Accounted(i) ==
  \/ i > group.last \/ pel[i] # Nobody \/ i \in letters
  \/ row[KeyOf(i)].status # "absent"
NothingLost ==
  \A i \in stream :
    group.exists /\ i > group.start /\ Body(i) # "malformed" => Accounted(i)

(* When retention takes an entry, handled or not, its dedup key has expired,  *)
(* so that the request can be made again: the two periods of enqueueJob and   *)
(* stream-retention.ts are in that order.                                     *)
TrimmedIsUnblocked ==
  \A k \in Keys :
    DedupLive(k) /\ dedup[k].id # 0 => dedup[k].id \in stream

(* Whatever happened to it, a delivered entry leaves the pending list: it is  *)
(* persisted, or after enough failures it becomes a dead letter, even when    *)
(* the process dies between the record and the XACK.                          *)
PendingResolved == \A i \in Ids : pel[i] # Nobody ~> pel[i] = Nobody

(* EnqueueJobResult.isExisting: true when the idempotency key matched an      *)
(* already-enqueued job.                                                      *)
(* The code does not keep this: README, "What the code does not keep".        *)
ExistingIsEnqueued ==
  \A p \in Producers : call[p].pc = "existing" =>
    \E i \in 1..Len(entries) : KeyOf(i) = call[p].key

(* processMessage: an unknown job type results in a dead job, so the          *)
(* placeholder row is never executed.                                         *)
(* The code does not keep this: README, "What the code does not keep".        *)
UnknownTypeNeverRuns ==
  retries = 0 => \A k \in Keys : row[k].junk => row[k].status # "running"

(* persistDeadJob marks only a freshly created row dead: the row of a job     *)
(* that was accepted under its own type is none.                              *)
(* The code does not keep this: README, "What the code does not keep".        *)
OnlyPlaceholdersMarkedDead ==
  [][\A k \in Keys : row[k] # NoRow /\ ~row[k].junk => row'[k].status # "dead"]_vars
(* A request is answered for: its entry is accounted for while it is kept, and *)
(* when it is kept no longer it can be made again.                             *)
RequestsKept == NothingLost /\ TrimmedIsUnblocked
=============================================================================
