# OpenLinker in TLA+

OpenLinker connects shops, marketplaces, carriers and fiscal systems. It is a
TypeScript monorepo: two NestJS processes (`apps/api`, `apps/worker`), a core
library of bounded contexts (`libs/core`), adapters for the external systems
(`libs/integrations`), one Postgres database and one Redis. Any number of API
and worker processes run at once. What keeps them from stepping on each other is
in the SQL statements, a few Redis keys and the order of the awaits, and that is
what this directory models: one SQL statement, Redis command or external call is
one action, and what a process keeps in memory between two awaits is state.

Fifteen protocols are modelled:

| Module | What it is about | Instance | Proofs |
|---|---|---|---|
| `SyncJobQueue` | the `sync_jobs` table and the runners that work it off; abstract view `JobLifecycle` | `MCSyncJobQueue` | `SyncJobQueueProofs` |
| `JobIntake` | how a job request becomes a row: Redis stream, consumers, dead letters | `MCJobIntake` | `JobIntakeProofs` |
| `ReservationLedger` | the stock OpenLinker holds back for orders; abstract view `StockAccount` | `MCReservationLedger` | `ReservationLedgerProofs` |
| `DocumentIssue` | one sales document per order: invoice or fiscal receipt | `MCDocumentIssue`, `MCOrderWork`, `MCLiveWork` | `OrderWorkProofs` |
| `SingletonLease` | the lease by which one worker runs the scheduler | `MCLockedWork` | `RedisLockProofs` |
| `CatalogSweep` | paging through a catalog that changes, a job per batch | `MCLockedWork` | `JobIntakeProofs` |
| `SaleDecrement` | the stock a sale takes from the product master and gives back | `MCLockedWork` | `RedisLockProofs` |
| `RoutingCommit` | one set of fulfilment works per order, from an external router | `MCLockedWork` | `ShippingProofs` |
| `OrderCreate` | one order per destination | `MCLockedWork` | `RedisLockProofs` |
| `WebhookGate` | one event, its delivery row and its jobs in one transaction | `MCLockedWork` | `JobIntakeProofs` |
| `RefundLedger` | refunds of an order: attempts, records, ceiling | `MCOrderWork` | `OrderWorkProofs` |
| `ShipmentLabel` | the parcels of an order at a carrier, each with one label | `MCOrderWork` | `ShippingProofs` |
| `WaybillRelay` | telling the marketplace the waybill, once | `MCOrderWork` | `ShippingProofs` |
| `OrderHold` | holding an order back, the badge that shows it, the dispatch it stops | `MCOrderWork`, `MCLiveWork` | `ShippingProofs` |
| `RateLimiter` | slots and pace of the calls to one partner, in Redis | `MCLockedWork` | `RateLimiterProofs` |

`tlc -workers 2 -config X.cfg MCname` runs a configuration, `tlapm NameProofs.tla`
checks the proofs of a module. `PROJECT.json` lists the runs, for
every property a mutation of the model that breaks it, the source lines each
definition stands for, and the hazards with the properties that watch them.

Paths below are relative to `src/`; `core/` is `libs/core/src/`, `worker/` is
`apps/worker/src/`, `api/` is `apps/api/src/`.

## Inventory

### The work spine

| Component | State | Operations | Talks to | Hard behaviour | What must hold |
|---|---|---|---|---|---|
| **Sync job queue and runner** (`core/sync` repository, `worker/sync/sync-job.runner.ts`, `worker/maintenance`) | `sync_jobs`; per runner the claimed batch, the slots, an entity snapshot per running job | insert by key, claim with SKIP LOCKED, heartbeat, settle six ways, stuck recovery, retention delete, operator retry | intake (rows in), handlers, connections (`needs_reauth`) | crash between claim and settle; heartbeat late; writes by id alone; caps per lane and scope | a row is worked on once at a time; budgets; every job ends; orphans come back |
| **Job enqueue and intake** (`redis-streams-job-enqueue.service.ts`, `worker/sync/job-intake.consumer.ts`, `libs/shared/src/redis`) | `jobdedup:*`, stream `jobs.sync`, its group's pending list, poison counters, `stream_dead_letters` | SET NX + XADD, read, insert row, XACK, startup drain, orphan reclaim, dead letter, trimming by age | producers everywhere; the queue | replies lost, redelivery, reclaim from a slow peer, two releases side by side | nothing accepted is dropped; nothing stays pending; a trimmed request can be made again |
| **Singleton lease and Redis lock** (`redis-sync-lock.service.ts`, `worker/roles`, `scheduler-lease.coordinator.ts`) | lock key with TTL; token and last confirmation per process | acquire, extend, release, demote, stop | scheduler | expiry against in-flight calls, stop during start | one scheduler; bounded failover; no half-started holder |
| **Scheduler** (`worker/scheduler`) | registered crons, due times | tick, enqueue | lease, enqueue | restart, overlap | nothing due is skipped for ever |
| **Bounded catalog sweeps** (`worker/sync/bounded-sweep.ts`, `master-product-sync-all.handler.ts`) | offset cursor, cycle id, sweep lock | page, enqueue children, advance | enqueue, cursors, lock | source list changes under an offset; crash before the cursor moves; overlapping runs | each product is visited once per cycle |
| **Job handlers** (`worker/sync/handlers`) | none of their own | one per job type | every context | retried from the start | idempotent |
| **Webhook gate** (`api/webhooks`, `core/webhooks`) | `webhook_deliveries`, `sync_jobs` | one transaction for both rows, conflict read, repair | queue | retention deletes the row that conflicted | no acknowledgement without a job |
| **Domain events, master deletion** (`worker/events`, `core/events`) | a second stream and group | publish, consume | sync jobs | as intake | as intake |

### Stock and orders

| Component | State | Operations | Talks to | Hard behaviour | What must hold |
|---|---|---|---|---|---|
| **Reservation ledger** (`core/inventory` reservation repository and service) | `reservations`, `inventory_items.olReservedQuantity` | reserve on every poll, narrow, release, consume | ingestion, shipping sweep, master sync | row locks of several positions, `ON CONFLICT`, stale reads before the transaction | counter = sum of holds; no oversell; no deadlock; a closed line stays closed |
| **Stock sync and shortfall** (`core/inventory`) | `inventory_items` | master write, propagation, expiry extension | adapters, ledger | out-of-order figures | the master's columns only |
| **Sale decrement and reversal** (`inventory-sale-decrement.service.ts`) | decrement rows with a claim | claim, external call, settle | master adapter | crash in between: outcome unknown | at most one decrement per sale |
| **Order ingestion** (`core/orders`) | order records, line snapshot | upsert per poll, lifecycle relay | nearly everything | repeated polls, edits between | the last poll wins, nothing fires twice |
| **Order holds** (`order-hold.service.ts`, its repositories and reconciliation) | `order_holds`, `activeHoldReason` of the order record | place, release, project, reconcile hourly | dispatch (its lock is probed) | a hold beside a dispatch; a copy written late or not at all | no label after a hold that was told nothing is in flight; the badge agrees at last |
| **Order create** (`order-sync.service.ts`) | identifier mappings, single-shot lock | check mapping, create, write mapping | destination adapter | crash after create | at most one order at a destination |
| **Refunds and returns** (`core/returns`, `order-refund.service.ts`, `api/returns`) | `return_lines.moneyState`, `order_refunds`, two locks with TTL | claim lines, execute, settle, record, observe | the source's refund API | two locks, a ceiling read before it is used, an unknown answer, money before its record | no line is paid twice; never above the order's total; money that moved is recorded |
| **Shipping** (`core/shipping`) | shipments, the order's dispatch lock, `waybillRelayedAt` and failures | dispatch, cancel, poll, webhook, notice, waybill relay | carriers, the order's participants, ledger | a purchase without an answer; a cancel without a lock; four ways to tell a waybill | one parcel on the way; a cancelled row has none; a waybill is told once |
| **Fulfilment, routing, pack bench** (`core/fulfillment`, `libs/oms`, `api/bench`) | routing intents, work items | route/commit, claim work | routers, shipping | lock lost during `route()`; a peer resumes | one route per order |

### Documents

| Component | State | Operations | Talks to | Hard behaviour | What must hold |
|---|---|---|---|---|---|
| **Invoicing** (`core/invoicing`) | `invoice_records` with a claim lease, number series | issue, correct, recover, poll clearance, resubmit | provider adapters, fiscalization guard | lock without heartbeat, call whose outcome is unknown, outcome write fails | at most one originating document per order |
| **Fiscalization** (`core/fiscalization`) | `fiscal_registration_records` | register, reconcile | provider adapters, invoicing guard | the same | the same, across kinds |
| **Sales-document routing** (`core/sales-documents`) | rules | first match | invoicing, fiscalization | – | single-valued |

### Infrastructure and the rest

| Component | Why it is hard, or not |
|---|---|
| **Redis rate limiter** (`libs/shared/src/rate-limit`) | in-flight slots and a pace key; a claim that timed out may be applied after its rollback; each process falls back to its own limiter |
| **Identifier mapping, customers, cursors** | get-or-create and upserts under unique indexes |
| **Automation** | rule evaluation with a recorder under a unique key |
| **Listings, products, content/AI, currency, analytics** | builders, upserts, read models |
| **Integrations, credentials, settings, users, mailer** | configuration |
| **Platform adapters** (`libs/integrations`) | HTTP clients and field mapping for external systems |
| **HTTP API, MCP server, web front end, PrestaShop module** | transport and user interface |

`PROJECT.json` has an entry for each of them with its files and its status.

## The modules

### SyncJobQueue

| In the module | In the code |
|---|---|
| `row[j]` | the `sync_jobs` row of an idempotency key: `status`, `attempts`, `deferredTotalMs`, `lockedBy`; `due`, `stale`, `aged` stand for the comparisons of `nextRunAt`, `lockedAt` and `updatedAt` with the clock; `id` tells a pruned row from the one inserted later |
| `batch[w]` | what `claimDueJobs` returned to a runner and `dispatch` has not started |
| `task[w, s]` | a `processJob` call: its place in the code (`pc`) and the entity snapshot it works from |
| `conn` | `connections.status` |
| `pruning` | ids the sub-select of the retention DELETE has picked |

Every statement that writes `sync_jobs` is an action (`CreateIfNotExists`,
`ClaimDueJobs`, `Heartbeat`, `MarkSucceeded`, `RequeueRateLimited`, `Defer`,
`ReadAttempts`/`MarkFailed`, `MarkDead`, `ReleaseSurplusClaim`,
`RequeueStuckJobs`, `SelectPrunable`/`PruneTerminalJobs`, `RequeueDeadJobs`),
and so is every await of `handleJobFailure`. `Crash` takes a runner's memory
away, a failing write leaves the row as it was. Backoff lengths, payloads and
job types are left out; a handler is a free choice of how it ends. One lane with
one cap per connection stands for the lanes, which share nothing but the claim.

`JobLifecycle` is what the rest of the system may rely on: which status follows
which, that attempts are charged one at a time and below the maximum, and that
only an operator revives a dead job. `ImplementsLifecycle` shows that the table
implements it with `status` and `attempts` read off the rows.

### JobIntake

| In the module | In the code |
|---|---|
| `dedup` | the `jobdedup:<key>` keys with their week of expiry |
| `entries`, `stream`, `group`, `pel`, `idle` | `jobs.sync`: all entries ever added, those not trimmed, the group's last delivered id, its pending list, the entries idle beyond `RECLAIM_IDLE_MS` |
| `failures`, `letters` | the poison counters and `stream_dead_letters` |
| `call[p]` | an `enqueueJob` call between its three commands |
| `cons[c]` | a consumer: the await it is at (`pc`), whether it drains, retries, reclaims or reads (`phase`), the pages and batches it holds |
| `row` | as much of `sync_jobs` as `persistDeadJob` looks at |

A body is what the consumers tell apart: a type all know, a type only the newer
release knows, fields that do not parse, an insert that always fails. Failing
commands may have been applied or not. The shared helpers of `libs/shared/src/redis`
are modelled in line where the consumer awaits them. A graceful shutdown is a crash.

### SingletonLease

| In the module | In the code |
|---|---|
| `lock` | the Redis key: token and remaining TTL |
| `token`, `age`, `timer`, `tick` | per process `this.token`, the time since `lastConfirmedHoldAt`, the interval timer and the tick in flight |
| `stop` | where `stop()` is: not called, awaiting its release, returned |
| `running` | the scheduler's crons are registered (`onAcquired` done, `onLost` not yet) |
| `vacant` | history: how long nobody has held the lock while somebody competes |

Time is discrete and common to Redis and the processes; a call takes up to
`Latency` units, may fail and may have been applied. `SchedulerLeaseCoordinator`'s
awaited settings read before it starts the scheduler is a step of its own.

### ReservationLedger

| In the module | In the code |
|---|---|
| `position` | `inventory_items`: `availableQuantity`, `olReservedQuantity`, `isStale` |
| `held`, `closed` | `reservations` with status `held`, and the keys of those that ended |
| `shipment` | a shipment's dispatch and its `reservationConsumedAt` marker |
| `proc[t]` | a call of the service: the transaction's statements left (`todo`), row locks (`rows`, `share`, `excl`), uncommitted writes (`wrote`, `delta`) |

`reserveForOrder` is one transaction over all its claims, the other calls use one
per row. A claim is `INSERT ... ON CONFLICT DO NOTHING` (which waits for an
uncommitted row of the same key), `SELECT ... FOR UPDATE` of the row in the way,
the position lock, the guarded UPDATE; a release flips the row, then lowers the
counter. What Postgres does for them is modelled: who waits for whom, rollback,
the victim of a deadlock, commit under READ COMMITTED. The reads the service
makes *before* the transaction (closed lines, live positions, held rows) are
taken when the call begins and used after it, as the code does.

`StockAccount` is what it all amounts to: an order's claims are booked together, out of
what a position offers (nothing when it is stale), and leave what the order holds as
visible as it was (`atpEffect` is written with the row and never again,
`reservation.repository.ts:178` and `:338`); a hold ends on its own; the counters follow.
Calls, statements, locks, deadlocks and faults are not in it. `ImplementsAccount` reads it off
the committed rows. Of `diagnostic` claims it bounds nothing, since the code's guard counts none.

### DocumentIssue

| In the module | In the code |
|---|---|
| `row[r]` | a row of `invoice_records` or `fiscal_registration_records` named by connection and idempotency key: `status` (`working` is `issuing`/`registering`), `mode` (`failureMode`), `lease` (`leaseExpiresAt` as live, expired, or expired longer than the sweep's margin), `numbered` (`documentNumber`), and `refused`, history |
| `lock` | `invoice:issue:<orderId>`, which both services take |
| `proc[t]` | an `issueInvoice` or `register` call and the await it is at |
| `sweep` | `PendingRecoveryService.recoverOne` or `reconcileInDoubt` between its read and its write |
| `docs`, `wire` | what the providers hold for a row, and requests whose caller no longer waits |

The two services differ in order: an invoice is guarded, looked up by key,
created, claimed, then given its adapter; a receipt is looked up first, guarded
only if it is new, and resolved before it is claimed. `Entry`, `WithAdapter` and
`Rivals` say so in one place and the actions are shared. A contended call reads
and answers and is no action. A never-claimed `pending` row is only called for
again by the sweep, which is `Acquire`, always possible. `updateOutcome` is a
read and a save of the changed columns; it is one action here.

The provider is the environment: it makes the document, refuses, or leaves the
caller in doubt, and a request whose caller gave up may arrive later. `Repeat`
says what it does with a row it has a document for already.

### CatalogSweep

| In the module | In the code |
|---|---|
| `catalog`, `newest` | the master's list, sorted by id, and the last id it gave out |
| `cursor` | the stored cursor of the connection: cycle id and offset |
| `sweepLock`, `sweep[s]` | the sweep lock; a run of the handler between two awaits: settings, start, page items, batches to enqueue |
| `childKeys`, `visits` | `jobdedup` keys of children; how many entries were added that cover a product |
| `present`, `settings`, `strained` | history of a cycle: its list and settings when it began, and whether something the offset cannot absorb happened in it |

The settings are read before the lock in the code; they are arbitrary per run, so
the two are one step. A cycle's random id is a name that nothing refers to any
more. `strained` collects the cycles of which nothing is promised: a product was removed,
two runs cut the list into different batches, or a key was set whose entry never
came although somebody counted on it. `CONSTRAINT Unstrained` stops following
them: the properties say nothing about a strained cycle, and `ReadCursor` of a new cycle
forgets the old one.

### SaleDecrement

| In the module | In the code |
|---|---|
| `saleRow` | `inventory_sale_decrements`: status and the quantity first inserted, per key (sale of a work, return of a work, return by an edit) |
| `saleLock`, `saleJob[p]` | the position's lock; a job or an operator's edit between two awaits |
| `saleHold` | the reservation of the line |
| `saleStock`, `saleSent` | the master's stock, and how often a key's request reached it |
| `saleMirror` | `inventory_items` as `setInventory` last wrote it |
| `saleCancelled`, `saleCut`, `saleEdits` | the order's cancellation, and what edits took from each work |
| `saleUnsure` | history: a return overlapped another, one was in doubt, or a retry asked for another quantity |

One line with one owner and one position, split over one or two works.

### RoutingCommit

| In the module | In the code |
|---|---|
| `decisions[d]` | `routing_decisions` of the order; the id is the key the router recognises a retry by |
| `routeWorks[d]`, `routeGone` | fulfilment works committed under a decision; those cancelled since |
| `routeLock`, `routeLockAge` | the order's lock and the ticks since it was taken |
| `routeJob[p]` | a `route` or `reapOne` call: the await it is at, router, decision, ticks of its call |
| `routeSlow` | history: a run took longer than `Preamble` ticks between its lock and its call |

The primary router may differ from run to run. The reaper's cutoff is left out, so
a decision of any age may be reaped, which is more than the code does.

### OrderCreate

| In the module | In the code |
|---|---|
| `createLock`, `createAge` | the single-shot lock of order and destination and its age |
| `createPc[p]`, `createWire` | a `createOrderIdempotently` call; requests the destination may still carry out, of live runs and dead ones |
| `placed`, `mapped` | orders at the destination; the identifier mapping |
| `adapterDedups` | whether the destination's adapter recovers an order it placed before (some do) |
| `createLost` | history: a run ended between placing the order and recording it |

### WebhookGate

| In the module | In the code |
|---|---|
| `gateStored`, `gateMade` | committed `sync_jobs` rows of the event's keys, and how many were ever committed |
| `delivery` | the committed `webhook_deliveries` row |
| `ingest[i]` | an ingest: the jobs it routed to, the statement it is at, its uncommitted rows |

A unique-key insert waits for an uncommitted row of the same key, as in
PostgreSQL; the SELECT after a conflict may find the row deleted by retention, and throws.

### RefundLedger

| In the module | In the code |
|---|---|
| `reported`, `money` | `return_lines`: those the source has reported, and `moneyState` of each |
| `orderLock`, `returnLock` | the refund lock of the order and that of a return, both with a TTL |
| `recordKeys`, `recorded`, `records` | `order_refunds`: idempotency keys, their sum, their number |
| `clerk[p]` | a request: `confirmRefund` with `triggerRefund` inside it, a direct `recordRefund`, or `recordRefundObservation` |
| `paid`, `stays`, `paidOut`, `direct` | history: what the source, or the operator, really paid |
| `lockLost`, `blurred`, `bounced`, `acked` | history: what the properties except |

`not_refundable` is claimed as `pending` is, and is one state with it. The executor pays, does
not, or leaves the answer open; an accepted refund may be denied later, and that comes
as an observation. Nothing in production calls `recordRefundObservation` yet and no
adapter executes refunds: the service, its states and their tests are what is modelled.

### ShipmentLabel

| In the module | In the code |
|---|---|
| `shipRow` | `shipments` of the order and connection, oldest first: status and `providerShipmentId` (`dispatched` is `generated` here) |
| `label` | what the carrier has sold, by the reference it was bought under: the row's id |
| `shipLock` | the order's dispatch lock |
| `worker[p]` | a dispatch, a cancel, or a tick of the poll, and the await it is at |
| `mishaps` | history: what may cost a second label |

A dispatch finds an active row, or one that failed without a label and is used again, or
inserts one; a row used again is first looked up at the carrier. Cancel, poll and webhook take no lock.

### WaybillRelay

| In the module | In the code |
|---|---|
| `parcel` | the row: status, whether there is a `trackingNumber`, `waybillRelayedAt`, the failures |
| `minted`, `carried` | the carrier's side: whether it has given a number, what it says of the parcel |
| `relayer[p]` | a `notifyDispatched`, a poll or webhook with what it read of the row |
| `told` | history: how often the source was told the number |
| `untrusted`, `claimLeft` | history: a telling that counted as failed or two notices at once; a process that died with the claim |

### OrderHold

| In the module | In the code |
|---|---|
| `hold`, `holds` | the open row of `order_holds` (a unique index admits one) and the number placed |
| `badge` | `activeHoldReason` of the order record |
| `dispatchLock` | the dispatch lock of the order, which `detectDispatchInFlight` tries and gives back |
| `actor[p]` | a place, a release or a dispatch between two awaits |
| `repair` | the hourly reconciliation: the divergence it read |
| `clear` | history: holds whose placing was told that no dispatch is in flight |

### RateLimiter

| In the module | In the code |
|---|---|
| `slots`, `slotAge` | the in-flight set of Redis and the age of each score |
| `paceLeft` | the pace key: ticks until it admits |
| `commands[i]` | what a process sent over its connection and Redis has not carried out |
| `caller[c]` | an `acquire`, the call that follows it, and their claim |
| `paceOk`, `ownPace` | `localPaceOkUntil`, and the pace of the process's own limiter |
| `backoff`, `backoffAge` | history: the Retry-After Redis has been told |
| `slotsLost` | history: a connection was dropped or a process died |

The three scripts are `RedisExecutes`, one command at a time. A caller that timed out
goes on while its command stays in `commands`.

## The runs

| Run | Instance | Shows |
|---|---|---|
| `queue` | two jobs of one connection, two runners, two slots, cap 1, 2 attempts, 1 deferral, 1 fault, 1 operator retry, reliable heartbeats | `OneRunPerRow`, `SnapshotCurrent`, `RetryBudget`, `ScopeCap`, and the refinement `ImplementsLifecycle` |
| `queue_zombie` | one job, two runners, **missed heartbeats**, 2 faults, the key inserted twice, fairness | `LockPaired` even when two runners settle the same row; `OrphansRecovered`; `JobsSettle` |
| `queue_prune` | one job | **violated**: retention deletes a row that is queued again |
| `intake` | one consumer of the old release, every kind of body, two keys, three weeks, a fault | `RequestsKept` |
| `intake_pair` | two consumers reclaiming from each other, poison entries, two faults, fairness | `NothingLost` and `PendingResolved` |
| `locked_work` | two processes in each of seven modules, chosen by `focus` since they share no state. Lease: TTL 6, latency 1, three faults | `LeaderLeads`, `LeaseIsTimely` |
| | sweep: three products of which one is new, pages of one, budget 2, batches of 1 or 2, a fault | `SweepCoversOnce` |
| | sale: a line with one work and an edit, or with two works; cancellation, one fault or lost lock | `SaleSentOnce`, `SaleBooksAgree` |
| | route: two routers, two decisions, TTL 4, call budget 2, one fault; reaper, cancellation | `RoutedOnce` |
| | create: TTL 3, three faults, adapter with and without duplicate recovery | `PlacedOnce` |
| | gate: an event of two jobs, routed or not at first, three faults or deletions | `DeliveryTellsTruth` |
| | limit: two processes with a caller each; slots, neither, slots and a pace; lifetime 4, a timeout, dropped connection or crash, Retry-Afters of 1 and 4 | `SlotsBalance`, `BackoffIsKept` |
| `ledger` | two calls at a time on two orders that want the same position, quantities 1–2, both stamps, master syncs, a dispatch, a fault | `CounterMatchesLedger`, `AdmitsWithinStock`, `AloneMarksClosed`, and the refinement `ImplementsAccount` |
| `ledger_orders` | two orders with two lines at crossed positions, where both lines of one may move to a third | `OrdersNeverDeadlock`, `AloneNeverReholds` |
| `ledger_reheld` | two calls on one order | **violated**: a closed line is held again |
| `order_work` | two requests or jobs in each of five modules, chosen by `focus`. Documents: invoices on two connections and a receipt, two faults, the sweep | `RefusalFreesOrder`, `IntentsAreAlone` |
| | refund: a return of two lines, one of them reported late, and one of one line; a total of one refund; direct refunds; a fault | `LinePaidOnce`, `MoneyMatchesRecords` |
| | label: two rows, two labels, a fault, and one row with two | `ParcelsMatchRows` |
| | waybill: minted before or after, giving up after two failures, two faults | `WaybillToldOnce` |
| | hold: two holds, two faults | `ClearHoldShipsNothing` |
| `live_work` | documents: one invoice, one receipt, one fault, fairness | `CrashedIsSettled` |
| | hold: two requests, two holds, one fault, fairness | `BadgeConverges` |
| `documents_kinds` | one invoice, one receipt, no fault | **violated**: an order gets both |

Some of these are conjunctions of named parts, each with a comment and a mutation of its own:

| Property | Parts |
|---|---|
| `RequestsKept` | `NothingLost`, `TrimmedIsUnblocked` |
| `LeaderLeads`, `LeaseIsTimely` | `ConfirmedHolds`, `HolderRuns`; `Overstay`, `FailoverBound` |
| `SweepCoversOnce` | `SweepSkipsNothing`, `SweepVisitsOnce` |
| `SaleBooksAgree` | `SaleReturnsCovered`, `SaleHoldMatches`, `SaleMirrorOrdered` |
| `RoutedOnce` | `RouteShipsOnce`, `RouteKeysApart` |
| `RefusalFreesOrder` | `SecondOnlyAfterRefusal`, `RejectedMeansNothing` |
| `MoneyMatchesRecords` | `CeilingHolds`, `MoneyIsRecorded` |
| `ParcelsMatchRows` | `OneLiveLabel`, `CancelledIsVoid` |
| `SlotsBalance` | `LoadBounded`, `SlotsReturn` |

Every module's type invariant is checked by one run; those of
`locked_work` and `order_work` (`LockedTypeOK`, `OrderWorkTypeOK`) are the
invariant of the module in focus.

### Bounds, and why they are enough

* Two of everything that competes (runners, consumers, processes, calls): the
  protocols are pairwise, a holder and the one that takes over; the third competitor
  is the taker-over once more, and what is proved is proved for any number.
* Two jobs and a scope cap of one: the smallest instance in which a claim may
  return more jobs of a scope than it has slots.
* `MaxAttempts = 2`, `DeferBudget = 1`: below and at the limit both occur.
* `MaxFaults` bounds crashes and failing statements. One fault meets every
  await; two let a fault hit the recovery from another; three failing extends in a
  row span the lease's TTL.
* `MaxRows = 2` in `queue_zombie`: a key pruned and inserted again while a
  zombie still holds the old id.
* Weeks 0–3 cross both retention periods (dedup one week, stream two).
* `TTL = 6` gives a tick of 2 and a latency of 1: the tick, the latency and the
  TTL are all different, and calls may straddle ticks and expiry.
* `MaxQty = 2` and stock levels 1 and 2: partial narrowing, and the last unit.
* Symmetry is used for interchangeable processes in runs without liveness only.
* `MaxProducts = 3`, `FirstCount = 2`, `PageSize = 1`, budget 2: a cycle takes one
  run or two, ends on a short page or just before one, and grows while it is
  paged. Batches of 1 and 2 make both equal and unequal cuts.
* `MasterStock = 3` against sales of two units: an over-return shows.
* `MaxDecisions = 2`: an abandoned decision and its successor. `RouteTTL = 4`,
  budget 2, `Preamble = 1`: a call may end before, at and after the lock's expiry.
* `CreateTTL = 3`, `CreateMax = 2`; `GateJobs = 2`: a transaction may meet another
  between its two inserts.
* `Keyless = {}` in the runs of `DocumentIssue`: a call without a key never
  meets its own row again, so it adds nothing but the divergence named below.
* `Total = 1`, `Amounts = {1}`: a second refund is above the ceiling. Three lines
  of two returns, one reported late, let an attempt begin beside one in doubt.
* `MaxShipments = 2`, `MaxLabels = 2`: a second row and a second label are the ones
  that must not be. `MaxHolds = 2`: a write about one hold meets the next.
* `Lifetime = 4` against a timeout, a call and a grace of 1: a slot is evicted while
  its owner is long gone, never before it could have ended.
* Constraints name the states that are not followed further: `Unblurred`
  (see `RefundLedger`), `MovesInOrder` and `FewEnded` (in `ledger_orders`, the
  order in which positions go stale, and at most one hold that ended; `ledger` has no
  such bound), `FailuresCounted` (failures of a relay beyond those that make it
  give up), `FaultsOnOneRow` (a second row of an order after two faults), `FewEvents` (where the limiter has slots, one Retry-After or one fault; without
  slots two Retry-Afters and a fault).
* Larger instances, checked beside the runs without a violation: `RefundLedger` with three requests and
  four faults on one line; `OrderHold` with three requests, holds and faults;
  `WaybillRelay` with three requests and faults; `ShipmentLabel` with two faults on two rows; `CatalogSweep` with two faults; `RateLimiter` with two callers in
  one process and two faults, or with a Retry-After and a fault where there are slots.

### Fairness

* `SyncJobQueue`: handlers return (their outbound calls carry deadlines), an
  awaited statement completes or fails, timers elapse, the sweeps are cron jobs.
  A claim orders by `nextRunAt`, so a job that is due again and again is claimed
  in the end (strong fairness); rate-limit requeues are left out of the liveness
  run since a handler that is always over the limit is requeued for ever.
* `JobIntake`: a worker is restarted, its awaits complete, every consumer comes
  round to a recovery pass (the loop's five-minute timer; strong fairness since
  a crash may preempt it), idle time passes.
* `DocumentIssue`: calls end, time passes, the recovery job is scheduled again
  and again, and a provider that is asked again and again answers at last
  (strong fairness of an answered `Locate`). Nobody is taken to call again.
* `OrderHold`: a request that began goes on (or its process dies), and the hourly
  reconciliation is scheduled again and again (weak fairness of its read and its
  write). Nobody is taken to place or release a hold.
* The others have safety and bounded-time properties only; the failover bound
  is a safety property of the `vacant` clock.

### What is assumed

* `OneRunPerRow`, `SnapshotCurrent` and `RetryBudget` need `HeartbeatsReliable`:
  a live task's heartbeat (every 3 minutes) arrives before its lock is 15 minutes
  old. `queue_zombie` shows what remains without it.
* `DocumentIssue` lets the issue lock expire only once its holder has claimed or
  died. The comment in `invoice-issue-lock.ts:33-41` claims less is needed
  (guard read to insert); 120 s for a handful of statements is what makes it so,
  nothing in the code enforces it. The claim lease outlives the provider call it covers: five
  minutes against 120 s, asserted at module load (`invoice.service.ts:150-158`).
* `Repeat = {"same"}`: a provider asked twice under one idempotency key answers
  with the document it has. What happens otherwise is listed below.
* `OrderCreate`: a run has read, created and recorded within `CreateMax`, less than
  the lock's TTL, and a request of a dead run is carried out or dropped by then
  too. The TTL is chosen that way (`order-sync.service.ts:633`); nothing enforces it.
* `RoutingCommit`: the call is held to half the TTL by the code; the queries before it are
  not held to anything. `RouteShipsOnce` and `RouteKeysApart` except runs that were
  slow there (`routeSlow`).
* `SaleDecrement`: the master applies a request at most once; a request of a dead
  process lands at its death or never.
* `ShipmentLabel`: a purchase whose caller died is carried out at its death or never;
  the carrier finds a label it has sold by its reference.
* `RefundLedger`: the source answers about an attempt what became of its money, and
  an order's refund lock may run out under a slow request (a fault).
* `RateLimiter`: a call ends within `MaxCall`, and with two timeouts stays within the
  lifetime of its slot (`LimiterAssumption`; `MAX_CALL_LIFETIME_MS` is chosen that way);
  Redis carries out the commands of a connection in their order.
* Postgres isolates statements as READ COMMITTED does; Redis scripts are atomic.

## Proofs

Seven modules hold the theorems below; an eighth, `SetSums`, has lemmas on sums over
finite sets. Each theorem is about every value of the constants that satisfies the named
assumption of its module, so about any number of jobs, processes, rows, orders and
faults; what a line adds to that is in its last column.

| Theorem | Says | Needs besides |
|---|---|---|
| **`SyncJobQueueProofs`** `TypeCorrect` | `[]TypeOK` | |
| `OneRun`, `Current`, `Budgeted` | `[]OneRunPerRow`, `[]SnapshotCurrent`, `[]RetryBudget` | (the properties name `HeartbeatsReliable`) |
| `LockWithRun` | `[]LockPaired` | |
| `ScopesCapped` | `[]ScopeCap` | |
| `LifecycleKept` | `ImplementsLifecycle`: the queue implements `JobLifecycle` | `HeartbeatsReliable` |
| **`JobIntakeProofs`** `IntakeTypeCorrect` | `[]TypeOK` | |
| `NothingIsLost`, `RequestsAreKept` | `[]NothingLost`, `[]RequestsKept` | |
| `GateTypeCorrect`, `DeliveryIsTrue` | `[]GateTypeOK`, `[]DeliveryTellsTruth` of `WebhookGate` | |
| `SweepTypeCorrect`, `SweepCovered` | `[]SweepTypeOK`, `[]SweepCoversOnce` of `CatalogSweep` | finitely many runs at a time; a cycle name for each |
| **`ReservationLedgerProofs`** `LedgerTypeCorrect` | `[]TypeOK` | finitely many orders, lines, positions |
| `CounterIsLedger`, `StockIsNotOverbooked` | `[]CounterMatchesLedger`, `AdmitsWithinStock` | the same |
| `AloneCallsRespectEnds`, `MarkedOrdersAreClosed` | `AloneNeverReholds`, `AloneMarksClosed` | the same |
| `ClaimsOfOrdersNeverDeadlock` | `[]OrdersNeverDeadlock` | the same |
| `LedgerIsAccount` | `ImplementsAccount`: the ledger implements `StockAccount` | the same |
| **`OrderWorkProofs`** `RefusalFrees`, `IntentsAlone` | `[]RefusalFreesOrder`, `IntentsAreAlone` | `"refused" \notin Repeat` |
| `NoLinePaidTwice`, `SettledRefundIsFinal` | `[]LinePaidOnce`, `RefundedIsFinal` | |
| `RefundsAreRecorded` | `[]MoneyMatchesRecords` | `KeysApart` |
| **`RedisLockProofs`** `CreateTypeCorrect`, `OneOrderPlaced` | `[]CreateTypeOK`, `[]PlacedOnce` of `OrderCreate` | `CreateMax < CreateTTL` |
| `LeaseTypeCorrect`, `LeaderIsLeader`, `NoOverstay` | `[]TypeOK`, `[]LeaderLeads`, `[]Overstay` of `SingletonLease` | |
| `LeaseChangesHands` | `[]LeaseIsTimely` | `Interval + 2 * Latency <= TTL` |
| `SalesAreSentOnce` | `[]SaleSentOnce` of `SaleDecrement` | |
| `SaleBooksKept` | `[]SaleBooksAgree` | `EnoughStock`; finitely many works and edits |
| **`RateLimiterProofs`** `SlotsAreBalanced`, `BackoffsAreKept` | `[]SlotsBalance`, `BackoffIsKept` | finitely many callers; a call ends before its slot |
| **`ShippingProofs`** `HoldTypeCorrect`, `HeldOrderShipsNothing` | `[]HoldTypeOK`, `[]ClearHoldShipsNothing` | |
| `RelayTypeCorrect`, `WaybillOnce` | `[]RelayTypeOK`, `[]WaybillToldOnce` | |
| `LabelTypeCorrect`, `OneParcel` | `[]ShipTypeOK`, `[]ParcelsMatchRows` | |
| `RouteTypeCorrect`; `ShipsOnce`, `KeysApart`, `OneRouting` | `[]RouteTypeOK`; the halves of `RoutedOnce` of `RoutingCommit`, and `[]RoutedOnce` | `Preamble + RouteBudget < RouteTTL` |

Four assumptions are not of the model's making. `"refused" \notin Repeat`: a provider
asked again under one key does not refuse what it has issued (see "What the code does not keep").
`KeysApart`: no client's `Idempotency-Key` is one that the controller makes for a return
(`api/returns/http/return-writes.controller.ts:558`). `Interval + 2 * Latency <= TTL`: a third
of the TTL and two calls fit in the TTL. The coordinator clamps the TTL to 15 to 600 seconds, so
it is about calls of up to five; with slower ones a lock left behind by an acquire that a stop
overtook is kept longer. `EnoughStock`: the master has the units of every work of the
order; one that clamps at zero takes less than the row says (item 17 below). That there are
as many cycle names as runs stands for `randomUUID()`: a new cycle's name is nobody else's.
None of the properties is inductive alone; what makes each so is the following.

**Queue** (`IInv`). That a task holds its row alone depends on what recovery may
requeue, so the lock of a held row must be fresh (`FreshWhileHeld`); a claim that
has not been started can become a task, so it must be as current as one
(`ClaimCurrent`, `BatchDistinct`); a row pruned and inserted again must not be
mistaken for the old one (`IdsIssued`); and the counters stay within budget because
a task about to charge an attempt has compared the very value it is going to write
(`BumpAffordable`, with `TaskCurrent`). `SettleWrite` is the lemma the six settling
statements share. `LockPaired` and `ScopeCap` need none of it: they hold though two
runners settle one row, since every statement writes lock and status together and a
slot is taken only where the scope has one left. For the refinement `RowMoves` lists
what a statement may do to one row, action by action, and `RowMovesMap` maps it to
`JobLifecycle`; without `HeartbeatsReliable` a zombie's write is no step of the lifecycle.

**Intake** (`IntakeInv`). The proof follows one entry: the group passes none without
making it pending, an `XACK` takes only what is written or has nothing to write
(`AcksFollowWrites`), and what was trimmed is in no page as if it were there
(`PositionsAreReal`). Retention takes only what no live key names: `XADD`'s answer is
used in the week it came (`NamesAreFresh`) and a key outlives its entry's date by no
more than its own period (`KeysNameEntries`), one week against retention's two.

**Webhook gate** (`GInv`). No two transactions have written the same key or both the
delivery row (`WritesApart`, `RowsApart`); a transaction has every job behind it
written, by itself or before, and its row is the one they call for (`TxOK`).

**Ledger** (`LedgerInv`, `CallsInv`, `WritesInv`). Row locks keep transactions apart (`LocksApart`);
what a transaction has promised a position so far (`delta`) is the sum of what it wrote
there (`AccountKept`); so its commit leaves counter and rows in step (`CountersKept`).
From it follows `CounterCovers`: a release never lowers the counter by more than it holds,
and the floor at zero in the release's `UPDATE` never bites. What a claim saw of the
stock while it locked the position is there still at the commit, since a master sync
waits for that lock too (`StockKept`). `CallsInv` adds that a call keeps to its order,
takes the positions in their sequence (`Sorted`), claims only what is open and, when it
consumes, covers every held row (`AloneFits`), the last two as long as it has the order to
itself. Of a deadlock between orders it remains that each waits for a position greater than
the one it has, which a finite set of them cannot. Sums over the holds of a position and the
sorting of a call's work are proved about by induction over sets (`LeastNumber` and
`EverySubset` of `SetSums`): the library's induction theorems, which take an operator, are not needed.
For the refinement `WritesInv` adds what an uncommitted row may be written from: a reserve
ends no row, any other transaction writes the one of its item; a row that is ended was held,
one written again keeps its stamp, and none is raised at a position that went stale. Then
`CommitIsAtOnce` reads a commit as `Claim` or `End`, and every other statement stutters.

**Documents** (`DocInv`). The lock carries the proof up to the claim (`LooksLocked`), the
lease of the claim from there: a row without a document has at most one call under way,
and nobody asks while a request is on its way (`FirstCallAlone`); an unclaimed or refused
row has nothing and awaits nothing (`UnclaimedIsStill`); a call past the guard has no
rival but refused ones (`RivalsYield`), so of two rivals one was refused (`OneWasRefused`).

**Refunds** (`RefundInv`, `MoneyInv`). `RefundInv` says nothing of the locks: it holds
though either may run out. A line is paid for at most once, and one that was is not open to another
attempt (`PaidStays`). An executor that answers late pays for lines whose state it no
longer knows, so the lines of an attempt stay in doubt until it has settled them
(`AttemptsInDoubt`), and no two attempts share one (`AttemptsApart`), since the claim is
one `UPDATE` of lines not in doubt. All three are given up once an observation has met an
attempt it did not belong to (`blurred`). `MoneyInv` adds the order's lock: while it
lasts, the sum a request has read is still the sum (`CeilingInv`), and one request at a time owes
a record for money that moved (`BalanceInv`).

**Create, lease and sale** (`CInv`, `LeaseInv`, `SaleInv`). Whoever works on the order
holds the lock (`Exclusive`), requests on the wire belong to runs that called and are
young enough (`WireMatches`), and a placed order is mapped, about to be, or lost
(`Accounted`). A lease confirmed some time ago, less a call, is still in Redis with the time
that leaves it (`Promised`); tokens are nobody else's (`OwnTokens`); how long a holder acted
unconfirmed is bounded by what its tick awaits (`Unanswered`). A sale's key has one claimant, which knows
whether its request was sent (`ClaimsHeld`, `ClaimsApart`): the compare-and-set of the row
is enough, and the position's lock, which may run out meanwhile, is not needed for it.

**The lease in time** (`VacancyInv`). How long the lease has been vacant is bounded by what each
process awaits: a holder that lost it learns so at its next tick, a winner's
reply is underway no longer than a call (`AllVacated`). A lock that is nobody's
runs out within a TTL and a call (`LeftBehind`), and once it is free some competitor is about to
ask for it (`LeftFree`).

**The books of a sale** (`BooksInv`). While nothing fails, a sale works under the position's lock
(`LockInv`), so whoever learns a figure still has the mirror before it (`MirrorInv`) and whoever
settles a row still has the hold before it (`HoldInv`). For returns, `Cover` says of a line with one
work, until something is in doubt: what the master has is what it had, less the sale, plus what
returns gave (`StockAgrees`); the returns under way are of one kind, the cancellation or one edit
(`OneFamily`), every other return is settled (`FamilySure`), and each task still to be sent fits in what is left of the sale
(`TasksCovered`). That uses what a run computed from the rows it read some awaits ago: no
row it counted has changed since, because the rows of its own kind are the only ones that may.

**Sweep** (`SweepInv`). A batch has the key of its first product, and a product's batch follows
from its rank in the list. Appended products have greater ids, so nothing but a
removal shifts a rank (`Grown`), and runs of a cycle that cut alike agree on batches and on
keys (`BatchesCut`, `KeysClaimed`), wherever each started, since a window that is read in full, and
so the cursor, ends where a batch does (`CursorAligned`, with the lemmas on ranks, divisions and products). What is visited has its key
(`VisitsKeyed`), which is why nothing is visited twice; a key that a run found set stands for every product of
its batch (`KeysStand`), each of them visited or in a batch of a run that somebody counts on and
that is still there. So all that is behind the cursor, or behind a run, is visited or
about to be (`CursorBehind`, `RunsBehind`). Only cycles that somebody is in and that nothing strained are
spoken of; the name of any other may be used again.

**Limiter** (`LimiterInv`, `PaceHeld`). Redis carries out a connection's commands in their
order, so the removal of a claim is behind the claim in the same queue (`CommandsOrdered`);
a slot in use is younger than its lifetime because its owner's waits and call are
(`SlotsHeld`), so eviction takes none of those; and what is in the set, or will be, is had by
a caller or about to be removed (`NoSlotLeaks`). A Retry-After is over before the pace key lets
anybody pass, and a yes, or the grace window it opens, is older than the Retry-After by no
more than the property allows (`PaceHeld`).

**Shipping** (`HoldInv`, `RelayInv`, `LabelInv`, `RInv`). A dispatch has the lock unless one was
slow (`DispatchLocked`), and while one is about to buy, an open hold placed since it
looked has neither been told that nothing is in flight nor is about to be
(`BuysUnprobed`). A waybill is claimed by one relay until it is told or released
(`ClaimIsOnes`), and a notice that told it left it on the row (`ToldByNotice`). Under the
lock one dispatch works on the last row, which has no label yet, while every other row
has ended (`DispatchOK`, `OthersEnded`); the parts of `LabelInv` are given up mishap by mishap
(`Uncrossed`, `Asked`, `Answered`). A routing run before its call holds the lock unless it
was slow (`Guarded`), the call is within its budget (`InBudget`), committed decisions are
those with works (`WorksMatch`), and works stand for one decision (`OneStanding`).

Only model-checked:

* all liveness (`OrphansRecovered`, `JobsSettle`, `PendingResolved`, `CrashedIsSettled`,
  `BadgeConverges`): fairness and `ENABLED` are outside what TLAPS does;
* `LockedTypeOK`, `OrderWorkTypeOK`: they choose the type invariant of the module in focus.
  Those of `SingletonLease`, `CatalogSweep`, `RoutingCommit`, `OrderCreate`, `WebhookGate`, `ShipmentLabel`,
  `WaybillRelay` and `OrderHold` are proved one by one; that of `DocumentIssue` is the first part of `DocInv`, and most of those of
  `SaleDecrement`, `RateLimiter` and `RefundLedger` is in `SaleFits`, `LimiterFits` and `RefundTypes`.

## What the code does not keep

The first three are runs. Where another names a property, it is stated in the
module and is violated in a configuration like the one given; the rest can be read
off the actions named there.

1. **Retention can delete a queued job.** `queue_prune`. The DELETE of
   `sync-job.repository.ts:394` tests the status only in its sub-select; a dead row an
   operator requeues after the snapshot is deleted. `sync-job-retention.service.ts:13-17`
   says queued and running rows can never be touched.
2. **A closed line can be held again.** `ledger_reheld`. `reservation.service.ts:141`
   uses the list of closed lines read at line 89; a release in between is not seen
   by the INSERT, which conflicts with held rows only. The header says a closed
   line is never re-held. A call that has its order to itself keeps the rule
   (`AloneNeverReholds`).
3. **An order can get an invoice and a receipt.** `documents_kinds`.
   `registerLocked` resumes a same-key row before it looks for other documents
   (`fiscal-registration.service.ts:396`). Receipt refused; invoice issued, since a
   refusal does not block it; the registration is delivered again (its worker died
   before the job was settled, or it is asked for anew), and the receipt is
   registered too. `invoice.service.ts:428-429` and ADR-041 §3a exclude both. The
   invoice side guards first and does not do this.
4. **`isExisting` may name nothing.** `ExistingIsEnqueued` of `JobIntake`.
   `redis-streams-job-enqueue.service.ts:41` sets the dedup key before the XADD: a
   producer that dies in between leaves a key without an entry, and for seven days
   every request is answered `isExisting`. `sync-job.types.ts:523` says the key matched
   an already-enqueued job. Instance: 1 key, 1 producer, 1 consumer, `Kinds =
   {"valid"}`, `Old = {}`, `MaxEntries = 1`, `MaxWeeks = 0`, `MaxFaults = 1`.
5. **`stop()` may leave the scheduler running.** `StopIsFinal` of `SingletonLease`.
   A `stop()` during the settings read of `onAcquired`
   (`scheduler-lease.coordinator.ts:62`) finds nothing to stop; then the scheduler
   starts. `singleton-role-lease.ts:29-30` says a racing stop leaves no started
   responsibility behind. Instance: the lease constants of
   `locked_work` with `MaxFaults = 0`.
6. **Two holders for a moment.** `AtMostOneRuns` of `SingletonLease`. A holder cut
   off from Redis counts the TTL from the last reply and demotes at the next
   failing tick, Redis counts from the command. `Overstay` bounds the overlap.
   Instance: the lease constants of `locked_work`.
7. **A placeholder may run.** `UnknownTypeNeverRuns` of `JobIntake`: a job of unknown
   type is inserted queued and marked dead in a second statement
   (`job-intake.consumer.ts:741`); a runner may claim it in between. Instance: that
   of `intake`.
8. **A good row may be marked dead.** `OnlyPlaceholdersMarkedDead` of `JobIntake`: with
   workers of two releases, the old one takes the row the new one just inserted for
   its own placeholder (line 757). Instance: that of `intake_pair` with `Old = {c1}`,
   `Kinds = {"newer"}`.
9. **A disabled connection may become `needs_reauth`.** `DisabledNotClobbered` of
   `SyncJobQueue`: `flagConnectionNeedsReauth` reads the status, awaits, writes
   (`sync-job.runner.ts:829`). Instance: that of `queue_prune`.
10. **What was issued may be reported in doubt.** `IssuedStaysIssued` of
    `DocumentIssue`: the sweep picks a stuck row, awaits the lookup, and writes by
    id (`pending-recovery.service.ts:275-285`); a retry that took the row over and
    succeeded meanwhile is overwritten. The comment at lines 80-90 says a retry
    cannot be swept mid-flight. Instance: the documents constants of `order_work`.
11. **Rows of one invoicing connection do not guard each other.** The guard skips
    the requested connection, so an automatic call with a key and a manual one
    without make two documents there; the code documents this as R1
    (`invoice.service.ts`, keyless calls are never deduplicated).
    `SecondOnlyAfterRefusal` excepts it in its last disjunct and fails without it.
    Instance: `Invoices = {a1, a2}`, `Receipts = {}`, `Keyless = {a2}`.
12. **Retries rely on the provider.** With `Repeat = {"another"}`,
    `RetriesMakeOneDocument` of `DocumentIssue` fails: a claim that expired is
    taken over and the provider asked again; `invoice-record.entity.ts:242-244`
    says a re-claim does not double-issue. With `Repeat = {"same", "refused"}`,
    `RejectedMeansNothing` fails: a refusal of the repeated call (a revoked key,
    an adapter that maps every client error to `rejected`) frees the order while
    the first document exists.
13. **A document found refused stays `issuing`.** `buildRecoveredPatch` clears the
    lease and leaves the status, and `findStuckPending` skips rows without a lease:
    only another call for the row takes it up. `CrashedIsSettled` therefore asks for
    a status *or* a lease that is gone.
14. **Crashed receipts have no sweep.** A receipt left `registering` waits for the
    next call; an in-doubt one waits for an operator.
15. **A line may be held at two positions**, when its live position changes between
    two polls (`reservation.service.ts:116`): the key contains the position.
16. **A reserve beside the dispatch sweep** may leave a live hold on a shipment that is
    marked consumed (`shipment-reservation-consume.service.ts:92`), and a release may
    deadlock with a claim of the same order (rows and positions in opposite order);
    Postgres ends one of them. `AloneMarksClosed` and `OrdersNeverDeadlock` state
    what remains.
17. **More may be returned than was taken.** `SaleNeverOverReturns` of `SaleDecrement`.
    An edit takes its units from the works in their order, whatever earlier edits took
    there; the cancellation subtracts edits work by work. Works of one and two units,
    two edits of one unit each: both are booked on the first work, and the cancellation
    then returns all of the second, four units of three. No concurrency, no failure. The
    comment at `inventory-sale-reversal.service.ts:185` says "Never give back more than was
    taken". Instance: one process, no faults, `SaleCases = {[qty |-> (1 :> 1 @@ 2 :> 2), edits |->
    (e1 :> 1 @@ e2 :> 1)]}`. Overlapping returns of a single-work line do it too, and one whose
    first attempt was in doubt but landed; `SaleReturnsCovered` excepts these by `saleUnsure`. So does a
    master that had less: it clamps at zero (`prestashop-inventory-master.adapter.ts:942`), the row keeps the
    quantity asked for, and the reversal does not look at `clamped`. Instance: one work of two
    units, `MasterStock = 1`.
18. **A sale cancelled before its decrement ran** returns nothing and is then
    decremented: the reversal lists applied rows only, the decrement does not look at
    the order again (`inventory-sale-decrement.service.ts`, `reverseForOrder`).
19. **A retried claim keeps the first quantity.** The upsert of
    `inventory-sale-decrement.repository.ts:42-54` updates the status of a retryable row but not its
    quantity; a work narrowed in between is decremented by the new quantity and returned by the old.
20. **A line's whole hold is consumed with its first work** (`ConsumeHold`): the
    hold is per order line, the decrement per work. `SaleHoldMatches` is about lines with one work.
21. **Sweep children may be dropped across runs.** `master-product-sync-all.handler.ts:231-234`
    says the same offset yields the same batch boundaries; if the batch size, or a
    budget that batches do not divide, changes between two runs of a cycle, a new batch may
    have the key of an old one and is dropped as existing. A product deleted
    while the cycle is paged makes the sweep skip the next one, which sorting
    (`prestashop-product-master.adapter.ts:822-829`) does not prevent. `strained` names both.
22. **A slow run may commit a second set of works.** `RouteShipsOnce` without its
    exception for `routeSlow`: a run that loses its lock between the query for works
    and `claimIntent` does not look for works again. Likewise the reaper's comment that no call is
    running once it holds the lock (`routing-decision-reaper.service.ts`) is false for a
    call whose run lost its lock.
23. **Works may stand for a cancelled order**: cancelled after `isCancelled` was read
    (`routing-commit.service.ts:142`) and before the commit. A crash between the
    commit and the enqueue of the dispatch job leaves works that no retry dispatches: it is answered
    already-routed.
24. **An order may be placed twice** when a run ends between create and mapping and
    the adapter does not recover duplicates; `PlacedOnce` says that nothing else does it.
25. **A process may not keep its own Retry-After.** `OwnBackoffIsImmediate` of
    `RateLimiter`. The cache that lets a caller skip Redis where no pace is configured is
    cleared by `noteRetryAfter`, but an answer of the pace script that is on its way sets it
    again; `redis-rate-limiter.adapter.ts:103-106` says backoff in the same process is
    never delayed by the grace window. Instance: the limiter constants of `locked_work` with both callers in one
    process, policy without cap or interval, two Retry-Afters.
26. **A return in doubt takes another attempt.** `InDoubtBlocksReturn` of `RefundLedger`.
    The claim takes the lines that may be attempted and leaves the others, so a line
    reported later is enough; `refund-ceiling.types.ts:35-36` says a return holding an
    in-doubt line refuses. Instance: the refund constants of `order_work`. The ceiling, which
    cannot see what is in doubt, is then passed within one return, too.
27. **An observation settles every attempt of a return.** `recordRefundObservation`
    writes its state to every line that stands, whichever attempt it is about, and beside
    an attempt still to be settled: a denied observation frees lines the other attempt
    was paid for (`blurred`). An attempt in doubt that is found refunded never gets a record.
28. **A second attempt may claim the same lines.** An accepted refund that is denied
    later leaves its record behind; a retry claims the same lines and has the same key, so the source
    pays and the record is refused as a duplicate. The comment at
    `return-writes.controller.ts:555` says a second attempt claims different lines.
    `MoneyIsRecorded` excepts it (`bounced`).
29. **A cancel may leave a parcel on the way.** `cancel` takes no lock: of a draft whose
    dispatch is buying its label, the label is on a cancelled row, or the
    cancellation is overwritten (`crossed`). A label that was written while its read-back
    failed makes its row `failed`; the next dispatch takes another row and buys another label (`unread`). A
    draft left by a crash is handed back by every dispatch until it is cancelled.
30. **A waybill may never be told.** `UntoldIsRetried` of `WaybillRelay`. A notice reads
    the row before the carrier gave a number; a poll that read the row `generated` writes
    the number without relaying it; the notice is sent without one, and no later poll finds a number
    to be new. `shipment-dispatch-notification.service.ts:126-133` expects the backfill to
    deliver it, `waybill-relay.ts:47-48` that a later trigger retries. Instance: the waybill constants
    of `order_work`, one fault, without `SYMMETRY`. So does a crash between claim and relay, which
    `UntoldIsRetried` excepts.
31. **The job and the button can both act.** Two notices both read `generated` and both
    tell the source; `shipment-dispatch.service.ts:657-659` says they cannot. Each
    then writes `dispatched` by id, over a cancellation or a delivery that came meanwhile.
    `WaybillToldOnce` excepts the overlap (`untrusted`).
32. **A release may lose to the reconciliation.** `ReleaseWins` of `OrderHold`. The arm that
    sets a badge compares the badge alone, so one that was missing is set to the reason
    of a hold released since; `order-hold-projection-reconcile.service.ts:62-64` says a release
    committing in between wins. Likewise a release's late write clears the badge of the next hold. Both
    last until the next reconciliation (`BadgeConverges`). Instance: the hold constants of
    `order_work` without faults.
33. **No overlap does not mean no label.** A hold placed after a dispatch looked for one and probed
    after that dispatch ended is told that nothing is in flight; the label was bought after the hold
    was placed. `ClearHoldShipsNothing` counts from the probe.

## Not modelled

* Inside the modelled components: job payloads, priorities and backoff lengths;
  the read-only queries; corrections, credit notes, offline resubmission and clearance polling of
  invoices, the auto-issue trigger and the routing rules; extension of
  reservation deadlines; custody of returned goods and attribution of orphaned returns; currencies
  of refunds; return labels, orders split over several carriers, and the relay of delivery;
  the queue order inside a process's own limiter; clamping of settings; metrics and logs.
* `PROJECT.json` lists every other component with its reason. In short: handlers
  and adapters are I/O and field mapping whose retries the queue covers; read models,
  analytics, settings and user interface hold no protocol; rule evaluation
  (sales-document routing, OMS routing, automation) is sequential and a candidate for a
  bounded check against a reference definition.

## Plan

Modules, the most consequential first: all of the table above are done. Next would
be the claims of works at the pack bench with the voids of their parcels, and
the delivery relay with its redrive.

Compositions: intake with the queue (a request that was accepted is run or visibly dead),
the lease with the scheduler and the sweeps (overlapping holders and what absorbs
them), the ledger with the sale decrement. Abstract specifications: `JobLifecycle` (done); a
one-document-per-order register that `DocumentIssue` implements when no row was
refused; `StockAccount` of the ledger (done).

Runs: one per question; a question that a composition asks more strongly takes the
place of the smaller run, and those of the divergences above give way first.

Theorems: that `DocumentIssue` implements a register of one document per order; the type invariants of `SaleDecrement`, `RateLimiter` and
`RefundLedger` in full; that the lease's bounds hold of the scheduler it starts.
