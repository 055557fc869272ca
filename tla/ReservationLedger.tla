--------------------------- MODULE ReservationLedger ---------------------------
(* OpenLinker's own reservation ledger: ReservationRepository and the calls of *)
(* ReservationService on it.  Ingestion reserves an order's lines on every     *)
(* poll, an order edit narrows them, and cancellation, dispatch, a routed sale *)
(* or an absorbing master closes them.  The processes meet only in Postgres    *)
(* (READ COMMITTED), so what is kept of a transaction is its row locks and its *)
(* writes until they commit.                                                   *)
(*                                                                             *)
(* A key is an order line at a stock position.  `held` is the key's row with   *)
(* status held; of the rows that ended `closed` keeps the keys.                 *)
EXTENDS Integers, Sequences, FiniteSets, FiniteSetsExt

CONSTANTS
  Procs,      \* worker and API calls that run at the same time
  Orders,
  Lines,      \* numbers: the sequence of the lines of an order
  Shipped,    \* the orders that are dispatched sooner or later
  Positions,  \* numbers: the order of the inventory item ids
  Stock,      \* the positions of the variant that a line of an order sells
  Stamps,     \* the atpEffect values in play
  MaxQty,     \* bound: units per line
  Levels,     \* the quantities a master sync may report
  MaxFaults   \* bound: failing statements and dying processes

ASSUME ConstantsAssumption ==
  /\ Positions \subseteq Nat /\ Lines \subseteq Nat
  /\ "none" \notin Orders /\ IsFiniteSet(Orders) /\ IsFiniteSet(Lines) /\ IsFiniteSet(Positions)
  /\ Stock \in [Orders \X Lines -> SUBSET Positions]
  /\ Shipped \subseteq Orders
  /\ Stamps \subseteq {"published", "diagnostic"}
  /\ MaxQty \in Nat \ {0}
  /\ Levels \subseteq Nat
  /\ MaxFaults \in Nat

VARIABLES
  position,  \* inventory_items: availableQuantity, olReservedQuantity, isStale
  held,      \* reservations with status held, by key; quantity 0 when there is none
  closed,    \* the keys with a terminal row
  shipment,  \* the order's shipment: not dispatched, dispatched, consumption marked
  proc,
  faults

vars == <<position, held, closed, shipment, proc, faults>>

LineOf(k) == <<k[1], k[2]>>
Keys == {k \in Orders \X Lines \X Positions : k[3] \in Stock[LineOf(k)]}
NoHold == [qty |-> 0, stamp |-> "none"]

Idle ==
  [op |-> "none", order |-> "none", pc |-> "idle", todo |-> <<>>, failed |-> FALSE, alone |-> TRUE,
   rows |-> {}, share |-> {}, excl |-> {}, wrote |-> <<>>, delta |-> [p \in Positions |-> 0]]

Init ==
  /\ position \in [Positions -> [available : Levels, reserved : {0}, stale : {FALSE}]]
  /\ held = [k \in Keys |-> NoHold]
  /\ closed = {}
  /\ shipment = [o \in Orders |-> "none"]
  /\ proc = [t \in Procs |-> Idle]
  /\ faults = 0

Fault == faults < MaxFaults /\ faults' = faults + 1
Moves(t, r) == proc' = [proc EXCEPT ![t] = r]
Item(t) == Head(proc[t].todo)
At(t, pc) == proc[t].pc = pc

(* A transaction's writes, and those over the committed rows.                  *)
Writes(w, k, hold) == [x \in DOMAIN w \cup {k} |-> IF x = k THEN hold ELSE w[x]]
Seen(t, k) == IF k \in DOMAIN proc[t].wrote THEN proc[t].wrote[k] ELSE held[k]

(* Claims are sorted by position, so that two orders take their locks in the   *)
(* same sequence; the lists of held rows come sorted the same way.             *)
Before_AsListed(a, b) ==
  a.key[2] < b.key[2] \/ (a.key[2] = b.key[2] /\ a.key[3] < b.key[3])
Before(a, b) ==
  a.key[3] < b.key[3] \/ (a.key[3] = b.key[3] /\ a.key[2] < b.key[2])
ByPosition(S) ==
  [n \in 1..Cardinality(S) |-> CHOOSE a \in S : Cardinality({b \in S : Before(b, a)}) = n - 1]

-----------------------------------------------------------------------------
(* Who a waiting statement waits for.  The foreign key's KEY SHARE on the      *)
(* position does not conflict with NO KEY UPDATE, the mode of the lock and of  *)
(* every UPDATE here.                                                          *)
Conflicts_ForUpdate(u, p) == p \in proc[u].excl \cup proc[u].share
Conflicts(u, p) == p \in proc[u].excl

Waits(t, u) ==
  /\ u # t /\ proc[t].todo # <<>>
  /\ LET k == Item(t).key IN
       \/ At(t, "insert") /\ k \in DOMAIN proc[u].wrote
       \/ At(t, "select") /\ k \in proc[u].rows
       \/ At(t, "flip") /\ held[k] # NoHold /\ k \in proc[u].rows
       \/ proc[t].pc \in {"lock", "lower"} /\ Conflicts(u, k[3])
Free(t) == \A u \in Procs : ~Waits(t, u)

(* A set of transactions none of which can go on before another of them ends.  *)
Deadlocked(S) == S # {} /\ \A t \in S : \E u \in S : Waits(t, u)
Cycle(S) == Deadlocked(S) /\ \A R \in (SUBSET S) \ {S} : ~Deadlocked(R)

-----------------------------------------------------------------------------
(* The statement of the next item begins: a claim inserts, a release flips.    *)
Entry(c) == IF c.qty = 0 THEN "flip" ELSE "insert"
MayMark_EvenIfFailed(r) == r.op = "consume"
MayMark(r) == r.op = "consume" /\ ~r.failed
AfterItem(r, todo) ==
  [r EXCEPT !.todo = todo,
            !.pc = IF todo # <<>> THEN Entry(Head(todo))
                   ELSE IF MayMark(r) THEN "mark" ELSE "idle"]
Ended(r) == IF r.pc = "idle" THEN Idle ELSE r
NextTransaction(t, failed) ==
  LET r == proc[t] IN
  Ended(AfterItem([Idle EXCEPT !.op = r.op, !.order = r.order,
                               !.alone = r.alone, !.failed = r.failed \/ failed],
                  Tail(r.todo)))

(* Rollback.  One transaction holds all the claims of a reserve, whose failure *)
(* the ingestion swallows; the other calls go on with their next row.          *)
Rollback(t, failed) ==
  Moves(t, IF proc[t].op = "reserve" THEN Idle ELSE NextTransaction(t, failed))

StatementDone(t, r) ==
  Moves(t, IF r.op = "reserve" /\ Len(r.todo) > 1 THEN AfterItem(r, Tail(r.todo))
           ELSE [r EXCEPT !.pc = "commit"])

-----------------------------------------------------------------------------
(* reserveForOrder reads the closed lines and the live positions.  A line with *)
(* no live position is skipped; one with several is refused, and the caller    *)
(* retries without it.                                                         *)
LivePositions(o, l) == {p \in Stock[<<o, l>>] : ~position[p].stale}
AlreadyClosed_PerPosition(o, l) == \E p \in LivePositions(o, l) : <<o, l, p>> \in closed
AlreadyClosed(o, l) == \E k \in closed : LineOf(k) = <<o, l>>
Claimable(o) == {l \in Lines : ~AlreadyClosed(o, l) /\ Cardinality(LivePositions(o, l)) = 1}

(* `alone` is history: no other call for the order has run beside this one.     *)
Begin(t, op, o, items) ==
  LET others == {u \in Procs \ {t} : proc[u].order = o}
      r == [Idle EXCEPT !.op = op, !.order = o, !.alone = others = {}]
  IN  proc' = [u \in Procs |->
                 IF u = t THEN Ended(AfterItem(r, ByPosition(items)))
                 ELSE [proc[u] EXCEPT !.alone = @ /\ u \notin others]]

ReserveForOrder(t, o, asked, stamp) ==
  /\ At(t, "idle") /\ Claimable(o) # {}
  /\ Begin(t, "reserve", o,
           {[key |-> <<o, l, CHOOSE p \in LivePositions(o, l) : TRUE>>,
             qty |-> asked[l], stamp |-> stamp] : l \in Claimable(o)})
  /\ UNCHANGED <<position, held, closed, shipment, faults>>

HeldOf(o) == {k \in Keys : k[1] = o /\ held[k] # NoHold}
Release(k) == [key |-> k, qty |-> 0, stamp |-> "none"]

(* narrowForOrder lists the held rows and lowers or releases each of them.     *)
NarrowForOrder(t, o, target) ==
  /\ At(t, "idle")
  /\ LET rows == {k \in HeldOf(o) : target[k[2]] < held[k].qty} IN
       /\ rows # {}
       /\ Begin(t, "lower", o,
                {IF target[k[2]] = 0 THEN Release(k)
                 ELSE [key |-> k, qty |-> target[k[2]], stamp |-> held[k].stamp] : k \in rows})
  /\ UNCHANGED <<position, held, closed, shipment, faults>>

(* closeForOrder lists the held rows, and releases each of them on its own.    *)
CloseForOrder(t, op, o, lines) ==
  Begin(t, op, o, {Release(k) : k \in {h \in HeldOf(o) : h[2] \in lines}})

CloseLines(t, o, lines) ==
  /\ At(t, "idle") /\ \E k \in HeldOf(o) : k[2] \in lines
  /\ CloseForOrder(t, "lower", o, lines)
  /\ UNCHANGED <<position, held, closed, shipment, faults>>

ConsumeShipment(t, o) ==
  /\ At(t, "idle") /\ shipment[o] = "dispatched"
  /\ CloseForOrder(t, "consume", o, Lines)
  /\ UNCHANGED <<position, held, closed, shipment, faults>>

-----------------------------------------------------------------------------
(* INSERT ... ON CONFLICT DO NOTHING waits for a transaction that has written  *)
(* the key's row, then finds it held or inserts one of its own.                *)
Insert(t) ==
  /\ At(t, "insert") /\ Free(t)
  /\ LET c == Item(t) IN
       IF held[c.key] # NoHold
         THEN Moves(t, [proc[t] EXCEPT !.pc = "select"])
         ELSE Moves(t, [proc[t] EXCEPT !.pc = "lock",
                          !.rows = @ \cup {c.key}, !.share = @ \cup {c.key[3]},
                          !.wrote = Writes(@, c.key, [qty |-> c.qty, stamp |-> c.stamp])])
  /\ UNCHANGED <<position, held, closed, shipment, faults>>

(* What the counter has to move by: the claim states the wanted quantity.      *)
Delta_Whole(c) == c.qty
Delta(c) == c.qty - held[c.key].qty

(* SELECT ... FOR UPDATE of the row in the way.  It may be gone by now.        *)
SelectForUpdate(t) ==
  /\ At(t, "select") /\ Free(t)
  /\ LET c == Item(t)
         r == [proc[t] EXCEPT !.rows = @ \cup {c.key}]
     IN  IF held[c.key] = NoHold THEN Rollback(t, TRUE)
         ELSE IF Delta(c) = 0 THEN StatementDone(t, r)
         ELSE Moves(t, [r EXCEPT !.pc = IF Delta(c) > 0 THEN "lock" ELSE "lower"])
  /\ UNCHANGED <<position, held, closed, shipment, faults>>

LockPosition_Skipped(t) == Moves(t, [proc[t] EXCEPT !.pc = "add"])
LockPosition(t) ==
  Moves(t, [proc[t] EXCEPT !.pc = "add", !.excl = @ \cup {Item(t).key[3]}])

LockForAdd(t) ==
  /\ At(t, "lock") /\ Free(t)
  /\ LockPosition(t)
  /\ UNCHANGED <<position, held, closed, shipment, faults>>

(* The guarded UPDATE: the other published holds on the position leave room.   *)
PublishedByOthers(t, c) ==
  MapThenSumSet(LAMBDA k : Seen(t, k).qty,
    {k \in Keys \ {c.key} : k[3] = c.key[3] /\ Seen(t, k).stamp = "published"})
Admits(t, c) ==
  /\ ~position[c.key[3]].stale
  /\ position[c.key[3]].available - PublishedByOthers(t, c) >= c.qty

SetQuantity_Restamped(t, c, r) ==
  [r EXCEPT !.wrote = Writes(@, c.key, [qty |-> c.qty, stamp |-> c.stamp])]
SetQuantity(t, c, r) ==
  [r EXCEPT !.wrote = Writes(@, c.key, [Seen(t, c.key) EXCEPT !.qty = c.qty])]

GuardedAdd(t) ==
  /\ At(t, "add")
  /\ LET c == Item(t) IN
       IF Admits(t, c)
         THEN StatementDone(t, SetQuantity(t, c,
                [proc[t] EXCEPT !.delta[c.key[3]] = @ + Delta(c)]))
         ELSE Rollback(t, TRUE)
  /\ UNCHANGED <<position, held, closed, shipment, faults>>

(* releaseHeld flips the row first.  An insert that is not committed is not    *)
(* seen, and a row that is not held is no failure.                             *)
FlipTerminal(t) ==
  /\ At(t, "flip") /\ Free(t)
  /\ LET c == Item(t) IN
       IF held[c.key] = NoHold THEN Rollback(t, FALSE)
       ELSE Moves(t, [proc[t] EXCEPT !.pc = "lower", !.rows = @ \cup {c.key},
                                     !.wrote = Writes(@, c.key, NoHold)])
  /\ UNCHANGED <<position, held, closed, shipment, faults>>

(* The counter goes down, not below zero; a narrowed row gets its quantity.    *)
LowerCounter(t) ==
  /\ At(t, "lower") /\ Free(t)
  /\ LET c == Item(t)
         p == c.key[3]
         now == position[p].reserved + proc[t].delta[p]
         r == [proc[t] EXCEPT !.excl = @ \cup {p},
                 !.delta[p] = @ - IF -Delta(c) > now THEN now ELSE -Delta(c)]
     IN  StatementDone(t, IF c.qty = 0 THEN r ELSE SetQuantity(t, c, r))
  /\ UNCHANGED <<position, held, closed, shipment, faults>>

Commit(t) ==
  /\ At(t, "commit")
  /\ LET w == proc[t].wrote
         ended == {k \in DOMAIN w : w[k] = NoHold}
     IN  /\ held' = [k \in Keys |-> Seen(t, k)]
         /\ closed' = closed \cup ended
  /\ position' = [p \in Positions |->
                    [position[p] EXCEPT !.reserved = @ + proc[t].delta[p]]]
  /\ IF proc[t].op = "reserve" THEN Moves(t, Idle) ELSE Moves(t, NextTransaction(t, FALSE))
  /\ UNCHANGED <<shipment, faults>>

(* The dispatch sweep claims the shipment's marker when no row failed.         *)
ClaimReservationConsume(t) ==
  /\ At(t, "mark")
  /\ shipment' = [shipment EXCEPT ![proc[t].order] = "marked"]
  /\ Moves(t, Idle)
  /\ UNCHANGED <<position, held, closed, faults>>

-----------------------------------------------------------------------------
(* Postgres ends one transaction of a cycle; a statement fails; a process dies.*)
DeadlockVictim(t) ==
  /\ \E S \in SUBSET Procs : t \in S /\ Cycle(S)
  /\ Rollback(t, TRUE)
  /\ UNCHANGED <<position, held, closed, shipment, faults>>

StatementFails(t) ==
  /\ proc[t].todo # <<>>
  /\ Fault
  /\ Rollback(t, TRUE)
  /\ UNCHANGED <<position, held, closed, shipment>>

ProcessDies(t) ==
  /\ ~At(t, "idle")
  /\ Fault
  /\ Moves(t, Idle)
  /\ UNCHANGED <<position, held, closed, shipment>>

(* A master sync writes the columns it owns, and only those.                   *)
MasterColumns(p, n, stale) ==
  [position[p] EXCEPT !.available = n, !.stale = stale]
SyncStock(p, n, stale) ==
  /\ \A u \in Procs : ~Conflicts(u, p)
  /\ position' = [position EXCEPT ![p] = MasterColumns(p, n, stale)]
  /\ UNCHANGED <<held, closed, shipment, proc, faults>>

Dispatch(o) ==
  /\ shipment[o] = "none"
  /\ shipment' = [shipment EXCEPT ![o] = "dispatched"]
  /\ UNCHANGED <<position, held, closed, proc, faults>>

-----------------------------------------------------------------------------
Call(t, o) ==
  \/ \E asked \in [Lines -> 1..MaxQty], stamp \in Stamps : ReserveForOrder(t, o, asked, stamp)
  \/ \E target \in [Lines -> 0..MaxQty] : NarrowForOrder(t, o, target)
  \/ \E lines \in SUBSET Lines : CloseLines(t, o, lines)
  \/ ConsumeShipment(t, o)

Next ==
  \/ \E t \in Procs :
       \/ \E o \in Orders : Call(t, o)
       \/ Insert(t) \/ SelectForUpdate(t) \/ LockForAdd(t) \/ GuardedAdd(t)
       \/ FlipTerminal(t) \/ LowerCounter(t) \/ Commit(t) \/ ClaimReservationConsume(t)
       \/ DeadlockVictim(t) \/ StatementFails(t) \/ ProcessDies(t)
  \/ \E p \in Positions, n \in Levels, stale \in BOOLEAN : SyncStock(p, n, stale)
  \/ \E o \in Shipped : Dispatch(o)

Spec == Init /\ [][Next]_vars

-----------------------------------------------------------------------------
Hold == {NoHold} \cup [qty : 1..MaxQty, stamp : Stamps]
Work == [key : Keys, qty : 0..MaxQty, stamp : Stamps \cup {"none"}]

TypeOK ==
  /\ position \in [Positions -> [available : Levels, reserved : Nat, stale : BOOLEAN]]
  /\ held \in [Keys -> Hold]
  /\ closed \subseteq Keys
  /\ shipment \in [Orders -> {"none", "dispatched", "marked"}]
  /\ faults \in 0..MaxFaults
  /\ \A t \in Procs :
       /\ proc[t].todo \in Seq(Work)
       /\ proc[t].wrote \in [DOMAIN proc[t].wrote -> Hold]
       /\ DOMAIN proc[t].wrote \subseteq proc[t].rows
       /\ proc[t].rows \subseteq Keys
       /\ proc[t].share \cup proc[t].excl \subseteq Positions
       /\ proc[t].alone \in BOOLEAN
       /\ At(t, "idle") => proc[t] = Idle

Held(p, stamps) ==
  MapThenSumSet(LAMBDA k : held[k].qty,
                {k \in Keys : k[3] = p /\ held[k].stamp \in stamps})

(* The counter beside the stock is the sum of the holds on it, whatever polls, *)
(* edits, releases, master syncs and failures come together: nothing counts    *)
(* twice and nothing is given back twice.                                      *)
CounterMatchesLedger == \A p \in Positions : position[p].reserved = Held(p, Stamps)

(* A transaction that raises what is promised out of a position leaves it      *)
(* within the stock there is: two claims that run together cannot both take    *)
(* the last unit.                                                              *)
AdmitsWithinStock ==
  [][\A p \in Positions :
       Held(p, {"published"})' > Held(p, {"published"}) =>
         Held(p, {"published"})' <= position[p].available]_vars

(* Seen from outside, every transaction happens at once: statements of calls   *)
(* that interleave, wait, deadlock, fail or die amount to StockAccount, in which *)
(* an order's claims are booked together and each hold ends on its own.  A      *)
(* position offers what the master last reported, a stale one nothing.          *)
Account == INSTANCE StockAccount WITH
  offered <- [p \in Positions |-> IF position[p].stale THEN 0 ELSE position[p].available],
  reserved <- [p \in Positions |-> position[p].reserved]
ImplementsAccount == Account!Spec

(* The claims of different orders never wait for each other in a ring, without *)
(* a release or a second call for the same order in it.                        *)
Claiming(t) == proc[t].todo # <<>> /\ Item(t).qty > 0
OrdersNeverDeadlock ==
  \A S \in SUBSET Procs :
    Deadlocked(S) =>
      \/ \E t \in S : ~Claiming(t)
      \/ \E t, u \in S : t # u /\ proc[t].order = proc[u].order

(* A line whose reservation was already released, consumed or expired is never *)
(* held again, whoever works on the order at the same time.  The code does not *)
(* keep this (README, "What the code does not keep").                          *)
ReheldAtClosed == \E k \in Keys, e \in closed :
  LineOf(k) = LineOf(e) /\ held[k] = NoHold /\ held'[k] # NoHold
ClosedLineNeverReheld == [][~ReheldAtClosed]_vars

(* It keeps it for a call that has its order to itself, at whatever position   *)
(* the line resolves to by now and whatever failed or crashed before.          *)
AloneNeverReholds ==
  [][\A t \in Procs : proc[t].alone /\ proc'[t] # proc[t] => ~ReheldAtClosed]_vars

(* When a dispatch sweep that has the order to itself marks the shipment, every*)
(* hold of the order has ended: a release that failed is retried, not passed   *)
(* over.                                                                       *)
AloneMarksClosed ==
  [][\A t \in Procs :
       proc[t].alone /\ proc'[t] # proc[t] /\ shipment' # shipment =>
         HeldOf(proc[t].order) = {}]_vars
=============================================================================
