---------------------------- MODULE SaleDecrement ----------------------------
(* The stock a marketplace sale takes from the product master, and gives back: *)
(* InventorySaleDecrementService for the works of an order line, and           *)
(* InventorySaleReversalService when the order is cancelled or the line edited.*)
(* A request is claimed in a row under its key, sent, and settled; a key is    *)
(* claimed again only while its row says `retryable`.                          *)
(*                                                                             *)
(* One order line with one owner and one position.  The jobs run on several    *)
(* workers and may be delivered again at any time; an operator's edit runs in  *)
(* the API and may be retried.                                                 *)
EXTENDS Naturals, FiniteSets, FiniteSetsExt

CONSTANTS
  SaleProcs,      \* executions at a time
  Works,          \* bound: ids of the line's works, in their order
  Edits,          \* bound: change ids of edits that lower the line
  SaleCases,      \* orders: units of the line per work, and per edit
  MasterStock,    \* what the master has, enough for all of it
  MaxSaleFaults,  \* bound: crashes, failing calls and locks that end too soon
  NoSaleProc, NoKey, NoEdit

ASSUME SaleAssumption ==
  /\ Works \subseteq Nat \ {0} /\ IsFiniteSet(Works) /\ IsFiniteSet(Edits) /\ MasterStock \in Nat
  /\ NoSaleProc \notin SaleProcs /\ NoEdit \notin Edits
  /\ \A c \in SaleCases : /\ c.qty \in [DOMAIN c.qty -> Nat] /\ DOMAIN c.qty \subseteq Works
                           /\ c.edits \in [DOMAIN c.edits -> Nat] /\ DOMAIN c.edits \subseteq Edits

VARIABLES
  saleCase,       \* the order at hand
  saleRow,        \* inventory_sale_decrements by idempotency key
  saleLock,       \* the position's lock
  saleHold,       \* the line's advisory hold
  saleCancelled,  \* the order record is cancelled
  saleCut,        \* per work: cancelledQuantity of the line
  saleEdits,      \* edits that have lowered the works
  saleStock,      \* the master's stock
  saleMirror,     \* OpenLinker's copy of it
  saleSent,       \* per key: requests that reached the master
  saleJob,        \* per execution: where it is, and what it works with
  saleUnsure,     \* returns overlapped, were undecided, or a row's quantity is stale
  saleFaults

saleVars == <<saleCase, saleRow, saleLock, saleHold, saleCancelled, saleCut, saleEdits,
              saleStock, saleMirror, saleSent, saleJob, saleUnsure, saleFaults>>

(* The order as the jobs find it; what the master knows.                       *)
saleOrder == <<saleCase, saleCancelled, saleCut, saleEdits>>
saleMaster == <<saleStock, saleSent>>

Routed == DOMAIN saleCase.qty
SaleKey(w) == <<"sale", w>>
BackKey(w) == <<"back", w>>
EditKey(e, w) == <<"edit", e, w>>     \* w = 0: the change's first row
SaleKeys == {SaleKey(w) : w \in Works} \cup {BackKey(w) : w \in Works}
              \cup {EditKey(e, w) : e \in Edits, w \in Works \cup {0}}
Family(key) == IF key[1] = "edit" THEN <<"edit", key[2]>> ELSE <<key[1]>>
Returns == {key \in SaleKeys : key[1] # "sale"}

NoRow == [status |-> "none", work |-> 0, qty |-> 0]
NoTask == [key |-> NoKey, work |-> 0, qty |-> 0]
IdleJob == [pc |-> "idle", kind |-> "none", edit |-> NoEdit, task |-> NoTask, todo |-> {},
            answer |-> "none", figure |-> 0]

SaleInit ==
  /\ saleCase \in SaleCases
  /\ saleRow = [key \in SaleKeys |-> NoRow]
  /\ saleLock = NoSaleProc
  /\ saleHold = "held"
  /\ saleCancelled = FALSE
  /\ saleCut = [w \in Works |-> 0]
  /\ saleEdits = {}
  /\ saleStock = MasterStock
  /\ saleMirror = MasterStock
  /\ saleSent = [key \in SaleKeys |-> 0]
  /\ saleJob = [p \in SaleProcs |-> IdleJob]
  /\ saleUnsure = FALSE
  /\ saleFaults = 0

SaleFault == saleFaults < MaxSaleFaults /\ saleFaults' = saleFaults + 1
NoSaleFault == UNCHANGED saleFaults
JobAt(p, pc) == saleJob[p].pc = pc
Reached(job, pc) ==
  CASE pc = "idle" -> IdleJob
    [] pc = "next" -> [job EXCEPT !.pc = pc, !.task = NoTask, !.answer = "none", !.figure = 0]
    [] OTHER -> [job EXCEPT !.pc = pc]
Goto(p, pc) == saleJob' = [saleJob EXCEPT ![p] = Reached(@, pc)]
JobEnds(p) == Goto(p, "idle")
Selling(p) == saleJob[p].kind = "sell"

Status(key) == saleRow[key].status
Applied(keys) == {key \in keys : Status(key) = "applied"}
UnitsOf(keys) == MapThenSumSet(LAMBDA key : saleRow[key].qty, keys)
LeastUnits(m, n) == IF m <= n THEN m ELSE n
Owed(w) == saleCase.qty[w] - saleCut[w]

(* recordUnclaimed: an insert, or an update of a row that is retryable.        *)
RecordRetryable(task) ==
  saleRow' = IF Status(task.key) \in {"none", "retryable"}
               THEN [saleRow EXCEPT ![task.key] =
                       [status |-> "retryable", work |-> task.work,
                        qty |-> IF Status(task.key) = "none" THEN task.qty ELSE @.qty]]
               ELSE saleRow

(* claim: an insert, or an update of a retryable row, which keeps the quantity *)
(* it was inserted with.                                                       *)
Claimable_Unsettled(key) == Status(key) \in {"none", "retryable", "pending"}
Claimable(key) == Status(key) \in {"none", "retryable"}
ClaimRow(task) ==
  /\ Claimable(task.key)
  /\ saleRow' = [saleRow EXCEPT ![task.key] =
                   [status |-> "pending", work |-> task.work,
                    qty |-> IF Status(task.key) = "none" THEN task.qty ELSE @.qty]]
  /\ saleUnsure' = (saleUnsure \/ (Status(task.key) = "retryable" /\ saleRow[task.key].qty # task.qty))

-----------------------------------------------------------------------------
(* inventory.saleDecrement: nothing for a cancelled order, else what the work  *)
(* still carries of the line.                                                  *)
StartSell(p) == \E w \in Routed :
  /\ JobAt(p, "idle") /\ ~saleCancelled /\ Owed(w) > 0
  /\ saleJob' = [saleJob EXCEPT ![p] = [IdleJob EXCEPT !.pc = "lock", !.kind = "sell",
                   !.task = [key |-> SaleKey(w), work |-> w, qty |-> Owed(w)]]]
  /\ UNCHANGED <<saleOrder, saleRow, saleLock, saleHold, saleMirror, saleUnsure, saleFaults, saleMaster>>

(* The position's lock; whoever does not get it leaves a retryable row.        *)
LockFree_Ignored(p) == TRUE
LockFree(p) == saleLock = NoSaleProc
LockPosition(p) ==
  /\ JobAt(p, "lock")
  /\ IF LockFree(p)
       THEN saleLock' = p /\ Goto(p, "find") /\ UNCHANGED saleRow
       ELSE RecordRetryable(saleJob[p].task) /\ JobEnds(p) /\ UNCHANGED saleLock
  /\ UNCHANGED <<saleOrder, saleHold, saleMirror, saleUnsure, saleFaults, saleMaster>>

(* findByKey: a settled line only has its hold closed again, one that was left *)
(* pending is given up, any other that is not retryable is reported.  Then the *)
(* adapter is built.  After a claim that a peer won, the peer's row is looked  *)
(* up the same way, but never claimed.                                         *)
AfterFind_AnyRow(status) == IF status = "pending" THEN "interrupt" ELSE "replayHold"
AfterFind(status) ==
  CASE status = "applied" -> "replayHold"
    [] status = "pending" -> "interrupt"
    [] OTHER -> "unlock"
FindRow(p) ==
  /\ JobAt(p, "find") \/ JobAt(p, "winner")
  /\ LET task == saleJob[p].task
         claims == JobAt(p, "find") /\ Claimable(task.key)
     IN \/ ~claims /\ Goto(p, AfterFind(Status(task.key))) /\ NoSaleFault /\ UNCHANGED saleRow
        \/ claims /\ Goto(p, "claim") /\ NoSaleFault /\ UNCHANGED saleRow
        \/ claims /\ SaleFault /\ RecordRetryable(task) /\ Goto(p, "unlock")
  /\ UNCHANGED <<saleOrder, saleLock, saleHold, saleMirror, saleUnsure, saleMaster>>

ClaimSale(p) ==
  /\ JobAt(p, "claim")
  /\ LET task == saleJob[p].task
     IN \/ ClaimRow(task) /\ Goto(p, "call")
        \/ ~Claimable(task.key) /\ Goto(p, "winner") /\ UNCHANGED <<saleRow, saleUnsure>>
  /\ UNCHANGED <<saleOrder, saleLock, saleHold, saleMirror, saleFaults, saleMaster>>

(* markInterrupted, if the row is still pending.                               *)
MarkInterrupted(p) ==
  /\ JobAt(p, "interrupt")
  /\ LET key == saleJob[p].task.key
     IN IF Status(key) = "pending"
          THEN saleRow' = [saleRow EXCEPT ![key].status = "in_doubt"] /\ Goto(p, "reread")
          ELSE Goto(p, "unlock") /\ UNCHANGED saleRow
  /\ UNCHANGED <<saleOrder, saleLock, saleHold, saleMirror, saleUnsure, saleFaults, saleMaster>>

(* adjustInventory reaches the master.                                         *)
Lands(p) ==
  LET task == saleJob[p].task
  IN /\ saleStock' = IF Selling(p) THEN saleStock - LeastUnits(saleStock, task.qty)
                                   ELSE saleStock + task.qty
     /\ saleSent' = [saleSent EXCEPT ![task.key] = @ + 1]
Answered(p, answer) ==
  saleJob' = [saleJob EXCEPT ![p].pc = "settle", ![p].answer = answer, ![p].figure = saleStock']

(* The answer, a refusal that changed nothing, or an error that leaves open    *)
(* whether it did.                                                             *)
CallMaster(p) ==
  /\ JobAt(p, "call")
  /\ \/ Lands(p) /\ Answered(p, "applied") /\ NoSaleFault
     \/ UNCHANGED <<saleStock, saleSent>> /\ Answered(p, "blocked") /\ SaleFault
     \/ (Lands(p) \/ UNCHANGED <<saleStock, saleSent>>) /\ Answered(p, "in_doubt") /\ SaleFault
  /\ UNCHANGED <<saleOrder, saleRow, saleLock, saleHold, saleMirror, saleUnsure>>

(* After a row: the lock is given back, or the next row is returned; an edit   *)
(* stops at the first that was not accepted.                                   *)
RowDone(p) ==
  IF Selling(p) THEN "unlock"
  ELSE IF saleJob[p].kind = "edit" /\ saleJob[p].answer # "applied" THEN "idle" ELSE "next"

(* settle, by id.  If the write fails the run throws and the row stays pending.*)
SettleRow(p) ==
  /\ JobAt(p, "settle")
  /\ \/ /\ saleRow' = [saleRow EXCEPT ![saleJob[p].task.key].status = saleJob[p].answer]
        /\ Goto(p, CASE saleJob[p].answer = "applied" -> IF Selling(p) THEN "hold" ELSE "mirror"
                     [] saleJob[p].answer = "in_doubt" -> "reread"
                     [] OTHER -> RowDone(p))
        /\ NoSaleFault
     \/ SaleFault /\ Goto(p, IF Selling(p) THEN "unlock" ELSE "idle") /\ UNCHANGED saleRow
  /\ UNCHANGED <<saleOrder, saleLock, saleHold, saleMirror, saleUnsure, saleMaster>>

(* closeForOrder(consumed): before the mirror is written.  A failure is        *)
(* reported, so the job comes back and closes it on the replay.                *)
ConsumeHold(p) ==
  /\ \/ JobAt(p, "hold") /\ Goto(p, "mirror")
     \/ JobAt(p, "replayHold") /\ Goto(p, "unlock")
  /\ \/ saleHold' = (IF saleHold = "held" THEN "consumed" ELSE saleHold) /\ NoSaleFault
     \/ SaleFault /\ UNCHANGED saleHold
  /\ UNCHANGED <<saleOrder, saleRow, saleLock, saleMirror, saleUnsure, saleMaster>>

(* refreshFromMaster reads the master again; setInventory writes the figure.   *)
Reread(p) ==
  /\ JobAt(p, "reread")
  /\ \/ saleJob' = [saleJob EXCEPT ![p].pc = "mirror", ![p].figure = saleStock] /\ NoSaleFault
     \/ Goto(p, RowDone(p)) /\ SaleFault
  /\ UNCHANGED <<saleOrder, saleRow, saleLock, saleHold, saleMirror, saleUnsure, saleMaster>>

WriteMirror(p) ==
  /\ JobAt(p, "mirror")
  /\ \/ saleMirror' = saleJob[p].figure /\ NoSaleFault
     \/ SaleFault /\ UNCHANGED saleMirror
  /\ Goto(p, RowDone(p))
  /\ UNCHANGED <<saleOrder, saleRow, saleLock, saleHold, saleUnsure, saleMaster>>

UnlockPosition(p) ==
  /\ JobAt(p, "unlock")
  /\ saleLock' = IF saleLock = p THEN NoSaleProc ELSE saleLock
  /\ JobEnds(p)
  /\ UNCHANGED <<saleOrder, saleRow, saleHold, saleMirror, saleUnsure, saleFaults, saleMaster>>

-----------------------------------------------------------------------------
(* The order is cancelled at the marketplace; the restore job releases the hold*)
(* and then returns what was taken.                                            *)
CancelOrder ==
  /\ ~saleCancelled
  /\ saleCancelled' = TRUE
  /\ UNCHANGED <<saleCase, saleRow, saleLock, saleHold, saleCut, saleEdits, saleMirror, saleJob,
                 saleUnsure, saleFaults, saleMaster>>

StartRestore(p) ==
  /\ JobAt(p, "idle") /\ saleCancelled
  /\ saleHold' = IF saleHold = "held" THEN "released" ELSE saleHold
  /\ saleJob' = [saleJob EXCEPT ![p] = [IdleJob EXCEPT !.pc = "list", !.kind = "cancel"]]
  /\ UNCHANGED <<saleOrder, saleRow, saleLock, saleMirror, saleUnsure, saleFaults, saleMaster>>

(* An operator lowers the line: the works are narrowed, whichever way, then the*)
(* stock is returned; a retried edit finds the works narrowed.                 *)
StartEdit(p) == \E e \in DOMAIN saleCase.edits :
  /\ JobAt(p, "idle")
  /\ \/ e \in saleEdits /\ UNCHANGED <<saleCut, saleEdits>>
     \/ /\ e \notin saleEdits /\ ~saleCancelled
        /\ saleEdits' = saleEdits \cup {e}
        /\ \E cut \in [Works -> 0..saleCase.edits[e]] :
             /\ \A w \in Works : cut[w] > 0 => w \in Routed /\ cut[w] <= Owed(w)
             /\ MapThenSumSet(LAMBDA w : cut[w], Works) = saleCase.edits[e]
             /\ saleCut' = [w \in Works |-> saleCut[w] + cut[w]]
  /\ saleJob' = [saleJob EXCEPT ![p] = [IdleJob EXCEPT !.pc = "list", !.kind = "edit", !.edit = e]]
  /\ UNCHANGED <<saleCase, saleRow, saleLock, saleHold, saleCancelled, saleMirror, saleUnsure,
                 saleFaults, saleMaster>>

(* Another return that is under way, or whose outcome is not known.            *)
OwnFamily(p) == IF saleJob[p].kind = "edit" THEN <<"edit", saleJob[p].edit>> ELSE <<"back">>
OtherReturns(p) ==
  \/ \E key \in Returns : Family(key) # OwnFamily(p) /\ Status(key) \in {"pending", "in_doubt"}
  \/ \E q \in SaleProcs : /\ q # p /\ saleJob[q].kind \in {"cancel", "edit"}
                          /\ saleJob[q].pc # "list" /\ OwnFamily(q) # OwnFamily(p)

(* reverseForOrder: the applied decrements of every work, less what edits have *)
(* given back for it.                                                          *)
EditReversed(w) == UnitsOf({key \in Applied(Returns) : key[1] = "edit" /\ saleRow[key].work = w})
Sold == {w \in Routed : Status(SaleKey(w)) = "applied"}
RestoreTasks_Whole ==
  {[key |-> BackKey(w), work |-> w, qty |-> saleRow[SaleKey(w)].qty] : w \in Sold}
RestoreTasks ==
  {[key |-> BackKey(w), work |-> w, qty |-> saleRow[SaleKey(w)].qty - EditReversed(w)] :
     w \in {v \in Sold : saleRow[SaleKey(v)].qty > EditReversed(v)}}

(* reverseLineQuantity: the edit's units, at most what was taken and not yet   *)
(* returned, from the works in their order.                                    *)
EditRemaining(e) ==
  LET taken == UnitsOf({SaleKey(w) : w \in Sold})
      back == UnitsOf(Applied(Returns))
  IN IF taken <= back THEN 0 ELSE LeastUnits(saleCase.edits[e], taken - back)
EditTasks(e) ==
  LET before(w) == UnitsOf({SaleKey(v) : v \in {u \in Sold : u < w}})
      first(w) == \A v \in Sold : w <= v
      units(w) == LeastUnits(EditRemaining(e) - before(w), saleRow[SaleKey(w)].qty)
  IN {[key |-> EditKey(e, IF first(w) THEN 0 ELSE w), work |-> w, qty |-> units(w)] :
        w \in {v \in Sold : before(v) < EditRemaining(e)}}

(* The rows are read once, before anything is returned.                        *)
ListReturns(p) ==
  /\ JobAt(p, "list")
  /\ LET e == saleJob[p].edit
         replay == \E key \in Returns : Family(key) = <<"edit", e>> /\ Status(key) # "none"
         tasks == IF saleJob[p].kind = "cancel" THEN RestoreTasks
                  ELSE IF replay THEN {} ELSE EditTasks(e)
     IN saleJob' = [saleJob EXCEPT ![p].todo = tasks, ![p].pc = "next"]
  /\ saleUnsure' = (saleUnsure \/ OtherReturns(p))
  /\ UNCHANGED <<saleOrder, saleRow, saleLock, saleHold, saleMirror, saleFaults, saleMaster>>

(* reverseLine: a row that is there is reported; else the adapter is built and *)
(* the row claimed.  No lock is taken.                                         *)
NextReturn(p) ==
  /\ JobAt(p, "next") /\ saleJob[p].todo # {}
  /\ \E task \in saleJob[p].todo :
       /\ saleJob[p].kind = "edit" => \A other \in saleJob[p].todo : task.work <= other.work
       /\ LET rest == [saleJob[p] EXCEPT !.todo = @ \ {task}]
              report(answer) == [saleJob EXCEPT ![p] =
                IF rest.kind = "edit" /\ answer # "applied" THEN IdleJob ELSE rest]
          IN \/ /\ ~Claimable(task.key)
                /\ saleJob' = report(Status(task.key))
                /\ NoSaleFault /\ UNCHANGED <<saleRow, saleUnsure>>
             \/ /\ ClaimRow(task)
                /\ saleJob' = [saleJob EXCEPT ![p] = [rest EXCEPT !.pc = "call", !.task = task]]
                /\ NoSaleFault
             \/ /\ Claimable(task.key) /\ SaleFault
                /\ RecordRetryable(task)
                /\ saleJob' = report("retryable")
                /\ UNCHANGED saleUnsure
  /\ UNCHANGED <<saleOrder, saleLock, saleHold, saleMirror, saleMaster>>

ReturnsEnd(p) ==
  /\ JobAt(p, "next") /\ saleJob[p].todo = {}
  /\ JobEnds(p)
  /\ UNCHANGED <<saleOrder, saleRow, saleLock, saleHold, saleMirror, saleUnsure, saleFaults, saleMaster>>

(* A process dies; a request on its way lands or does not.                     *)
CrashSale(p) ==
  /\ ~JobAt(p, "idle") /\ SaleFault
  /\ UNCHANGED <<saleStock, saleSent>> \/ (JobAt(p, "call") /\ Lands(p))
  /\ JobEnds(p)
  /\ UNCHANGED <<saleOrder, saleRow, saleLock, saleHold, saleMirror, saleUnsure>>

(* The lock's TTL ends: of a process that is gone, or of one that is slow.     *)
SaleLockExpires ==
  /\ saleLock # NoSaleProc
  /\ IF JobAt(saleLock, "idle") \/ ~Selling(saleLock) THEN NoSaleFault ELSE SaleFault
  /\ saleLock' = NoSaleProc
  /\ UNCHANGED <<saleOrder, saleRow, saleHold, saleMirror, saleJob, saleUnsure, saleMaster>>

SaleNext ==
  \/ \E p \in SaleProcs :
       \/ StartSell(p) \/ LockPosition(p) \/ FindRow(p) \/ ClaimSale(p) \/ MarkInterrupted(p)
       \/ CallMaster(p) \/ SettleRow(p) \/ ConsumeHold(p) \/ Reread(p) \/ WriteMirror(p)
       \/ UnlockPosition(p) \/ StartRestore(p) \/ StartEdit(p) \/ ListReturns(p)
       \/ NextReturn(p) \/ ReturnsEnd(p) \/ CrashSale(p)
  \/ CancelOrder \/ SaleLockExpires

SaleSpec == SaleInit /\ [][SaleNext]_saleVars

-----------------------------------------------------------------------------
SalePcs == {"idle", "lock", "find", "winner", "claim", "interrupt", "call", "settle", "hold", "replayHold",
            "reread", "mirror", "unlock", "list", "next"}
Units == 0..MasterStock

SaleTypeOK ==
  /\ saleCase \in SaleCases
  /\ saleRow \in [SaleKeys -> [status : {"none", "retryable", "pending", "applied", "blocked", "in_doubt"},
                               work : Works \cup {0}, qty : Units]]
  /\ saleLock \in SaleProcs \cup {NoSaleProc}
  /\ saleHold \in {"held", "consumed", "released"}
  /\ saleCancelled \in BOOLEAN
  /\ saleCut \in [Works -> Units]
  /\ saleEdits \subseteq Edits
  /\ saleStock \in Nat
  /\ saleMirror \in Nat
  /\ saleSent \in [SaleKeys -> Nat]
  /\ \A p \in SaleProcs : saleJob[p].pc \in SalePcs /\ saleJob[p].kind \in {"none", "sell", "cancel", "edit"}
  /\ saleUnsure \in BOOLEAN
  /\ saleFaults \in 0..MaxSaleFaults

Idle == \A p \in SaleProcs : JobAt(p, "idle")
OneWork == Cardinality(Routed) = 1

(* A key's request reaches the master once at most, whatever is delivered      *)
(* again, crashes, loses its lock or gets no answer; and a row tells what it   *)
(* knows: applied means it did, retryable means it did not.                    *)
SaleSentOnce ==
  \A key \in SaleKeys :
    /\ saleSent[key] <= 1
    /\ Status(key) = "applied" => saleSent[key] = 1
    /\ Status(key) \in {"none", "retryable", "blocked"} => saleSent[key] = 0

(* Edits and the cancellation give back no more than was taken, when the line  *)
(* has one work, its quantity did not change before a retry, no return overlaps*)
(* another or is in doubt, and the master had what was sold.                   *)
SaleReturnsCovered == OneWork /\ ~saleUnsure => saleStock <= MasterStock

(* "Never give back more than was taken."                                      *)
(* The code does not keep this: README, "What the code does not keep".         *)
SaleNeverOverReturns == saleStock <= MasterStock

(* The hold and the master never count the sale twice for good, nor neither of *)
(* them: the hold of a line with one work is consumed only once the master is  *)
(* lower, and when it is, no run that reached its end leaves the hold.         *)
SaleHoldMatches ==
  OneWork =>
    /\ saleHold = "consumed" => \E w \in Routed : saleSent[SaleKey(w)] = 1
    /\ Idle /\ saleFaults = 0 /\ (\E w \in Routed : Status(SaleKey(w)) = "applied") => saleHold # "held"

(* Two works of one position: the lock orders the writes of the mirror, so when*)
(* everything is done it shows the master's last figure.                       *)
SaleMirrorOrdered ==
  Idle /\ saleFaults = 0 /\ (\A key \in Returns : Status(key) = "none") => saleMirror = saleStock
(* The books of a sale agree: what was returned with what was taken, the hold  *)
(* with the decrement, the mirror with the master.                             *)
SaleBooksAgree == SaleReturnsCovered /\ SaleHoldMatches /\ SaleMirrorOrdered
=============================================================================
