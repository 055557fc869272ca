----------------------------- MODULE RefundLedger -----------------------------
(* Refunds of one order: ReturnRefundService.triggerRefund, which claims the    *)
(* lines of a return for one attempt and may have the source pay, the           *)
(* controller around it, which writes the refund record, the direct route of    *)
(* OrderRefundService.recordRefund, and recordRefundObservation.                *)
(*                                                                              *)
(* The ceiling is read, then written to, under the order's lock; the claim of   *)
(* lines is one UPDATE, under the return's lock.  Both locks have a TTL.  The   *)
(* source may report further lines of a return at any time.                     *)
EXTENDS Naturals, FiniteSets

CONSTANTS
  Clerks,          \* requests handled at a time
  ReturnLines, ReturnOf, \* lines of the order's returns, and the return of each
  Reported,        \* lines known from the start
  Amounts, Total,  \* what may be asked for; what the order was worth
  DirectKeys,      \* idempotency keys of direct refunds
  MaxRefunds,      \* bound: refund records
  MaxRefundFaults, \* bound: crashes, failing calls and locks that end too soon
  NoClerk, NoKey

ASSUME RefundAssumption ==
  /\ Reported \subseteq ReturnLines
  /\ Amounts \subseteq Nat \ {0} /\ Total \in Nat
  /\ NoClerk \notin Clerks /\ NoKey \notin DirectKeys

VARIABLES
  reported,      \* lines the source has reported
  money,         \* moneyState of a line
  paid,          \* history: how often the source, or the operator, paid for it
  stays,         \* whether the money of the line's last attempt was paid
  paidOut,       \* history: the sum of it
  recordKeys,    \* idempotency keys of the refund records
  recorded,      \* their sum
  direct,        \* history: the part of it that no return asked for
  records,       \* their number
  orderLock, returnLock,
  clerk,         \* per request: where it is, and what it works with
  lockLost,      \* history: a lock ended under a request that works on
  blurred,       \* history: an observation met an attempt still to be settled, or different outcomes
  bounced,       \* history: a refund the source had accepted was denied later
  acked,         \* history: a refund above the ceiling was acknowledged
  refundFaults

refundVars == <<reported, money, paid, stays, paidOut, recordKeys, recorded, direct, records,
                orderLock, returnLock, clerk, lockLost, blurred, bounced, acked, refundFaults>>
lineVars == <<reported, money, paid, stays, paidOut>>
recordVars == <<recordKeys, recorded, direct, records>>
lockVars == <<orderLock, returnLock>>
refundHistory == <<lockLost, blurred, bounced>>

Returns == {ReturnOf[l] : l \in ReturnLines}
LinesOf(r) == {l \in reported : ReturnOf[l] = r}
Attemptable == {"pending", "denied"}
Standing == {"triggered", "in_doubt"}

FreeClerk == [pc |-> "idle", kind |-> "none", return |-> 0, amount |-> 0, key |-> NoKey, ack |-> FALSE,
              seen |-> 0, lines |-> {}, answer |-> "none"]

RefundInit ==
  /\ reported = Reported
  /\ money = [l \in ReturnLines |-> "pending"]
  /\ paid = [l \in ReturnLines |-> 0] /\ stays = [l \in ReturnLines |-> FALSE] /\ paidOut = 0
  /\ recordKeys = {} /\ recorded = 0 /\ direct = 0 /\ records = 0
  /\ orderLock = NoClerk /\ returnLock = [r \in Returns |-> NoClerk]
  /\ clerk = [p \in Clerks |-> FreeClerk]
  /\ lockLost = FALSE /\ blurred = FALSE /\ bounced = FALSE /\ acked = FALSE
  /\ refundFaults = 0

RefundFault == refundFaults < MaxRefundFaults /\ refundFaults' = refundFaults + 1
NoRefundFault == UNCHANGED refundFaults
ClerkAt(p, pc) == clerk[p].pc = pc
ClerkGoto(p, pc) == clerk' = [clerk EXCEPT ![p].pc = pc]
Dismiss(p) == clerk' = [clerk EXCEPT ![p] = FreeClerk]
Conclude(p) == clerk' = [clerk EXCEPT ![p] = [FreeClerk EXCEPT !.pc = "unlockOrder"]]

(* decideRefundCeiling: above the ceiling only with an acknowledgement.        *)
Allowed(p, seen) == seen + clerk[p].amount <= Total \/ clerk[p].ack

-----------------------------------------------------------------------------
(* A request takes the order's lock: a return's refund, or a direct one.  If it*)
(* is taken, or does not answer in time, nothing happens.                      *)
TakeOrderLock_NotDirect(p, kind) ==
  IF kind = "direct" THEN UNCHANGED orderLock ELSE orderLock = NoClerk /\ orderLock' = p
TakeOrderLock(p, kind) == orderLock = NoClerk /\ orderLock' = p
StartRefund(p) ==
  /\ ClerkAt(p, "idle") /\ records < MaxRefunds
  /\ \E amount \in Amounts, ack \in BOOLEAN :
       \/ /\ TakeOrderLock(p, "return")
          /\ \E r \in Returns :
               clerk' = [clerk EXCEPT ![p] = [FreeClerk EXCEPT !.pc = "context", !.kind = "return",
                           !.return = r, !.amount = amount, !.ack = ack]]
       \/ /\ TakeOrderLock(p, "direct")
          /\ \E key \in DirectKeys \cup {NoKey} :
               clerk' = [clerk EXCEPT ![p] = [FreeClerk EXCEPT !.pc = "duplicate", !.kind = "direct",
                           !.key = key, !.amount = amount, !.ack = ack]]
  /\ UNCHANGED <<lineVars, recordVars, returnLock, refundHistory, acked, refundFaults>>

(* resolveRefundCeilingContext, and point A.                                   *)
ReadContext(p) ==
  /\ ClerkAt(p, "context")
  /\ IF Allowed(p, recorded) THEN ClerkGoto(p, "lockReturn") ELSE Conclude(p)
  /\ UNCHANGED <<lineVars, recordVars, lockVars, refundHistory, acked, refundFaults>>

LockReturn(p) ==
  /\ ClerkAt(p, "lockReturn")
  /\ LET r == clerk[p].return
     IN IF returnLock[r] = NoClerk
          THEN /\ returnLock' = [returnLock EXCEPT ![r] = p]
               /\ ClerkGoto(p, IF clerk[p].kind = "observe" THEN "observe" ELSE "claim")
          ELSE /\ IF clerk[p].kind = "observe" THEN Dismiss(p) ELSE Conclude(p)
               /\ UNCHANGED returnLock
  /\ UNCHANGED <<lineVars, recordVars, orderLock, refundHistory, acked, refundFaults>>

(* claimRefundAttempt: every line that may be attempted, in one UPDATE.  With  *)
(* an executor the lines go to in_doubt until it has answered; without one     *)
(* (none, or it could not be resolved) the operator has paid.                  *)
ClaimedLines_AnyState(r) == LinesOf(r)
ClaimedLines(r) == {l \in LinesOf(r) : money[l] \in Attemptable}
Pay(ls, amount) ==
  /\ paid' = [l \in ReturnLines |-> IF l \in ls THEN paid[l] + 1 ELSE paid[l]]
  /\ stays' = [l \in ReturnLines |-> l \in ls \/ stays[l]]
  /\ paidOut' = paidOut + amount
PayNothing(ls) ==
  /\ stays' = [l \in ReturnLines |-> l \notin ls /\ stays[l]]
  /\ UNCHANGED <<paid, paidOut>>
ClaimRefund(p) ==
  /\ ClerkAt(p, "claim")
  /\ LET ls == ClaimedLines(clerk[p].return)
         to(state) == money' = [l \in ReturnLines |-> IF l \in ls THEN state ELSE money[l]]
     IN \/ /\ ls = {} /\ ClerkGoto(p, "unlockReturn")
           /\ UNCHANGED <<money, paid, stays, paidOut>>
        \/ /\ ls # {} /\ to("in_doubt") /\ PayNothing(ls)
           /\ clerk' = [clerk EXCEPT ![p].pc = "execute", ![p].lines = ls]
        \/ /\ ls # {} /\ to("triggered") /\ Pay(ls, clerk[p].amount)
           /\ clerk' = [clerk EXCEPT ![p].pc = "unlockReturn", ![p].lines = ls, ![p].answer = "triggered"]
  /\ UNCHANGED <<reported, recordVars, lockVars, refundHistory, acked, refundFaults>>

(* executeRefund: refunded, accepted (which may be denied later), denied, or an*)
(* error that tells nothing.                                                   *)
ExecuteRefund(p) ==
  /\ ClerkAt(p, "execute")
  /\ LET ls == clerk[p].lines
         answers(state) == clerk' = [clerk EXCEPT ![p].pc = "settle", ![p].answer = state]
     IN \/ Pay(ls, clerk[p].amount) /\ answers("refunded") /\ NoRefundFault
        \/ (Pay(ls, clerk[p].amount) \/ PayNothing(ls)) /\ answers("triggered") /\ NoRefundFault
        \/ PayNothing(ls) /\ answers("denied") /\ NoRefundFault
        \/ (Pay(ls, clerk[p].amount) \/ PayNothing(ls)) /\ answers("in_doubt") /\ RefundFault
  /\ UNCHANGED <<reported, money, recordVars, lockVars, refundHistory, acked>>

(* settleRefundState: of these lines, those in one of these states.            *)
SettleLines(ls, to, from) ==
  money' = [l \in ReturnLines |-> IF l \in ls /\ money[l] \in from THEN to ELSE money[l]]
Settle(p) ==
  /\ ClerkAt(p, "settle")
  /\ \/ SettleLines(clerk[p].lines, clerk[p].answer, {"in_doubt"}) /\ ClerkGoto(p, "unlockReturn") /\ NoRefundFault
     \/ /\ RefundFault /\ UNCHANGED money
        /\ clerk' = [clerk EXCEPT ![p].pc = "unlockReturn", ![p].answer = "none"]
  /\ UNCHANGED <<reported, paid, stays, paidOut, recordVars, lockVars, refundHistory, acked>>

(* Compare-and-delete, in the finally of triggerRefund; then the controller    *)
(* writes the record if money moved.                                           *)
MovesMoney(answer) == answer \in {"triggered", "refunded"}
RecordKey_PerReturn(r, ls) == <<r, {}>>
RecordKey(r, ls) == <<r, ls>>
UnlockReturn(p) ==
  /\ ClerkAt(p, "unlockReturn")
  /\ LET r == clerk[p].return
     IN /\ returnLock' = IF returnLock[r] = p THEN [returnLock EXCEPT ![r] = NoClerk] ELSE returnLock
        /\ \/ clerk[p].kind = "observe" /\ Dismiss(p)
           \/ /\ clerk[p].kind # "observe" /\ MovesMoney(clerk[p].answer)
              /\ clerk' = [clerk EXCEPT ![p].pc = "duplicate", ![p].key = RecordKey(r, clerk[p].lines)]
           \/ clerk[p].kind # "observe" /\ ~MovesMoney(clerk[p].answer) /\ Conclude(p)
  /\ UNCHANGED <<lineVars, recordVars, orderLock, refundHistory, acked, refundFaults>>

(* recordRefundLocked: a key that is recorded is a duplicate; then point B     *)
(* reads the sum; then the record, under a unique key.                         *)
FindDuplicate(p) ==
  /\ ClerkAt(p, "duplicate")
  /\ IF clerk[p].key \in recordKeys THEN Conclude(p) ELSE ClerkGoto(p, "ceiling")
  /\ UNCHANGED <<lineVars, recordVars, lockVars, refundHistory, acked, refundFaults>>

ReadCeiling(p) ==
  /\ ClerkAt(p, "ceiling")
  /\ clerk' = [clerk EXCEPT ![p].seen = recorded, ![p].pc = "create"]
  /\ UNCHANGED <<lineVars, recordVars, lockVars, refundHistory, acked, refundFaults>>

CreateRecord(p) ==
  /\ ClerkAt(p, "create")
  /\ LET key == clerk[p].key
     IN \/ /\ Allowed(p, clerk[p].seen) /\ key \notin recordKeys
           /\ recordKeys' = recordKeys \cup ({key} \ {NoKey})
           /\ recorded' = recorded + clerk[p].amount
           /\ direct' = IF clerk[p].kind = "direct" THEN direct + clerk[p].amount ELSE direct
           /\ records' = records + 1
           /\ acked' = (acked \/ clerk[p].seen + clerk[p].amount > Total)
           /\ NoRefundFault
        \/ (~Allowed(p, clerk[p].seen) \/ key \in recordKeys) /\ UNCHANGED <<recordVars, acked, refundFaults>>
        \/ RefundFault /\ UNCHANGED <<recordVars, acked>>
  /\ Conclude(p)
  /\ UNCHANGED <<lineVars, lockVars, refundHistory>>

UnlockOrder(p) ==
  /\ ClerkAt(p, "unlockOrder")
  /\ orderLock' = IF orderLock = p THEN NoClerk ELSE orderLock
  /\ Dismiss(p)
  /\ UNCHANGED <<lineVars, recordVars, returnLock, refundHistory, acked, refundFaults>>

(* recordRefundObservation: what the source says of an attempt that stands, put*)
(* on every line of the return that stands.                                    *)
Executing(l) == \E p \in Clerks : ClerkAt(p, "execute") /\ l \in clerk[p].lines
Unsettled(l) == \E p \in Clerks : clerk[p].pc \in {"execute", "settle"} /\ l \in clerk[p].lines
StartObservation(p) ==
  /\ ClerkAt(p, "idle")
  /\ \E l \in reported, state \in {"refunded", "denied"} :
       /\ money[l] \in Standing /\ ~Executing(l)
       /\ stays[l] = (state = "refunded")
       /\ clerk' = [clerk EXCEPT ![p] = [FreeClerk EXCEPT !.pc = "lockReturn", !.kind = "observe",
                      !.return = ReturnOf[l], !.answer = state]]
  /\ UNCHANGED <<lineVars, recordVars, lockVars, refundHistory, acked, refundFaults>>

Observe(p) ==
  /\ ClerkAt(p, "observe")
  /\ LET ls == LinesOf(clerk[p].return)
         state == clerk[p].answer
     IN /\ SettleLines(ls, state, Standing)
        /\ blurred' = \/ blurred
                       \/ \E l \in ls : /\ money[l] \in Standing
                                       /\ (Unsettled(l) \/ stays[l] # (state = "refunded"))
        /\ bounced' = \/ bounced
                       \/ \E l \in ls : money[l] = "triggered" /\ state = "denied"
  /\ ClerkGoto(p, "unlockReturn")
  /\ UNCHANGED <<reported, paid, stays, paidOut, recordVars, lockVars, lockLost, acked, refundFaults>>

(* upsertLines appends a line the source has begun to report.                  *)
AppendLine ==
  /\ \E l \in ReturnLines \ reported : reported' = reported \cup {l}
  /\ UNCHANGED <<money, paid, stays, paidOut, recordVars, lockVars, clerk, refundHistory, acked, refundFaults>>

(* A process dies; a call to the source that is under way pays or does not.    *)
CrashClerk(p) ==
  /\ ~ClerkAt(p, "idle") /\ RefundFault
  /\ \/ UNCHANGED <<paid, stays, paidOut>>
     \/ ClerkAt(p, "execute") /\ Pay(clerk[p].lines, clerk[p].amount)
  /\ Dismiss(p)
  /\ UNCHANGED <<reported, money, recordVars, lockVars, refundHistory, acked>>

(* A lock's TTL ends: that of a request that is gone, or of a slow one.        *)
RefundLockExpires ==
  /\ \/ /\ orderLock # NoClerk /\ orderLock' = NoClerk /\ UNCHANGED returnLock
        /\ IF ClerkAt(orderLock, "idle") \/ clerk[orderLock].kind = "observe"
             THEN UNCHANGED lockLost /\ NoRefundFault ELSE lockLost' = TRUE /\ RefundFault
     \/ \E r \in Returns :
          /\ returnLock[r] # NoClerk /\ returnLock' = [returnLock EXCEPT ![r] = NoClerk] /\ UNCHANGED orderLock
          /\ IF ClerkAt(returnLock[r], "idle") THEN UNCHANGED lockLost /\ NoRefundFault
                                               ELSE lockLost' = TRUE /\ RefundFault
  /\ UNCHANGED <<lineVars, recordVars, clerk, blurred, bounced, acked>>

RefundNext ==
  \/ \E p \in Clerks :
       \/ StartRefund(p) \/ ReadContext(p) \/ LockReturn(p) \/ ClaimRefund(p) \/ ExecuteRefund(p) \/ Settle(p)
       \/ UnlockReturn(p) \/ FindDuplicate(p) \/ ReadCeiling(p) \/ CreateRecord(p) \/ UnlockOrder(p)
       \/ StartObservation(p) \/ Observe(p) \/ CrashClerk(p)
  \/ AppendLine \/ RefundLockExpires

RefundSpec == RefundInit /\ [][RefundNext]_refundVars

-----------------------------------------------------------------------------
RefundTypeOK ==
  /\ reported \subseteq ReturnLines
  /\ money \in [ReturnLines -> {"pending", "triggered", "in_doubt", "refunded", "denied"}]
  /\ paid \in [ReturnLines -> Nat] /\ stays \in [ReturnLines -> BOOLEAN] /\ paidOut \in Nat
  /\ recorded \in Nat /\ direct \in Nat /\ records \in Nat
  /\ orderLock \in Clerks \cup {NoClerk}
  /\ returnLock \in [Returns -> Clerks \cup {NoClerk}]
  /\ {lockLost, blurred, bounced, acked} \subseteq BOOLEAN
  /\ refundFaults \in Nat

(* A line is paid for once, whatever crashes, is retried, overlaps or outlives *)
(* its lock: the claim alone sees to it.  Excepted is an observation that meets*)
(* attempts with different outcomes, or one whose own answer is still to come: *)
(* either can free a line that was paid for.                                   *)
LinePaidOnce == ~blurred => \A l \in ReturnLines : paid[l] <= 1

(* "A settled refund is not re-openable by a later observation", nor by a late *)
(* answer of the executor.                                                     *)
RefundedIsFinal == [][\A l \in ReturnLines : money[l] = "refunded" => money'[l] = "refunded"]_refundVars

(* The ceiling holds across returns and direct refunds, in the records and in  *)
(* the money: unless somebody acknowledged more, a lock ended under a slow     *)
(* request or something failed, what was paid for returns and what was recorded*)
(* otherwise is within the order's total.                                      *)
CeilingHolds ==
  /\ ~acked /\ ~lockLost => recorded <= Total
  /\ ~acked /\ ~bounced /\ ~blurred /\ refundFaults = 0 /\ (\A p \in Clerks : ~clerk[p].ack) =>
       paidOut + direct <= Total

(* Money that moved is recorded when its request is over, if nothing failed and*)
(* no accepted refund was denied later.                                        *)
MoneyIsRecorded ==
  ~bounced /\ ~blurred /\ refundFaults = 0 /\ (\A p \in Clerks : ClerkAt(p, "idle")) =>
    recorded - direct >= paidOut

(* "A return holding an `in_doubt` line already refuses another attempt."      *)
(* The code does not keep this: README, "What the code does not keep".         *)
InDoubtBlocksReturn ==
  [][\A p \in Clerks : ClerkAt(p, "claim") /\ clerk'[p].lines # {} =>
       \A l \in LinesOf(clerk[p].return) : money[l] # "in_doubt"]_refundVars
(* Records and money agree: neither is above the ceiling, and no money moved   *)
(* without a record.                                                           *)
MoneyMatchesRecords == CeilingHolds /\ MoneyIsRecorded
=============================================================================
