---------------------------- MODULE ShipmentLabel ----------------------------
(* The parcels of one order at one carrier: ShipmentDispatchService, which buys *)
(* a label under the order's lock, ShipmentCancellationService, which takes no  *)
(* lock, and the carrier's poll or webhook of ShipmentStatusSyncService.  What  *)
(* they tell the marketplace is in WaybillRelay; a dispatched shipment is here  *)
(* what a generated one is.                                                     *)
(*                                                                              *)
(* The carrier knows a label by its own id and by the reference OpenLinker gave *)
(* it, the id of the shipment row.                                              *)
EXTENDS Naturals, Sequences, FiniteSets

CONSTANTS
  ShipProcs,      \* requests and jobs handled at a time
  MaxShipments,   \* bound: rows
  MaxLabels,      \* bound: labels bought
  MaxShipFaults,  \* bound: crashes, lost answers, failing calls, a lock that ends too soon
  NoShipProc

ASSUME ShipmentAssumption ==
  /\ {MaxShipments, MaxLabels, MaxShipFaults} \subseteq Nat
  /\ NoShipProc \notin ShipProcs

VARIABLES
  shipRow,       \* rows, in the order of createdAt: status, providerShipmentId (0 is NULL)
  label,         \* the carrier's: the row it is for, and its state
  shipLock,
  worker,        \* per request: where it is, its row, its label, a status
  mishaps,       \* history: what went wrong
  shipFaults

shipVars == <<shipRow, label, shipLock, worker, mishaps, shipFaults>>

IdleWorker == [pc |-> "idle", row |-> 0, label |-> 0, status |-> "none"]

ShipInit ==
  /\ shipRow = <<>> /\ label = <<>>
  /\ shipLock = NoShipProc
  /\ worker = [p \in ShipProcs |-> IdleWorker]
  /\ mishaps = {} /\ shipFaults = 0

ShipFault == shipFaults < MaxShipFaults /\ shipFaults' = shipFaults + 1
NoShipFault == UNCHANGED shipFaults
Mishap(m) == mishaps' = mishaps \cup {m}
WorkerAt(p, pc) == worker[p].pc = pc
WorkerGoto(p, pc) == worker' = [worker EXCEPT ![p].pc = pc]
Leave(p) == worker' = [worker EXCEPT ![p] = IdleWorker]

ShipRows == DOMAIN shipRow
ShipEnded == {"delivered", "failed", "cancelled"}
SetStatus(r, status) == shipRow' = [shipRow EXCEPT ![r].status = status]
Unlabelled == {r \in ShipRows : shipRow[r].label = 0}
Matches(r) == {n \in DOMAIN label : label[n].row = r}

-----------------------------------------------------------------------------
(* dispatch: who does not get the lock buys nothing.                           *)
StartDispatch(p) ==
  /\ WorkerAt(p, "idle") /\ shipLock = NoShipProc
  /\ shipLock' = p /\ WorkerGoto(p, "active")
  /\ UNCHANGED <<shipRow, label, mishaps, shipFaults>>

(* findActiveByOrderId: a row that has not ended is handed back.               *)
ReadActive(p) ==
  /\ WorkerAt(p, "active")
  /\ WorkerGoto(p, IF \E r \in ShipRows : shipRow[r].status \notin ShipEnded THEN "unlock" ELSE "prior")
  /\ UNCHANGED <<shipRow, label, shipLock, mishaps, shipFaults>>

(* findBranchOneByOrderAndConnection: the row that never got a label is used   *)
(* again.                                                                      *)
ReadPrior(p) ==
  /\ WorkerAt(p, "prior")
  /\ IF Unlabelled = {} THEN WorkerGoto(p, "create")
     ELSE worker' = [worker EXCEPT ![p].pc = "reset", ![p].row = CHOOSE r \in Unlabelled : TRUE]
  /\ UNCHANGED <<shipRow, label, shipLock, mishaps, shipFaults>>

(* The carrier is asked what it may hold under its reference, unless this      *)
(* request wants another kind of label.                                        *)
AfterReset_Buys == "buy"
AfterReset == "lookup"
ResetShipment(p) ==
  /\ WorkerAt(p, "reset")
  /\ SetStatus(worker[p].row, "draft")
  /\ \/ WorkerGoto(p, AfterReset) /\ UNCHANGED mishaps
     \/ WorkerGoto(p, "buy") /\ Mishap("notAsked")
  /\ UNCHANGED <<label, shipLock, shipFaults>>

(* The partial unique index admits one row without a label.                    *)
CreateShipment(p) ==
  /\ WorkerAt(p, "create")
  /\ IF Unlabelled # {} \/ Len(shipRow) = MaxShipments
       THEN WorkerGoto(p, "unlock") /\ UNCHANGED shipRow
       ELSE /\ shipRow' = Append(shipRow, [status |-> "draft", label |-> 0])
            /\ worker' = [worker EXCEPT ![p].pc = "buy", ![p].row = Len(shipRow) + 1]
  /\ UNCHANGED <<label, shipLock, mishaps, shipFaults>>

(* adoptExistingCarrierShipment: one match is adopted, none or several are not,*)
(* and a lookup that fails is as good as none.                                 *)
Lookup(p) ==
  /\ WorkerAt(p, "lookup")
  /\ LET found == Matches(worker[p].row)
     IN \/ /\ Cardinality(found) = 1 /\ NoShipFault /\ UNCHANGED mishaps
           /\ worker' = [worker EXCEPT ![p].pc = "adopt", ![p].label = CHOOSE n \in found : TRUE]
        \/ Cardinality(found) # 1 /\ WorkerGoto(p, "buy") /\ NoShipFault /\ UNCHANGED mishaps
        \/ ShipFault /\ WorkerGoto(p, "buy") /\ Mishap("notAsked")
  /\ UNCHANGED <<shipRow, label, shipLock>>

(* generateLabel: a label, a refusal, or an answer that does not arrive.       *)
BuyLabel(r) == label' = Append(label, [row |-> r, state |-> "live"])
Buy(p) ==
  /\ WorkerAt(p, "buy") /\ Len(label) < MaxLabels
  /\ \/ /\ BuyLabel(worker[p].row) /\ NoShipFault /\ UNCHANGED mishaps
        /\ worker' = [worker EXCEPT ![p].pc = "record", ![p].label = Len(label) + 1]
     \/ WorkerGoto(p, "fail") /\ NoShipFault /\ UNCHANGED <<label, mishaps>>
     \/ BuyLabel(worker[p].row) /\ WorkerGoto(p, "fail") /\ ShipFault /\ Mishap("unanswered")
  /\ UNCHANGED <<shipRow, shipLock>>

(* The label is written to the row, one just bought or one adopted.  The write *)
(* may fail, and so may the read that follows it; the catch of generateLabel   *)
(* then makes the row a failed one.                                            *)
WithLabel(r, n) == shipRow' = [shipRow EXCEPT ![r] = [status |-> "generated", label |-> n]]
RecordLabel(p) ==
  /\ WorkerAt(p, "record")
  /\ LET r == worker[p].row
         n == worker[p].label
     IN \/ WithLabel(r, n) /\ WorkerGoto(p, "unlock") /\ NoShipFault /\ UNCHANGED mishaps
        \/ WorkerGoto(p, "fail") /\ ShipFault /\ Mishap("unanswered") /\ UNCHANGED shipRow
        \/ WithLabel(r, n) /\ WorkerGoto(p, "fail") /\ ShipFault /\ Mishap("unread")
  /\ UNCHANGED <<label, shipLock>>

Adopt(p) ==
  /\ WorkerAt(p, "adopt") /\ WorkerGoto(p, "unlock")
  /\ \/ WithLabel(worker[p].row, worker[p].label) /\ NoShipFault
     \/ ShipFault /\ UNCHANGED shipRow
  /\ UNCHANGED <<label, shipLock, mishaps>>

MarkFailed(p) ==
  /\ WorkerAt(p, "fail") /\ WorkerGoto(p, "unlock")
  /\ \/ SetStatus(worker[p].row, "failed") /\ NoShipFault
     \/ ShipFault /\ UNCHANGED shipRow
  /\ UNCHANGED <<label, shipLock, mishaps>>

(* The finally of dispatch: compare-and-delete.                                *)
Unlock(p) ==
  /\ WorkerAt(p, "unlock")
  /\ shipLock' = IF shipLock = p THEN NoShipProc ELSE shipLock
  /\ Leave(p)
  /\ UNCHANGED <<shipRow, label, mishaps, shipFaults>>

-----------------------------------------------------------------------------
(* cancel: void at the carrier what the row names, then cancel the row.        *)
AfterCancelRead_RowFirst(seen) == "cancelRow"
AfterCancelRead(seen) == IF seen.label # 0 THEN "void" ELSE "cancelRow"
StartCancel(p, r) ==
  /\ WorkerAt(p, "idle") /\ shipRow[r].status \in {"draft", "generated"}
  /\ worker' = [worker EXCEPT ![p] = [@ EXCEPT !.pc = AfterCancelRead(shipRow[r]), !.row = r,
                                              !.label = shipRow[r].label]]
  /\ UNCHANGED <<shipRow, label, shipLock, mishaps, shipFaults>>

Void(p) ==
  /\ WorkerAt(p, "void")
  /\ LET n == worker[p].label
         voided == label[n].state = "live" /\ label' = [label EXCEPT ![n].state = "void"]
     IN \/ voided /\ WorkerGoto(p, "cancelRow") /\ NoShipFault
        \/ Leave(p) /\ NoShipFault /\ UNCHANGED label
        \/ voided /\ Leave(p) /\ ShipFault
  /\ UNCHANGED <<shipRow, shipLock, mishaps>>

InDispatch(r) ==
  \E p \in ShipProcs : worker[p].row = r /\ worker[p].pc \in {"lookup", "adopt", "buy", "record", "fail"}
CancelRow(p) ==
  /\ WorkerAt(p, "cancelRow")
  /\ LET r == worker[p].row
     IN /\ SetStatus(r, "cancelled")
        /\ IF shipRow[r].label # worker[p].label \/ InDispatch(r) THEN Mishap("crossed") ELSE UNCHANGED mishaps
  /\ Leave(p)
  /\ UNCHANGED <<label, shipLock, shipFaults>>

-----------------------------------------------------------------------------
(* A tick of the poll or a webhook reads a row with a label, then its tracking *)
(* at the carrier; a status that is final there and new here is taken over.    *)
StartPoll(p, r) ==
  /\ WorkerAt(p, "idle") /\ shipRow[r].label # 0
  /\ worker' = [worker EXCEPT ![p] = [@ EXCEPT !.pc = "track", !.row = r, !.label = shipRow[r].label,
                                              !.status = shipRow[r].status]]
  /\ UNCHANGED <<shipRow, label, shipLock, mishaps, shipFaults>>

CarrierSays(state) == CASE state = "void" -> "cancelled"
                        [] state = "lost" -> "failed"
                        [] OTHER -> state
Track(p) ==
  /\ WorkerAt(p, "track")
  /\ LET says == CarrierSays(label[worker[p].label].state)
     IN IF says \in ShipEnded \ {worker[p].status}
          THEN worker' = [worker EXCEPT ![p] = [@ EXCEPT !.pc = "patch", !.label = 0, !.status = says]]
          ELSE Leave(p)
  /\ UNCHANGED <<shipRow, label, shipLock, mishaps, shipFaults>>

Patch(p) ==
  /\ WorkerAt(p, "patch")
  /\ SetStatus(worker[p].row, worker[p].status) /\ Leave(p)
  /\ UNCHANGED <<label, shipLock, mishaps, shipFaults>>

-----------------------------------------------------------------------------
(* The parcel arrives, or does not.                                            *)
ParcelEnds ==
  /\ \E n \in DOMAIN label, s \in {"delivered", "lost"} :
       label[n].state = "live" /\ label' = [label EXCEPT ![n].state = s]
  /\ UNCHANGED <<shipRow, shipLock, worker, mishaps, shipFaults>>

(* A process dies; a purchase under way is carried out or not.                 *)
CrashWorker(p) ==
  /\ ~WorkerAt(p, "idle") /\ ShipFault /\ Leave(p)
  /\ UNCHANGED label \/ (WorkerAt(p, "buy") /\ Len(label) < MaxLabels /\ BuyLabel(worker[p].row))
  /\ IF worker[p].pc \in {"buy", "record", "fail"} THEN Mishap("unanswered") ELSE UNCHANGED mishaps
  /\ UNCHANGED <<shipRow, shipLock>>

(* The lock's TTL ends: that of a dispatch that is gone, or of a slow one.     *)
ShipLockExpires ==
  /\ shipLock # NoShipProc /\ shipLock' = NoShipProc
  /\ IF worker[shipLock].pc \in {"idle", "void", "cancelRow", "track", "patch"}
       THEN NoShipFault /\ UNCHANGED mishaps ELSE ShipFault /\ Mishap("lockLost")
  /\ UNCHANGED <<shipRow, label, worker>>

ShipNext ==
  \/ \E p \in ShipProcs :
       \/ StartDispatch(p) \/ ReadActive(p) \/ ReadPrior(p) \/ ResetShipment(p) \/ CreateShipment(p)
       \/ Lookup(p) \/ Buy(p) \/ RecordLabel(p) \/ Adopt(p) \/ MarkFailed(p) \/ Unlock(p)
       \/ Void(p) \/ CancelRow(p) \/ Track(p) \/ Patch(p) \/ CrashWorker(p)
       \/ \E r \in ShipRows : StartCancel(p, r) \/ StartPoll(p, r)
  \/ ParcelEnds \/ ShipLockExpires

ShipSpec == ShipInit /\ [][ShipNext]_shipVars

-----------------------------------------------------------------------------
ShipTypeOK ==
  /\ \A r \in ShipRows : /\ shipRow[r].status \in {"draft", "generated"} \cup ShipEnded
                     /\ shipRow[r].label \in 0..Len(label)
  /\ \A n \in DOMAIN label : label[n].row \in ShipRows /\ label[n].state \in {"live", "void", "delivered", "lost"}
  /\ Len(shipRow) <= MaxShipments /\ Len(label) <= MaxLabels
  /\ Cardinality(Unlabelled) <= 1
  /\ shipLock \in ShipProcs \cup {NoShipProc}
  /\ shipFaults \in 0..MaxShipFaults

(* The order never has two parcels on the way at once, whatever answer is lost *)
(* and whoever dies: a label nobody knows is found by its reference.  What can *)
(* break this is listed: the carrier could not be asked, or was not because the*)
(* request wants another label; a cancel crossed a dispatch; the row could not *)
(* be read back after it was written; the lock ended under a slow dispatch.    *)
Live == {n \in DOMAIN label : label[n].state = "live"}
OneLiveLabel ==
  mishaps \cap {"notAsked", "crossed", "unread", "lockLost"} = {} => Cardinality(Live) <= 1

(* A cancelled row has no parcel on the way, unless its dispatch never got an  *)
(* answer or was still under way.                                              *)
CancelledIsVoid ==
  mishaps \cap {"crossed", "unanswered", "lockLost"} = {} =>
    \A r \in ShipRows : shipRow[r].status = "cancelled" => Matches(r) \cap Live = {}
(* Rows and labels agree: one parcel is on the way, and not for a cancelled row.*)
ParcelsMatchRows == OneLiveLabel /\ CancelledIsVoid
=============================================================================
