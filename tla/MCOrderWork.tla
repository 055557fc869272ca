----------------------------- MODULE MCOrderWork ------------------------------
(* One instance for TLC of the modules in which requests and jobs meet each     *)
(* other at one order: its documents, refunds, labels, waybills and holds.      *)
(* They share no state, so `focus` picks one of them at the start and the       *)
(* others stand still; the same two processes work in each.                     *)
EXTENDS MCDocumentIssue, RefundLedger, ShipmentLabel, WaybillRelay, OrderHold

CONSTANTS d1, x, y

VARIABLE focus

(* One return of two lines, one of one.                                         *)
TwoReturns == 1 :> 1 @@ 2 :> 1 @@ 3 :> 2

MCInit ==
  /\ focus \in {"documents", "refund", "label", "waybill", "hold"}
  /\ Init /\ RefundInit /\ ShipInit /\ RelayInit /\ HoldInit
  /\ focus # "waybill" => minted

MCNext ==
  \/ focus = "documents" /\ Next /\ UNCHANGED <<focus, refundVars, shipVars, relayVars, holdVars>>
  \/ focus = "refund" /\ RefundNext /\ UNCHANGED <<focus, vars, shipVars, relayVars, holdVars>>
  \/ focus = "label" /\ ShipNext /\ UNCHANGED <<focus, vars, refundVars, relayVars, holdVars>>
  \/ focus = "waybill" /\ RelayNext /\ UNCHANGED <<focus, vars, refundVars, shipVars, holdVars>>
  \/ focus = "hold" /\ HoldNext /\ UNCHANGED <<focus, vars, refundVars, shipVars, relayVars>>

MCSpec == MCInit /\ [][MCNext]_<<focus, vars, refundVars, shipVars, relayVars, holdVars>>

(* Every module's state is what it says: leases on rows that are worked on,     *)
(* locks of known requests, labels of known rows and one row without a label at *)
(* most, numbers that were minted, holds that were placed.                      *)
OrderWorkTypeOK ==
  CASE focus = "documents" -> TypeOK
    [] focus = "refund" -> RefundTypeOK
    [] focus = "label" -> ShipTypeOK
    [] focus = "waybill" -> RelayTypeOK
    [] focus = "hold" -> HoldTypeOK

(* Not followed any further: failures of a relay beyond those that make it give *)
(* up; a return whose observation has met attempts with different outcomes,     *)
(* about which nothing is claimed; a second row after a second fault.           *)
FailuresCounted == parcel.failures <= MaxRelayFailures
Unblurred == ~blurred
FaultsOnOneRow == shipFaults > 1 => Len(shipRow) <= 1
Followed == FailuresCounted /\ Unblurred /\ FaultsOnOneRow
=============================================================================
