---------------------------- MODULE WaybillRelay ----------------------------
(* How the marketplace learns that a shipment with a label is on its way, and   *)
(* its waybill: ShipmentDispatchNotificationService.notifyDispatched (an        *)
(* operator's button and a job), and the poll and the webhooks of               *)
(* ShipmentStatusSyncService, which relay a waybill the carrier minted later,   *)
(* under the claim of relayWaybillUnderClaim.  None of them takes a lock.       *)
(*                                                                              *)
(* The source is the participant that must not be told a waybill twice; another *)
(* one, a destination, may fail on its own.                                     *)
EXTENDS Naturals

CONSTANTS
  Relays,            \* requests and jobs handled at a time
  MaxRelayFailures,  \* WAYBILL_RELAY_MAX_FAILURES
  MaxRelayFaults     \* bound: crashes, failing calls, answers of the source that are lost

ASSUME RelayAssumption == MaxRelayFailures \in Nat \ {0} /\ MaxRelayFaults \in Nat

VARIABLES
  parcel,        \* the row: status, whether it has a trackingNumber, waybillRelayedAt, failures
  minted,        \* the carrier has given it a waybill
  carried,       \* what the carrier says: moving, delivered, cancelled or failed
  relayer,       \* per request: where it is, what it read of the row, the status to write
  told,          \* history: how often the source was told the waybill
  untrusted,     \* history: a telling that happened counted as failed, or two notifications overlapped
  claimLeft,     \* history: a process died between its claim and the end of its relay
  relayFaults

relayVars == <<parcel, minted, carried, relayer, told, untrusted, claimLeft, relayFaults>>

IdleRelayer == [pc |-> "idle", seen |-> "none", tracking |-> FALSE, failures |-> 0, status |-> "none"]

RelayInit ==
  /\ minted \in BOOLEAN
  /\ parcel = [status |-> "generated", tracking |-> minted, relayed |-> FALSE, failures |-> 0]
  /\ carried = "moving"
  /\ relayer = [p \in Relays |-> IdleRelayer]
  /\ told = 0 /\ untrusted = FALSE /\ claimLeft = FALSE
  /\ relayFaults = 0

RelayFault == relayFaults < MaxRelayFaults /\ relayFaults' = relayFaults + 1
NoRelayFault == UNCHANGED relayFaults
RelayerAt(p, pc) == relayer[p].pc = pc
RelayerGoto(p, pc) == relayer' = [relayer EXCEPT ![p].pc = pc]
RelayDone(p) == relayer' = [relayer EXCEPT ![p] = IdleRelayer]
Told == told' = told + 1

-----------------------------------------------------------------------------
(* notifyDispatched: a generated row is told to the source, with the waybill if*)
(* it has one, then becomes a dispatched one.                                  *)
StartNotify(p) ==
  /\ RelayerAt(p, "idle") /\ parcel.status = "generated"
  /\ relayer' = [relayer EXCEPT ![p] = [IdleRelayer EXCEPT !.pc = "tell", !.tracking = parcel.tracking]]
  /\ UNCHANGED <<parcel, minted, carried, told, untrusted, claimLeft, relayFaults>>

Overlaps(p) ==
  \/ parcel.status # "generated"
  \/ \E q \in Relays \ {p} : relayer[q].pc \in {"tell", "markDispatched"}
Tell(p) ==
  /\ RelayerAt(p, "tell")
  /\ LET tell == IF relayer[p].tracking THEN Told ELSE UNCHANGED told
     IN \/ /\ tell /\ RelayerGoto(p, "markDispatched")
           /\ untrusted' = (untrusted \/ Overlaps(p)) /\ NoRelayFault
        \/ RelayDone(p) /\ RelayFault /\ UNCHANGED <<told, untrusted>>
        \/ tell /\ RelayDone(p) /\ untrusted' = TRUE /\ RelayFault
  /\ UNCHANGED <<parcel, minted, carried, claimLeft>>

(* A write of the status by id, whatever it is by now.                         *)
MarkDispatched(p) ==
  /\ RelayerAt(p, "markDispatched")
  /\ parcel' = [parcel EXCEPT !.status = "dispatched"] /\ RelayDone(p)
  /\ UNCHANGED <<minted, carried, told, untrusted, claimLeft, relayFaults>>

-----------------------------------------------------------------------------
(* A tick of the poll or a webhook reads the row, then its tracking at the     *)
(* carrier: a status that is final, and a waybill that is new.  The waybill is *)
(* relayed if the row was dispatched and the parcel is not cancelled or failed.*)
StartTracking(p) ==
  /\ RelayerAt(p, "idle")
  /\ relayer' = [relayer EXCEPT ![p] = [IdleRelayer EXCEPT !.pc = "track", !.seen = parcel.status,
                                         !.tracking = parcel.tracking, !.failures = parcel.failures]]
  /\ UNCHANGED <<parcel, minted, carried, told, untrusted, claimLeft, relayFaults>>

ReadTracking(p) ==
  /\ RelayerAt(p, "track")
  /\ LET w == relayer[p]
         status == IF carried \in {"moving", w.seen} THEN "none" ELSE carried
         new == minted /\ ~w.tracking
         next(pc) == relayer' = [relayer EXCEPT ![p] =
           [IdleRelayer EXCEPT !.pc = pc, !.status = status, !.failures = IF pc = "claim" THEN w.failures ELSE 0]]
     IN IF new /\ status \notin {"cancelled", "failed"} /\ w.seen = "dispatched" THEN next("claim")
        ELSE IF new THEN next("patchNumber")
        ELSE IF status # "none" THEN next("patch")
        ELSE RelayDone(p)
  /\ UNCHANGED <<parcel, minted, carried, told, untrusted, claimLeft, relayFaults>>

(* claimWaybillRelay: one UPDATE, where nobody has claimed.                    *)
ClaimsRelay_Always == TRUE
ClaimsRelay == ~parcel.relayed
ClaimRelay(p) ==
  /\ RelayerAt(p, "claim")
  /\ IF ClaimsRelay
       THEN parcel' = [parcel EXCEPT !.relayed = TRUE] /\ RelayerGoto(p, "relay")
       ELSE RelayerGoto(p, "patchNumber") /\ UNCHANGED parcel
  /\ UNCHANGED <<minted, carried, told, untrusted, claimLeft, relayFaults>>

(* Everybody is told; nobody, the relay having thrown or found no participant; *)
(* or somebody is not, with or without the source.                             *)
Relay(p) ==
  /\ RelayerAt(p, "relay")
  /\ \/ Told /\ RelayerGoto(p, "clear") /\ UNCHANGED untrusted
     \/ RelayerGoto(p, "release") /\ UNCHANGED <<told, untrusted>>
     \/ RelayerGoto(p, "count") /\ UNCHANGED <<told, untrusted>>
     \/ Told /\ RelayerGoto(p, "count") /\ untrusted' = TRUE
  /\ UNCHANGED <<parcel, minted, carried, claimLeft, relayFaults>>

(* releaseWaybillRelay, or giveUpWaybillRelay, which keeps the claim: the count*)
(* compared is the one read with the row.                                      *)
ReleaseRelay(p) ==
  /\ relayer[p].pc \in {"release", "count"}
  /\ LET givesUp == RelayerAt(p, "count") /\ relayer[p].failures + 1 >= MaxRelayFailures
     IN /\ parcel' = [parcel EXCEPT !.failures = @ + 1, !.relayed = givesUp /\ @]
        /\ RelayerGoto(p, IF givesUp THEN "patchNumber" ELSE "patch")
  /\ UNCHANGED <<minted, carried, told, untrusted, claimLeft, relayFaults>>

ClearFailures(p) ==
  /\ RelayerAt(p, "clear")
  /\ parcel' = [parcel EXCEPT !.failures = 0] /\ RelayerGoto(p, "patchNumber")
  /\ UNCHANGED <<minted, carried, told, untrusted, claimLeft, relayFaults>>

(* The row takes over the status and, unless the relay failed, the number.     *)
PatchRow(p) ==
  /\ relayer[p].pc \in {"patch", "patchNumber"}
  /\ LET w == relayer[p]
     IN parcel' = [parcel EXCEPT !.status = IF w.status = "none" THEN @ ELSE w.status,
                                 !.tracking = @ \/ w.pc = "patchNumber"]
  /\ RelayDone(p)
  /\ UNCHANGED <<minted, carried, told, untrusted, claimLeft, relayFaults>>

-----------------------------------------------------------------------------
(* The carrier mints the waybill; the parcel arrives, is cancelled or lost.    *)
CarrierMoves ==
  /\ \/ ~minted /\ minted' = TRUE /\ UNCHANGED carried
     \/ carried = "moving" /\ carried' \in {"delivered", "cancelled", "failed"} /\ UNCHANGED minted
  /\ UNCHANGED <<parcel, relayer, told, untrusted, claimLeft, relayFaults>>

(* An operator cancels the shipment.                                           *)
CancelShipment ==
  /\ parcel.status \in {"generated", "dispatched"} /\ carried \in {"moving", "cancelled"}
  /\ carried' = "cancelled" /\ parcel' = [parcel EXCEPT !.status = "cancelled"]
  /\ UNCHANGED <<minted, relayer, told, untrusted, claimLeft, relayFaults>>

CrashRelay(p) ==
  /\ ~RelayerAt(p, "idle") /\ RelayFault /\ RelayDone(p)
  /\ \/ RelayerAt(p, "relay") /\ Told
     \/ UNCHANGED told
  /\ claimLeft' = (claimLeft \/ relayer[p].pc \in {"relay", "release", "count", "clear", "patchNumber"})
  /\ untrusted' = (untrusted \/ relayer[p].pc = "markDispatched")
  /\ UNCHANGED <<parcel, minted, carried>>

RelayNext ==
  \/ \E p \in Relays :
       \/ StartNotify(p) \/ Tell(p) \/ MarkDispatched(p) \/ StartTracking(p) \/ ReadTracking(p)
       \/ ClaimRelay(p) \/ Relay(p) \/ ReleaseRelay(p) \/ ClearFailures(p) \/ PatchRow(p) \/ CrashRelay(p)
  \/ CarrierMoves \/ CancelShipment

RelaySpec == RelayInit /\ [][RelayNext]_relayVars

-----------------------------------------------------------------------------
RelayTypeOK ==
  /\ parcel.status \in {"generated", "dispatched", "delivered", "cancelled", "failed"}
  /\ parcel.failures \in Nat /\ told \in Nat
  /\ parcel.tracking => minted
  /\ {untrusted, claimLeft} \subseteq BOOLEAN

(* The source is told a waybill once, by whichever of notification, poll and   *)
(* webhook comes to it first, however they overlap and whoever dies: a notice  *)
(* with a waybill takes no claim, yet no relay follows it.  Excepted are a     *)
(* telling that counted as failed and two notifications at once.               *)
WaybillToldOnce == ~untrusted => told <= 1

(* "failed - somebody could not be told; the claim is released so a later      *)
(* trigger retries."  A number that is on the row is never relayed again.      *)
(* The code does not keep this: README, "What the code does not keep".         *)
UntoldIsRetried ==
  (\A p \in Relays : RelayerAt(p, "idle")) /\ ~claimLeft =>
    (parcel.status = "dispatched" /\ parcel.tracking /\ ~parcel.relayed => told > 0)
=============================================================================
