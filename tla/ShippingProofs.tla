---------------------------- MODULE ShippingProofs ----------------------------
(* Theorems about the fulfilment of one order, for any number of requests, rows,*)
(* labels and faults: OrderHold (a hold stops every label), WaybillRelay (the   *)
(* buyer is told a waybill once), ShipmentLabel (one parcel is on the way) and  *)
(* RoutingCommit (one set of works).                                            *)
EXTENDS OrderHold, ShipmentLabel, WaybillRelay, RoutingCommit, FiniteSetTheorems, SequenceTheorems, TLAPS

(* The hold.                                                                    *)
HoldRows == [id : Nat, reason : Reasons \cup {NoReason}]
ActorPcs == {"idle", "project", "probe", "unprobe", "release", "clear", "gate", "buyLabel", "endDispatch"}

(* Ids are given once, so a hold that is open now is not one that was probed    *)
(* for before it was placed.                                                    *)
HoldRowsOK ==
  /\ hold \in HoldRows /\ holds \in Nat
  /\ actor \in [HoldProcs -> [pc : ActorPcs, hold : HoldRows]]
  /\ repair \in [pc : {"idle", "repair"}, expected : Reasons \cup {NoReason}, projected : Reasons \cup {NoReason}]
IdsKnown ==
  /\ hold.id <= holds
  /\ \A p \in HoldProcs : actor[p].hold.id <= holds
  /\ \A p \in HoldProcs : actor[p].pc \in {"project", "probe", "unprobe"} => actor[p].hold.id >= 1

(* A dispatch that was not slow has the lock.                                   *)
DispatchLocked == ~dispatchSlow => \A p \in HoldProcs : Dispatches(p) => dispatchLock = p

(* Whoever is about to buy found no hold: one placed since has not been told    *)
(* that there is no dispatch, nor is it about to be.                            *)
BuysUnprobed ==
  ~dispatchSlow => \A p \in HoldProcs : actor[p].pc = "buyLabel" =>
    /\ hold.id \notin clear
    /\ \A q \in HoldProcs : actor[q].pc = "unprobe" => actor[q].hold.id # hold.id

HoldInv ==
  /\ HoldTypeOK /\ HoldRowsOK /\ IdsKnown /\ DispatchLocked /\ BuysUnprobed
  /\ ClearHoldShipsNothing

(* No hold, no request.                                                      *)
LEMMA HoldInitInv == HoldInit => HoldInv
<1> SUFFICES ASSUME HoldInit PROVE HoldInv
  OBVIOUS
<1> USE HoldAssumption DEF HoldInit
<1>1. HoldRowsOK
  BY DEF HoldRowsOK, HoldRows, ActorPcs, NotHeld, NoActor, NoRepair
<1>2. HoldTypeOK
  <2>1. shippedHeld \in BOOLEAN /\ dispatchSlow \in BOOLEAN
    OBVIOUS
  <2>2. hold = NotHeld /\ clear = {} /\ holdFaults \in 0..MaxHoldFaults
    OBVIOUS
  <2> QED BY <2>1, <2>2 DEF HoldTypeOK
<1>3. IdsKnown /\ DispatchLocked /\ BuysUnprobed /\ ClearHoldShipsNothing
  BY DEF IdsKnown, DispatchLocked, BuysUnprobed, ClearHoldShipsNothing, NotHeld, NoActor, Dispatches
<1> QED BY <1>1, <1>2, <1>3 DEF HoldInv

(* Every step keeps the dispatch and the hold apart.                         *)
LEMMA HoldStepInv == HoldInv /\ [HoldNext]_holdVars => HoldInv'
<1> SUFFICES ASSUME HoldInv, [HoldNext]_holdVars PROVE HoldInv'
  OBVIOUS
<1> USE HoldAssumption DEF HoldInv, HoldTypeOK, HoldRowsOK, HoldRows, ActorPcs, IdsKnown, DispatchLocked,
        BuysUnprobed, ClearHoldShipsNothing, Dispatches, ActorAt, ActorGoto, ActorDone, HoldFault,
        NoHoldFault, NotHeld, NoActor, dispatchHistory
<1>1. ASSUME NEW p \in HoldProcs, PlaceHold(p) PROVE HoldInv'
  BY <1>1 DEF PlaceHold
<1>2. ASSUME NEW p \in HoldProcs, ProjectHold(p) PROVE HoldInv'
  BY <1>2 DEF ProjectHold
<1>3. ASSUME NEW p \in HoldProcs, ProbeDispatch(p) PROVE HoldInv'
  <2>1. shippedHeld' \in BOOLEAN /\ dispatchSlow' \in BOOLEAN /\ holdFaults' \in 0..MaxHoldFaults
    <3>1. holdFaults' \in 0..MaxHoldFaults
      BY <1>3 DEF ProbeDispatch
    <3>2. shippedHeld' = shippedHeld /\ (dispatchSlow' = dispatchSlow \/ dispatchSlow' = TRUE)
      BY <1>3 DEF ProbeDispatch
    <3> QED BY <3>1, <3>2
  <2>2. HoldTypeOK' /\ HoldRowsOK' /\ IdsKnown'
    BY SMTT(30), <1>3, <2>1 DEF ProbeDispatch
  <2>3. DispatchLocked' /\ ClearHoldShipsNothing'
    BY <1>3 DEF ProbeDispatch
  <2>4. BuysUnprobed'
    <3>1. CASE dispatchSlow' = TRUE
      BY <3>1
    <3>2. CASE dispatchSlow' = dispatchSlow /\ ActorDone(p)
      BY <1>3, <3>2 DEF ProbeDispatch
    <3>3. CASE dispatchLock = NoHoldProc /\ dispatchSlow' = dispatchSlow /\ ActorGoto(p, "unprobe")
      BY <1>3, <3>3 DEF ProbeDispatch
    <3> QED BY <1>3, <3>1, <3>2, <3>3 DEF ProbeDispatch
  <2> HIDE DEF HoldTypeOK, HoldRowsOK, IdsKnown, DispatchLocked, BuysUnprobed, ClearHoldShipsNothing
  <2> QED BY <2>2, <2>3, <2>4
<1>4. ASSUME NEW p \in HoldProcs, EndProbe(p) PROVE HoldInv'
  <2>1. HoldTypeOK' /\ HoldRowsOK' /\ IdsKnown'
    <3>1. actor[p].hold.id \in 1..holds
      BY <1>4 DEF EndProbe
    <3>2. dispatchLock' \in HoldProcs \cup {NoHoldProc}
      BY <1>4 DEF EndProbe
    <3>3. shippedHeld' \in BOOLEAN /\ dispatchSlow' \in BOOLEAN
      BY <1>4 DEF EndProbe
    <3>4. HoldRowsOK' /\ IdsKnown'
      BY <1>4 DEF EndProbe
    <3> QED BY <1>4, <3>1, <3>2, <3>3, <3>4 DEF EndProbe
  <2>2. DispatchLocked'
    BY <1>4 DEF EndProbe
  <2>3. BuysUnprobed' /\ ClearHoldShipsNothing'
    BY <1>4 DEF EndProbe
  <2> HIDE DEF HoldTypeOK, HoldRowsOK, IdsKnown, DispatchLocked, BuysUnprobed, ClearHoldShipsNothing
  <2> QED BY <2>1, <2>2, <2>3
<1>5. ASSUME NEW p \in HoldProcs, StartRelease(p) PROVE HoldInv'
  BY <1>5 DEF StartRelease
<1>6. ASSUME NEW p \in HoldProcs, ReleaseHeld(p) PROVE HoldInv'
  <2>1. HoldTypeOK' /\ HoldRowsOK' /\ IdsKnown'
    BY <1>6 DEF ReleaseHeld
  <2>2. DispatchLocked'
    BY SMTT(30), <1>6 DEF ReleaseHeld
  <2>3. BuysUnprobed' /\ ClearHoldShipsNothing'
    BY SMTT(30), <1>6 DEF ReleaseHeld
  <2> HIDE DEF HoldTypeOK, HoldRowsOK, IdsKnown, DispatchLocked, BuysUnprobed, ClearHoldShipsNothing
  <2> QED BY <2>1, <2>2, <2>3
<1>7. ASSUME NEW p \in HoldProcs, ClearBadge(p) PROVE HoldInv'
  BY <1>7 DEF ClearBadge
<1>8. ASSUME NEW p \in HoldProcs, StartHeldDispatch(p) PROVE HoldInv'
  BY <1>8 DEF StartHeldDispatch
<1>9. ASSUME NEW p \in HoldProcs, PassHoldGate(p) PROVE HoldInv'
  BY <1>9 DEF PassHoldGate, HoldGate
<1>10. ASSUME NEW p \in HoldProcs, BuyUnheld(p) PROVE HoldInv'
  BY <1>10 DEF BuyUnheld
<1>11. ASSUME NEW p \in HoldProcs, EndDispatch(p) PROVE HoldInv'
  BY <1>11 DEF EndDispatch
<1>12. ASSUME NEW p \in HoldProcs, CrashHolder(p) PROVE HoldInv'
  BY <1>12 DEF CrashHolder
<1>13. CASE ReadDivergence
  BY <1>13 DEF ReadDivergence, NoRepair
<1>14. CASE RepairBadge
  BY <1>14 DEF RepairBadge, NoRepair
<1>15. CASE DispatchLockExpires
  <2>1. HoldTypeOK' /\ HoldRowsOK' /\ IdsKnown'
    <3>1. holdFaults' \in 0..MaxHoldFaults
      BY <1>15 DEF DispatchLockExpires
    <3>2. shippedHeld' \in BOOLEAN /\ dispatchSlow' \in BOOLEAN
      BY <1>15 DEF DispatchLockExpires
    <3> QED BY <1>15, <3>1, <3>2 DEF DispatchLockExpires
  <2>2. DispatchLocked'
    BY <1>15 DEF DispatchLockExpires
  <2>3. BuysUnprobed' /\ ClearHoldShipsNothing'
    BY <1>15 DEF DispatchLockExpires
  <2> HIDE DEF HoldTypeOK, HoldRowsOK, IdsKnown, DispatchLocked, BuysUnprobed, ClearHoldShipsNothing
  <2> QED BY <2>1, <2>2, <2>3
<1>16. CASE UNCHANGED holdVars
  BY <1>16 DEF holdVars
<1> QED
  BY <1>1, <1>2, <1>3, <1>4, <1>5, <1>6, <1>7, <1>8, <1>9, <1>10, <1>11, <1>12, <1>13, <1>14,
     <1>15, <1>16 DEF HoldNext, HoldWork

(* However requests, dispatches and locks that end meet: an order whose hold    *)
(* was placed with "no dispatch in flight" gets no label while it is held,      *)
(* unless a dispatch outlived its lock or the probe itself failed.              *)
THEOREM HeldOrderShipsNothing == HoldSpec => []ClearHoldShipsNothing
<1>1. HoldInv => ClearHoldShipsNothing
  BY DEF HoldInv
<1> QED BY <1>1, HoldInitInv, HoldStepInv, PTL DEF HoldSpec

(* Holds, requests and flags are of their types: a hold that is open was placed.*)
THEOREM HoldTypeCorrect == HoldSpec => []HoldTypeOK
<1>1. HoldInv => HoldTypeOK
  BY DEF HoldInv
<1> QED BY <1>1, HoldInitInv, HoldStepInv, PTL DEF HoldSpec

-----------------------------------------------------------------------------
(* The waybill.                                                                 *)
RelayPcs == {"idle", "tell", "markDispatched", "track", "claim", "relay", "release", "count", "clear",
             "patch", "patchNumber"}
ShipStatus == {"generated", "dispatched", "delivered", "cancelled", "failed"}

Parcels == [status : ShipStatus, tracking : BOOLEAN, relayed : BOOLEAN, failures : Nat]
RelayerRecords ==
  [pc : RelayPcs, seen : ShipStatus \cup {"none"}, tracking : BOOLEAN, failures : Nat,
   status : (ShipStatus \ {"generated"}) \cup {"none"}]
RelayersOK ==
  /\ parcel \in Parcels /\ relayer \in [Relays -> RelayerRecords]
  /\ minted \in BOOLEAN /\ untrusted \in BOOLEAN /\ claimLeft \in BOOLEAN /\ told \in Nat
  /\ carried \in {"moving", "delivered", "cancelled", "failed"}

(* Who has a waybill to tell knows it from the row, or from the carrier.        *)
Relaying(p) == relayer[p].pc \in {"claim", "relay", "release", "count", "clear"}
WaybillKnown ==
  /\ parcel.tracking => minted
  /\ \A p \in Relays : /\ Relaying(p) \/ RelayerAt(p, "patchNumber") => minted
                       /\ RelayerAt(p, "tell") /\ relayer[p].tracking => parcel.tracking

(* The claim is one process's until it is told or released.                     *)
Claims(p) == relayer[p].pc \in {"relay", "release", "count"}
ClaimIsOnes ==
  \A p \in Relays : Claims(p) => parcel.relayed /\ \A q \in Relays : Claims(q) => q = p

(* Nobody relays for a row that was not dispatched yet, and nobody is about to. *)
MayRelay(p) == Relaying(p) \/ (RelayerAt(p, "track") /\ relayer[p].seen = "dispatched")
NotDispatched ==
  parcel.status = "generated" =>
    /\ ~parcel.relayed /\ \A p \in Relays : ~MayRelay(p)
    /\ told > 0 /\ ~untrusted => \E p \in Relays : RelayerAt(p, "markDispatched")

(* A notice told the waybill: it is on the row, so nobody finds it new.         *)
ToldByNotice ==
  ~untrusted /\ told > 0 /\ ~parcel.relayed =>
    /\ told = 1 /\ parcel.tracking
    /\ \A p \in Relays : MayRelay(p) => RelayerAt(p, "track") /\ relayer[p].tracking

(* A relay told it, or is still to: it has the claim.                           *)
ToldByRelay ==
  ~untrusted /\ parcel.relayed => told = 0 \/ (told = 1 /\ \A p \in Relays : ~Claims(p))

RelayInv ==
  /\ RelayersOK /\ WaybillKnown /\ ClaimIsOnes /\ NotDispatched /\ ToldByNotice /\ ToldByRelay

(* A parcel that was just generated.                                         *)
LEMMA RelayInitInv == RelayInit => RelayInv
<1> SUFFICES ASSUME RelayInit PROVE RelayInv
  OBVIOUS
<1> USE RelayAssumption DEF RelayInit, IdleRelayer
<1>1. RelayersOK
  BY DEF RelayersOK, RelayPcs, ShipStatus, Parcels, RelayerRecords
<1>2. WaybillKnown /\ ClaimIsOnes /\ NotDispatched /\ ToldByNotice /\ ToldByRelay
  BY DEF WaybillKnown, ClaimIsOnes, NotDispatched, ToldByNotice, ToldByRelay, Relaying, Claims, MayRelay,
     RelayerAt
<1> QED BY <1>1, <1>2 DEF RelayInv

(* The records of the requests, and what a step makes of them.                  *)
LEMMA RelayerRecordMoves ==
  /\ IdleRelayer \in RelayerRecords
  /\ \A r \in RelayerRecords, pc \in RelayPcs : [r EXCEPT !.pc = pc] \in RelayerRecords
BY DEF IdleRelayer, RelayerRecords, RelayPcs, ShipStatus

(* Every step keeps the records typed.                                       *)
LEMMA RelayTypesStep == RelayInv /\ [RelayNext]_relayVars => RelayersOK'
<1> SUFFICES ASSUME RelayersOK, [RelayNext]_relayVars PROVE RelayersOK'
  BY DEF RelayInv
<1> DEFINE Rest == /\ minted \in BOOLEAN /\ untrusted \in BOOLEAN /\ claimLeft \in BOOLEAN /\ told \in Nat
                   /\ carried \in {"moving", "delivered", "cancelled", "failed"}
<1>a. parcel \in Parcels /\ relayer \in [Relays -> RelayerRecords] /\ Rest
  BY DEF RelayersOK
<1>b. ASSUME parcel' \in Parcels, relayer' \in [Relays -> RelayerRecords], Rest' PROVE RelayersOK'
  BY <1>b DEF RelayersOK
<1>c. ASSUME NEW p \in Relays, NEW pc \in RelayPcs
      PROVE /\ [relayer EXCEPT ![p].pc = pc] \in [Relays -> RelayerRecords]
            /\ [relayer EXCEPT ![p] = IdleRelayer] \in [Relays -> RelayerRecords]
  BY <1>a, RelayerRecordMoves
<1>d. ASSUME NEW p \in Relays, NEW r \in RelayerRecords PROVE [relayer EXCEPT ![p] = r] \in [Relays -> RelayerRecords]
  BY <1>a
<1>1. ASSUME NEW p \in Relays, StartNotify(p) PROVE RelayersOK'
  <2> DEFINE r == [IdleRelayer EXCEPT !.pc = "tell", !.tracking = parcel.tracking]
  <2>1. r \in RelayerRecords
    BY <1>a DEF RelayerRecords, RelayPcs, ShipStatus, IdleRelayer, Parcels
  <2>2. relayer' = [relayer EXCEPT ![p] = r] /\ UNCHANGED <<parcel, minted, carried, told, untrusted, claimLeft>>
    BY <1>1 DEF StartNotify
  <2> QED BY <2>1, <2>2, <1>a, <1>b, <1>d
<1>2. ASSUME NEW p \in Relays, Tell(p) PROVE RelayersOK'
  <2>1. parcel' \in Parcels
    BY <1>2, <1>a DEF Tell, RelayerAt, Parcels, RelayerRecords, ShipStatus
  <2>2. relayer' \in [Relays -> RelayerRecords]
    <3>1. (\E pc \in {"markDispatched"} : RelayerGoto(p, pc)) \/ RelayDone(p)
      BY <1>2 DEF Tell
    <3>2. ASSUME NEW pc \in RelayPcs, RelayerGoto(p, pc) PROVE relayer' \in [Relays -> RelayerRecords]
      BY <3>2, <1>c DEF RelayerGoto
    <3>3. RelayDone(p) => relayer' \in [Relays -> RelayerRecords]
      BY <1>d, RelayerRecordMoves DEF RelayDone
    <3> QED BY <3>1, <3>2, <3>3 DEF RelayPcs
  <2>3. Rest'
    <3>1. /\ UNCHANGED <<parcel, minted, carried, claimLeft>> /\ (told' = told + 1 \/ told' = told)
          /\ \/ untrusted' = (untrusted \/ Overlaps(p))
             \/ untrusted' = TRUE \/ untrusted' = untrusted
      BY <1>2 DEF Tell, Told
    <3>2. told' \in Nat
      BY <3>1, <1>a, SMT
    <3>3. untrusted' \in BOOLEAN
      BY <3>1, <1>a, Zenon
    <3> QED BY <3>1, <3>2, <3>3, <1>a, Zenon
  <2> QED BY <2>1, <2>2, <2>3, <1>b
<1>3. ASSUME NEW p \in Relays, MarkDispatched(p) PROVE RelayersOK'
  <2>1. parcel' \in Parcels
    BY <1>3, <1>a DEF MarkDispatched, RelayerAt, Parcels, RelayerRecords, ShipStatus
  <2>2. relayer' \in [Relays -> RelayerRecords]
    BY <1>3, <1>c DEF MarkDispatched, RelayDone, RelayerGoto, RelayerAt, Told, RelayPcs
  <2>3. Rest'
    BY <1>3, <1>a DEF MarkDispatched, Told, RelayerGoto, RelayDone, RelayerAt, RelayFault, Overlaps
  <2> QED BY <2>1, <2>2, <2>3, <1>b
<1>4. ASSUME NEW p \in Relays, StartTracking(p) PROVE RelayersOK'
  <2> DEFINE r == [IdleRelayer EXCEPT !.pc = "track", !.seen = parcel.status,
                                         !.tracking = parcel.tracking, !.failures = parcel.failures]
  <2>1. r \in RelayerRecords
    BY <1>a DEF RelayerRecords, RelayPcs, ShipStatus, IdleRelayer, Parcels
  <2>2. relayer' = [relayer EXCEPT ![p] = r] /\ UNCHANGED <<parcel, minted, carried, told, untrusted, claimLeft>>
    BY <1>4 DEF StartTracking
  <2> QED BY <2>1, <2>2, <1>a, <1>b, <1>d
<1>5. ASSUME NEW p \in Relays, ReadTracking(p) PROVE RelayersOK'
  <2> DEFINE w == relayer[p]
             status == IF carried \in {"moving", w.seen} THEN "none" ELSE carried
             r(pc) == [IdleRelayer EXCEPT !.pc = pc, !.status = status, !.failures = IF pc = "claim" THEN w.failures ELSE 0]
  <2>1. r("claim") \in RelayerRecords /\ r("patchNumber") \in RelayerRecords /\ r("patch") \in RelayerRecords
    <3>1. w.failures \in Nat /\ status \in (ShipStatus \ {"generated"}) \cup {"none"}
      BY <1>a DEF RelayerRecords, ShipStatus
    <3> HIDE DEF status, w
    <3> QED BY <3>1 DEF RelayerRecords, RelayPcs, ShipStatus, IdleRelayer
  <2>2. \/ \E pc \in {"claim", "patchNumber", "patch"} : relayer' = [relayer EXCEPT ![p] = r(pc)]
        \/ relayer' = [relayer EXCEPT ![p] = IdleRelayer]
    BY <1>5 DEF ReadTracking, RelayDone
  <2>3. UNCHANGED <<parcel, minted, carried, told, untrusted, claimLeft>>
    BY <1>5 DEF ReadTracking
  <2> HIDE DEF r
  <2>4. relayer' \in [Relays -> RelayerRecords]
    BY <2>1, <2>2, <1>d, RelayerRecordMoves
  <2> QED BY <2>3, <2>4, <1>a, <1>b
<1>6. ASSUME NEW p \in Relays, ClaimRelay(p) PROVE RelayersOK'
  <2>1. parcel' \in Parcels
    BY <1>6, <1>a DEF ClaimRelay, RelayerAt, Parcels, RelayerRecords, ShipStatus
  <2>2. relayer' \in [Relays -> RelayerRecords]
    <3>1. (\E pc \in {"relay", "patchNumber"} : RelayerGoto(p, pc))
      BY <1>6 DEF ClaimRelay
    <3>2. ASSUME NEW pc \in RelayPcs, RelayerGoto(p, pc) PROVE relayer' \in [Relays -> RelayerRecords]
      BY <3>2, <1>c DEF RelayerGoto
    <3>3. RelayDone(p) => relayer' \in [Relays -> RelayerRecords]
      BY <1>d, RelayerRecordMoves DEF RelayDone
    <3> QED BY <3>1, <3>2, <3>3 DEF RelayPcs
  <2>3. Rest'
    BY <1>6, <1>a DEF ClaimRelay, Told, RelayerGoto, RelayDone, RelayerAt, RelayFault, Overlaps
  <2> QED BY <2>1, <2>2, <2>3, <1>b
<1>7. ASSUME NEW p \in Relays, Relay(p) PROVE RelayersOK'
  <2>1. parcel' \in Parcels
    BY <1>7, <1>a DEF Relay, RelayerAt, Parcels, RelayerRecords, ShipStatus
  <2>2. relayer' \in [Relays -> RelayerRecords]
    <3>1. (\E pc \in {"clear", "release", "count"} : RelayerGoto(p, pc))
      BY <1>7 DEF Relay
    <3>2. ASSUME NEW pc \in RelayPcs, RelayerGoto(p, pc) PROVE relayer' \in [Relays -> RelayerRecords]
      BY <3>2, <1>c DEF RelayerGoto
    <3>3. RelayDone(p) => relayer' \in [Relays -> RelayerRecords]
      BY <1>d, RelayerRecordMoves DEF RelayDone
    <3> QED BY <3>1, <3>2, <3>3 DEF RelayPcs
  <2>3. Rest'
    <3>1. /\ UNCHANGED <<parcel, minted, carried, claimLeft>> /\ (told' = told + 1 \/ told' = told)
          /\ (untrusted' = TRUE \/ untrusted' = untrusted)
      BY <1>7 DEF Relay, Told
    <3>2. told' \in Nat
      BY <3>1, <1>a, SMT
    <3>3. untrusted' \in BOOLEAN
      BY <3>1, <1>a, Zenon
    <3> QED BY <3>1, <3>2, <3>3, <1>a, Zenon
  <2> QED BY <2>1, <2>2, <2>3, <1>b
<1>8. ASSUME NEW p \in Relays, ReleaseRelay(p) PROVE RelayersOK'
  <2>1. parcel' \in Parcels
    <3>1. \E b \in BOOLEAN : parcel' = [parcel EXCEPT !.failures = @ + 1, !.relayed = b]
      <4>1. PICK b : parcel' = [parcel EXCEPT !.failures = @ + 1, !.relayed = b /\ @]
        BY <1>8 DEF ReleaseRelay
      <4> WITNESS (b /\ parcel.relayed) \in BOOLEAN
      <4> QED BY <4>1
    <3>2. PICK b \in BOOLEAN : parcel' = [parcel EXCEPT !.failures = @ + 1, !.relayed = b]
      BY <3>1
    <3>3. parcel.failures + 1 \in Nat
      BY <1>a DEF Parcels
    <3> QED BY <3>2, <3>3, <1>a DEF Parcels
  <2>2. relayer' \in [Relays -> RelayerRecords]
    BY <1>8, <1>c DEF ReleaseRelay, RelayDone, RelayerGoto, RelayerAt, Told, RelayPcs
  <2>3. Rest'
    BY <1>8, <1>a DEF ReleaseRelay, Told, RelayerGoto, RelayDone, RelayerAt, RelayFault, Overlaps
  <2> QED BY <2>1, <2>2, <2>3, <1>b
<1>9. ASSUME NEW p \in Relays, ClearFailures(p) PROVE RelayersOK'
  <2>1. parcel' \in Parcels
    BY <1>9, <1>a DEF ClearFailures, RelayerAt, Parcels, RelayerRecords, ShipStatus
  <2>2. relayer' \in [Relays -> RelayerRecords]
    BY <1>9, <1>c DEF ClearFailures, RelayDone, RelayerGoto, RelayerAt, Told, RelayPcs
  <2>3. Rest'
    BY <1>9, <1>a DEF ClearFailures, Told, RelayerGoto, RelayDone, RelayerAt, RelayFault, Overlaps
  <2> QED BY <2>1, <2>2, <2>3, <1>b
<1>10. ASSUME NEW p \in Relays, PatchRow(p) PROVE RelayersOK'
  <2>1. parcel' \in Parcels
    BY <1>10, <1>a DEF PatchRow, RelayerAt, Parcels, RelayerRecords, ShipStatus
  <2>2. relayer' \in [Relays -> RelayerRecords]
    BY <1>10, <1>c DEF PatchRow, RelayDone, RelayerGoto, RelayerAt, Told, RelayPcs
  <2>3. Rest'
    BY <1>10, <1>a DEF PatchRow, Told, RelayerGoto, RelayDone, RelayerAt, RelayFault, Overlaps
  <2> QED BY <2>1, <2>2, <2>3, <1>b
<1>11. ASSUME NEW p \in Relays, CrashRelay(p) PROVE RelayersOK'
  <2>1. parcel' \in Parcels
    BY <1>11, <1>a DEF CrashRelay, RelayerAt, Parcels, RelayerRecords, ShipStatus
  <2>2. relayer' \in [Relays -> RelayerRecords]
    BY <1>11, <1>c DEF CrashRelay, RelayDone, RelayerGoto, RelayerAt, Told, RelayPcs
  <2>3. Rest'
    BY <1>11, <1>a DEF CrashRelay, Told, RelayerGoto, RelayDone, RelayerAt, RelayFault, Overlaps
  <2> QED BY <2>1, <2>2, <2>3, <1>b
<1>12. CASE CarrierMoves
  BY <1>12, <1>a, <1>b DEF CarrierMoves
<1>13. CASE CancelShipment
  BY <1>13, <1>a, <1>b DEF CancelShipment, Parcels, ShipStatus
<1>14. CASE UNCHANGED relayVars
  BY <1>14, <1>a, <1>b DEF relayVars
<1> QED BY <1>1, <1>2, <1>3, <1>4, <1>5, <1>6, <1>7, <1>8, <1>9, <1>10, <1>11, <1>12, <1>13, <1>14 DEF RelayNext

(* Every step keeps the claim and what was told in agreement.                *)
LEMMA RelayStepInv == RelayInv /\ [RelayNext]_relayVars => RelayInv'
<1> SUFFICES ASSUME RelayInv, [RelayNext]_relayVars PROVE RelayInv'
  OBVIOUS
<1>0. RelayersOK'
  BY RelayTypesStep
<1> USE RelayAssumption DEF RelayInv, RelayersOK, RelayPcs, ShipStatus, Parcels, RelayerRecords, RelayerAt, RelayerGoto,
        RelayDone, IdleRelayer, Told, WaybillKnown, ClaimIsOnes, NotDispatched, ToldByNotice, ToldByRelay, Relaying,
        Claims, MayRelay
<1>1. ASSUME NEW p \in Relays, StartNotify(p) PROVE RelayInv'
  <2>0. \A q \in Relays \ {p} : relayer'[q] = relayer[q]
    BY <1>1 DEF StartNotify
  <2>1. WaybillKnown'
    BY <1>1, <1>0 DEF StartNotify
  <2>2. ClaimIsOnes'
    BY <1>1, <1>0 DEF StartNotify
  <2>3. NotDispatched'
    BY <1>1, <1>0 DEF StartNotify
  <2>4. ToldByNotice'
    BY <1>1, <1>0 DEF StartNotify
  <2>5. ToldByRelay'
    BY <1>1, <1>0 DEF StartNotify
  <2> QED BY <1>0, <2>1, <2>2, <2>3, <2>4, <2>5
<1>2. ASSUME NEW p \in Relays, Tell(p) PROVE RelayInv'
  <2>0. \A q \in Relays \ {p} : relayer'[q] = relayer[q]
    BY <1>2 DEF Tell
  <2>a. /\ relayer[p].pc = "tell" /\ UNCHANGED <<parcel, minted, carried, claimLeft>>
        /\ \/ told' = IF relayer[p].tracking THEN told + 1 ELSE told
           \/ told' = told /\ relayer'[p].pc = "idle"
        /\ \/ relayer'[p].pc = "markDispatched" /\ (~untrusted' => ~untrusted /\ ~Overlaps(p))
           \/ relayer'[p].pc = "idle" /\ UNCHANGED <<told, untrusted>>
           \/ relayer'[p].pc = "idle" /\ untrusted'
    <3>0. /\ relayer[p].pc = "tell" /\ UNCHANGED <<parcel, minted, carried, claimLeft>>
          /\ \/ told' = IF relayer[p].tracking THEN told + 1 ELSE told
             \/ RelayDone(p) /\ told' = told
      <4>1. CASE relayer[p].tracking
        BY <1>2, <4>1 DEF Tell
      <4>2. CASE ~relayer[p].tracking
        BY <1>2, <4>2 DEF Tell
      <4> QED BY <4>1, <4>2
    <3>1. CASE RelayerGoto(p, "markDispatched") /\ untrusted' = (untrusted \/ Overlaps(p))
      <4>1. relayer'[p].pc = "markDispatched"
        BY <3>1
      <4>2. ~untrusted' => ~untrusted /\ ~Overlaps(p)
        BY <3>1, Zenon
      <4>3. ~RelayDone(p)
        BY <4>1
      <4>4. told' = IF relayer[p].tracking THEN told + 1 ELSE told
        BY <3>0, <4>3
      <4> QED BY <3>0, <4>1, <4>2, <4>4, Zenon
    <3>2. CASE RelayDone(p) /\ UNCHANGED <<told, untrusted>>
      BY <3>0, <3>2
    <3>3. CASE RelayDone(p) /\ untrusted' = TRUE
      BY <3>0, <3>3
    <3> QED BY <1>2, <3>1, <3>2, <3>3 DEF Tell
  <2>1. WaybillKnown'
    BY <1>0, <2>0, <2>a
  <2>2. ClaimIsOnes'
    BY <1>0, <2>0, <2>a
  <2>3. NotDispatched'
    BY <1>0, <2>0, <2>a
  <2>b. ~untrusted' => ~untrusted /\ (relayer'[p].pc = "markDispatched" \/ (relayer'[p].pc = "idle" /\ told' = told))
    BY <1>0, <2>a
  <2>c. ~untrusted' /\ relayer'[p].pc = "markDispatched" =>
          told = 0 /\ parcel.status = "generated" /\ ~parcel.relayed /\ \A q \in Relays : ~MayRelay(q)
    BY <2>a DEF Overlaps
  <2>d. ~untrusted' /\ relayer'[p].pc = "markDispatched" => told' = 0 \/ (told' = 1 /\ parcel.tracking)
    BY <2>a, <2>c
  <2>e. \A q \in Relays : (MayRelay(q)' => MayRelay(q) /\ relayer'[q] = relayer[q]) /\ (Claims(q)' => Claims(q))
    BY <2>0, <2>a
  <2>4. ToldByNotice'
    BY <1>0, <2>a, <2>b, <2>c, <2>d, <2>e
  <2>5. ToldByRelay'
    BY <1>0, <2>a, <2>b, <2>c, <2>d, <2>e
  <2> QED BY <1>0, <2>1, <2>2, <2>3, <2>4, <2>5
<1>3. ASSUME NEW p \in Relays, MarkDispatched(p) PROVE RelayInv'
  <2>0. \A q \in Relays \ {p} : relayer'[q] = relayer[q]
    BY <1>3 DEF MarkDispatched
  <2>1. WaybillKnown'
    BY <1>3, <1>0 DEF MarkDispatched
  <2>2. ClaimIsOnes'
    BY <1>3, <1>0 DEF MarkDispatched
  <2>3. NotDispatched'
    BY <1>3, <1>0 DEF MarkDispatched
  <2>4. ToldByNotice'
    BY <1>3, <1>0 DEF MarkDispatched
  <2>5. ToldByRelay'
    BY <1>3, <1>0 DEF MarkDispatched
  <2> QED BY <1>0, <2>1, <2>2, <2>3, <2>4, <2>5
<1>4. ASSUME NEW p \in Relays, StartTracking(p) PROVE RelayInv'
  <2>0. \A q \in Relays \ {p} : relayer'[q] = relayer[q]
    BY <1>4 DEF StartTracking
  <2>1. WaybillKnown'
    BY <1>4, <1>0 DEF StartTracking
  <2>2. ClaimIsOnes'
    BY <1>4, <1>0 DEF StartTracking
  <2>3. NotDispatched'
    BY <1>4, <1>0 DEF StartTracking
  <2>4. ToldByNotice'
    BY <1>4, <1>0 DEF StartTracking
  <2>5. ToldByRelay'
    BY <1>4, <1>0 DEF StartTracking
  <2> QED BY <1>0, <2>1, <2>2, <2>3, <2>4, <2>5
<1>5. ASSUME NEW p \in Relays, ReadTracking(p) PROVE RelayInv'
  <2>0. \A q \in Relays \ {p} : relayer'[q] = relayer[q]
    BY <1>5 DEF ReadTracking
  <2>a. /\ relayer[p].pc = "track" /\ relayer'[p].pc \in {"claim", "patchNumber", "patch", "idle"}
        /\ relayer'[p].pc \in {"claim", "patchNumber"} => minted /\ ~relayer[p].tracking
        /\ relayer'[p].pc = "claim" => relayer[p].seen = "dispatched"
        /\ UNCHANGED <<parcel, minted, carried, told, untrusted, claimLeft>>
    <3> DEFINE w == relayer[p]
               status == IF carried \in {"moving", w.seen} THEN "none" ELSE carried
               r(pc) == [IdleRelayer EXCEPT !.pc = pc, !.status = status, !.failures = IF pc = "claim" THEN w.failures ELSE 0]
    <3>1. \/ relayer' = [relayer EXCEPT ![p] = r("claim")] /\ minted /\ ~w.tracking /\ w.seen = "dispatched"
          \/ relayer' = [relayer EXCEPT ![p] = r("patchNumber")] /\ minted /\ ~w.tracking
          \/ relayer' = [relayer EXCEPT ![p] = r("patch")]
          \/ RelayDone(p)
      BY <1>5 DEF ReadTracking
    <3>2. r("claim").pc = "claim" /\ r("patchNumber").pc = "patchNumber" /\ r("patch").pc = "patch"
      OBVIOUS
    <3>3. UNCHANGED <<parcel, minted, carried, told, untrusted, claimLeft>> /\ relayer[p].pc = "track"
      BY <1>5 DEF ReadTracking
    <3> HIDE DEF r
    <3> QED BY <3>1, <3>2, <3>3
  <2>1. WaybillKnown'
    BY <1>0, <2>0, <2>a
  <2>2. ClaimIsOnes'
    BY <1>0, <2>0, <2>a
  <2>3. NotDispatched'
    BY <1>0, <2>0, <2>a
  <2>4. ToldByNotice'
    BY <1>0, <2>0, <2>a
  <2>5. ToldByRelay'
    BY <1>0, <2>0, <2>a
  <2> QED BY <1>0, <2>1, <2>2, <2>3, <2>4, <2>5
<1>6. ASSUME NEW p \in Relays, ClaimRelay(p) PROVE RelayInv'
  <2>0. \A q \in Relays \ {p} : relayer'[q] = relayer[q]
    BY <1>6 DEF ClaimRelay
  <2>a. /\ relayer[p].pc = "claim" /\ UNCHANGED <<minted, carried, told, untrusted, claimLeft>>
        /\ \/ relayer'[p].pc = "relay" /\ ~parcel.relayed /\ parcel' = [parcel EXCEPT !.relayed = TRUE]
           \/ relayer'[p].pc = "patchNumber" /\ UNCHANGED parcel
    BY <1>6 DEF ClaimRelay, ClaimsRelay
  <2>1. WaybillKnown'
    BY <1>0, <2>0, <2>a
  <2>2. ClaimIsOnes'
    BY <1>0, <2>0, <2>a
  <2>3. NotDispatched'
    BY <1>0, <2>0, <2>a
  <2>4. ToldByNotice'
    BY <1>0, <2>0, <2>a
  <2>5. ToldByRelay'
    BY <1>0, <2>0, <2>a
  <2> QED BY <1>0, <2>1, <2>2, <2>3, <2>4, <2>5
<1>7. ASSUME NEW p \in Relays, Relay(p) PROVE RelayInv'
  <2>0. \A q \in Relays \ {p} : relayer'[q] = relayer[q]
    BY <1>7 DEF Relay
  <2>1. WaybillKnown'
    BY <1>7, <1>0 DEF Relay
  <2>2. ClaimIsOnes'
    BY <1>7, <1>0 DEF Relay
  <2>3. NotDispatched'
    BY <1>7, <1>0 DEF Relay
  <2>4. ToldByNotice'
    BY <1>7, <1>0 DEF Relay
  <2>5. ToldByRelay'
    BY <1>7, <1>0 DEF Relay
  <2> QED BY <1>0, <2>1, <2>2, <2>3, <2>4, <2>5
<1>8. ASSUME NEW p \in Relays, ReleaseRelay(p) PROVE RelayInv'
  <2>0. \A q \in Relays \ {p} : relayer'[q] = relayer[q]
    BY <1>8 DEF ReleaseRelay
  <2>1. WaybillKnown'
    BY <1>8, <1>0 DEF ReleaseRelay
  <2>2. ClaimIsOnes'
    BY <1>8, <1>0 DEF ReleaseRelay
  <2>3. NotDispatched'
    BY <1>8, <1>0 DEF ReleaseRelay
  <2>4. ToldByNotice'
    BY <1>8, <1>0 DEF ReleaseRelay
  <2>5. ToldByRelay'
    BY <1>8, <1>0 DEF ReleaseRelay
  <2> QED BY <1>0, <2>1, <2>2, <2>3, <2>4, <2>5
<1>9. ASSUME NEW p \in Relays, ClearFailures(p) PROVE RelayInv'
  <2>0. \A q \in Relays \ {p} : relayer'[q] = relayer[q]
    BY <1>9 DEF ClearFailures
  <2>1. WaybillKnown'
    BY <1>9, <1>0 DEF ClearFailures
  <2>2. ClaimIsOnes'
    BY <1>9, <1>0 DEF ClearFailures
  <2>3. NotDispatched'
    BY <1>9, <1>0 DEF ClearFailures
  <2>4. ToldByNotice'
    BY <1>9, <1>0 DEF ClearFailures
  <2>5. ToldByRelay'
    BY <1>9, <1>0 DEF ClearFailures
  <2> QED BY <1>0, <2>1, <2>2, <2>3, <2>4, <2>5
<1>10. ASSUME NEW p \in Relays, PatchRow(p) PROVE RelayInv'
  <2>0. \A q \in Relays \ {p} : relayer'[q] = relayer[q]
    BY <1>10 DEF PatchRow
  <2>1. WaybillKnown'
    BY <1>10, <1>0 DEF PatchRow
  <2>2. ClaimIsOnes'
    BY <1>10, <1>0 DEF PatchRow
  <2>3. NotDispatched'
    BY <1>10, <1>0 DEF PatchRow
  <2>4. ToldByNotice'
    BY <1>10, <1>0 DEF PatchRow
  <2>5. ToldByRelay'
    BY <1>10, <1>0 DEF PatchRow
  <2> QED BY <1>0, <2>1, <2>2, <2>3, <2>4, <2>5
<1>11. ASSUME NEW p \in Relays, CrashRelay(p) PROVE RelayInv'
  <2>0. \A q \in Relays \ {p} : relayer'[q] = relayer[q]
    BY <1>11 DEF CrashRelay
  <2>1. WaybillKnown'
    BY <1>11, <1>0 DEF CrashRelay
  <2>2. ClaimIsOnes'
    BY <1>11, <1>0 DEF CrashRelay
  <2>3. NotDispatched'
    BY <1>11, <1>0 DEF CrashRelay
  <2>4. ToldByNotice'
    BY <1>11, <1>0 DEF CrashRelay
  <2>5. ToldByRelay'
    BY <1>11, <1>0 DEF CrashRelay
  <2> QED BY <1>0, <2>1, <2>2, <2>3, <2>4, <2>5
<1>12. CASE CarrierMoves
  BY <1>12, <1>0 DEF CarrierMoves
<1>13. CASE CancelShipment
  BY <1>13, <1>0 DEF CancelShipment
<1>14. CASE UNCHANGED relayVars
  BY <1>14 DEF relayVars
<1> QED BY <1>1, <1>2, <1>3, <1>4, <1>5, <1>6, <1>7, <1>8, <1>9, <1>10, <1>11, <1>12, <1>13, <1>14 DEF RelayNext

(* The row, the claim and the requests of the relay are of their types.         *)
THEOREM RelayTypeCorrect == RelaySpec => []RelayTypeOK
<1>1. RelayInv => RelayTypeOK
  BY DEF RelayInv, RelayersOK, WaybillKnown, RelayTypeOK, Parcels, ShipStatus
<1> QED BY <1>1, RelayInitInv, RelayStepInv, PTL DEF RelaySpec

(* However many polls, webhooks and notices meet, and whoever crashes, the      *)
(* marketplace is told a waybill once at most, unless a telling that happened   *)
(* counted as failed or two notices overlapped.                                 *)
THEOREM WaybillOnce == RelaySpec => []WaybillToldOnce
<1>1. RelayInv => WaybillToldOnce
  BY DEF RelayInv, RelayersOK, Parcels, ToldByNotice, ToldByRelay, WaybillToldOnce
<1> QED BY <1>1, RelayInitInv, RelayStepInv, PTL DEF RelaySpec

-----------------------------------------------------------------------------
(* The labels.                                                                  *)
Statuses == {"draft", "generated"} \cup ShipEnded
RowRecords == [status : {"draft", "generated"} \cup ShipEnded, label : Nat]
LabelRecords == [row : Nat, state : {"live", "void", "delivered", "lost"}]
WorkerPcs == {"idle", "active", "prior", "reset", "create", "lookup", "buy", "record", "adopt", "fail",
              "unlock", "void", "cancelRow", "track", "patch"}
WorkerRecords ==
  [pc : WorkerPcs, row : Nat, label : Nat, status : {"none", "draft", "generated"} \cup ShipEnded]
HasRow == {"reset", "lookup", "buy", "record", "adopt", "fail", "void", "cancelRow", "track", "patch"}
HasLabel == {"record", "adopt", "void", "track"}
Dispatching == {"active", "prior", "reset", "create", "lookup", "buy", "record", "adopt", "fail", "unlock"}

(* What is of a row and of a label is there, and only the last row may be      *)
(* without a label: the index admits no second one.                            *)
ShipRecordsOK ==
  /\ shipRow \in Seq(RowRecords) /\ label \in Seq(LabelRecords)
  /\ worker \in [ShipProcs -> WorkerRecords]
  /\ Len(shipRow) <= MaxShipments /\ Len(label) <= MaxLabels
  /\ shipLock \in ShipProcs \cup {NoShipProc} /\ shipFaults \in 0..MaxShipFaults
RowsKnown ==
  /\ \A r \in ShipRows : shipRow[r].label <= Len(label)
  /\ \A n \in DOMAIN label : label[n].row \in ShipRows
RequestKnown(p) ==
  /\ worker[p].pc \in HasRow => worker[p].row \in ShipRows
  /\ worker[p].label <= Len(label)
  /\ worker[p].pc \in HasLabel => worker[p].label # 0
  /\ worker[p].pc = "patch" => worker[p].status \in ShipEnded
KnownRows == RowsKnown /\ \A p \in ShipProcs : RequestKnown(p)
LastIsUnlabelled == \A r \in ShipRows : r < Len(shipRow) => shipRow[r].label # 0

(* Under the lock: one dispatch, on the last row, which has no label yet; every *)
(* other row has ended.                                                         *)
Kept(broken) == mishaps \cap broken = {}
Uncrossed == Kept({"crossed", "lockLost"})
OthersEnded == \A r \in ShipRows : r < Len(shipRow) => shipRow[r].status \in ShipEnded
DispatchOK(p) ==
  /\ worker[p].pc \in {"prior", "create"} => \A r \in ShipRows : shipRow[r].status \in ShipEnded
  /\ worker[p].pc \in {"reset", "lookup", "buy", "record", "adopt"} =>
       worker[p].row = Len(shipRow) /\ shipRow[worker[p].row].label = 0
  /\ worker[p].pc \in {"lookup", "buy", "record", "adopt"} => shipRow[worker[p].row].status = "draft"
  /\ worker[p].pc = "fail" => /\ worker[p].row = Len(shipRow)
                              /\ shipRow[worker[p].row].label = 0 \/ "unread" \in mishaps
  /\ worker[p].pc \in {"record", "adopt"} => label[worker[p].label].row = worker[p].row

(* A row's label is a label for that row, and stays it; who cancels a row with  *)
(* a label, or takes over its end, has seen that the parcel is not on the way.  *)
LiveLabel(n) == label[n].state = "live"
RowsFit == \A r \in ShipRows : shipRow[r].label # 0 => label[shipRow[r].label].row = r
LooksOK(p) ==
  /\ worker[p].pc = "track" => shipRow[worker[p].row].label = worker[p].label
  /\ worker[p].pc = "patch" => shipRow[worker[p].row].label # 0 /\ ~LiveLabel(shipRow[worker[p].row].label)
  /\ worker[p].pc = "cancelRow" /\ worker[p].label # 0 => ~LiveLabel(worker[p].label)
(* A row has one label, as long as the carrier is asked before one is bought,   *)
(* and a row that has ended has none that is on the way.                        *)
OneLabelEach == \A m, n \in DOMAIN label : label[m].row = label[n].row => m = n
BuysFirst(p) == worker[p].pc = "buy" => \A n \in DOMAIN label : label[n].row # worker[p].row
EndedIsOver == \A r \in ShipRows : shipRow[r].status \in ShipEnded /\ shipRow[r].label # 0 => ~LiveLabel(shipRow[r].label)

(* A label is its row's, or is about to be, as long as answers arrive.          *)
Recording(n) == \E p \in ShipProcs : worker[p].pc = "record" /\ worker[p].label = n
LabelsRecorded == \A n \in DOMAIN label : shipRow[label[n].row].label = n \/ Recording(n)
CancelledIsOver ==
  \A r \in ShipRows : shipRow[r].status = "cancelled" /\ shipRow[r].label # 0 => ~LiveLabel(shipRow[r].label)

Asked == Kept({"notAsked", "crossed", "unread", "lockLost"})
Answered == Kept({"crossed", "unanswered", "lockLost"})
BooksOK ==
  /\ RowsKnown /\ LastIsUnlabelled
  /\ Uncrossed => OthersEnded /\ RowsFit
  /\ Asked => OneLabelEach /\ EndedIsOver
  /\ Answered => LabelsRecorded /\ CancelledIsOver
RequestOK(p) ==
  /\ RequestKnown(p)
  /\ Uncrossed => (worker[p].pc \in Dispatching => shipLock = p) /\ DispatchOK(p) /\ LooksOK(p)
  /\ Asked => BuysFirst(p)
LabelInv == ShipRecordsOK /\ BooksOK /\ \A p \in ShipProcs : RequestOK(p)

(* What a step makes of the rows, the labels and one request, element by element. *)
RowsBecome(r, status, n) ==
  /\ Len(shipRow') = Len(shipRow)
  /\ \A i \in 1..Len(shipRow) : /\ shipRow'[i].status = IF i = r THEN status ELSE shipRow[i].status
                               /\ shipRow'[i].label = IF i = r THEN n ELSE shipRow[i].label
RowsGrow ==
  /\ Len(shipRow') = Len(shipRow) + 1
  /\ \A i \in 1..Len(shipRow) : shipRow'[i] = shipRow[i]
  /\ shipRow'[Len(shipRow) + 1].status = "draft" /\ shipRow'[Len(shipRow) + 1].label = 0
LabelsGrow(r) ==
  /\ Len(label') = Len(label) + 1
  /\ \A i \in 1..Len(label) : label'[i] = label[i]
  /\ label'[Len(label) + 1].row = r /\ label'[Len(label) + 1].state = "live"
LabelEnds(n) ==
  /\ Len(label') = Len(label)
  /\ \A i \in 1..Len(label) : /\ label'[i].row = label[i].row
                              /\ i # n => label'[i].state = label[i].state
                              /\ i = n => label'[i].state # "live"
RowsSet(r, status, n) == shipRow' \in Seq(RowRecords) /\ RowsBecome(r, status, n)
RowAdded == shipRow' \in Seq(RowRecords) /\ RowsGrow
Bought(r) == label' \in Seq(LabelRecords) /\ LabelsGrow(r)
Ended(n) == label' \in Seq(LabelRecords) /\ LabelEnds(n)
Moved(p, pc, r, n, status) ==
  /\ worker' \in [ShipProcs -> WorkerRecords]
  /\ \A q \in ShipProcs \ {p} : worker'[q] = worker[q]
  /\ worker'[p].pc = pc /\ worker'[p].row = r /\ worker'[p].label = n /\ worker'[p].status = status
Went(p, pc) == Moved(p, pc, worker[p].row, worker[p].label, worker[p].status)
Left(p) == Moved(p, "idle", 0, 0, "none")

(* Rows and labels are numbered from 1.                                      *)
LEMMA SeqDomains ==
  ASSUME ShipRecordsOK
  PROVE  /\ ShipRows = 1..Len(shipRow) /\ DOMAIN label = 1..Len(label)
         /\ Len(shipRow) \in Nat /\ Len(label) \in Nat
         /\ \A r \in 1..Len(shipRow) : shipRow[r] \in RowRecords
         /\ \A n \in 1..Len(label) : label[n] \in LabelRecords
         /\ \A p \in ShipProcs : worker[p] \in WorkerRecords
BY LenProperties, ElementOfSeq DEF ShipRecordsOK, ShipRows

(* WithLabel, element by element.                                            *)
LEMMA RowIsSet ==
  ASSUME ShipRecordsOK, NEW r \in 1..Len(shipRow), NEW status \in Statuses, NEW n \in Nat,
         shipRow' = [shipRow EXCEPT ![r] = [status |-> status, label |-> n]]
  PROVE  RowsSet(r, status, n)
<1> DEFINE e == [status |-> status, label |-> n]
<1>1. e \in RowRecords
  BY DEF RowRecords, Statuses
<1>2. shipRow \in Seq(RowRecords)
  BY DEF ShipRecordsOK
<1> HIDE DEF e
<1>3. /\ shipRow' \in Seq(RowRecords) /\ Len(shipRow') = Len(shipRow)
      /\ \A j \in 1..Len(shipRow) : shipRow'[j] = IF j = r THEN e ELSE shipRow[j]
  BY <1>1, <1>2, ExceptSeq DEF e
<1> QED BY <1>3 DEF RowsSet, RowsBecome, e

(* SetStatus, element by element.                                            *)
LEMMA StatusIsSet ==
  ASSUME ShipRecordsOK, NEW r \in 1..Len(shipRow), NEW status \in Statuses, SetStatus(r, status)
  PROVE  RowsSet(r, status, shipRow[r].label)
<1>1. shipRow[r] \in RowRecords /\ shipRow[r].label \in Nat
  BY SeqDomains DEF RowRecords
<1>2. [shipRow[r] EXCEPT !.status = status] = [status |-> status, label |-> shipRow[r].label]
  BY <1>1 DEF RowRecords
<1>3. shipRow' = [shipRow EXCEPT ![r] = [status |-> status, label |-> shipRow[r].label]]
  BY <1>2 DEF SetStatus
<1> QED BY <1>1, <1>3, RowIsSet

(* A row is added at the end.                                                *)
LEMMA RowIsAdded ==
  ASSUME ShipRecordsOK, shipRow' = Append(shipRow, [status |-> "draft", label |-> 0])
  PROVE  RowAdded
<1> DEFINE e == [status |-> "draft", label |-> 0]
<1>1. e \in RowRecords
  BY DEF RowRecords
<1>2. shipRow \in Seq(RowRecords)
  BY DEF ShipRecordsOK
<1> HIDE DEF e
<1>3. /\ shipRow' \in Seq(RowRecords) /\ Len(shipRow') = Len(shipRow) + 1
      /\ \A j \in 1..Len(shipRow) : shipRow'[j] = shipRow[j]
      /\ shipRow'[Len(shipRow) + 1] = e
  BY <1>1, <1>2, AppendProperties, LenProperties DEF e
<1> QED BY <1>3 DEF RowAdded, RowsGrow, e

(* A label is added at the end.                                              *)
LEMMA LabelIsBought ==
  ASSUME ShipRecordsOK, NEW r \in Nat, BuyLabel(r)
  PROVE  Bought(r)
<1> DEFINE e == [row |-> r, state |-> "live"]
<1>1. e \in LabelRecords
  BY DEF LabelRecords
<1>2. label \in Seq(LabelRecords) /\ label' = Append(label, e)
  BY DEF ShipRecordsOK, BuyLabel
<1> HIDE DEF e
<1>3. /\ label' \in Seq(LabelRecords) /\ Len(label') = Len(label) + 1
      /\ \A j \in 1..Len(label) : label'[j] = label[j]
      /\ label'[Len(label) + 1] = e
  BY <1>1, <1>2, AppendProperties, LenProperties
<1> QED BY <1>3 DEF Bought, LabelsGrow, e

(* A label that ends stays the label of its row.                             *)
LEMMA LabelIsEnded ==
  ASSUME ShipRecordsOK, NEW n \in 1..Len(label), NEW state \in {"void", "delivered", "lost"},
         label' = [label EXCEPT ![n].state = state]
  PROVE  Ended(n)
<1> DEFINE e == [label[n] EXCEPT !.state = state]
<1>1. label \in Seq(LabelRecords) /\ label[n] \in LabelRecords
  BY SeqDomains DEF ShipRecordsOK
<1>2. e \in LabelRecords /\ e.row = label[n].row /\ e.state # "live"
  BY <1>1 DEF LabelRecords
<1>3. label' = [label EXCEPT ![n] = e]
  OBVIOUS
<1> HIDE DEF e
<1>4. /\ label' \in Seq(LabelRecords) /\ Len(label') = Len(label)
      /\ \A j \in 1..Len(label) : label'[j] = IF j = n THEN e ELSE label[j]
  BY <1>1, <1>2, <1>3, ExceptSeq
<1> QED BY <1>2, <1>4 DEF Ended, LabelEnds

(* WorkerGoto, Leave and a whole new record, field by field.                 *)
LEMMA RequestMoves ==
  ASSUME ShipRecordsOK, NEW p \in ShipProcs
  PROVE  /\ \A pc \in WorkerPcs : WorkerGoto(p, pc) => Went(p, pc)
         /\ Leave(p) => Left(p)
         /\ \A w \in WorkerRecords : worker' = [worker EXCEPT ![p] = w] => Moved(p, w.pc, w.row, w.label, w.status)
<1>1. worker \in [ShipProcs -> WorkerRecords] /\ worker[p] \in WorkerRecords
  BY DEF ShipRecordsOK
<1>2. ASSUME NEW w \in WorkerRecords, worker' = [worker EXCEPT ![p] = w] PROVE Moved(p, w.pc, w.row, w.label, w.status)
  BY <1>1, <1>2 DEF Moved
<1>3. ASSUME NEW pc \in WorkerPcs, WorkerGoto(p, pc) PROVE Went(p, pc)
  <2> DEFINE w == [worker[p] EXCEPT !.pc = pc]
  <2>1. w \in WorkerRecords /\ w.pc = pc /\ w.row = worker[p].row /\ w.label = worker[p].label /\ w.status = worker[p].status
    BY <1>1 DEF WorkerRecords
  <2>2. worker' = [worker EXCEPT ![p] = w]
    BY <1>1, <1>3 DEF WorkerGoto
  <2> HIDE DEF w
  <2> QED BY <1>2, <2>1, <2>2 DEF Went
<1>4. ASSUME Leave(p) PROVE Left(p)
  <2>1. IdleWorker \in WorkerRecords
    BY DEF IdleWorker, WorkerRecords, WorkerPcs
  <2> QED BY <1>2, <1>4, <2>1 DEF Leave, IdleWorker, Left
<1> QED BY <1>2, <1>3, <1>4

(* A request that goes on with another row, label or status, field by field. *)
LEMMA RequestMovesTo ==
  ASSUME ShipRecordsOK, NEW p \in ShipProcs,
         NEW pc \in WorkerPcs, NEW r \in Nat, NEW n \in Nat, NEW status \in {"none"} \cup Statuses
  PROVE  /\ worker' = [worker EXCEPT ![p].pc = pc, ![p].row = r] => Moved(p, pc, r, worker[p].label, worker[p].status)
         /\ worker' = [worker EXCEPT ![p].pc = pc, ![p].label = n] => Moved(p, pc, worker[p].row, n, worker[p].status)
         /\ worker' = [worker EXCEPT ![p] = [@ EXCEPT !.pc = pc, !.row = r, !.label = n]] =>
              Moved(p, pc, r, n, worker[p].status)
         /\ worker' = [worker EXCEPT ![p] = [@ EXCEPT !.pc = pc, !.label = n, !.status = status]] =>
              Moved(p, pc, worker[p].row, n, status)
         /\ worker' = [worker EXCEPT ![p] = [@ EXCEPT !.pc = pc, !.row = r, !.label = n, !.status = status]] =>
              Moved(p, pc, r, n, status)
<1>1. worker \in [ShipProcs -> WorkerRecords] /\ worker[p] \in WorkerRecords
  BY DEF ShipRecordsOK
<1>2. ASSUME worker' = [worker EXCEPT ![p].pc = pc, ![p].row = r] PROVE Moved(p, pc, r, worker[p].label, worker[p].status)
  <2> DEFINE w == [worker[p] EXCEPT !.pc = pc, !.row = r]
  <2>1. w \in WorkerRecords /\ w.pc = pc /\ w.row = r /\ w.label = worker[p].label /\ w.status = worker[p].status
    BY <1>1 DEF WorkerRecords, Statuses
  <2>2. worker' = [worker EXCEPT ![p] = w]
    BY <1>1, <1>2
  <2> HIDE DEF w
  <2> QED BY <2>1, <2>2, RequestMoves
<1>3. ASSUME worker' = [worker EXCEPT ![p].pc = pc, ![p].label = n] PROVE Moved(p, pc, worker[p].row, n, worker[p].status)
  <2> DEFINE w == [worker[p] EXCEPT !.pc = pc, !.label = n]
  <2>1. w \in WorkerRecords /\ w.pc = pc /\ w.row = worker[p].row /\ w.label = n /\ w.status = worker[p].status
    BY <1>1 DEF WorkerRecords, Statuses
  <2>2. worker' = [worker EXCEPT ![p] = w]
    BY <1>1, <1>3
  <2> HIDE DEF w
  <2> QED BY <2>1, <2>2, RequestMoves
<1>4. ASSUME worker' = [worker EXCEPT ![p] = [@ EXCEPT !.pc = pc, !.row = r, !.label = n]] PROVE Moved(p, pc, r, n, worker[p].status)
  <2> DEFINE w == [worker[p] EXCEPT !.pc = pc, !.row = r, !.label = n]
  <2>1. w \in WorkerRecords /\ w.pc = pc /\ w.row = r /\ w.label = n /\ w.status = worker[p].status
    BY <1>1 DEF WorkerRecords, Statuses
  <2>2. worker' = [worker EXCEPT ![p] = w]
    BY <1>1, <1>4
  <2> HIDE DEF w
  <2> QED BY <2>1, <2>2, RequestMoves
<1>5. ASSUME worker' = [worker EXCEPT ![p] = [@ EXCEPT !.pc = pc, !.label = n, !.status = status]] PROVE Moved(p, pc, worker[p].row, n, status)
  <2> DEFINE w == [worker[p] EXCEPT !.pc = pc, !.label = n, !.status = status]
  <2>1. w \in WorkerRecords /\ w.pc = pc /\ w.row = worker[p].row /\ w.label = n /\ w.status = status
    BY <1>1 DEF WorkerRecords, Statuses
  <2>2. worker' = [worker EXCEPT ![p] = w]
    BY <1>1, <1>5
  <2> HIDE DEF w
  <2> QED BY <2>1, <2>2, RequestMoves
<1>6. ASSUME worker' = [worker EXCEPT ![p] = [@ EXCEPT !.pc = pc, !.row = r, !.label = n, !.status = status]] PROVE Moved(p, pc, r, n, status)
  <2> DEFINE w == [worker[p] EXCEPT !.pc = pc, !.row = r, !.label = n, !.status = status]
  <2>1. w \in WorkerRecords /\ w.pc = pc /\ w.row = r /\ w.label = n /\ w.status = status
    BY <1>1 DEF WorkerRecords, Statuses
  <2>2. worker' = [worker EXCEPT ![p] = w]
    BY <1>1, <1>6
  <2> HIDE DEF w
  <2> QED BY <2>1, <2>2, RequestMoves
<1> QED BY <1>2, <1>3, <1>4, <1>5, <1>6

(* What StartDispatch does, element by element.                              *)
LEMMA StartDispatchDoes ==
  ASSUME ShipRecordsOK, KnownRows, ShipmentAssumption, NEW p \in ShipProcs, StartDispatch(p)
  PROVE  /\ worker[p].pc = "idle" /\ shipLock = NoShipProc /\ shipLock' = p
         /\ Went(p, "active")
         /\ UNCHANGED <<shipRow, label, mishaps, shipFaults>>
BY RequestMoves, SeqDomains DEF StartDispatch, WorkerAt, WorkerPcs

(* What ReadActive does, element by element.                                 *)
LEMMA ReadActiveDoes ==
  ASSUME ShipRecordsOK, KnownRows, ShipmentAssumption, NEW p \in ShipProcs, ReadActive(p)
  PROVE  /\ worker[p].pc = "active"
         /\ Went(p, "unlock") \/ (Went(p, "prior") /\ \A r \in 1..Len(shipRow) : shipRow[r].status \in ShipEnded)
         /\ UNCHANGED <<shipRow, label, shipLock, mishaps, shipFaults>>
BY RequestMoves, SeqDomains DEF ReadActive, WorkerAt, WorkerPcs

(* What ReadPrior does, element by element.                                  *)
LEMMA ReadPriorDoes ==
  ASSUME ShipRecordsOK, KnownRows, ShipmentAssumption, NEW p \in ShipProcs, ReadPrior(p)
  PROVE  /\ worker[p].pc = "prior"
         /\ Went(p, "create") \/ \E r \in 1..Len(shipRow) : shipRow[r].label = 0 /\ Moved(p, "reset", r, worker[p].label, worker[p].status)
         /\ UNCHANGED <<shipRow, label, shipLock, mishaps, shipFaults>>
<1>a. /\ \A pc \in WorkerPcs : WorkerGoto(p, pc) => Went(p, pc)
      /\ Leave(p) => Left(p)
      /\ \A w \in WorkerRecords : worker' = [worker EXCEPT ![p] = w] => Moved(p, w.pc, w.row, w.label, w.status)
  BY RequestMoves
<1>b. worker[p] \in WorkerRecords
  BY DEF ShipRecordsOK
<1>c. /\ worker[p].row \in Nat /\ worker[p].label \in Nat /\ worker[p].status \in {"none"} \cup Statuses
      /\ worker[p].pc \in WorkerPcs
  BY <1>b DEF WorkerRecords, Statuses
<1>1. worker[p].pc = "prior" /\ UNCHANGED <<shipRow, label, shipLock, mishaps, shipFaults>>
  BY DEF ReadPrior, WorkerAt
<1>2. CASE WorkerGoto(p, "create")
  BY <1>1, <1>2, <1>a DEF WorkerPcs
<1>3. ASSUME NEW r \in Unlabelled, worker' = [worker EXCEPT ![p].pc = "reset", ![p].row = r]
      PROVE  r \in 1..Len(shipRow) /\ shipRow[r].label = 0 /\ Moved(p, "reset", r, worker[p].label, worker[p].status)
  <2>1. r \in 1..Len(shipRow) /\ shipRow[r].label = 0
    BY SeqDomains DEF Unlabelled
  <2>2. r \in Nat
    BY <2>1, SeqDomains
  <2> QED BY <1>3, <2>1, <2>2, RequestMovesTo DEF WorkerPcs
<1> QED BY <1>1, <1>2, <1>3 DEF ReadPrior

(* What ResetShipment does, element by element.                              *)
LEMMA ResetShipmentDoes ==
  ASSUME ShipRecordsOK, KnownRows, ShipmentAssumption, NEW p \in ShipProcs, ResetShipment(p)
  PROVE  /\ worker[p].pc = "reset"
         /\ RowsSet(worker[p].row, "draft", shipRow[worker[p].row].label)
         /\ (Went(p, "lookup") /\ mishaps' = mishaps) \/ (Went(p, "buy") /\ mishaps' = mishaps \cup {"notAsked"})
         /\ UNCHANGED <<label, shipLock, shipFaults>>
<1>a. /\ \A pc \in WorkerPcs : WorkerGoto(p, pc) => Went(p, pc)
      /\ Leave(p) => Left(p)
      /\ \A w \in WorkerRecords : worker' = [worker EXCEPT ![p] = w] => Moved(p, w.pc, w.row, w.label, w.status)
  BY RequestMoves
<1>b. worker[p] \in WorkerRecords
  BY DEF ShipRecordsOK
<1>c. /\ worker[p].row \in Nat /\ worker[p].label \in Nat /\ worker[p].status \in {"none"} \cup Statuses
      /\ worker[p].pc \in WorkerPcs
  BY <1>b DEF WorkerRecords, Statuses
<1>1. /\ worker[p].pc = "reset" /\ SetStatus(worker[p].row, "draft") /\ UNCHANGED <<label, shipLock, shipFaults>>
      /\ \/ WorkerGoto(p, "lookup") /\ mishaps' = mishaps
         \/ WorkerGoto(p, "buy") /\ mishaps' = mishaps \cup {"notAsked"}
  BY DEF ResetShipment, WorkerAt, AfterReset, Mishap
<1>2. ASSUME SetStatus(worker[p].row, "draft") PROVE RowsSet(worker[p].row, "draft", shipRow[worker[p].row].label)
  <2>1. worker[p].row \in 1..Len(shipRow)
    BY <1>1, SeqDomains DEF KnownRows, RowsKnown, RequestKnown, HasRow
  <2> QED BY <1>2, <2>1, StatusIsSet DEF Statuses, ShipEnded
<1> QED BY <1>1, <1>2, <1>a DEF WorkerPcs

(* What CreateShipment does, element by element.                             *)
LEMMA CreateShipmentDoes ==
  ASSUME ShipRecordsOK, KnownRows, ShipmentAssumption, NEW p \in ShipProcs, CreateShipment(p)
  PROVE  /\ worker[p].pc = "create"
         /\ \/ Went(p, "unlock") /\ shipRow' = shipRow
            \/ /\ RowAdded /\ Moved(p, "buy", Len(shipRow) + 1, worker[p].label, worker[p].status)
               /\ Len(shipRow) # MaxShipments /\ \A r \in 1..Len(shipRow) : shipRow[r].label # 0
         /\ UNCHANGED <<label, shipLock, mishaps, shipFaults>>
<1>a. /\ \A pc \in WorkerPcs : WorkerGoto(p, pc) => Went(p, pc)
      /\ Leave(p) => Left(p)
      /\ \A w \in WorkerRecords : worker' = [worker EXCEPT ![p] = w] => Moved(p, w.pc, w.row, w.label, w.status)
  BY RequestMoves
<1>b. worker[p] \in WorkerRecords
  BY DEF ShipRecordsOK
<1>c. /\ worker[p].row \in Nat /\ worker[p].label \in Nat /\ worker[p].status \in {"none"} \cup Statuses
      /\ worker[p].pc \in WorkerPcs
  BY <1>b DEF WorkerRecords, Statuses
<1>1. worker[p].pc = "create" /\ UNCHANGED <<label, shipLock, mishaps, shipFaults>>
  BY DEF CreateShipment, WorkerAt
<1>2. CASE WorkerGoto(p, "unlock") /\ shipRow' = shipRow
  BY <1>1, <1>2, <1>a DEF WorkerPcs
<1>3. CASE /\ Unlabelled = {} /\ Len(shipRow) # MaxShipments
           /\ shipRow' = Append(shipRow, [status |-> "draft", label |-> 0])
           /\ worker' = [worker EXCEPT ![p].pc = "buy", ![p].row = Len(shipRow) + 1]
  <2>1. RowAdded
    BY <1>3, RowIsAdded
  <2>2. \A r \in 1..Len(shipRow) : shipRow[r].label # 0
    BY <1>3, SeqDomains DEF Unlabelled
  <2>3. Len(shipRow) + 1 \in Nat
    BY SeqDomains
  <2>5. Moved(p, "buy", Len(shipRow) + 1, worker[p].label, worker[p].status)
    BY <1>3, <2>3, RequestMovesTo DEF WorkerPcs
  <2> QED BY <1>1, <1>3, <2>1, <2>2, <2>5
<1> QED BY <1>2, <1>3 DEF CreateShipment

(* What Lookup does, element by element.                                     *)
LEMMA LookupDoes ==
  ASSUME ShipRecordsOK, KnownRows, ShipmentAssumption, NEW p \in ShipProcs, Lookup(p)
  PROVE  /\ worker[p].pc = "lookup"
         /\ \/ /\ mishaps' = mishaps /\ \E n \in 1..Len(label) :
                 label[n].row = worker[p].row /\ Moved(p, "adopt", worker[p].row, n, worker[p].status)
            \/ Went(p, "buy") /\ mishaps' = mishaps /\ Cardinality(Matches(worker[p].row)) # 1
            \/ Went(p, "buy") /\ mishaps' = mishaps \cup {"notAsked"}
         /\ shipFaults' \in 0..MaxShipFaults
         /\ UNCHANGED <<shipRow, label, shipLock>>
<1>a. /\ \A pc \in WorkerPcs : WorkerGoto(p, pc) => Went(p, pc)
      /\ Leave(p) => Left(p)
      /\ \A w \in WorkerRecords : worker' = [worker EXCEPT ![p] = w] => Moved(p, w.pc, w.row, w.label, w.status)
  BY RequestMoves
<1>b. worker[p] \in WorkerRecords
  BY DEF ShipRecordsOK
<1>c. /\ worker[p].row \in Nat /\ worker[p].label \in Nat /\ worker[p].status \in {"none"} \cup Statuses
      /\ worker[p].pc \in WorkerPcs
  BY <1>b DEF WorkerRecords, Statuses
<1>1. /\ worker[p].pc = "lookup" /\ UNCHANGED <<shipRow, label, shipLock>>
      /\ NoShipFault \/ ShipFault
  BY DEF Lookup, WorkerAt
<1>2. shipFaults' \in 0..MaxShipFaults
  BY <1>1, ShipmentAssumption DEF NoShipFault, ShipFault, ShipRecordsOK
<1>3. CASE /\ Cardinality(Matches(worker[p].row)) = 1 /\ mishaps' = mishaps
           /\ worker' = [worker EXCEPT ![p].pc = "adopt", ![p].label = CHOOSE n \in Matches(worker[p].row) : TRUE]
  <2> DEFINE n == CHOOSE i \in Matches(worker[p].row) : TRUE
  <2>1. Matches(worker[p].row) # {}
    BY <1>3, FS_EmptySet
  <2>2. n \in 1..Len(label) /\ label[n].row = worker[p].row
    <3>1. n \in Matches(worker[p].row)
      BY <2>1
    <3> HIDE DEF n
    <3> QED BY <3>1, SeqDomains DEF Matches
  <2>3. worker' = [worker EXCEPT ![p].pc = "adopt", ![p].label = n]
    BY <1>3
  <2> HIDE DEF n
  <2>5. Moved(p, "adopt", worker[p].row, n, worker[p].status)
    <3>1. n \in Nat
      BY <2>2, SeqDomains
    <3> QED BY <3>1, <2>3, RequestMovesTo DEF WorkerPcs
  <2> QED BY <1>1, <1>2, <1>3, <2>2, <2>5
<1>4. CASE Cardinality(Matches(worker[p].row)) # 1 /\ WorkerGoto(p, "buy") /\ mishaps' = mishaps
  BY <1>1, <1>2, <1>4, <1>a DEF WorkerPcs
<1>5. CASE WorkerGoto(p, "buy") /\ mishaps' = mishaps \cup {"notAsked"}
  BY <1>1, <1>2, <1>5, <1>a DEF WorkerPcs
<1> QED BY <1>3, <1>4, <1>5 DEF Lookup, Mishap

(* What Buy does, element by element.                                        *)
LEMMA BuyDoes ==
  ASSUME ShipRecordsOK, KnownRows, ShipmentAssumption, NEW p \in ShipProcs, Buy(p)
  PROVE  /\ worker[p].pc = "buy" /\ Len(label) < MaxLabels
         /\ \/ Bought(worker[p].row) /\ Moved(p, "record", worker[p].row, Len(label) + 1, worker[p].status) /\ mishaps' = mishaps
            \/ Went(p, "fail") /\ UNCHANGED <<label, mishaps>>
            \/ Bought(worker[p].row) /\ Went(p, "fail") /\ mishaps' = mishaps \cup {"unanswered"}
         /\ shipFaults' \in 0..MaxShipFaults
         /\ UNCHANGED <<shipRow, shipLock>>
<1>a. /\ \A pc \in WorkerPcs : WorkerGoto(p, pc) => Went(p, pc)
      /\ Leave(p) => Left(p)
      /\ \A w \in WorkerRecords : worker' = [worker EXCEPT ![p] = w] => Moved(p, w.pc, w.row, w.label, w.status)
  BY RequestMoves
<1>b. worker[p] \in WorkerRecords
  BY DEF ShipRecordsOK
<1>c. /\ worker[p].row \in Nat /\ worker[p].label \in Nat /\ worker[p].status \in {"none"} \cup Statuses
      /\ worker[p].pc \in WorkerPcs
  BY <1>b DEF WorkerRecords, Statuses
<1>1. /\ worker[p].pc = "buy" /\ Len(label) < MaxLabels /\ UNCHANGED <<shipRow, shipLock>>
      /\ NoShipFault \/ ShipFault
  BY DEF Buy, WorkerAt
<1>2. shipFaults' \in 0..MaxShipFaults
  BY <1>1, ShipmentAssumption DEF NoShipFault, ShipFault, ShipRecordsOK
<1>3. BuyLabel(worker[p].row) => Bought(worker[p].row)
  BY <1>c, LabelIsBought
<1>4. CASE /\ BuyLabel(worker[p].row) /\ mishaps' = mishaps
           /\ worker' = [worker EXCEPT ![p].pc = "record", ![p].label = Len(label) + 1]
  <2>1. Len(label) + 1 \in Nat
    BY SeqDomains
  <2>3. Moved(p, "record", worker[p].row, Len(label) + 1, worker[p].status)
    BY <1>4, <2>1, RequestMovesTo DEF WorkerPcs
  <2> QED BY <1>1, <1>2, <1>3, <1>4, <2>3
<1>5. CASE WorkerGoto(p, "fail") /\ UNCHANGED <<label, mishaps>>
  BY <1>1, <1>2, <1>5, <1>a DEF WorkerPcs
<1>6. CASE BuyLabel(worker[p].row) /\ WorkerGoto(p, "fail") /\ mishaps' = mishaps \cup {"unanswered"}
  BY <1>1, <1>2, <1>3, <1>6, <1>a DEF WorkerPcs
<1> QED BY <1>4, <1>5, <1>6 DEF Buy, Mishap

(* What RecordLabel does, element by element.                                *)
LEMMA RecordLabelDoes ==
  ASSUME ShipRecordsOK, KnownRows, ShipmentAssumption, NEW p \in ShipProcs, RecordLabel(p)
  PROVE  /\ worker[p].pc = "record"
         /\ \/ RowsSet(worker[p].row, "generated", worker[p].label) /\ Went(p, "unlock") /\ mishaps' = mishaps
            \/ Went(p, "fail") /\ mishaps' = mishaps \cup {"unanswered"} /\ shipRow' = shipRow
            \/ RowsSet(worker[p].row, "generated", worker[p].label) /\ Went(p, "fail") /\ mishaps' = mishaps \cup {"unread"}
         /\ shipFaults' \in 0..MaxShipFaults
         /\ UNCHANGED <<label, shipLock>>
<1>a. /\ \A pc \in WorkerPcs : WorkerGoto(p, pc) => Went(p, pc)
      /\ Leave(p) => Left(p)
      /\ \A w \in WorkerRecords : worker' = [worker EXCEPT ![p] = w] => Moved(p, w.pc, w.row, w.label, w.status)
  BY RequestMoves
<1>b. worker[p] \in WorkerRecords
  BY DEF ShipRecordsOK
<1>c. /\ worker[p].row \in Nat /\ worker[p].label \in Nat /\ worker[p].status \in {"none"} \cup Statuses
      /\ worker[p].pc \in WorkerPcs
  BY <1>b DEF WorkerRecords, Statuses
<1>1. /\ worker[p].pc = "record" /\ UNCHANGED <<label, shipLock>>
      /\ NoShipFault \/ ShipFault
  BY DEF RecordLabel, WorkerAt
<1>2. shipFaults' \in 0..MaxShipFaults
  BY <1>1, ShipmentAssumption DEF NoShipFault, ShipFault, ShipRecordsOK
<1>3. WithLabel(worker[p].row, worker[p].label) => RowsSet(worker[p].row, "generated", worker[p].label)
  <2>1. worker[p].row \in 1..Len(shipRow)
    BY <1>1, SeqDomains DEF KnownRows, RowsKnown, RequestKnown, HasRow
  <2> QED BY <2>1, <1>c, RowIsSet DEF WithLabel, Statuses
<1>4. \/ WithLabel(worker[p].row, worker[p].label) /\ WorkerGoto(p, "unlock") /\ mishaps' = mishaps
      \/ WorkerGoto(p, "fail") /\ mishaps' = mishaps \cup {"unanswered"} /\ shipRow' = shipRow
      \/ WithLabel(worker[p].row, worker[p].label) /\ WorkerGoto(p, "fail") /\ mishaps' = mishaps \cup {"unread"}
  BY DEF RecordLabel, Mishap
<1> QED BY <1>1, <1>2, <1>3, <1>4, <1>a DEF WorkerPcs

(* What Adopt does, element by element.                                      *)
LEMMA AdoptDoes ==
  ASSUME ShipRecordsOK, KnownRows, ShipmentAssumption, NEW p \in ShipProcs, Adopt(p)
  PROVE  /\ worker[p].pc = "adopt" /\ Went(p, "unlock")
         /\ RowsSet(worker[p].row, "generated", worker[p].label) \/ shipRow' = shipRow
         /\ shipFaults' \in 0..MaxShipFaults
         /\ UNCHANGED <<label, shipLock, mishaps>>
<1>a. /\ \A pc \in WorkerPcs : WorkerGoto(p, pc) => Went(p, pc)
      /\ Leave(p) => Left(p)
      /\ \A w \in WorkerRecords : worker' = [worker EXCEPT ![p] = w] => Moved(p, w.pc, w.row, w.label, w.status)
  BY RequestMoves
<1>b. worker[p] \in WorkerRecords
  BY DEF ShipRecordsOK
<1>c. /\ worker[p].row \in Nat /\ worker[p].label \in Nat /\ worker[p].status \in {"none"} \cup Statuses
      /\ worker[p].pc \in WorkerPcs
  BY <1>b DEF WorkerRecords, Statuses
<1>1. /\ worker[p].pc = "adopt" /\ WorkerGoto(p, "unlock") /\ UNCHANGED <<label, shipLock, mishaps>>
      /\ NoShipFault \/ ShipFault
      /\ WithLabel(worker[p].row, worker[p].label) \/ shipRow' = shipRow
  BY DEF Adopt, WorkerAt
<1>2. shipFaults' \in 0..MaxShipFaults
  BY <1>1, ShipmentAssumption DEF NoShipFault, ShipFault, ShipRecordsOK
<1>3. WithLabel(worker[p].row, worker[p].label) => RowsSet(worker[p].row, "generated", worker[p].label)
  <2>1. worker[p].row \in 1..Len(shipRow)
    BY <1>1, SeqDomains DEF KnownRows, RowsKnown, RequestKnown, HasRow
  <2> QED BY <2>1, <1>c, RowIsSet DEF WithLabel, Statuses
<1> QED BY <1>1, <1>2, <1>3, <1>a DEF WorkerPcs

(* What MarkFailed does, element by element.                                 *)
LEMMA MarkFailedDoes ==
  ASSUME ShipRecordsOK, KnownRows, ShipmentAssumption, NEW p \in ShipProcs, MarkFailed(p)
  PROVE  /\ worker[p].pc = "fail" /\ Went(p, "unlock")
         /\ RowsSet(worker[p].row, "failed", shipRow[worker[p].row].label) \/ shipRow' = shipRow
         /\ shipFaults' \in 0..MaxShipFaults
         /\ UNCHANGED <<label, shipLock, mishaps>>
<1>a. /\ \A pc \in WorkerPcs : WorkerGoto(p, pc) => Went(p, pc)
      /\ Leave(p) => Left(p)
      /\ \A w \in WorkerRecords : worker' = [worker EXCEPT ![p] = w] => Moved(p, w.pc, w.row, w.label, w.status)
  BY RequestMoves
<1>b. worker[p] \in WorkerRecords
  BY DEF ShipRecordsOK
<1>c. /\ worker[p].row \in Nat /\ worker[p].label \in Nat /\ worker[p].status \in {"none"} \cup Statuses
      /\ worker[p].pc \in WorkerPcs
  BY <1>b DEF WorkerRecords, Statuses
<1>1. /\ worker[p].pc = "fail" /\ WorkerGoto(p, "unlock") /\ UNCHANGED <<label, shipLock, mishaps>>
      /\ NoShipFault \/ ShipFault
      /\ SetStatus(worker[p].row, "failed") \/ shipRow' = shipRow
  BY DEF MarkFailed, WorkerAt
<1>2. shipFaults' \in 0..MaxShipFaults
  BY <1>1, ShipmentAssumption DEF NoShipFault, ShipFault, ShipRecordsOK
<1>3. ASSUME SetStatus(worker[p].row, "failed") PROVE RowsSet(worker[p].row, "failed", shipRow[worker[p].row].label)
  <2>1. worker[p].row \in 1..Len(shipRow)
    BY <1>1, SeqDomains DEF KnownRows, RowsKnown, RequestKnown, HasRow
  <2> QED BY <1>3, <2>1, StatusIsSet DEF Statuses, ShipEnded
<1> QED BY <1>1, <1>2, <1>3, <1>a DEF WorkerPcs

(* What Unlock does, element by element.                                     *)
LEMMA UnlockDoes ==
  ASSUME ShipRecordsOK, KnownRows, ShipmentAssumption, NEW p \in ShipProcs, Unlock(p)
  PROVE  /\ worker[p].pc = "unlock" /\ Left(p)
         /\ shipLock' = IF shipLock = p THEN NoShipProc ELSE shipLock
         /\ UNCHANGED <<shipRow, label, mishaps, shipFaults>>
BY RequestMoves, SeqDomains DEF Unlock, WorkerAt, WorkerPcs

(* What Void does, element by element.                                       *)
LEMMA VoidDoes ==
  ASSUME ShipRecordsOK, KnownRows, ShipmentAssumption, NEW p \in ShipProcs, Void(p)
  PROVE  /\ worker[p].pc = "void"
         /\ (Ended(worker[p].label) /\ Went(p, "cancelRow")) \/ (Left(p) /\ (Ended(worker[p].label) \/ label' = label))
         /\ shipFaults' \in 0..MaxShipFaults
         /\ UNCHANGED <<shipRow, shipLock, mishaps>>
<1>a. /\ \A pc \in WorkerPcs : WorkerGoto(p, pc) => Went(p, pc)
      /\ Leave(p) => Left(p)
      /\ \A w \in WorkerRecords : worker' = [worker EXCEPT ![p] = w] => Moved(p, w.pc, w.row, w.label, w.status)
  BY RequestMoves
<1>b. worker[p] \in WorkerRecords
  BY DEF ShipRecordsOK
<1>c. /\ worker[p].row \in Nat /\ worker[p].label \in Nat /\ worker[p].status \in {"none"} \cup Statuses
      /\ worker[p].pc \in WorkerPcs
  BY <1>b DEF WorkerRecords, Statuses
<1> DEFINE n == worker[p].label
           voided == label[n].state = "live" /\ label' = [label EXCEPT ![n].state = "void"]
<1>1. /\ worker[p].pc = "void" /\ UNCHANGED <<shipRow, shipLock, mishaps>>
      /\ NoShipFault \/ ShipFault
      /\ \/ voided /\ WorkerGoto(p, "cancelRow")
         \/ Leave(p) /\ label' = label
         \/ voided /\ Leave(p)
  BY DEF Void, WorkerAt
<1>2. shipFaults' \in 0..MaxShipFaults
  BY <1>1, ShipmentAssumption DEF NoShipFault, ShipFault, ShipRecordsOK
<1>3. voided => Ended(n)
  <2>1. n \in 1..Len(label)
    BY <1>1, <1>c, SeqDomains DEF KnownRows, RowsKnown, RequestKnown, HasLabel
  <2> QED BY <2>1, LabelIsEnded
<1> HIDE DEF voided
<1> QED BY <1>1, <1>2, <1>3, <1>a DEF WorkerPcs

(* What CancelRow does, element by element.                                  *)
LEMMA CancelRowDoes ==
  ASSUME ShipRecordsOK, KnownRows, ShipmentAssumption, NEW p \in ShipProcs, CancelRow(p)
  PROVE  /\ worker[p].pc = "cancelRow" /\ Left(p)
         /\ RowsSet(worker[p].row, "cancelled", shipRow[worker[p].row].label)
         /\ \/ mishaps' = mishaps \cup {"crossed"}
            \/ /\ mishaps' = mishaps /\ shipRow[worker[p].row].label = worker[p].label
               /\ ~InDispatch(worker[p].row)
         /\ UNCHANGED <<label, shipLock, shipFaults>>
<1>a. /\ \A pc \in WorkerPcs : WorkerGoto(p, pc) => Went(p, pc)
      /\ Leave(p) => Left(p)
      /\ \A w \in WorkerRecords : worker' = [worker EXCEPT ![p] = w] => Moved(p, w.pc, w.row, w.label, w.status)
  BY RequestMoves
<1>b. worker[p] \in WorkerRecords
  BY DEF ShipRecordsOK
<1>c. /\ worker[p].row \in Nat /\ worker[p].label \in Nat /\ worker[p].status \in {"none"} \cup Statuses
      /\ worker[p].pc \in WorkerPcs
  BY <1>b DEF WorkerRecords, Statuses
<1>1. /\ worker[p].pc = "cancelRow" /\ Leave(p) /\ SetStatus(worker[p].row, "cancelled")
      /\ UNCHANGED <<label, shipLock, shipFaults>>
      /\ IF shipRow[worker[p].row].label # worker[p].label \/ InDispatch(worker[p].row)
           THEN mishaps' = mishaps \cup {"crossed"} ELSE mishaps' = mishaps
  BY DEF CancelRow, WorkerAt, Mishap
<1>2. ASSUME SetStatus(worker[p].row, "cancelled") PROVE RowsSet(worker[p].row, "cancelled", shipRow[worker[p].row].label)
  <2>1. worker[p].row \in 1..Len(shipRow)
    BY <1>1, SeqDomains DEF KnownRows, RowsKnown, RequestKnown, HasRow
  <2> QED BY <1>2, <2>1, StatusIsSet DEF Statuses, ShipEnded
<1> QED BY <1>1, <1>2, <1>a

(* What Track does, element by element.                                      *)
LEMMA TrackDoes ==
  ASSUME ShipRecordsOK, KnownRows, ShipmentAssumption, NEW p \in ShipProcs, Track(p)
  PROVE  /\ worker[p].pc = "track"
         /\ \/ Left(p)
            \/ \E s \in ShipEnded : Moved(p, "patch", worker[p].row, 0, s) /\ label[worker[p].label].state # "live"
         /\ UNCHANGED <<shipRow, label, shipLock, mishaps, shipFaults>>
<1>a. /\ \A pc \in WorkerPcs : WorkerGoto(p, pc) => Went(p, pc)
      /\ Leave(p) => Left(p)
      /\ \A w \in WorkerRecords : worker' = [worker EXCEPT ![p] = w] => Moved(p, w.pc, w.row, w.label, w.status)
  BY RequestMoves
<1>b. worker[p] \in WorkerRecords
  BY DEF ShipRecordsOK
<1>c. /\ worker[p].row \in Nat /\ worker[p].label \in Nat /\ worker[p].status \in {"none"} \cup Statuses
      /\ worker[p].pc \in WorkerPcs
  BY <1>b DEF WorkerRecords, Statuses
<1> DEFINE says == CarrierSays(label[worker[p].label].state)
<1>1. /\ worker[p].pc = "track" /\ UNCHANGED <<shipRow, label, shipLock, mishaps, shipFaults>>
      /\ \/ /\ says \in ShipEnded
            /\ worker' = [worker EXCEPT ![p] = [@ EXCEPT !.pc = "patch", !.label = 0, !.status = says]]
         \/ Leave(p)
  BY DEF Track, WorkerAt
<1>2. ASSUME says \in ShipEnded PROVE label[worker[p].label].state # "live"
  BY <1>2 DEF CarrierSays, ShipEnded
<1>3. ASSUME says \in ShipEnded, worker' = [worker EXCEPT ![p] = [@ EXCEPT !.pc = "patch", !.label = 0, !.status = says]]
      PROVE  Moved(p, "patch", worker[p].row, 0, says)
  <2> HIDE DEF says
  <2> QED BY <1>3, RequestMovesTo DEF WorkerPcs, Statuses
<1> HIDE DEF says
<1> QED BY <1>1, <1>2, <1>3, <1>a

(* What Patch does, element by element.                                      *)
LEMMA PatchDoes ==
  ASSUME ShipRecordsOK, KnownRows, ShipmentAssumption, NEW p \in ShipProcs, Patch(p)
  PROVE  /\ worker[p].pc = "patch" /\ Left(p)
         /\ RowsSet(worker[p].row, worker[p].status, shipRow[worker[p].row].label)
         /\ UNCHANGED <<label, shipLock, mishaps, shipFaults>>
<1>a. /\ \A pc \in WorkerPcs : WorkerGoto(p, pc) => Went(p, pc)
      /\ Leave(p) => Left(p)
      /\ \A w \in WorkerRecords : worker' = [worker EXCEPT ![p] = w] => Moved(p, w.pc, w.row, w.label, w.status)
  BY RequestMoves
<1>b. worker[p] \in WorkerRecords
  BY DEF ShipRecordsOK
<1>c. /\ worker[p].row \in Nat /\ worker[p].label \in Nat /\ worker[p].status \in {"none"} \cup Statuses
      /\ worker[p].pc \in WorkerPcs
  BY <1>b DEF WorkerRecords, Statuses
<1>1. /\ worker[p].pc = "patch" /\ Leave(p) /\ SetStatus(worker[p].row, worker[p].status)
      /\ UNCHANGED <<label, shipLock, mishaps, shipFaults>>
  BY DEF Patch, WorkerAt
<1>2. worker[p].status \in Statuses /\ worker[p].row \in 1..Len(shipRow)
  BY <1>1, SeqDomains DEF KnownRows, RowsKnown, RequestKnown, HasRow, Statuses
<1>3. RowsSet(worker[p].row, worker[p].status, shipRow[worker[p].row].label)
  BY <1>1, <1>2, StatusIsSet
<1> QED BY <1>1, <1>3, <1>a

(* What CrashWorker does, element by element.                                *)
LEMMA CrashWorkerDoes ==
  ASSUME ShipRecordsOK, KnownRows, ShipmentAssumption, NEW p \in ShipProcs, CrashWorker(p)
  PROVE  /\ Left(p)
         /\ label' = label \/ (worker[p].pc = "buy" /\ Len(label) < MaxLabels /\ Bought(worker[p].row))
         /\ mishaps' = IF worker[p].pc \in {"buy", "record", "fail"} THEN mishaps \cup {"unanswered"} ELSE mishaps
         /\ shipFaults' \in 0..MaxShipFaults
         /\ UNCHANGED <<shipRow, shipLock>>
<1>a. /\ \A pc \in WorkerPcs : WorkerGoto(p, pc) => Went(p, pc)
      /\ Leave(p) => Left(p)
      /\ \A w \in WorkerRecords : worker' = [worker EXCEPT ![p] = w] => Moved(p, w.pc, w.row, w.label, w.status)
  BY RequestMoves
<1>b. worker[p] \in WorkerRecords
  BY DEF ShipRecordsOK
<1>c. /\ worker[p].row \in Nat /\ worker[p].label \in Nat /\ worker[p].status \in {"none"} \cup Statuses
      /\ worker[p].pc \in WorkerPcs
  BY <1>b DEF WorkerRecords, Statuses
<1>1. /\ Leave(p) /\ ShipFault /\ UNCHANGED <<shipRow, shipLock>>
      /\ label' = label \/ (worker[p].pc = "buy" /\ Len(label) < MaxLabels /\ BuyLabel(worker[p].row))
      /\ mishaps' = IF worker[p].pc \in {"buy", "record", "fail"} THEN mishaps \cup {"unanswered"} ELSE mishaps
  BY DEF CrashWorker, WorkerAt, Mishap
<1>2. shipFaults' \in 0..MaxShipFaults
  BY <1>1, ShipmentAssumption DEF NoShipFault, ShipFault, ShipRecordsOK
<1>3. BuyLabel(worker[p].row) => Bought(worker[p].row)
  BY <1>c, LabelIsBought
<1> QED BY <1>1, <1>2, <1>3, <1>a

(* What StartCancel does, element by element.                                *)
LEMMA StartCancelDoes ==
  ASSUME ShipRecordsOK, KnownRows, ShipmentAssumption, NEW p \in ShipProcs, NEW r \in 1..Len(shipRow), StartCancel(p, r)
  PROVE  /\ worker[p].pc = "idle"
         /\ \/ Moved(p, "void", r, shipRow[r].label, worker[p].status) /\ shipRow[r].label # 0
            \/ Moved(p, "cancelRow", r, shipRow[r].label, worker[p].status) /\ shipRow[r].label = 0
         /\ UNCHANGED <<shipRow, label, shipLock, mishaps, shipFaults>>
<1>a. /\ \A pc \in WorkerPcs : WorkerGoto(p, pc) => Went(p, pc)
      /\ Leave(p) => Left(p)
      /\ \A w \in WorkerRecords : worker' = [worker EXCEPT ![p] = w] => Moved(p, w.pc, w.row, w.label, w.status)
  BY RequestMoves
<1>b. worker[p] \in WorkerRecords
  BY DEF ShipRecordsOK
<1>c. /\ worker[p].row \in Nat /\ worker[p].label \in Nat /\ worker[p].status \in {"none"} \cup Statuses
      /\ worker[p].pc \in WorkerPcs
  BY <1>b DEF WorkerRecords, Statuses
<1> DEFINE n == shipRow[r].label
           pc == AfterCancelRead(shipRow[r])
<1>1. /\ worker[p].pc = "idle" /\ UNCHANGED <<shipRow, label, shipLock, mishaps, shipFaults>>
      /\ worker' = [worker EXCEPT ![p] = [@ EXCEPT !.pc = pc, !.row = r, !.label = n]]
  BY DEF StartCancel, WorkerAt
<1>2. n \in Nat /\ r \in Nat
  BY SeqDomains DEF RowRecords
<1>3. (pc = "void" /\ n # 0) \/ (pc = "cancelRow" /\ n = 0)
  BY DEF AfterCancelRead
<1>4. pc \in WorkerPcs
  BY DEF AfterCancelRead, WorkerPcs
<1> HIDE DEF n, pc
<1>6. Moved(p, pc, r, n, worker[p].status)
  BY <1>1, <1>2, <1>4, RequestMovesTo
<1>7. (pc = "void" /\ n # 0) \/ (pc = "cancelRow" /\ n = 0)
  BY <1>3
<1> QED BY <1>1, <1>6, <1>7 DEF n

(* What StartPoll does, element by element.                                  *)
LEMMA StartPollDoes ==
  ASSUME ShipRecordsOK, KnownRows, ShipmentAssumption, NEW p \in ShipProcs, NEW r \in 1..Len(shipRow), StartPoll(p, r)
  PROVE  /\ worker[p].pc = "idle" /\ shipRow[r].label # 0
         /\ Moved(p, "track", r, shipRow[r].label, shipRow[r].status)
         /\ UNCHANGED <<shipRow, label, shipLock, mishaps, shipFaults>>
<1>a. /\ \A pc \in WorkerPcs : WorkerGoto(p, pc) => Went(p, pc)
      /\ Leave(p) => Left(p)
      /\ \A w \in WorkerRecords : worker' = [worker EXCEPT ![p] = w] => Moved(p, w.pc, w.row, w.label, w.status)
  BY RequestMoves
<1>b. worker[p] \in WorkerRecords
  BY DEF ShipRecordsOK
<1>c. /\ worker[p].row \in Nat /\ worker[p].label \in Nat /\ worker[p].status \in {"none"} \cup Statuses
      /\ worker[p].pc \in WorkerPcs
  BY <1>b DEF WorkerRecords, Statuses
<1> DEFINE n == shipRow[r].label
           status == shipRow[r].status
<1>1. /\ worker[p].pc = "idle" /\ n # 0 /\ UNCHANGED <<shipRow, label, shipLock, mishaps, shipFaults>>
      /\ worker' = [worker EXCEPT ![p] = [@ EXCEPT !.pc = "track", !.row = r, !.label = n, !.status = status]]
  BY DEF StartPoll, WorkerAt
<1>2. n \in Nat /\ r \in Nat /\ status \in Statuses
  BY SeqDomains DEF RowRecords, Statuses
<1> HIDE DEF n, status
<1>4. Moved(p, "track", r, n, status)
  BY <1>1, <1>2, RequestMovesTo DEF WorkerPcs
<1> QED BY <1>1, <1>4 DEF n, status

(* SeqDomains, for the next state.                                           *)
LEMMA NextSeqDomains ==
  ASSUME ShipRecordsOK'
  PROVE  /\ ShipRows' = 1..Len(shipRow') /\ (DOMAIN label)' = 1..Len(label')
         /\ Len(shipRow') \in Nat /\ Len(label') \in Nat
BY LenProperties DEF ShipRecordsOK, ShipRows

(* At first there is no row, no label and no request.                          *)
LEMMA LabelInitInv == ASSUME ShipInit PROVE LabelInv
<1>1. ShipRecordsOK
  <2>1. IdleWorker \in WorkerRecords
    BY DEF IdleWorker, WorkerRecords, WorkerPcs
  <2>2. Len(shipRow) = 0 /\ Len(label) = 0
    BY DEF ShipInit
  <2> QED BY <2>1, <2>2, ShipmentAssumption DEF ShipInit, ShipRecordsOK
<1>2. ShipRows = {} /\ DOMAIN label = {} /\ Len(label) = 0
  BY DEF ShipInit, ShipRows
<1>3. BooksOK
  BY <1>2 DEF BooksOK, RowsKnown, LastIsUnlabelled, OthersEnded, RowsFit, OneLabelEach, EndedIsOver,
              LabelsRecorded, CancelledIsOver
<1>4. ASSUME NEW p \in ShipProcs PROVE RequestOK(p)
  <2>1. worker[p].pc = "idle" /\ worker[p].label = 0
    BY DEF ShipInit, IdleWorker
  <2> QED BY <1>2, <2>1
          DEF RequestOK, RequestKnown, HasRow, HasLabel, Dispatching, DispatchOK, LooksOK, BuysFirst
<1> QED BY <1>1, <1>3, <1>4 DEF LabelInv

(* A request about to record its label goes on with it.                        *)
StillRecording == \A q \in ShipProcs : worker[q].pc = "record" => worker'[q] = worker[q]
MishapsStay == mishaps \subseteq mishaps'

(* What did not go wrong until after a step had not before it.               *)
LEMMA KeptBefore ==
  ASSUME MishapsStay
  PROVE  /\ Uncrossed' => Uncrossed
         /\ Asked' => Asked /\ Uncrossed /\ Uncrossed'
         /\ Answered' => Answered /\ Uncrossed /\ Uncrossed'
BY DEF MishapsStay, Uncrossed, Asked, Answered, Kept

(* Rows and labels that stay are right; whoever was to record a label still  *)
(* is.                                                                       *)
LEMMA BooksStay ==
  ASSUME LabelInv, ShipRecordsOK', MishapsStay, UNCHANGED <<shipRow, label>>, Answered' => StillRecording
  PROVE  BooksOK'
<1>1. BooksOK
  BY DEF LabelInv
<1>2. RowsKnown' /\ LastIsUnlabelled'
  BY <1>1 DEF BooksOK, RowsKnown, LastIsUnlabelled, ShipRows
<1>3. Uncrossed' => OthersEnded' /\ RowsFit'
  BY <1>1, KeptBefore DEF BooksOK, OthersEnded, RowsFit, ShipRows
<1>4. Asked' => OneLabelEach' /\ EndedIsOver'
  BY <1>1, KeptBefore DEF BooksOK, OneLabelEach, EndedIsOver, ShipRows, LiveLabel
<1>5. Answered' => LabelsRecorded' /\ CancelledIsOver'
  <2>1. Answered' => \A n : Recording(n) => Recording(n)'
    BY DEF Recording, StillRecording
  <2> QED BY <1>1, <2>1, KeptBefore DEF BooksOK, LabelsRecorded, CancelledIsOver, ShipRows, LiveLabel
<1> QED BY <1>2, <1>3, <1>4, <1>5 DEF BooksOK

(* One row is written: its status, and the label it keeps or gets.           *)
LEMMA BooksSet ==
  ASSUME LabelInv, ShipRecordsOK', MishapsStay, label' = label, NEW p \in ShipProcs, NEW r \in 1..Len(shipRow),
         NEW status, NEW n \in Nat, n <= Len(label), RowsBecome(r, status, n),
         \A q \in ShipProcs \ {p} : worker'[q] = worker[q],
         n = shipRow[r].label \/ n # 0,
         Uncrossed' => /\ status \in ShipEnded \/ r = Len(shipRow)
                       /\ n = shipRow[r].label \/ label[n].row = r,
         Asked' /\ status \in ShipEnded /\ n # 0 => ~LiveLabel(n),
         Answered' => /\ n = shipRow[r].label \/ shipRow[r].label = 0
                      /\ worker[p].pc = "record" => n = worker[p].label
                      /\ status = "cancelled" /\ n # 0 => ~LiveLabel(n)
  PROVE  BooksOK'
<1>1. BooksOK /\ ShipRecordsOK
  BY DEF LabelInv
<1>2. /\ ShipRows = 1..Len(shipRow) /\ ShipRows' = 1..Len(shipRow) /\ Len(shipRow') = Len(shipRow)
      /\ DOMAIN label = 1..Len(label) /\ Len(label) \in Nat /\ Len(shipRow) \in Nat
      /\ \A i \in 1..Len(shipRow) : shipRow[i].label \in Nat
  BY <1>1, SeqDomains, NextSeqDomains DEF RowsBecome, RowRecords
<1>3. \A i \in 1..Len(shipRow) : /\ shipRow'[i].status = IF i = r THEN status ELSE shipRow[i].status
                                 /\ shipRow'[i].label = IF i = r THEN n ELSE shipRow[i].label
  BY DEF RowsBecome
<1>4. RowsKnown' /\ LastIsUnlabelled'
  BY <1>1, <1>2, <1>3 DEF BooksOK, RowsKnown, LastIsUnlabelled
<1>5. Uncrossed' => OthersEnded' /\ RowsFit'
  <2>1. Uncrossed' => OthersEnded'
    BY <1>1, <1>2, <1>3, KeptBefore DEF BooksOK, OthersEnded
  <2>2. Uncrossed' => RowsFit'
    BY <1>1, <1>2, <1>3, KeptBefore DEF BooksOK, RowsFit
  <2> QED BY <2>1, <2>2
<1>6. Asked' => OneLabelEach' /\ EndedIsOver'
  BY <1>1, <1>2, <1>3, KeptBefore DEF BooksOK, OneLabelEach, EndedIsOver, LiveLabel
<1>7. Answered' => CancelledIsOver'
  BY <1>1, <1>2, <1>3, KeptBefore DEF BooksOK, CancelledIsOver, LiveLabel
<1>8. ASSUME Answered', NEW m \in 1..Len(label) PROVE (shipRow[label[m].row].label = m \/ Recording(m))'
  <2>1. label[m].row \in 1..Len(shipRow) /\ (shipRow[label[m].row].label = m \/ Recording(m))
    BY <1>1, <1>2, <1>8, KeptBefore DEF BooksOK, RowsKnown, LabelsRecorded
  <2>2. CASE shipRow[label[m].row].label = m
    BY <1>2, <1>3, <1>8, <2>1, <2>2
  <2>3. CASE \E q \in ShipProcs \ {p} : worker[q].pc = "record" /\ worker[q].label = m
    BY <2>3 DEF Recording
  <2>4. CASE worker[p].pc = "record" /\ worker[p].label = m
    <3>1. n = m /\ label[n].row = r
      <4>1. n = m /\ (n = shipRow[r].label \/ label[n].row = r)
        BY <1>8, <2>4, KeptBefore
      <4>2. RowsFit
        BY <1>1, <1>8, KeptBefore DEF BooksOK
      <4> QED BY <1>2, <4>1, <4>2 DEF RowsFit
    <3> QED BY <1>3, <2>1, <3>1
  <2> QED BY <2>1, <2>2, <2>3, <2>4 DEF Recording
<1>9. Answered' => LabelsRecorded'
  BY <1>2, <1>8 DEF LabelsRecorded
<1> QED BY <1>4, <1>5, <1>6, <1>7, <1>9 DEF BooksOK

(* One label is bought.                                                      *)
LEMMA BooksBuy ==
  ASSUME LabelInv, ShipRecordsOK', MishapsStay, shipRow' = shipRow, NEW p \in ShipProcs, NEW r \in 1..Len(shipRow),
         LabelsGrow(r), StillRecording,
         Asked' => \A n \in 1..Len(label) : label[n].row # r,
         Answered' => worker'[p].pc = "record" /\ worker'[p].label = Len(label) + 1
  PROVE  BooksOK'
<1>1. BooksOK /\ ShipRecordsOK
  BY DEF LabelInv
<1>2. /\ ShipRows = 1..Len(shipRow) /\ ShipRows' = 1..Len(shipRow)
      /\ DOMAIN label = 1..Len(label) /\ (DOMAIN label)' = 1..(Len(label) + 1)
      /\ Len(label) \in Nat /\ Len(label') = Len(label) + 1
      /\ \A i \in 1..Len(shipRow) : shipRow[i].label \in Nat
  BY <1>1, SeqDomains, NextSeqDomains DEF LabelsGrow, RowRecords
<1>3. /\ \A i \in 1..Len(label) : label'[i] = label[i]
      /\ label'[Len(label) + 1].row = r
  BY DEF LabelsGrow
<1>4. /\ \A i \in 1..Len(shipRow) : shipRow[i].label <= Len(label)
      /\ \A i \in 1..Len(shipRow) : shipRow[i].label # 0 => shipRow[i].label \in 1..Len(label)
  BY <1>1, <1>2 DEF BooksOK, RowsKnown
<1>5. RowsKnown' /\ LastIsUnlabelled'
  <2>1. \A n \in 1..(Len(label) + 1) : label'[n].row \in 1..Len(shipRow)
    <3>1. \A n \in 1..Len(label) : label[n].row \in 1..Len(shipRow)
      BY <1>1, <1>2 DEF BooksOK, RowsKnown
    <3>2. \A n \in 1..(Len(label) + 1) : n \in 1..Len(label) \/ n = Len(label) + 1
      BY <1>2
    <3> QED BY <1>3, <3>1, <3>2
  <2> QED BY <1>1, <1>2, <1>4, <2>1 DEF BooksOK, RowsKnown, LastIsUnlabelled
<1>6. Uncrossed' => OthersEnded' /\ RowsFit'
  BY <1>1, <1>2, <1>3, <1>4, KeptBefore DEF BooksOK, OthersEnded, RowsFit
<1>7. Asked' => OneLabelEach' /\ EndedIsOver'
  <2>1. Asked' => EndedIsOver'
    BY <1>1, <1>2, <1>3, <1>4, KeptBefore DEF BooksOK, EndedIsOver, LiveLabel
  <2>2. ASSUME Asked', NEW m \in 1..(Len(label) + 1), NEW n \in 1..(Len(label) + 1), label'[m].row = label'[n].row
        PROVE  m = n
    <3>1. \A i, j \in 1..Len(label) : label[i].row = label[j].row => i = j
      BY <1>1, <1>2, <2>2, KeptBefore DEF BooksOK, OneLabelEach
    <3>2. CASE m \in 1..Len(label) /\ n \in 1..Len(label)
      BY <1>3, <2>2, <3>1, <3>2
    <3>3. CASE m = Len(label) + 1 /\ n \in 1..Len(label)
      BY <1>3, <2>2, <3>3
    <3>4. CASE n = Len(label) + 1 /\ m \in 1..Len(label)
      BY <1>3, <2>2, <3>4
    <3> QED BY <1>2, <3>2, <3>3, <3>4
  <2> QED BY <1>2, <2>1, <2>2 DEF OneLabelEach
<1>8. Answered' => LabelsRecorded' /\ CancelledIsOver'
  <2>1. Answered' => CancelledIsOver'
    BY <1>1, <1>2, <1>3, <1>4, KeptBefore DEF BooksOK, CancelledIsOver, LiveLabel
  <2>2. \A n : Recording(n) => Recording(n)'
    BY DEF Recording, StillRecording
  <2>3. Answered' => \A n \in 1..Len(label) : (shipRow[label[n].row].label = n \/ Recording(n))'
    BY <1>1, <1>2, <1>3, <2>2, KeptBefore DEF BooksOK, LabelsRecorded
  <2>4. Answered' => \A n : n = Len(label) + 1 => Recording(n)'
    BY DEF Recording
  <2>5. \A n \in 1..(Len(label) + 1) : n \in 1..Len(label) \/ n = Len(label) + 1
    BY <1>2
  <2>6. Answered' => LabelsRecorded'
    BY <1>2, <2>3, <2>4, <2>5 DEF LabelsRecorded
  <2> QED BY <2>1, <2>6
<1> QED BY <1>5, <1>6, <1>7, <1>8 DEF BooksOK

(* One label ends.                                                           *)
LEMMA BooksEnd ==
  ASSUME LabelInv, ShipRecordsOK', MishapsStay, shipRow' = shipRow, NEW n \in 1..Len(label), LabelEnds(n), StillRecording
  PROVE  BooksOK'
<1>1. BooksOK /\ ShipRecordsOK
  BY DEF LabelInv
<1>2. /\ ShipRows = 1..Len(shipRow) /\ ShipRows' = 1..Len(shipRow)
      /\ DOMAIN label = 1..Len(label) /\ (DOMAIN label)' = 1..Len(label)
      /\ Len(label) \in Nat /\ Len(label') = Len(label)
      /\ \A i \in 1..Len(shipRow) : shipRow[i].label \in Nat
  BY <1>1, SeqDomains, NextSeqDomains DEF LabelEnds, RowRecords
<1>3. \A i \in 1..Len(label) : /\ label'[i].row = label[i].row
                               /\ label'[i].state = "live" => label[i].state = "live"
  BY DEF LabelEnds
<1>4. \A i \in 1..Len(shipRow) : shipRow[i].label # 0 => shipRow[i].label \in 1..Len(label)
  BY <1>1, <1>2 DEF BooksOK, RowsKnown
<1>5. RowsKnown' /\ LastIsUnlabelled'
  BY <1>1, <1>2, <1>3 DEF BooksOK, RowsKnown, LastIsUnlabelled
<1>6. Uncrossed' => OthersEnded' /\ RowsFit'
  BY <1>1, <1>2, <1>3, <1>4, KeptBefore DEF BooksOK, OthersEnded, RowsFit
<1>7. Asked' => OneLabelEach' /\ EndedIsOver'
  BY <1>1, <1>2, <1>3, <1>4, KeptBefore DEF BooksOK, OneLabelEach, EndedIsOver, LiveLabel
<1>8. Answered' => LabelsRecorded' /\ CancelledIsOver'
  <2>1. \A i : Recording(i) => Recording(i)'
    BY DEF Recording, StillRecording
  <2> QED BY <1>1, <1>2, <1>3, <1>4, <2>1, KeptBefore DEF BooksOK, LabelsRecorded, CancelledIsOver, LiveLabel
<1> QED BY <1>5, <1>6, <1>7, <1>8 DEF BooksOK

(* What leaves the other requests right.                                       *)
Steady ==
  /\ Len(shipRow) <= Len(shipRow') /\ Len(label) <= Len(label')
  /\ \A n \in 1..Len(label) : label'[n].row = label[n].row /\ (label'[n].state = "live" => label[n].state = "live")
  /\ Uncrossed' => \A r \in 1..Len(shipRow) : shipRow[r].label # 0 => shipRow'[r].label = shipRow[r].label
Drafting(r) == \E q \in ShipProcs : worker[q].row = r /\ worker[q].pc \in {"lookup", "buy", "record", "adopt"}
Quiet ==
  /\ Len(shipRow') = Len(shipRow) /\ Len(label') = Len(label)
  /\ \A r \in 1..Len(shipRow) : /\ shipRow'[r].label = shipRow[r].label
                                /\ shipRow'[r].status = shipRow[r].status \/ shipRow'[r].status \in ShipEnded
                                /\ Drafting(r) => shipRow'[r].status = shipRow[r].status

(* A request that does not move stays right if the step is steady, and quiet *)
(* where it dispatches.                                                      *)
LEMMA OthersKept ==
  ASSUME LabelInv, ShipRecordsOK', MishapsStay, Steady,
         NEW q \in ShipProcs, worker'[q] = worker[q], Uncrossed' /\ shipLock = q => shipLock' = q,
         Uncrossed' => worker[q].pc \notin Dispatching \/ Quiet
  PROVE  RequestOK(q)'
<1>1. BooksOK /\ ShipRecordsOK /\ RequestOK(q)
  BY DEF LabelInv
<1>2. /\ ShipRows = 1..Len(shipRow) /\ ShipRows' = 1..Len(shipRow') /\ Len(shipRow) <= Len(shipRow')
      /\ DOMAIN label = 1..Len(label) /\ (DOMAIN label)' = 1..Len(label') /\ Len(label) <= Len(label')
      /\ Len(label) \in Nat /\ Len(label') \in Nat /\ Len(shipRow) \in Nat /\ Len(shipRow') \in Nat
      /\ \A i \in 1..Len(shipRow) : shipRow[i].label \in Nat
      /\ worker[q].label \in Nat
  BY <1>1, SeqDomains, NextSeqDomains DEF Steady, RowRecords, WorkerRecords
<1>3. RequestKnown(q) /\ RowsKnown
  BY <1>1 DEF RequestOK, BooksOK
<1>4. RequestKnown(q)'
  <2>1. worker[q].row \in 1..Len(shipRow) => worker[q].row \in 1..Len(shipRow')
    BY <1>2
  <2>2. worker[q].label <= Len(label) => worker[q].label <= Len(label')
    BY <1>2
  <2> QED BY <1>2, <1>3, <2>1, <2>2 DEF RequestKnown
<1>5. ASSUME Uncrossed' PROVE LooksOK(q)'
  <2>1. LooksOK(q)
    BY <1>1, <1>5, KeptBefore DEF RequestOK
  <2>2. CASE worker[q].pc = "track"
    <3>1. worker[q].row \in 1..Len(shipRow) /\ shipRow[worker[q].row].label = worker[q].label /\ worker[q].label # 0
      BY <1>2, <1>3, <2>1, <2>2 DEF LooksOK, HasRow, HasLabel, RequestKnown
    <3> QED BY <1>5, <2>2, <3>1 DEF LooksOK, Steady
  <2>3. CASE worker[q].pc = "patch"
    <3> DEFINE n == shipRow[worker[q].row].label
    <3>1. worker[q].row \in 1..Len(shipRow) /\ n # 0 /\ label[n].state # "live"
      BY <1>2, <1>3, <2>1, <2>3 DEF LooksOK, HasRow, RequestKnown, LiveLabel
    <3>2. n \in 1..Len(label) /\ shipRow'[worker[q].row].label = n
      BY <1>2, <1>3, <1>5, <3>1 DEF Steady, RowsKnown
    <3> QED BY <2>3, <3>1, <3>2 DEF LooksOK, Steady, LiveLabel
  <2>4. CASE worker[q].pc = "cancelRow"
    <3>1. worker[q].label # 0 => worker[q].label \in 1..Len(label)
      BY <1>2, <1>3 DEF RequestKnown
    <3> QED BY <2>1, <2>4, <3>1 DEF LooksOK, Steady, LiveLabel
  <2> QED BY <2>2, <2>3, <2>4 DEF LooksOK
<1>6. ASSUME Uncrossed' PROVE DispatchOK(q)'
  <2>1. DispatchOK(q) /\ (worker[q].pc \notin Dispatching \/ Quiet)
    BY <1>1, <1>6, KeptBefore DEF RequestOK
  <2>2. CASE worker[q].pc \notin Dispatching
    BY <2>2 DEF Dispatching, DispatchOK
  <2>3. CASE Quiet
    <3>1. worker[q].pc \in HasRow => worker[q].row \in 1..Len(shipRow)
      BY <1>2, <1>3 DEF RequestKnown
    <3>2. worker[q].pc \in {"prior", "create"} => \A r \in 1..Len(shipRow') : shipRow'[r].status \in ShipEnded
      BY <1>2, <2>1, <2>3 DEF Quiet, DispatchOK
    <3>3. worker[q].pc \in {"lookup", "buy", "record", "adopt"} => shipRow'[worker[q].row].status = "draft"
      <4>1. worker[q].pc \in {"lookup", "buy", "record", "adopt"} => Drafting(worker[q].row)
        BY DEF Drafting
      <4> QED BY <2>1, <2>3, <3>1, <4>1 DEF Quiet, DispatchOK, HasRow
    <3>4. /\ worker[q].pc \in {"reset", "lookup", "buy", "record", "adopt"} =>
               worker[q].row = Len(shipRow') /\ shipRow'[worker[q].row].label = 0
          /\ worker[q].pc = "fail" => /\ worker[q].row = Len(shipRow')
                                      /\ shipRow'[worker[q].row].label = 0 \/ "unread" \in mishaps'
      BY <2>1, <2>3, <3>1 DEF Quiet, DispatchOK, HasRow, MishapsStay
    <3>5. worker[q].pc \in {"record", "adopt"} => label'[worker[q].label].row = worker[q].row
      <4>1. worker[q].pc \in {"record", "adopt"} => worker[q].label \in 1..Len(label)
        BY <1>2, <1>3 DEF RequestKnown, HasLabel
      <4> QED BY <2>1, <4>1 DEF Steady, DispatchOK
    <3> QED BY <1>2, <3>2, <3>3, <3>4, <3>5 DEF DispatchOK
  <2> QED BY <2>1, <2>2, <2>3
<1>7. ASSUME Asked' PROVE BuysFirst(q)'
  <2>1. BuysFirst(q) /\ (worker[q].pc # "buy" \/ Quiet)
    BY <1>1, <1>7, KeptBefore DEF RequestOK, Dispatching
  <2> QED BY <1>2, <2>1 DEF BuysFirst, Steady, Quiet
<1>8. Uncrossed' => (worker'[q].pc \in Dispatching => shipLock' = q)
  BY <1>1, KeptBefore DEF RequestOK
<1> QED BY <1>4, <1>5, <1>6, <1>7, <1>8 DEF RequestOK

(* A request that is between two steps of a dispatch has nothing to hold.       *)
LEMMA AtRest ==
  ASSUME NEW p \in ShipProcs, worker'[p].pc \in {"idle", "active", "unlock"}, worker'[p].label \in {0, worker[p].label},
         ShipRecordsOK, ShipRecordsOK', RequestOK(p), MishapsStay, Len(label) <= Len(label'),
         worker'[p].pc # "idle" => shipLock' = p \/ (worker[p].pc \in Dispatching /\ shipLock' = shipLock)
  PROVE  RequestOK(p)'
<1>1. Len(label) \in Nat /\ Len(label') \in Nat /\ worker[p].label \in Nat
  BY SeqDomains, NextSeqDomains DEF WorkerRecords
<1>2. worker'[p].label <= Len(label')
  BY <1>1 DEF RequestOK, RequestKnown
<1> QED BY <1>2, KeptBefore
        DEF RequestOK, RequestKnown, HasRow, HasLabel, Dispatching, DispatchOK, LooksOK, BuysFirst

(* One request moves, the others are where they were.                           *)
LEMMA OthersToo ==
  ASSUME LabelInv, ShipRecordsOK', BooksOK', MishapsStay, Steady, NEW p \in ShipProcs, RequestOK(p)',
         \A q \in ShipProcs \ {p} : worker'[q] = worker[q] /\ (shipLock = q => shipLock' = q),
         Uncrossed' => worker[p].pc \in Dispatching \/ Quiet
  PROVE  LabelInv'
<1>1. ASSUME NEW q \in ShipProcs \ {p} PROVE RequestOK(q)'
  <2>1. Uncrossed' => worker[q].pc \notin Dispatching \/ Quiet
    <3>1. Uncrossed' => /\ worker[p].pc \in Dispatching => shipLock = p
                        /\ worker[q].pc \in Dispatching => shipLock = q
      BY KeptBefore DEF LabelInv, RequestOK
    <3> QED BY <3>1
  <2> QED BY <2>1, OthersKept
<1> QED BY <1>1 DEF LabelInv

(* One request moves, rows and labels stay.                                  *)
LEMMA Untouched ==
  ASSUME LabelInv, ShipRecordsOK', BooksOK', MishapsStay, UNCHANGED <<shipRow, label>>, NEW p \in ShipProcs, RequestOK(p)',
         \A q \in ShipProcs \ {p} : worker'[q] = worker[q] /\ (shipLock = q => shipLock' = q)
  PROVE  LabelInv'
<1>1. Steady /\ Quiet
  BY SeqDomains DEF Steady, Quiet, LabelInv
<1> QED BY <1>1, OthersToo

(* A row is added, after all others have ended.                              *)
LEMMA RowAdds ==
  ASSUME LabelInv, ShipRecordsOK', MishapsStay, label' = label, RowsGrow, StillRecording,
         \A r \in 1..Len(shipRow) : shipRow[r].label # 0,
         Uncrossed' => \A r \in 1..Len(shipRow) : shipRow[r].status \in ShipEnded
  PROVE  BooksOK'
<1>1. BooksOK /\ ShipRecordsOK
  BY DEF LabelInv
<1>2. /\ ShipRows = 1..Len(shipRow) /\ ShipRows' = 1..(Len(shipRow) + 1) /\ Len(shipRow') = Len(shipRow) + 1
      /\ DOMAIN label = 1..Len(label) /\ Len(shipRow) \in Nat /\ Len(label) \in Nat
  BY <1>1, SeqDomains, NextSeqDomains DEF RowsGrow
<1>3. /\ \A i \in 1..Len(shipRow) : shipRow'[i] = shipRow[i]
      /\ shipRow'[Len(shipRow) + 1].status = "draft" /\ shipRow'[Len(shipRow) + 1].label = 0
  BY DEF RowsGrow
<1>4. RowsKnown' /\ LastIsUnlabelled'
  BY <1>1, <1>2, <1>3 DEF BooksOK, RowsKnown, LastIsUnlabelled
<1>5. Uncrossed' => OthersEnded' /\ RowsFit'
  <2>1. Uncrossed' => OthersEnded'
    BY <1>1, <1>2, <1>3, KeptBefore DEF BooksOK, OthersEnded
  <2>2. Uncrossed' => RowsFit'
    BY <1>1, <1>2, <1>3, KeptBefore DEF BooksOK, RowsFit
  <2> QED BY <2>1, <2>2
<1>6. Asked' => OneLabelEach' /\ EndedIsOver'
  BY <1>1, <1>2, <1>3, KeptBefore DEF BooksOK, OneLabelEach, EndedIsOver, LiveLabel
<1>7. Answered' => LabelsRecorded' /\ CancelledIsOver'
  <2>1. \A i : Recording(i) => Recording(i)'
    BY DEF Recording, StillRecording
  <2>2. \A i \in 1..Len(label) : label[i].row \in 1..Len(shipRow)
    BY <1>1, <1>2 DEF BooksOK, RowsKnown
  <2>3. Answered' => LabelsRecorded'
    BY <1>1, <1>2, <1>3, <2>1, <2>2, KeptBefore DEF BooksOK, LabelsRecorded
  <2>4. Answered' => CancelledIsOver'
    BY <1>1, <1>2, <1>3, KeptBefore DEF BooksOK, CancelledIsOver, LiveLabel
  <2> QED BY <2>3, <2>4
<1> QED BY <1>4, <1>5, <1>6, <1>7 DEF BooksOK

(* Every step keeps the invariant: per action, what it did, the books, its   *)
(* own request, the others.                                                  *)
LEMMA LabelStepInv == ASSUME LabelInv, [ShipNext]_shipVars PROVE LabelInv'
<1>a. ShipRecordsOK /\ KnownRows /\ BooksOK /\ ShipmentAssumption
  BY ShipmentAssumption DEF LabelInv, BooksOK, RequestOK, KnownRows
<1>b. /\ ShipRows = 1..Len(shipRow) /\ DOMAIN label = 1..Len(label)
      /\ Len(shipRow) \in Nat /\ Len(label) \in Nat
      /\ \A r \in 1..Len(shipRow) : shipRow[r].label \in Nat
      /\ \A p \in ShipProcs : worker[p].label \in Nat
  BY <1>a, SeqDomains DEF RowRecords, WorkerRecords
<1>c. \A p \in ShipProcs : RequestOK(p)
  BY DEF LabelInv
<1>1. ASSUME NEW p \in ShipProcs, StartDispatch(p) PROVE LabelInv'
  <2>1. ShipRecordsOK'
    BY <1>1, <1>a, StartDispatchDoes DEF ShipRecordsOK, Moved, Went, Left
  <2>0. /\ worker[p].pc = "idle" /\ shipLock = NoShipProc /\ shipLock' = p
        /\ Went(p, "active")
        /\ UNCHANGED <<shipRow, label, mishaps, shipFaults>>
    BY <1>1, <1>a, StartDispatchDoes
  <2>2. /\ ShipRows' = 1..Len(shipRow') /\ (DOMAIN label)' = 1..Len(label')
        /\ Len(shipRow') \in Nat /\ Len(label') \in Nat
    BY <2>1, NextSeqDomains
  <2> QED
    <3>1. BooksOK'
      BY <2>0, <2>1, BooksStay DEF StillRecording, MishapsStay, Answered, Kept, Moved, Went, Left
    <3>3. RequestOK(p)'
      BY <2>0, <2>1, <2>2, <1>a, <1>b, <1>c, AtRest DEF Moved, Went, Left, Dispatching, MishapsStay
    <3> QED BY <2>0, <2>1, <1>a, <3>1, <3>3, Untouched
            DEF MishapsStay, ShipmentAssumption, Dispatching, Moved, Went, Left
<1>2. ASSUME NEW p \in ShipProcs, ReadActive(p) PROVE LabelInv'
  <2>1. ShipRecordsOK'
    BY <1>2, <1>a, ReadActiveDoes DEF ShipRecordsOK, Moved, Went, Left
  <2>0. /\ worker[p].pc = "active"
        /\ Went(p, "unlock") \/ (Went(p, "prior") /\ \A r \in 1..Len(shipRow) : shipRow[r].status \in ShipEnded)
        /\ UNCHANGED <<shipRow, label, shipLock, mishaps, shipFaults>>
    BY <1>2, <1>a, ReadActiveDoes
  <2>2. /\ ShipRows' = 1..Len(shipRow') /\ (DOMAIN label)' = 1..Len(label')
        /\ Len(shipRow') \in Nat /\ Len(label') \in Nat
    BY <2>1, NextSeqDomains
  <2> QED
    <3>1. BooksOK'
      BY <2>0, <2>1, BooksStay DEF StillRecording, MishapsStay, Answered, Kept, Moved, Went, Left
    <3>3. RequestKnown(p)'
      BY <2>0, <2>1, <2>2, <1>a, <1>b
      DEF KnownRows, RowsKnown, RequestKnown, HasRow, HasLabel, ShipEnded, Moved, Went, Left
    <3>4. Uncrossed' => DispatchOK(p) /\ LooksOK(p) /\ (worker[p].pc \in Dispatching => shipLock = p)
      BY <2>0, <1>c, KeptBefore DEF MishapsStay, RequestOK
    <3>5. Uncrossed' => (worker'[p].pc \in Dispatching => shipLock' = p)
      BY <2>0, <3>4 DEF Dispatching, Moved, Went, Left
    <3>6. Uncrossed' => DispatchOK(p)'
      BY <2>0, <2>1, <2>2, <1>a, <1>b, <3>4 DEF DispatchOK, OthersEnded, ShipEnded, Moved, Went, Left
    <3>7. Uncrossed' => LooksOK(p)'
      BY <2>0, <2>1, <2>2, <1>a, <1>b, <3>4 DEF LooksOK, LiveLabel, Moved, Went, Left
    <3>8. Asked' => BuysFirst(p)'
      BY <2>0, <2>1, <2>2, <1>a, <1>b, <1>c, KeptBefore
      DEF MishapsStay, RequestOK, BuysFirst, Asked, Kept, Moved, Went, Left
    <3>9. RequestOK(p)'
      BY <3>3, <3>5, <3>6, <3>7, <3>8 DEF RequestOK
    <3> QED BY <2>0, <2>1, <1>a, <3>1, <3>9, Untouched
            DEF MishapsStay, ShipmentAssumption, Dispatching, Moved, Went, Left
<1>3. ASSUME NEW p \in ShipProcs, ReadPrior(p) PROVE LabelInv'
  <2>1. ShipRecordsOK'
    BY <1>3, <1>a, ReadPriorDoes DEF ShipRecordsOK, Moved, Went, Left
  <2>0. /\ worker[p].pc = "prior"
        /\ Went(p, "create") \/ \E r \in 1..Len(shipRow) : shipRow[r].label = 0 /\ Moved(p, "reset", r, worker[p].label, worker[p].status)
        /\ UNCHANGED <<shipRow, label, shipLock, mishaps, shipFaults>>
    BY <1>3, <1>a, ReadPriorDoes
  <2>2. /\ ShipRows' = 1..Len(shipRow') /\ (DOMAIN label)' = 1..Len(label')
        /\ Len(shipRow') \in Nat /\ Len(label') \in Nat
    BY <2>1, NextSeqDomains
  <2> QED
    <3>1. BooksOK'
      BY <2>0, <2>1, BooksStay DEF StillRecording, MishapsStay, Answered, Kept, Moved, Went, Left
    <3>3. RequestKnown(p)'
      BY <2>0, <2>1, <2>2, <1>a, <1>b
      DEF KnownRows, RowsKnown, RequestKnown, HasRow, HasLabel, ShipEnded, Moved, Went, Left
    <3>4. Uncrossed' => DispatchOK(p) /\ LooksOK(p) /\ (worker[p].pc \in Dispatching => shipLock = p)
      BY <2>0, <1>c, KeptBefore DEF MishapsStay, RequestOK
    <3>5. Uncrossed' => (worker'[p].pc \in Dispatching => shipLock' = p)
      BY <2>0, <3>4 DEF Dispatching, Moved, Went, Left
    <3>6. Uncrossed' => DispatchOK(p)'
      <4>1. CASE Went(p, "create")
        BY <2>0, <2>2, <1>b, <3>4, <4>1 DEF DispatchOK, Moved, Went
      <4>2. ASSUME NEW r \in 1..Len(shipRow), shipRow[r].label = 0, Moved(p, "reset", r, worker[p].label, worker[p].status)
            PROVE  DispatchOK(p)'
        <5>1. r = Len(shipRow)
          BY <1>a, <1>b, <4>2 DEF BooksOK, LastIsUnlabelled
        <5> QED BY <2>0, <4>2, <5>1 DEF DispatchOK, Moved
      <4> QED BY <2>0, <4>1, <4>2
    <3>7. Uncrossed' => LooksOK(p)'
      BY <2>0, <2>1, <2>2, <1>a, <1>b, <3>4 DEF LooksOK, LiveLabel, Moved, Went, Left
    <3>8. Asked' => BuysFirst(p)'
      BY <2>0, <2>1, <2>2, <1>a, <1>b, <1>c, KeptBefore
      DEF MishapsStay, RequestOK, BuysFirst, Asked, Kept, Moved, Went, Left
    <3>9. RequestOK(p)'
      BY <3>3, <3>5, <3>6, <3>7, <3>8 DEF RequestOK
    <3> QED BY <2>0, <2>1, <1>a, <3>1, <3>9, Untouched
            DEF MishapsStay, ShipmentAssumption, Dispatching, Moved, Went, Left
<1>4. ASSUME NEW p \in ShipProcs, ResetShipment(p) PROVE LabelInv'
  <2>1. ShipRecordsOK'
    BY <1>4, <1>a, ResetShipmentDoes DEF ShipRecordsOK, RowsSet, RowsBecome, Moved, Went, Left
  <2>0. /\ worker[p].pc = "reset"
        /\ RowsBecome(worker[p].row, "draft", shipRow[worker[p].row].label)
        /\ (Went(p, "lookup") /\ mishaps' = mishaps) \/ (Went(p, "buy") /\ mishaps' = mishaps \cup {"notAsked"})
        /\ UNCHANGED <<label, shipLock, shipFaults>>
    BY <1>4, <1>a, ResetShipmentDoes DEF RowsSet
  <2>2. /\ ShipRows' = 1..Len(shipRow') /\ (DOMAIN label)' = 1..Len(label')
        /\ Len(shipRow') \in Nat /\ Len(label') \in Nat
    BY <2>1, NextSeqDomains
  <2> QED
    <3> DEFINE r == worker[p].row
               n == shipRow[worker[p].row].label
    <3>0. r \in 1..Len(shipRow) /\ n \in Nat /\ n <= Len(label) /\ (n = shipRow[r].label \/ n # 0)
      BY <2>0, <1>a, <1>b DEF KnownRows, RowsKnown, RequestKnown, HasRow, HasLabel
    <3>a. Uncrossed' => /\ DispatchOK(p) /\ LooksOK(p) /\ OthersEnded /\ RowsFit
      BY <2>0, <1>a, <1>c, KeptBefore DEF MishapsStay, RequestOK, BooksOK
    <3>b. Uncrossed' => (("draft" \in ShipEnded \/ r = Len(shipRow)) /\ (n = shipRow[r].label \/ label[n].row = r))
      BY <2>0, <3>0, <3>a, <1>a, <1>b DEF DispatchOK, ShipEnded
    <3>c. Asked' /\ "draft" \in ShipEnded /\ n # 0 => ~LiveLabel(n)
      BY <2>0, <3>0, <3>a, <1>a, <1>b, KeptBefore
      DEF MishapsStay, BooksOK, LooksOK, DispatchOK, ShipEnded, LiveLabel, Asked, Kept, EndedIsOver
    <3>d. Answered' => /\ n = shipRow[r].label \/ shipRow[r].label = 0
                       /\ worker[p].pc = "record" => n = worker[p].label
                       /\ "draft" = "cancelled" /\ n # 0 => ~LiveLabel(n)
      BY <2>0, <3>0, <3>a, <1>a, <1>b, KeptBefore
      DEF MishapsStay, BooksOK, LooksOK, DispatchOK, LiveLabel, Answered, Kept, CancelledIsOver
    <3> HIDE DEF r, n
    <3>e. RowsBecome(r, "draft", n) /\ MishapsStay /\ (\A q \in ShipProcs \ {p} : worker'[q] = worker[q])
      BY <2>0 DEF r, n, MishapsStay, Moved, Went, Left
    <3>1. BooksOK'
      BY <2>0, <2>1, <3>0, <3>b, <3>c, <3>d, <3>e, BooksSet
    <3>2. Steady
      BY <2>0, <2>2, <3>0, <3>a, <3>e, <1>b DEF Steady, Quiet, RowsBecome, DispatchOK, r, n, ShipEnded
    <3>3. RequestKnown(p)'
      BY <2>0, <2>1, <2>2, <1>a, <1>b
      DEF KnownRows, RowsKnown, RequestKnown, HasRow, HasLabel, ShipEnded, Moved, Went, Left, RowsBecome
    <3>4. Uncrossed' => (worker[p].pc \in Dispatching => shipLock = p)
      BY <2>0, <1>c, KeptBefore DEF MishapsStay, RequestOK
    <3>5. Uncrossed' => (worker'[p].pc \in Dispatching => shipLock' = p)
      BY <2>0, <3>4 DEF Dispatching, Moved, Went, Left
    <3>6. Uncrossed' => DispatchOK(p)'
      <4>1. Uncrossed' => worker[p].row = Len(shipRow) /\ shipRow[worker[p].row].label = 0
        BY <2>0, <3>a DEF DispatchOK
      <4>2. /\ shipRow'[worker[p].row].status = "draft" /\ Len(shipRow') = Len(shipRow)
            /\ shipRow'[worker[p].row].label = shipRow[worker[p].row].label
        BY <2>0, <3>0 DEF RowsBecome, r
      <4> QED BY <2>0, <4>1, <4>2 DEF DispatchOK, Moved, Went
    <3>7. Uncrossed' => LooksOK(p)'
      BY <2>0, <2>1, <2>2, <1>a, <1>b, <3>4, <3>a DEF LooksOK, LiveLabel, Moved, Went, Left, RowsBecome
    <3>8. Asked' => BuysFirst(p)'
      BY <2>0, <2>1, <2>2, <1>a, <1>b, <1>c, KeptBefore
      DEF MishapsStay, RequestOK, BuysFirst, Asked, Kept, Moved, Went, Left, RowsBecome
    <3>9. RequestOK(p)'
      BY <3>3, <3>5, <3>6, <3>7, <3>8 DEF RequestOK
    <3> QED BY <2>0, <2>1, <1>a, <3>1, <3>2, <3>9, OthersToo
            DEF MishapsStay, ShipmentAssumption, Dispatching, Moved, Went, Left
<1>5. ASSUME NEW p \in ShipProcs, CreateShipment(p) PROVE LabelInv'
  <2>1. ShipRecordsOK'
    BY <1>5, <1>a, CreateShipmentDoes DEF ShipRecordsOK, RowAdded, RowsGrow, Moved, Went, Left
  <2>0. /\ worker[p].pc = "create"
        /\ \/ Went(p, "unlock") /\ shipRow' = shipRow
           \/ /\ RowsGrow /\ Moved(p, "buy", Len(shipRow) + 1, worker[p].label, worker[p].status)
             /\ Len(shipRow) # MaxShipments /\ \A r \in 1..Len(shipRow) : shipRow[r].label # 0
        /\ UNCHANGED <<label, shipLock, mishaps, shipFaults>>
    BY <1>5, <1>a, CreateShipmentDoes DEF RowAdded
  <2>2. /\ ShipRows' = 1..Len(shipRow') /\ (DOMAIN label)' = 1..Len(label')
        /\ Len(shipRow') \in Nat /\ Len(label') \in Nat
    BY <2>1, NextSeqDomains
  <2>3. CASE Went(p, "unlock") /\ shipRow' = shipRow
    <3>1. BooksOK'
      BY <2>0, <2>3, <2>1, BooksStay DEF StillRecording, MishapsStay, Answered, Kept, Moved, Went, Left
    <3>3. RequestOK(p)'
      BY <2>0, <2>3, <2>1, <2>2, <1>a, <1>b, <1>c, AtRest DEF Moved, Went, Left, Dispatching, MishapsStay
    <3> QED BY <2>0, <2>3, <2>1, <1>a, <3>1, <3>3, Untouched
            DEF MishapsStay, ShipmentAssumption, Dispatching, Moved, Went, Left
  <2>4. CASE RowsGrow /\ Moved(p, "buy", Len(shipRow) + 1, worker[p].label, worker[p].status) /\ (\A r \in 1..Len(shipRow) : shipRow[r].label # 0)
    <3>a. Uncrossed' => \A r \in 1..Len(shipRow) : shipRow[r].status \in ShipEnded
      BY <2>0, <2>4, <1>b, <1>c, KeptBefore DEF MishapsStay, RequestOK, DispatchOK
    <3>1. BooksOK'
      BY <2>0, <2>4, <2>1, <2>2, <1>a, <1>b, <3>a, RowAdds DEF MishapsStay, StillRecording, Moved, Went, Left
    <3>2. Steady
      BY <2>0, <2>4, <2>2, <1>b DEF Steady, RowsGrow
    <3>3. RequestKnown(p)'
      BY <2>0, <2>4, <2>1, <2>2, <1>a, <1>b
      DEF KnownRows, RowsKnown, RequestKnown, HasRow, HasLabel, ShipEnded, Moved, Went, Left, RowsGrow
    <3>4. Uncrossed' => DispatchOK(p) /\ LooksOK(p) /\ (worker[p].pc \in Dispatching => shipLock = p)
      BY <2>0, <2>4, <1>c, KeptBefore DEF MishapsStay, RequestOK
    <3>5. Uncrossed' => (worker'[p].pc \in Dispatching => shipLock' = p)
      BY <2>0, <2>4, <3>4 DEF Dispatching, Moved, Went, Left
    <3>6. Uncrossed' => DispatchOK(p)'
      BY <2>0, <2>4, <2>1, <2>2, <1>a, <1>b, <3>4
      DEF DispatchOK, OthersEnded, ShipEnded, Moved, Went, Left, RowsGrow
    <3>7. Uncrossed' => LooksOK(p)'
      BY <2>0, <2>4, <2>1, <2>2, <1>a, <1>b, <3>4 DEF LooksOK, LiveLabel, Moved, Went, Left, RowsGrow
    <3>8. Asked' => BuysFirst(p)'
      <4>1. \A i \in 1..Len(label) : label[i].row \in 1..Len(shipRow)
        BY <1>a, <1>b DEF KnownRows, RowsKnown
      <4>2. (\A i \in 1..Len(label) : label[i].row # Len(shipRow) + 1) /\ worker'[p].row = Len(shipRow) + 1
        BY <1>b, <2>4, <4>1 DEF Moved
      <4> QED BY <2>0, <1>b, <4>2 DEF BuysFirst
    <3>9. RequestOK(p)'
      BY <3>3, <3>5, <3>6, <3>7, <3>8 DEF RequestOK
    <3> QED BY <2>0, <2>4, <2>1, <1>a, <3>1, <3>2, <3>9, OthersToo
            DEF MishapsStay, ShipmentAssumption, Dispatching, Moved, Went, Left
  <2> QED BY <2>0, <2>3, <2>4
<1>6. ASSUME NEW p \in ShipProcs, Lookup(p) PROVE LabelInv'
  <2>1. ShipRecordsOK'
    BY <1>6, <1>a, LookupDoes DEF ShipRecordsOK, Moved, Went, Left
  <2>0. /\ worker[p].pc = "lookup"
        /\ \/ /\ mishaps' = mishaps /\ \E n \in 1..Len(label) :
               label[n].row = worker[p].row /\ Moved(p, "adopt", worker[p].row, n, worker[p].status)
           \/ Went(p, "buy") /\ mishaps' = mishaps /\ Cardinality(Matches(worker[p].row)) # 1
           \/ Went(p, "buy") /\ mishaps' = mishaps \cup {"notAsked"}
        /\ UNCHANGED <<shipRow, label, shipLock>>
    BY <1>6, <1>a, LookupDoes
  <2>2. /\ ShipRows' = 1..Len(shipRow') /\ (DOMAIN label)' = 1..Len(label')
        /\ Len(shipRow') \in Nat /\ Len(label') \in Nat
    BY <2>1, NextSeqDomains
  <2> QED
    <3>1. BooksOK'
      BY <2>0, <2>1, BooksStay DEF StillRecording, MishapsStay, Answered, Kept, Moved, Went, Left
    <3>3. RequestKnown(p)'
      BY <2>0, <2>1, <2>2, <1>a, <1>b
      DEF KnownRows, RowsKnown, RequestKnown, HasRow, HasLabel, ShipEnded, Moved, Went, Left
    <3>4. Uncrossed' => DispatchOK(p) /\ LooksOK(p) /\ (worker[p].pc \in Dispatching => shipLock = p)
      BY <2>0, <1>c, KeptBefore DEF MishapsStay, RequestOK
    <3>5. Uncrossed' => (worker'[p].pc \in Dispatching => shipLock' = p)
      BY <2>0, <3>4 DEF Dispatching, Moved, Went, Left
    <3>6. Uncrossed' => DispatchOK(p)'
      BY <2>0, <2>1, <2>2, <1>a, <1>b, <3>4 DEF DispatchOK, OthersEnded, ShipEnded, Moved, Went, Left
    <3>7. Uncrossed' => LooksOK(p)'
      BY <2>0, <2>1, <2>2, <1>a, <1>b, <3>4 DEF LooksOK, LiveLabel, Moved, Went, Left
    <3>8. Asked' => BuysFirst(p)'
      <4>1. CASE \E n \in 1..Len(label) : Moved(p, "adopt", worker[p].row, n, worker[p].status)
        BY <4>1 DEF BuysFirst, Moved
      <4>2. CASE Went(p, "buy") /\ mishaps' = mishaps /\ Cardinality(Matches(worker[p].row)) # 1
        <5>1. ASSUME Asked', NEW m \in 1..Len(label), label[m].row = worker[p].row PROVE FALSE
          <6>1. OneLabelEach
            BY <1>a, <4>2, <5>1, KeptBefore DEF BooksOK, MishapsStay
          <6>2. Matches(worker[p].row) = {m}
            BY <1>b, <5>1, <6>1 DEF Matches, OneLabelEach
          <6> QED BY <4>2, <6>2, FS_Singleton
        <5> QED BY <2>0, <1>b, <4>2, <5>1 DEF BuysFirst, Went, Moved
      <4>3. CASE Went(p, "buy") /\ mishaps' = mishaps \cup {"notAsked"}
        BY <4>3 DEF Asked, Kept
      <4> QED BY <2>0, <4>1, <4>2, <4>3
    <3>9. RequestOK(p)'
      BY <3>3, <3>5, <3>6, <3>7, <3>8 DEF RequestOK
    <3> QED BY <2>0, <2>1, <1>a, <3>1, <3>9, Untouched
            DEF MishapsStay, ShipmentAssumption, Dispatching, Moved, Went, Left
<1>7. ASSUME NEW p \in ShipProcs, Buy(p) PROVE LabelInv'
  <2>1. ShipRecordsOK'
    BY <1>7, <1>a, BuyDoes DEF ShipRecordsOK, Bought, LabelsGrow, Moved, Went, Left
  <2>0. /\ worker[p].pc = "buy" /\ Len(label) < MaxLabels
        /\ \/ LabelsGrow(worker[p].row) /\ Moved(p, "record", worker[p].row, Len(label) + 1, worker[p].status) /\ mishaps' = mishaps
           \/ Went(p, "fail") /\ UNCHANGED <<label, mishaps>>
           \/ LabelsGrow(worker[p].row) /\ Went(p, "fail") /\ mishaps' = mishaps \cup {"unanswered"}
        /\ UNCHANGED <<shipRow, shipLock>>
    BY <1>7, <1>a, BuyDoes DEF Bought
  <2>2. /\ ShipRows' = 1..Len(shipRow') /\ (DOMAIN label)' = 1..Len(label')
        /\ Len(shipRow') \in Nat /\ Len(label') \in Nat
    BY <2>1, NextSeqDomains
  <2>3. CASE LabelsGrow(worker[p].row) /\ Moved(p, "record", worker[p].row, Len(label) + 1, worker[p].status) /\ mishaps' = mishaps
    <3>a. worker[p].row \in 1..Len(shipRow) /\ StillRecording /\ MishapsStay
      BY <2>0, <2>3, <1>a, <1>b
      DEF KnownRows, RequestKnown, HasRow, StillRecording, MishapsStay, Moved, Went, Left
    <3>b. Asked' => \A n \in 1..Len(label) : label[n].row # worker[p].row
      BY <2>0, <2>3, <3>a, <1>c, <1>b, KeptBefore DEF RequestOK, BuysFirst
    <3>c. Answered' => worker'[p].pc = "record" /\ worker'[p].label = Len(label) + 1
      BY <2>0, <2>3 DEF Answered, Kept, Moved, Went, Left
    <3>1. BooksOK'
      BY <2>0, <2>3, <2>1, <3>a, <3>b, <3>c, BooksBuy
    <3>2. Steady
      BY <2>0, <2>3, <2>2, <1>b DEF Steady, LabelsGrow
    <3>3. RequestKnown(p)'
      BY <2>0, <2>3, <2>1, <2>2, <1>a, <1>b
      DEF KnownRows, RowsKnown, RequestKnown, HasRow, HasLabel, ShipEnded, Moved, Went, Left, LabelsGrow
    <3>4. Uncrossed' => DispatchOK(p) /\ LooksOK(p) /\ (worker[p].pc \in Dispatching => shipLock = p)
      BY <2>0, <2>3, <1>c, KeptBefore DEF MishapsStay, RequestOK
    <3>5. Uncrossed' => (worker'[p].pc \in Dispatching => shipLock' = p)
      BY <2>0, <2>3, <3>4 DEF Dispatching, Moved, Went, Left
    <3>6. Uncrossed' => DispatchOK(p)'
      BY <2>0, <2>3, <2>1, <2>2, <1>a, <1>b, <3>4
      DEF DispatchOK, OthersEnded, ShipEnded, Moved, Went, Left, LabelsGrow
    <3>7. Uncrossed' => LooksOK(p)'
      BY <2>0, <2>3, <2>1, <2>2, <1>a, <1>b, <3>4 DEF LooksOK, LiveLabel, Moved, Went, Left, LabelsGrow
    <3>8. Asked' => BuysFirst(p)'
      BY <2>0, <2>3, <2>1, <2>2, <1>a, <1>b, <1>c, KeptBefore
      DEF MishapsStay, RequestOK, BuysFirst, Asked, Kept, Moved, Went, Left, LabelsGrow
    <3>9. RequestOK(p)'
      BY <3>3, <3>5, <3>6, <3>7, <3>8 DEF RequestOK
    <3> QED BY <2>0, <2>3, <2>1, <1>a, <3>1, <3>2, <3>9, OthersToo
            DEF MishapsStay, ShipmentAssumption, Dispatching, Moved, Went, Left
  <2>4. CASE Went(p, "fail") /\ UNCHANGED <<label, mishaps>>
    <3>1. BooksOK'
      BY <2>0, <2>4, <2>1, BooksStay DEF StillRecording, MishapsStay, Answered, Kept, Moved, Went, Left
    <3>3. RequestKnown(p)'
      BY <2>0, <2>4, <2>1, <2>2, <1>a, <1>b
      DEF KnownRows, RowsKnown, RequestKnown, HasRow, HasLabel, ShipEnded, Moved, Went, Left
    <3>4. Uncrossed' => DispatchOK(p) /\ LooksOK(p) /\ (worker[p].pc \in Dispatching => shipLock = p)
      BY <2>0, <2>4, <1>c, KeptBefore DEF MishapsStay, RequestOK
    <3>5. Uncrossed' => (worker'[p].pc \in Dispatching => shipLock' = p)
      BY <2>0, <2>4, <3>4 DEF Dispatching, Moved, Went, Left
    <3>6. Uncrossed' => DispatchOK(p)'
      BY <2>0, <2>4, <2>1, <2>2, <1>a, <1>b, <3>4 DEF DispatchOK, OthersEnded, ShipEnded, Moved, Went, Left
    <3>7. Uncrossed' => LooksOK(p)'
      BY <2>0, <2>4, <2>1, <2>2, <1>a, <1>b, <3>4 DEF LooksOK, LiveLabel, Moved, Went, Left
    <3>8. Asked' => BuysFirst(p)'
      BY <2>0, <2>4, <2>1, <2>2, <1>a, <1>b, <1>c, KeptBefore
      DEF MishapsStay, RequestOK, BuysFirst, Asked, Kept, Moved, Went, Left
    <3>9. RequestOK(p)'
      BY <3>3, <3>5, <3>6, <3>7, <3>8 DEF RequestOK
    <3> QED BY <2>0, <2>4, <2>1, <1>a, <3>1, <3>9, Untouched
            DEF MishapsStay, ShipmentAssumption, Dispatching, Moved, Went, Left
  <2>5. CASE LabelsGrow(worker[p].row) /\ Went(p, "fail") /\ mishaps' = mishaps \cup {"unanswered"}
    <3>a. worker[p].row \in 1..Len(shipRow) /\ StillRecording /\ MishapsStay
      BY <2>0, <2>5, <1>a, <1>b
      DEF KnownRows, RequestKnown, HasRow, StillRecording, MishapsStay, Moved, Went, Left
    <3>b. Asked' => \A n \in 1..Len(label) : label[n].row # worker[p].row
      BY <2>0, <2>5, <3>a, <1>c, <1>b, KeptBefore DEF RequestOK, BuysFirst
    <3>c. Answered' => worker'[p].pc = "record" /\ worker'[p].label = Len(label) + 1
      BY <2>0, <2>5 DEF Answered, Kept, Moved, Went, Left
    <3>1. BooksOK'
      BY <2>0, <2>5, <2>1, <3>a, <3>b, <3>c, BooksBuy
    <3>2. Steady
      BY <2>0, <2>5, <2>2, <1>b DEF Steady, LabelsGrow
    <3>3. RequestKnown(p)'
      BY <2>0, <2>5, <2>1, <2>2, <1>a, <1>b
      DEF KnownRows, RowsKnown, RequestKnown, HasRow, HasLabel, ShipEnded, Moved, Went, Left, LabelsGrow
    <3>4. Uncrossed' => DispatchOK(p) /\ LooksOK(p) /\ (worker[p].pc \in Dispatching => shipLock = p)
      BY <2>0, <2>5, <1>c, KeptBefore DEF MishapsStay, RequestOK
    <3>5. Uncrossed' => (worker'[p].pc \in Dispatching => shipLock' = p)
      BY <2>0, <2>5, <3>4 DEF Dispatching, Moved, Went, Left
    <3>6. Uncrossed' => DispatchOK(p)'
      BY <2>0, <2>5, <2>1, <2>2, <1>a, <1>b, <3>4
      DEF DispatchOK, OthersEnded, ShipEnded, Moved, Went, Left, LabelsGrow
    <3>7. Uncrossed' => LooksOK(p)'
      BY <2>0, <2>5, <2>1, <2>2, <1>a, <1>b, <3>4 DEF LooksOK, LiveLabel, Moved, Went, Left, LabelsGrow
    <3>8. Asked' => BuysFirst(p)'
      BY <2>0, <2>5, <2>1, <2>2, <1>a, <1>b, <1>c, KeptBefore
      DEF MishapsStay, RequestOK, BuysFirst, Asked, Kept, Moved, Went, Left, LabelsGrow
    <3>9. RequestOK(p)'
      BY <3>3, <3>5, <3>6, <3>7, <3>8 DEF RequestOK
    <3> QED BY <2>0, <2>5, <2>1, <1>a, <3>1, <3>2, <3>9, OthersToo
            DEF MishapsStay, ShipmentAssumption, Dispatching, Moved, Went, Left
  <2> QED BY <2>0, <2>3, <2>4, <2>5
<1>8. ASSUME NEW p \in ShipProcs, RecordLabel(p) PROVE LabelInv'
  <2>1. ShipRecordsOK'
    BY <1>8, <1>a, RecordLabelDoes DEF ShipRecordsOK, RowsSet, RowsBecome, Moved, Went, Left
  <2>0. /\ worker[p].pc = "record"
        /\ \/ RowsBecome(worker[p].row, "generated", worker[p].label) /\ Went(p, "unlock") /\ mishaps' = mishaps
           \/ Went(p, "fail") /\ mishaps' = mishaps \cup {"unanswered"} /\ shipRow' = shipRow
           \/ RowsBecome(worker[p].row, "generated", worker[p].label) /\ Went(p, "fail") /\ mishaps' = mishaps \cup {"unread"}
        /\ UNCHANGED <<label, shipLock>>
    BY <1>8, <1>a, RecordLabelDoes DEF RowsSet
  <2>2. /\ ShipRows' = 1..Len(shipRow') /\ (DOMAIN label)' = 1..Len(label')
        /\ Len(shipRow') \in Nat /\ Len(label') \in Nat
    BY <2>1, NextSeqDomains
  <2>3. CASE RowsBecome(worker[p].row, "generated", worker[p].label) /\ Went(p, "unlock") /\ mishaps' = mishaps
    <3> DEFINE r == worker[p].row
               n == worker[p].label
    <3>0. r \in 1..Len(shipRow) /\ n \in Nat /\ n <= Len(label) /\ (n = shipRow[r].label \/ n # 0)
      BY <2>0, <2>3, <1>a, <1>b DEF KnownRows, RowsKnown, RequestKnown, HasRow, HasLabel
    <3>a. Uncrossed' => /\ DispatchOK(p) /\ LooksOK(p) /\ OthersEnded /\ RowsFit
      BY <2>0, <2>3, <1>a, <1>c, KeptBefore DEF MishapsStay, RequestOK, BooksOK
    <3>b. Uncrossed' => (("generated" \in ShipEnded \/ r = Len(shipRow)) /\ (n = shipRow[r].label \/ label[n].row = r))
      BY <2>0, <2>3, <3>0, <3>a, <1>a, <1>b DEF DispatchOK, ShipEnded
    <3>c. Asked' /\ "generated" \in ShipEnded /\ n # 0 => ~LiveLabel(n)
      BY <2>0, <2>3, <3>0, <3>a, <1>a, <1>b, KeptBefore
      DEF MishapsStay, BooksOK, LooksOK, DispatchOK, ShipEnded, LiveLabel, Asked, Kept, EndedIsOver
    <3>d. Answered' => /\ n = shipRow[r].label \/ shipRow[r].label = 0
                       /\ worker[p].pc = "record" => n = worker[p].label
                       /\ "generated" = "cancelled" /\ n # 0 => ~LiveLabel(n)
      BY <2>0, <2>3, <3>0, <3>a, <1>a, <1>b, KeptBefore
      DEF MishapsStay, BooksOK, LooksOK, DispatchOK, LiveLabel, Answered, Kept, CancelledIsOver
    <3> HIDE DEF r, n
    <3>e. RowsBecome(r, "generated", n) /\ MishapsStay /\ (\A q \in ShipProcs \ {p} : worker'[q] = worker[q])
      BY <2>0, <2>3 DEF r, n, MishapsStay, Moved, Went, Left
    <3>1. BooksOK'
      BY <2>0, <2>3, <2>1, <3>0, <3>b, <3>c, <3>d, <3>e, BooksSet
    <3>2. Steady
      BY <2>0, <2>3, <2>2, <3>0, <3>a, <3>e, <1>b DEF Steady, Quiet, RowsBecome, DispatchOK, r, n, ShipEnded
    <3>3. RequestOK(p)'
      BY <2>0, <2>3, <2>1, <2>2, <1>a, <1>b, <1>c, AtRest
      DEF Moved, Went, Left, RowsBecome, Dispatching, MishapsStay
    <3> QED BY <2>0, <2>3, <2>1, <1>a, <3>1, <3>2, <3>3, OthersToo
            DEF MishapsStay, ShipmentAssumption, Dispatching, Moved, Went, Left
  <2>4. CASE Went(p, "fail") /\ mishaps' = mishaps \cup {"unanswered"} /\ shipRow' = shipRow
    <3>1. BooksOK'
      BY <2>0, <2>4, <2>1, BooksStay DEF StillRecording, MishapsStay, Answered, Kept, Moved, Went, Left
    <3>3. RequestKnown(p)'
      BY <2>0, <2>4, <2>1, <2>2, <1>a, <1>b
      DEF KnownRows, RowsKnown, RequestKnown, HasRow, HasLabel, ShipEnded, Moved, Went, Left
    <3>4. Uncrossed' => DispatchOK(p) /\ LooksOK(p) /\ (worker[p].pc \in Dispatching => shipLock = p)
      BY <2>0, <2>4, <1>c, KeptBefore DEF MishapsStay, RequestOK
    <3>5. Uncrossed' => (worker'[p].pc \in Dispatching => shipLock' = p)
      BY <2>0, <2>4, <3>4 DEF Dispatching, Moved, Went, Left
    <3>6. Uncrossed' => DispatchOK(p)'
      BY <2>0, <2>4, <2>1, <2>2, <1>a, <1>b, <3>4 DEF DispatchOK, OthersEnded, ShipEnded, Moved, Went, Left
    <3>7. Uncrossed' => LooksOK(p)'
      BY <2>0, <2>4, <2>1, <2>2, <1>a, <1>b, <3>4 DEF LooksOK, LiveLabel, Moved, Went, Left
    <3>8. Asked' => BuysFirst(p)'
      BY <2>0, <2>4, <2>1, <2>2, <1>a, <1>b, <1>c, KeptBefore
      DEF MishapsStay, RequestOK, BuysFirst, Asked, Kept, Moved, Went, Left
    <3>9. RequestOK(p)'
      BY <3>3, <3>5, <3>6, <3>7, <3>8 DEF RequestOK
    <3> QED BY <2>0, <2>4, <2>1, <1>a, <3>1, <3>9, Untouched
            DEF MishapsStay, ShipmentAssumption, Dispatching, Moved, Went, Left
  <2>5. CASE RowsBecome(worker[p].row, "generated", worker[p].label) /\ Went(p, "fail") /\ mishaps' = mishaps \cup {"unread"}
    <3> DEFINE r == worker[p].row
               n == worker[p].label
    <3>0. r \in 1..Len(shipRow) /\ n \in Nat /\ n <= Len(label) /\ (n = shipRow[r].label \/ n # 0)
      BY <2>0, <2>5, <1>a, <1>b DEF KnownRows, RowsKnown, RequestKnown, HasRow, HasLabel
    <3>a. Uncrossed' => /\ DispatchOK(p) /\ LooksOK(p) /\ OthersEnded /\ RowsFit
      BY <2>0, <2>5, <1>a, <1>c, KeptBefore DEF MishapsStay, RequestOK, BooksOK
    <3>b. Uncrossed' => (("generated" \in ShipEnded \/ r = Len(shipRow)) /\ (n = shipRow[r].label \/ label[n].row = r))
      BY <2>0, <2>5, <3>0, <3>a, <1>a, <1>b DEF DispatchOK, ShipEnded
    <3>c. Asked' /\ "generated" \in ShipEnded /\ n # 0 => ~LiveLabel(n)
      BY <2>0, <2>5, <3>0, <3>a, <1>a, <1>b, KeptBefore
      DEF MishapsStay, BooksOK, LooksOK, DispatchOK, ShipEnded, LiveLabel, Asked, Kept, EndedIsOver
    <3>d. Answered' => /\ n = shipRow[r].label \/ shipRow[r].label = 0
                       /\ worker[p].pc = "record" => n = worker[p].label
                       /\ "generated" = "cancelled" /\ n # 0 => ~LiveLabel(n)
      BY <2>0, <2>5, <3>0, <3>a, <1>a, <1>b, KeptBefore
      DEF MishapsStay, BooksOK, LooksOK, DispatchOK, LiveLabel, Answered, Kept, CancelledIsOver
    <3> HIDE DEF r, n
    <3>e. RowsBecome(r, "generated", n) /\ MishapsStay /\ (\A q \in ShipProcs \ {p} : worker'[q] = worker[q])
      BY <2>0, <2>5 DEF r, n, MishapsStay, Moved, Went, Left
    <3>1. BooksOK'
      BY <2>0, <2>5, <2>1, <3>0, <3>b, <3>c, <3>d, <3>e, BooksSet
    <3>2. Steady
      BY <2>0, <2>5, <2>2, <3>0, <3>a, <3>e, <1>b DEF Steady, Quiet, RowsBecome, DispatchOK, r, n, ShipEnded
    <3>3. RequestKnown(p)'
      BY <2>0, <2>5, <2>1, <2>2, <1>a, <1>b
      DEF KnownRows, RowsKnown, RequestKnown, HasRow, HasLabel, ShipEnded, Moved, Went, Left, RowsBecome
    <3>4. Uncrossed' => (worker[p].pc \in Dispatching => shipLock = p)
      BY <2>0, <2>5, <1>c, KeptBefore DEF MishapsStay, RequestOK
    <3>5. Uncrossed' => (worker'[p].pc \in Dispatching => shipLock' = p)
      BY <2>0, <2>5, <3>4 DEF Dispatching, Moved, Went, Left
    <3>6. Uncrossed' => DispatchOK(p)'
      BY <2>0, <2>5, <2>1, <2>2, <1>a, <1>b, <3>4, <3>a
      DEF DispatchOK, OthersEnded, ShipEnded, Moved, Went, Left, RowsBecome
    <3>7. Uncrossed' => LooksOK(p)'
      BY <2>0, <2>5, <2>1, <2>2, <1>a, <1>b, <3>4, <3>a DEF LooksOK, LiveLabel, Moved, Went, Left, RowsBecome
    <3>8. Asked' => BuysFirst(p)'
      BY <2>0, <2>5, <2>1, <2>2, <1>a, <1>b, <1>c, KeptBefore
      DEF MishapsStay, RequestOK, BuysFirst, Asked, Kept, Moved, Went, Left, RowsBecome
    <3>9. RequestOK(p)'
      BY <3>3, <3>5, <3>6, <3>7, <3>8 DEF RequestOK
    <3> QED BY <2>0, <2>5, <2>1, <1>a, <3>1, <3>2, <3>9, OthersToo
            DEF MishapsStay, ShipmentAssumption, Dispatching, Moved, Went, Left
  <2> QED BY <2>0, <2>3, <2>4, <2>5
<1>9. ASSUME NEW p \in ShipProcs, Adopt(p) PROVE LabelInv'
  <2>1. ShipRecordsOK'
    BY <1>9, <1>a, AdoptDoes DEF ShipRecordsOK, RowsSet, RowsBecome, Moved, Went, Left
  <2>0. /\ worker[p].pc = "adopt" /\ Went(p, "unlock")
        /\ RowsBecome(worker[p].row, "generated", worker[p].label) \/ shipRow' = shipRow
        /\ UNCHANGED <<label, shipLock, mishaps>>
    BY <1>9, <1>a, AdoptDoes DEF RowsSet
  <2>2. /\ ShipRows' = 1..Len(shipRow') /\ (DOMAIN label)' = 1..Len(label')
        /\ Len(shipRow') \in Nat /\ Len(label') \in Nat
    BY <2>1, NextSeqDomains
  <2>3. CASE RowsBecome(worker[p].row, "generated", worker[p].label)
    <3> DEFINE r == worker[p].row
               n == worker[p].label
    <3>0. r \in 1..Len(shipRow) /\ n \in Nat /\ n <= Len(label) /\ (n = shipRow[r].label \/ n # 0)
      BY <2>0, <2>3, <1>a, <1>b DEF KnownRows, RowsKnown, RequestKnown, HasRow, HasLabel
    <3>a. Uncrossed' => /\ DispatchOK(p) /\ LooksOK(p) /\ OthersEnded /\ RowsFit
      BY <2>0, <2>3, <1>a, <1>c, KeptBefore DEF MishapsStay, RequestOK, BooksOK
    <3>b. Uncrossed' => (("generated" \in ShipEnded \/ r = Len(shipRow)) /\ (n = shipRow[r].label \/ label[n].row = r))
      BY <2>0, <2>3, <3>0, <3>a, <1>a, <1>b DEF DispatchOK, ShipEnded
    <3>c. Asked' /\ "generated" \in ShipEnded /\ n # 0 => ~LiveLabel(n)
      BY <2>0, <2>3, <3>0, <3>a, <1>a, <1>b, KeptBefore
      DEF MishapsStay, BooksOK, LooksOK, DispatchOK, ShipEnded, LiveLabel, Asked, Kept, EndedIsOver
    <3>d. Answered' => /\ n = shipRow[r].label \/ shipRow[r].label = 0
                       /\ worker[p].pc = "record" => n = worker[p].label
                       /\ "generated" = "cancelled" /\ n # 0 => ~LiveLabel(n)
      BY <2>0, <2>3, <3>0, <3>a, <1>a, <1>b, KeptBefore
      DEF MishapsStay, BooksOK, LooksOK, DispatchOK, LiveLabel, Answered, Kept, CancelledIsOver
    <3> HIDE DEF r, n
    <3>e. RowsBecome(r, "generated", n) /\ MishapsStay /\ (\A q \in ShipProcs \ {p} : worker'[q] = worker[q])
      BY <2>0, <2>3 DEF r, n, MishapsStay, Moved, Went, Left
    <3>1. BooksOK'
      BY <2>0, <2>3, <2>1, <3>0, <3>b, <3>c, <3>d, <3>e, BooksSet
    <3>2. Steady
      BY <2>0, <2>3, <2>2, <3>0, <3>a, <3>e, <1>b DEF Steady, Quiet, RowsBecome, DispatchOK, r, n, ShipEnded
    <3>3. RequestOK(p)'
      BY <2>0, <2>3, <2>1, <2>2, <1>a, <1>b, <1>c, AtRest
      DEF Moved, Went, Left, RowsBecome, Dispatching, MishapsStay
    <3> QED BY <2>0, <2>3, <2>1, <1>a, <3>1, <3>2, <3>3, OthersToo
            DEF MishapsStay, ShipmentAssumption, Dispatching, Moved, Went, Left
  <2>4. CASE shipRow' = shipRow
    <3>1. BooksOK'
      BY <2>0, <2>4, <2>1, BooksStay DEF StillRecording, MishapsStay, Answered, Kept, Moved, Went, Left
    <3>3. RequestOK(p)'
      BY <2>0, <2>4, <2>1, <2>2, <1>a, <1>b, <1>c, AtRest DEF Moved, Went, Left, Dispatching, MishapsStay
    <3> QED BY <2>0, <2>4, <2>1, <1>a, <3>1, <3>3, Untouched
            DEF MishapsStay, ShipmentAssumption, Dispatching, Moved, Went, Left
  <2> QED BY <2>0, <2>3, <2>4
<1>10. ASSUME NEW p \in ShipProcs, MarkFailed(p) PROVE LabelInv'
  <2>1. ShipRecordsOK'
    BY <1>10, <1>a, MarkFailedDoes DEF ShipRecordsOK, RowsSet, RowsBecome, Moved, Went, Left
  <2>0. /\ worker[p].pc = "fail" /\ Went(p, "unlock")
        /\ RowsBecome(worker[p].row, "failed", shipRow[worker[p].row].label) \/ shipRow' = shipRow
        /\ UNCHANGED <<label, shipLock, mishaps>>
    BY <1>10, <1>a, MarkFailedDoes DEF RowsSet
  <2>2. /\ ShipRows' = 1..Len(shipRow') /\ (DOMAIN label)' = 1..Len(label')
        /\ Len(shipRow') \in Nat /\ Len(label') \in Nat
    BY <2>1, NextSeqDomains
  <2>3. CASE RowsBecome(worker[p].row, "failed", shipRow[worker[p].row].label)
    <3> DEFINE r == worker[p].row
               n == shipRow[worker[p].row].label
    <3>0. r \in 1..Len(shipRow) /\ n \in Nat /\ n <= Len(label) /\ (n = shipRow[r].label \/ n # 0)
      BY <2>0, <2>3, <1>a, <1>b DEF KnownRows, RowsKnown, RequestKnown, HasRow, HasLabel
    <3>a. Uncrossed' => /\ DispatchOK(p) /\ LooksOK(p) /\ OthersEnded /\ RowsFit
      BY <2>0, <2>3, <1>a, <1>c, KeptBefore DEF MishapsStay, RequestOK, BooksOK
    <3>b. Uncrossed' => (("failed" \in ShipEnded \/ r = Len(shipRow)) /\ (n = shipRow[r].label \/ label[n].row = r))
      BY <2>0, <2>3, <3>0, <3>a, <1>a, <1>b DEF DispatchOK, ShipEnded
    <3>c. Asked' /\ "failed" \in ShipEnded /\ n # 0 => ~LiveLabel(n)
      BY <2>0, <2>3, <3>0, <3>a, <1>a, <1>b, KeptBefore
      DEF MishapsStay, BooksOK, LooksOK, DispatchOK, ShipEnded, LiveLabel, Asked, Kept, EndedIsOver
    <3>d. Answered' => /\ n = shipRow[r].label \/ shipRow[r].label = 0
                       /\ worker[p].pc = "record" => n = worker[p].label
                       /\ "failed" = "cancelled" /\ n # 0 => ~LiveLabel(n)
      BY <2>0, <2>3, <3>0, <3>a, <1>a, <1>b, KeptBefore
      DEF MishapsStay, BooksOK, LooksOK, DispatchOK, LiveLabel, Answered, Kept, CancelledIsOver
    <3> HIDE DEF r, n
    <3>e. RowsBecome(r, "failed", n) /\ MishapsStay /\ (\A q \in ShipProcs \ {p} : worker'[q] = worker[q])
      BY <2>0, <2>3 DEF r, n, MishapsStay, Moved, Went, Left
    <3>1. BooksOK'
      BY <2>0, <2>3, <2>1, <3>0, <3>b, <3>c, <3>d, <3>e, BooksSet
    <3>2. Steady
      BY <2>0, <2>3, <2>2, <3>0, <3>a, <3>e, <1>b DEF Steady, Quiet, RowsBecome, DispatchOK, r, n, ShipEnded
    <3>3. RequestOK(p)'
      BY <2>0, <2>3, <2>1, <2>2, <1>a, <1>b, <1>c, AtRest
      DEF Moved, Went, Left, RowsBecome, Dispatching, MishapsStay
    <3> QED BY <2>0, <2>3, <2>1, <1>a, <3>1, <3>2, <3>3, OthersToo
            DEF MishapsStay, ShipmentAssumption, Dispatching, Moved, Went, Left
  <2>4. CASE shipRow' = shipRow
    <3>1. BooksOK'
      BY <2>0, <2>4, <2>1, BooksStay DEF StillRecording, MishapsStay, Answered, Kept, Moved, Went, Left
    <3>3. RequestOK(p)'
      BY <2>0, <2>4, <2>1, <2>2, <1>a, <1>b, <1>c, AtRest DEF Moved, Went, Left, Dispatching, MishapsStay
    <3> QED BY <2>0, <2>4, <2>1, <1>a, <3>1, <3>3, Untouched
            DEF MishapsStay, ShipmentAssumption, Dispatching, Moved, Went, Left
  <2> QED BY <2>0, <2>3, <2>4
<1>11. ASSUME NEW p \in ShipProcs, Unlock(p) PROVE LabelInv'
  <2>1. ShipRecordsOK'
    BY <1>11, <1>a, UnlockDoes DEF ShipRecordsOK, Moved, Went, Left
  <2>0. /\ worker[p].pc = "unlock" /\ Left(p)
        /\ shipLock' = IF shipLock = p THEN NoShipProc ELSE shipLock
        /\ UNCHANGED <<shipRow, label, mishaps, shipFaults>>
    BY <1>11, <1>a, UnlockDoes
  <2>2. /\ ShipRows' = 1..Len(shipRow') /\ (DOMAIN label)' = 1..Len(label')
        /\ Len(shipRow') \in Nat /\ Len(label') \in Nat
    BY <2>1, NextSeqDomains
  <2> QED
    <3>1. BooksOK'
      BY <2>0, <2>1, BooksStay DEF StillRecording, MishapsStay, Answered, Kept, Moved, Went, Left
    <3>3. RequestOK(p)'
      BY <2>0, <2>1, <2>2, <1>a, <1>b, <1>c, AtRest DEF Moved, Went, Left, Dispatching, MishapsStay
    <3> QED BY <2>0, <2>1, <1>a, <3>1, <3>3, Untouched
            DEF MishapsStay, ShipmentAssumption, Dispatching, Moved, Went, Left
<1>12. ASSUME NEW p \in ShipProcs, Void(p) PROVE LabelInv'
  <2>1. ShipRecordsOK'
    BY <1>12, <1>a, VoidDoes DEF ShipRecordsOK, Ended, LabelEnds, Moved, Went, Left
  <2>0. /\ worker[p].pc = "void"
        /\ (LabelEnds(worker[p].label) /\ Went(p, "cancelRow")) \/ (Left(p) /\ (LabelEnds(worker[p].label) \/ label' = label))
        /\ UNCHANGED <<shipRow, shipLock, mishaps>>
    BY <1>12, <1>a, VoidDoes DEF Ended
  <2>2. /\ ShipRows' = 1..Len(shipRow') /\ (DOMAIN label)' = 1..Len(label')
        /\ Len(shipRow') \in Nat /\ Len(label') \in Nat
    BY <2>1, NextSeqDomains
  <2>3. CASE LabelEnds(worker[p].label) /\ Went(p, "cancelRow")
    <3>a. worker[p].label \in 1..Len(label) /\ StillRecording /\ MishapsStay
      BY <2>0, <2>3, <1>a, <1>b
      DEF KnownRows, RequestKnown, HasLabel, StillRecording, MishapsStay, Moved, Went, Left
    <3>1. BooksOK'
      BY <2>0, <2>3, <2>1, <3>a, BooksEnd
    <3>2. Steady /\ Quiet
      BY <2>0, <2>3, <2>2, <1>b DEF Steady, Quiet, LabelEnds
    <3>3. RequestKnown(p)'
      BY <2>0, <2>3, <2>1, <2>2, <1>a, <1>b
      DEF KnownRows, RowsKnown, RequestKnown, HasRow, HasLabel, ShipEnded, Moved, Went, Left, LabelEnds
    <3>4. Uncrossed' => DispatchOK(p) /\ LooksOK(p) /\ (worker[p].pc \in Dispatching => shipLock = p)
      BY <2>0, <2>3, <1>c, KeptBefore DEF MishapsStay, RequestOK
    <3>5. Uncrossed' => (worker'[p].pc \in Dispatching => shipLock' = p)
      BY <2>0, <2>3, <3>4 DEF Dispatching, Moved, Went, Left
    <3>6. Uncrossed' => DispatchOK(p)'
      BY <2>0, <2>3, <2>1, <2>2, <1>a, <1>b, <3>4
      DEF DispatchOK, OthersEnded, ShipEnded, Moved, Went, Left, LabelEnds
    <3>7. LooksOK(p)'
      BY <2>3, <3>a DEF LooksOK, LiveLabel, LabelEnds, Moved, Went
    <3>8. Asked' => BuysFirst(p)'
      BY <2>0, <2>3, <2>1, <2>2, <1>a, <1>b, <1>c, KeptBefore
      DEF MishapsStay, RequestOK, BuysFirst, Asked, Kept, Moved, Went, Left, LabelEnds
    <3>9. RequestOK(p)'
      BY <3>3, <3>5, <3>6, <3>7, <3>8 DEF RequestOK
    <3> QED BY <2>0, <2>3, <2>1, <1>a, <3>1, <3>2, <3>9, OthersToo
            DEF MishapsStay, ShipmentAssumption, Dispatching, Moved, Went, Left
  <2>4. CASE LabelEnds(worker[p].label) /\ Left(p)
    <3>a. worker[p].label \in 1..Len(label) /\ StillRecording /\ MishapsStay
      BY <2>0, <2>4, <1>a, <1>b
      DEF KnownRows, RequestKnown, HasLabel, StillRecording, MishapsStay, Moved, Went, Left
    <3>1. BooksOK'
      BY <2>0, <2>4, <2>1, <3>a, BooksEnd
    <3>2. Steady /\ Quiet
      BY <2>0, <2>4, <2>2, <1>b DEF Steady, Quiet, LabelEnds
    <3>3. RequestOK(p)'
      BY <2>0, <2>4, <2>1, <2>2, <1>a, <1>b, <1>c, AtRest
      DEF Moved, Went, Left, LabelEnds, Dispatching, MishapsStay
    <3> QED BY <2>0, <2>4, <2>1, <1>a, <3>1, <3>2, <3>3, OthersToo
            DEF MishapsStay, ShipmentAssumption, Dispatching, Moved, Went, Left
  <2>5. CASE Left(p) /\ label' = label
    <3>1. BooksOK'
      BY <2>0, <2>5, <2>1, BooksStay DEF StillRecording, MishapsStay, Answered, Kept, Moved, Went, Left
    <3>3. RequestOK(p)'
      BY <2>0, <2>5, <2>1, <2>2, <1>a, <1>b, <1>c, AtRest DEF Moved, Went, Left, Dispatching, MishapsStay
    <3> QED BY <2>0, <2>5, <2>1, <1>a, <3>1, <3>3, Untouched
            DEF MishapsStay, ShipmentAssumption, Dispatching, Moved, Went, Left
  <2> QED BY <2>0, <2>3, <2>4, <2>5
<1>13. ASSUME NEW p \in ShipProcs, CancelRow(p) PROVE LabelInv'
  <2>1. ShipRecordsOK'
    BY <1>13, <1>a, CancelRowDoes DEF ShipRecordsOK, RowsSet, RowsBecome, Moved, Went, Left
  <2>0. /\ worker[p].pc = "cancelRow" /\ Left(p)
        /\ RowsBecome(worker[p].row, "cancelled", shipRow[worker[p].row].label)
        /\ \/ mishaps' = mishaps \cup {"crossed"}
           \/ /\ mishaps' = mishaps /\ shipRow[worker[p].row].label = worker[p].label
             /\ ~InDispatch(worker[p].row)
        /\ UNCHANGED <<label, shipLock, shipFaults>>
    BY <1>13, <1>a, CancelRowDoes DEF RowsSet
  <2>2. /\ ShipRows' = 1..Len(shipRow') /\ (DOMAIN label)' = 1..Len(label')
        /\ Len(shipRow') \in Nat /\ Len(label') \in Nat
    BY <2>1, NextSeqDomains
  <2> QED
    <3> DEFINE r == worker[p].row
               n == shipRow[worker[p].row].label
    <3>0. r \in 1..Len(shipRow) /\ n \in Nat /\ n <= Len(label) /\ (n = shipRow[r].label \/ n # 0)
      BY <2>0, <1>a, <1>b DEF KnownRows, RowsKnown, RequestKnown, HasRow, HasLabel
    <3>a. Uncrossed' => /\ DispatchOK(p) /\ LooksOK(p) /\ OthersEnded /\ RowsFit
      BY <2>0, <1>a, <1>c, KeptBefore DEF MishapsStay, RequestOK, BooksOK
    <3>b. Uncrossed' => (("cancelled" \in ShipEnded \/ r = Len(shipRow)) /\ (n = shipRow[r].label \/ label[n].row = r))
      BY <2>0, <3>0, <3>a, <1>a, <1>b DEF DispatchOK, ShipEnded
    <3>c. Asked' /\ "cancelled" \in ShipEnded /\ n # 0 => ~LiveLabel(n)
      BY <2>0, <3>0, <3>a, <1>a, <1>b, KeptBefore
      DEF MishapsStay, BooksOK, LooksOK, DispatchOK, ShipEnded, LiveLabel, Asked, Kept, EndedIsOver
    <3>d. Answered' => /\ n = shipRow[r].label \/ shipRow[r].label = 0
                       /\ worker[p].pc = "record" => n = worker[p].label
                       /\ "cancelled" = "cancelled" /\ n # 0 => ~LiveLabel(n)
      BY <2>0, <3>0, <3>a, <1>a, <1>b, KeptBefore
      DEF MishapsStay, BooksOK, LooksOK, DispatchOK, LiveLabel, Answered, Kept, CancelledIsOver
    <3> HIDE DEF r, n
    <3>e. RowsBecome(r, "cancelled", n) /\ MishapsStay /\ (\A q \in ShipProcs \ {p} : worker'[q] = worker[q])
      BY <2>0 DEF r, n, MishapsStay, Moved, Went, Left
    <3>1. BooksOK'
      BY <2>0, <2>1, <3>0, <3>b, <3>c, <3>d, <3>e, BooksSet
    <3>2. Steady /\ (Uncrossed' => Quiet)
      <4>1. \A i \in 1..Len(shipRow) : /\ shipRow'[i].label = shipRow[i].label
                                       /\ shipRow'[i].status = IF i = r THEN "cancelled" ELSE shipRow[i].status
        BY <3>e DEF RowsBecome, r, n
      <4>2. Steady
        BY <2>0, <2>2, <3>e, <4>1, <1>b DEF Steady, RowsBecome
      <4>3. Uncrossed' => ~Drafting(r)
        BY <2>0 DEF Uncrossed, Kept, r, Drafting, InDispatch
      <4> QED BY <2>0, <3>0, <3>e, <4>1, <4>2, <4>3 DEF Quiet, RowsBecome, ShipEnded
    <3>3. RequestOK(p)'
      BY <2>0, <2>1, <2>2, <1>a, <1>b, <1>c, AtRest DEF Moved, Went, Left, RowsBecome, Dispatching, MishapsStay
    <3> QED BY <2>0, <2>1, <1>a, <3>1, <3>2, <3>3, OthersToo
            DEF MishapsStay, ShipmentAssumption, Dispatching, Moved, Went, Left
<1>14. ASSUME NEW p \in ShipProcs, Track(p) PROVE LabelInv'
  <2>1. ShipRecordsOK'
    BY <1>14, <1>a, TrackDoes DEF ShipRecordsOK, Moved, Went, Left
  <2>0. /\ worker[p].pc = "track"
        /\ \/ Left(p)
           \/ \E s \in ShipEnded : Moved(p, "patch", worker[p].row, 0, s) /\ label[worker[p].label].state # "live"
        /\ UNCHANGED <<shipRow, label, shipLock, mishaps, shipFaults>>
    BY <1>14, <1>a, TrackDoes
  <2>2. /\ ShipRows' = 1..Len(shipRow') /\ (DOMAIN label)' = 1..Len(label')
        /\ Len(shipRow') \in Nat /\ Len(label') \in Nat
    BY <2>1, NextSeqDomains
  <2> QED
    <3>1. BooksOK'
      BY <2>0, <2>1, BooksStay DEF StillRecording, MishapsStay, Answered, Kept, Moved, Went, Left
    <3>3. RequestKnown(p)'
      BY <2>0, <2>1, <2>2, <1>a, <1>b
      DEF KnownRows, RowsKnown, RequestKnown, HasRow, HasLabel, ShipEnded, Moved, Went, Left
    <3>4. Uncrossed' => DispatchOK(p) /\ LooksOK(p) /\ (worker[p].pc \in Dispatching => shipLock = p)
      BY <2>0, <1>c, KeptBefore DEF MishapsStay, RequestOK
    <3>5. Uncrossed' => (worker'[p].pc \in Dispatching => shipLock' = p)
      BY <2>0, <3>4 DEF Dispatching, Moved, Went, Left
    <3>6. Uncrossed' => DispatchOK(p)'
      BY <2>0, <2>1, <2>2, <1>a, <1>b, <3>4 DEF DispatchOK, OthersEnded, ShipEnded, Moved, Went, Left
    <3>7. Uncrossed' => LooksOK(p)'
      <4>1. Uncrossed' => shipRow[worker[p].row].label = worker[p].label
        BY <2>0, <3>4 DEF LooksOK
      <4>2. worker[p].label # 0
        BY <2>0, <1>a DEF KnownRows, RequestKnown, HasLabel
      <4> QED BY <2>0, <4>1, <4>2 DEF LooksOK, LiveLabel, Moved, Left
    <3>8. Asked' => BuysFirst(p)'
      BY <2>0, <2>1, <2>2, <1>a, <1>b, <1>c, KeptBefore
      DEF MishapsStay, RequestOK, BuysFirst, Asked, Kept, Moved, Went, Left
    <3>9. RequestOK(p)'
      BY <3>3, <3>5, <3>6, <3>7, <3>8 DEF RequestOK
    <3> QED BY <2>0, <2>1, <1>a, <3>1, <3>9, Untouched
            DEF MishapsStay, ShipmentAssumption, Dispatching, Moved, Went, Left
<1>15. ASSUME NEW p \in ShipProcs, Patch(p) PROVE LabelInv'
  <2>1. ShipRecordsOK'
    BY <1>15, <1>a, PatchDoes DEF ShipRecordsOK, RowsSet, RowsBecome, Moved, Went, Left
  <2>0. /\ worker[p].pc = "patch" /\ Left(p)
        /\ RowsBecome(worker[p].row, worker[p].status, shipRow[worker[p].row].label)
        /\ UNCHANGED <<label, shipLock, mishaps, shipFaults>>
    BY <1>15, <1>a, PatchDoes DEF RowsSet
  <2>2. /\ ShipRows' = 1..Len(shipRow') /\ (DOMAIN label)' = 1..Len(label')
        /\ Len(shipRow') \in Nat /\ Len(label') \in Nat
    BY <2>1, NextSeqDomains
  <2> QED
    <3> DEFINE r == worker[p].row
               n == shipRow[worker[p].row].label
    <3>0. r \in 1..Len(shipRow) /\ n \in Nat /\ n <= Len(label) /\ (n = shipRow[r].label \/ n # 0)
      BY <2>0, <1>a, <1>b DEF KnownRows, RowsKnown, RequestKnown, HasRow, HasLabel
    <3>a. Uncrossed' => /\ DispatchOK(p) /\ LooksOK(p) /\ OthersEnded /\ RowsFit
      BY <2>0, <1>a, <1>c, KeptBefore DEF MishapsStay, RequestOK, BooksOK
    <3>s. worker[p].status \in ShipEnded
      BY <2>0, <1>a DEF KnownRows, RequestKnown
    <3>b. Uncrossed' => ((worker[p].status \in ShipEnded \/ r = Len(shipRow)) /\ (n = shipRow[r].label \/ label[n].row = r))
      BY <3>s
    <3>c. Asked' /\ worker[p].status \in ShipEnded /\ n # 0 => ~LiveLabel(n)
      BY <2>0, <3>0, <3>a, <1>a, <1>b, KeptBefore
      DEF MishapsStay, BooksOK, LooksOK, DispatchOK, ShipEnded, LiveLabel, Asked, Kept, EndedIsOver
    <3>d. Answered' => /\ n = shipRow[r].label \/ shipRow[r].label = 0
                       /\ worker[p].pc = "record" => n = worker[p].label
                       /\ worker[p].status = "cancelled" /\ n # 0 => ~LiveLabel(n)
      BY <2>0, <3>0, <3>a, <1>a, <1>b, KeptBefore
      DEF MishapsStay, BooksOK, LooksOK, DispatchOK, LiveLabel, Answered, Kept, CancelledIsOver
    <3> HIDE DEF r, n
    <3>e. RowsBecome(r, worker[p].status, n) /\ MishapsStay /\ (\A q \in ShipProcs \ {p} : worker'[q] = worker[q])
      BY <2>0 DEF r, n, MishapsStay, Moved, Went, Left
    <3>1. BooksOK'
      BY <2>0, <2>1, <3>0, <3>b, <3>c, <3>d, <3>e, BooksSet
    <3>2. Steady /\ (Uncrossed' => Quiet)
      <4>1. \A i \in 1..Len(shipRow) : /\ shipRow'[i].label = shipRow[i].label
                                       /\ shipRow'[i].status = IF i = r THEN worker[p].status ELSE shipRow[i].status
        BY <3>e DEF RowsBecome, r, n
      <4>2. Steady
        BY <2>0, <2>2, <3>e, <4>1, <1>b DEF Steady, RowsBecome
      <4>3. Uncrossed' => ~Drafting(r)
        <5>1. shipRow[r].label # 0 \/ ~Uncrossed'
          BY <2>0, <3>a DEF LooksOK, r
        <5>2. SUFFICES ASSUME Uncrossed', NEW q \in ShipProcs, worker[q].row = r,
                              worker[q].pc \in {"lookup", "buy", "record", "adopt"}
                       PROVE  FALSE
          BY DEF Drafting
        <5>3. DispatchOK(q) /\ worker[q].row = Len(shipRow)
          BY <2>0, <1>c, <5>2, KeptBefore DEF RequestOK, MishapsStay, DispatchOK
        <5> QED BY <5>1, <5>2, <5>3 DEF DispatchOK
      <4> QED BY <2>0, <3>0, <3>e, <4>1, <4>2, <4>3, <3>s DEF Quiet, RowsBecome, ShipEnded
    <3>3. RequestOK(p)'
      BY <2>0, <2>1, <2>2, <1>a, <1>b, <1>c, AtRest DEF Moved, Went, Left, RowsBecome, Dispatching, MishapsStay
    <3> QED BY <2>0, <2>1, <1>a, <3>1, <3>2, <3>3, OthersToo
            DEF MishapsStay, ShipmentAssumption, Dispatching, Moved, Went, Left
<1>16. ASSUME NEW p \in ShipProcs, CrashWorker(p) PROVE LabelInv'
  <2>1. ShipRecordsOK'
    BY <1>16, <1>a, CrashWorkerDoes DEF ShipRecordsOK, Bought, LabelsGrow, Moved, Went, Left
  <2>0. /\ Left(p)
        /\ label' = label \/ (worker[p].pc = "buy" /\ Len(label) < MaxLabels /\ LabelsGrow(worker[p].row))
        /\ mishaps' = IF worker[p].pc \in {"buy", "record", "fail"} THEN mishaps \cup {"unanswered"} ELSE mishaps
        /\ UNCHANGED <<shipRow, shipLock>>
    BY <1>16, <1>a, CrashWorkerDoes DEF Bought
  <2>2. /\ ShipRows' = 1..Len(shipRow') /\ (DOMAIN label)' = 1..Len(label')
        /\ Len(shipRow') \in Nat /\ Len(label') \in Nat
    BY <2>1, NextSeqDomains
  <2>3. CASE label' = label
    <3>1. BooksOK'
      BY <2>0, <2>3, <2>1, BooksStay DEF StillRecording, MishapsStay, Answered, Kept, Moved, Went, Left
    <3>3. RequestOK(p)'
      BY <2>0, <2>3, <2>1, <2>2, <1>a, <1>b, <1>c, AtRest DEF Moved, Went, Left, Dispatching, MishapsStay
    <3> QED BY <2>0, <2>3, <2>1, <1>a, <3>1, <3>3, Untouched
            DEF MishapsStay, ShipmentAssumption, Dispatching, Moved, Went, Left
  <2>4. CASE worker[p].pc = "buy" /\ LabelsGrow(worker[p].row)
    <3>a. worker[p].row \in 1..Len(shipRow) /\ StillRecording /\ MishapsStay
      BY <2>0, <2>4, <1>a, <1>b
      DEF KnownRows, RequestKnown, HasRow, StillRecording, MishapsStay, Moved, Went, Left
    <3>b. Asked' => \A n \in 1..Len(label) : label[n].row # worker[p].row
      BY <2>0, <2>4, <3>a, <1>c, <1>b, KeptBefore DEF RequestOK, BuysFirst
    <3>c. Answered' => worker'[p].pc = "record" /\ worker'[p].label = Len(label) + 1
      BY <2>0, <2>4 DEF Answered, Kept, Moved, Went, Left
    <3>1. BooksOK'
      BY <2>0, <2>4, <2>1, <3>a, <3>b, <3>c, BooksBuy
    <3>2. Steady
      BY <2>0, <2>4, <2>2, <1>b DEF Steady, LabelsGrow
    <3>3. RequestOK(p)'
      BY <2>0, <2>4, <2>1, <2>2, <1>a, <1>b, <1>c, AtRest
      DEF Moved, Went, Left, LabelsGrow, Dispatching, MishapsStay
    <3> QED BY <2>0, <2>4, <2>1, <1>a, <3>1, <3>2, <3>3, OthersToo
            DEF MishapsStay, ShipmentAssumption, Dispatching, Moved, Went, Left
  <2> QED BY <2>0, <2>3, <2>4
<1>17. ASSUME NEW p \in ShipProcs, NEW r \in 1..Len(shipRow), StartCancel(p, r) PROVE LabelInv'
  <2>1. ShipRecordsOK'
    BY <1>17, <1>a, StartCancelDoes DEF ShipRecordsOK, Moved, Went, Left
  <2>0. /\ worker[p].pc = "idle"
        /\ \/ Moved(p, "void", r, shipRow[r].label, worker[p].status) /\ shipRow[r].label # 0
           \/ Moved(p, "cancelRow", r, shipRow[r].label, worker[p].status) /\ shipRow[r].label = 0
        /\ UNCHANGED <<shipRow, label, shipLock, mishaps, shipFaults>>
    BY <1>17, <1>a, StartCancelDoes
  <2>2. /\ ShipRows' = 1..Len(shipRow') /\ (DOMAIN label)' = 1..Len(label')
        /\ Len(shipRow') \in Nat /\ Len(label') \in Nat
    BY <2>1, NextSeqDomains
  <2> QED
    <3>1. BooksOK'
      BY <2>0, <2>1, BooksStay DEF StillRecording, MishapsStay, Answered, Kept, Moved, Went, Left
    <3>3. RequestKnown(p)'
      BY <2>0, <2>1, <2>2, <1>a, <1>b
      DEF KnownRows, RowsKnown, RequestKnown, HasRow, HasLabel, ShipEnded, Moved, Went, Left
    <3>4. Uncrossed' => DispatchOK(p) /\ LooksOK(p) /\ (worker[p].pc \in Dispatching => shipLock = p)
      BY <2>0, <1>c, KeptBefore DEF MishapsStay, RequestOK
    <3>5. Uncrossed' => (worker'[p].pc \in Dispatching => shipLock' = p)
      BY <2>0, <3>4 DEF Dispatching, Moved, Went, Left
    <3>6. Uncrossed' => DispatchOK(p)'
      BY <2>0, <2>1, <2>2, <1>a, <1>b, <3>4 DEF DispatchOK, OthersEnded, ShipEnded, Moved, Went, Left
    <3>7. Uncrossed' => LooksOK(p)'
      BY <2>0, <2>1, <2>2, <1>a, <1>b, <3>4 DEF LooksOK, LiveLabel, Moved, Went, Left
    <3>8. Asked' => BuysFirst(p)'
      BY <2>0, <2>1, <2>2, <1>a, <1>b, <1>c, KeptBefore
      DEF MishapsStay, RequestOK, BuysFirst, Asked, Kept, Moved, Went, Left
    <3>9. RequestOK(p)'
      BY <3>3, <3>5, <3>6, <3>7, <3>8 DEF RequestOK
    <3> QED BY <2>0, <2>1, <1>a, <3>1, <3>9, Untouched
            DEF MishapsStay, ShipmentAssumption, Dispatching, Moved, Went, Left
<1>18. ASSUME NEW p \in ShipProcs, NEW r \in 1..Len(shipRow), StartPoll(p, r) PROVE LabelInv'
  <2>1. ShipRecordsOK'
    BY <1>18, <1>a, StartPollDoes DEF ShipRecordsOK, Moved, Went, Left
  <2>0. /\ worker[p].pc = "idle" /\ shipRow[r].label # 0
        /\ Moved(p, "track", r, shipRow[r].label, shipRow[r].status)
        /\ UNCHANGED <<shipRow, label, shipLock, mishaps, shipFaults>>
    BY <1>18, <1>a, StartPollDoes
  <2>2. /\ ShipRows' = 1..Len(shipRow') /\ (DOMAIN label)' = 1..Len(label')
        /\ Len(shipRow') \in Nat /\ Len(label') \in Nat
    BY <2>1, NextSeqDomains
  <2> QED
    <3>1. BooksOK'
      BY <2>0, <2>1, BooksStay DEF StillRecording, MishapsStay, Answered, Kept, Moved, Went, Left
    <3>3. RequestKnown(p)'
      BY <2>0, <2>1, <2>2, <1>a, <1>b
      DEF KnownRows, RowsKnown, RequestKnown, HasRow, HasLabel, ShipEnded, Moved, Went, Left
    <3>4. Uncrossed' => DispatchOK(p) /\ LooksOK(p) /\ (worker[p].pc \in Dispatching => shipLock = p)
      BY <2>0, <1>c, KeptBefore DEF MishapsStay, RequestOK
    <3>5. Uncrossed' => (worker'[p].pc \in Dispatching => shipLock' = p)
      BY <2>0, <3>4 DEF Dispatching, Moved, Went, Left
    <3>6. Uncrossed' => DispatchOK(p)'
      BY <2>0, <2>1, <2>2, <1>a, <1>b, <3>4 DEF DispatchOK, OthersEnded, ShipEnded, Moved, Went, Left
    <3>7. Uncrossed' => LooksOK(p)'
      BY <2>0, <2>1, <2>2, <1>a, <1>b, <3>4 DEF LooksOK, LiveLabel, Moved, Went, Left
    <3>8. Asked' => BuysFirst(p)'
      BY <2>0, <2>1, <2>2, <1>a, <1>b, <1>c, KeptBefore
      DEF MishapsStay, RequestOK, BuysFirst, Asked, Kept, Moved, Went, Left
    <3>9. RequestOK(p)'
      BY <3>3, <3>5, <3>6, <3>7, <3>8 DEF RequestOK
    <3> QED BY <2>0, <2>1, <1>a, <3>1, <3>9, Untouched
            DEF MishapsStay, ShipmentAssumption, Dispatching, Moved, Went, Left
<1>19. ASSUME ParcelEnds PROVE LabelInv'
  <2>1. PICK n \in 1..Len(label), s \in {"delivered", "lost"} : label' = [label EXCEPT ![n].state = s]
    BY <1>19, <1>b DEF ParcelEnds
  <2>2. label' \in Seq(LabelRecords) /\ LabelEnds(n) /\ UNCHANGED <<shipRow, shipLock, worker, mishaps, shipFaults>>
    BY <1>19, <1>a, <2>1, LabelIsEnded DEF Ended, ParcelEnds
  <2>3. ShipRecordsOK'
    BY <1>a, <2>2 DEF ShipRecordsOK, LabelEnds
  <2>4. BooksOK'
    BY <2>2, <2>3, BooksEnd DEF MishapsStay, StillRecording
  <2>5. Steady /\ Quiet
    BY <1>b, <2>2 DEF Steady, Quiet, LabelEnds
  <2>6. ASSUME NEW q \in ShipProcs PROVE RequestOK(q)'
    BY <2>2, <2>3, <2>5, OthersKept DEF MishapsStay
  <2> QED BY <2>3, <2>4, <2>6 DEF LabelInv
<1>20. ASSUME ShipLockExpires PROVE LabelInv'
  <2>1. /\ UNCHANGED <<shipRow, label, worker>> /\ shipLock' = NoShipProc /\ shipLock # NoShipProc
        /\ \/ worker[shipLock].pc \in {"idle", "void", "cancelRow", "track", "patch"} /\ mishaps' = mishaps
           \/ "lockLost" \in mishaps' /\ MishapsStay
    BY <1>20 DEF ShipLockExpires, NoShipFault, Mishap, MishapsStay
  <2>2. MishapsStay /\ shipFaults' \in 0..MaxShipFaults
    BY <1>20, <1>a, <2>1
    DEF MishapsStay, ShipLockExpires, ShipFault, NoShipFault, ShipmentAssumption, ShipRecordsOK
  <2>3. ShipRecordsOK'
    BY <1>a, <2>1, <2>2 DEF ShipRecordsOK
  <2>4. BooksOK'
    BY <2>1, <2>2, <2>3, BooksStay DEF StillRecording
  <2>5. Steady /\ Quiet
    BY <1>b, <2>1 DEF Steady, Quiet
  <2>6. ASSUME NEW q \in ShipProcs PROVE RequestOK(q)'
    <3>1. CASE Uncrossed' /\ shipLock = q
      <4>1. worker[q].pc \notin Dispatching
        BY <2>1, <3>1 DEF Uncrossed, Kept, Dispatching
      <4>2. RequestOK(q) /\ Uncrossed /\ worker[q].pc # "buy"
        BY <1>c, <2>2, <3>1, <4>1, KeptBefore DEF Dispatching
      <4> QED BY <2>1, <4>1, <4>2
              DEF RequestOK, RequestKnown, DispatchOK, Dispatching, LooksOK, LiveLabel, BuysFirst, ShipRows
    <3>2. CASE ~(Uncrossed' /\ shipLock = q)
      BY <2>1, <2>2, <2>3, <2>5, <3>2, OthersKept
    <3> QED BY <3>1, <3>2
  <2> QED BY <2>3, <2>4, <2>6 DEF LabelInv
<1>21. CASE UNCHANGED shipVars
  <2>1. UNCHANGED <<shipRow, label, shipLock, worker, mishaps, shipFaults>>
    BY <1>21 DEF shipVars
  <2>2. ShipRecordsOK'
    BY <1>a, <2>1 DEF ShipRecordsOK
  <2>3. BooksOK'
    BY <2>1, <2>2, BooksStay DEF MishapsStay, StillRecording
  <2>4. ASSUME NEW q \in ShipProcs PROVE RequestOK(q)'
    <3>1. Steady /\ Quiet
      BY <1>b, <2>1 DEF Steady, Quiet
    <3> QED BY <2>1, <2>2, <3>1, OthersKept DEF MishapsStay
  <2> QED BY <2>2, <2>3, <2>4 DEF LabelInv
<1>22. ASSUME NEW p \in ShipProcs, NEW r \in ShipRows, StartCancel(p, r) \/ StartPoll(p, r) PROVE LabelInv'
  BY <1>b, <1>17, <1>18, <1>22
<1> QED BY <1>1, <1>2, <1>3, <1>4, <1>5, <1>6, <1>7, <1>8, <1>9, <1>10, <1>11, <1>12, <1>13, <1>14, <1>15,
           <1>16,
           <1>19, <1>20, <1>21, <1>22 DEF ShipNext

(* The rows and labels agree in every state of the invariant.                   *)
LEMMA LabelsAgree == ASSUME LabelInv PROVE ParcelsMatchRows
<1>1. /\ ShipRows = 1..Len(shipRow) /\ DOMAIN label = 1..Len(label) /\ Len(label) \in Nat /\ Len(shipRow) \in Nat
      /\ BooksOK /\ \A r \in 1..Len(shipRow) : shipRow[r].label \in Nat
  BY SeqDomains DEF LabelInv, RowRecords
<1>2. (\A n \in 1..Len(label) : label[n].row \in 1..Len(shipRow))
  BY <1>1 DEF BooksOK, RowsKnown
<1>3. ASSUME Asked PROVE Cardinality(Live) <= 1
  <2>1. OneLabelEach /\ EndedIsOver /\ OthersEnded /\ RowsFit /\ LastIsUnlabelled
    BY <1>1, <1>3 DEF BooksOK, Asked, Uncrossed, Kept
  <2>2. ASSUME NEW n \in Live PROVE label[n].row = Len(shipRow)
    <3>1. n \in 1..Len(label) /\ label[n].state = "live" /\ label[n].row \in 1..Len(shipRow)
      BY <1>1, <1>2 DEF Live
    <3> DEFINE r == label[n].row
    <3>2. SUFFICES ASSUME r < Len(shipRow) PROVE FALSE
      BY <1>1, <3>1
    <3>3. shipRow[r].status \in ShipEnded /\ shipRow[r].label # 0
      BY <1>1, <2>1, <3>1, <3>2 DEF OthersEnded, LastIsUnlabelled
    <3>4. shipRow[r].label \in 1..Len(label) /\ label[shipRow[r].label].row = r
      BY <1>1, <2>1, <3>1, <3>3 DEF RowsFit, BooksOK, RowsKnown
    <3>5. shipRow[r].label = n
      BY <1>1, <2>1, <3>1, <3>4 DEF OneLabelEach
    <3> QED BY <1>1, <2>1, <3>1, <3>3, <3>5 DEF EndedIsOver, LiveLabel
  <2>3. \A m, n \in Live : m = n
    BY <1>1, <2>1, <2>2 DEF OneLabelEach, Live
  <2>4. CASE Live = {}
    BY <2>4, FS_EmptySet
  <2>5. CASE Live # {}
    <3>1. PICK n \in Live : Live = {n}
      BY <2>3, <2>5
    <3>2. Cardinality(Live) = 1
      BY <3>1, FS_Singleton
    <3> QED BY <3>2
  <2> QED BY <2>4, <2>5
<1>4. ASSUME Answered, NEW r \in 1..Len(shipRow), shipRow[r].status = "cancelled", NEW n \in Matches(r) \cap Live PROVE FALSE
  <2>1. LabelsRecorded /\ CancelledIsOver /\ Uncrossed
    BY <1>1, <1>4 DEF BooksOK, Answered, Uncrossed, Kept
  <2>2. n \in 1..Len(label) /\ label[n].row = r /\ label[n].state = "live"
    BY <1>1, <1>4 DEF Matches, Live
  <2>3. shipRow[r].label # n
    BY <1>1, <1>4, <2>1, <2>2 DEF CancelledIsOver, LiveLabel
  <2>4. PICK p \in ShipProcs : worker[p].pc = "record" /\ worker[p].label = n
    BY <1>1, <2>1, <2>2, <2>3 DEF LabelsRecorded, Recording
  <2>5. DispatchOK(p)
    BY <2>1, <2>4 DEF LabelInv, RequestOK
  <2>6. shipRow[r].status = "draft"
    BY <2>2, <2>4, <2>5 DEF DispatchOK
  <2> QED BY <1>4, <2>6
<1> QED BY <1>1, <1>3, <1>4 DEF ParcelsMatchRows, OneLiveLabel, CancelledIsVoid, Asked, Answered, Kept

(* What the invariant says of types is what the type invariant does.         *)
LEMMA LabelTypes == ASSUME LabelInv PROVE ShipTypeOK
<1>1. /\ ShipRows = 1..Len(shipRow) /\ DOMAIN label = 1..Len(label) /\ Len(label) \in Nat /\ Len(shipRow) \in Nat
      /\ \A r \in 1..Len(shipRow) : shipRow[r] \in RowRecords
      /\ \A n \in 1..Len(label) : label[n] \in LabelRecords
      /\ ShipRecordsOK /\ RowsKnown /\ LastIsUnlabelled
  BY SeqDomains DEF LabelInv, BooksOK
<1>2. Cardinality(Unlabelled) <= 1
  <2>1. \A r \in Unlabelled : r = Len(shipRow)
    BY <1>1 DEF Unlabelled, LastIsUnlabelled
  <2>2. CASE Unlabelled = {}
    BY <2>2, FS_EmptySet
  <2>3. CASE Unlabelled = {Len(shipRow)}
    <3>1. Cardinality(Unlabelled) = 1
      BY <2>3, FS_Singleton
    <3> QED BY <3>1
  <2> QED BY <2>1, <2>2, <2>3
<1>3. \A r \in 1..Len(shipRow) : shipRow[r].status \in {"draft", "generated"} \cup ShipEnded /\ shipRow[r].label \in 0..Len(label)
  BY <1>1 DEF RowRecords, RowsKnown
<1>4. \A n \in 1..Len(label) : label[n].row \in 1..Len(shipRow) /\ label[n].state \in {"live", "void", "delivered", "lost"}
  BY <1>1 DEF LabelRecords, RowsKnown
<1> QED BY <1>1, <1>2, <1>3, <1>4 DEF ShipTypeOK, ShipRecordsOK

(* The invariant holds in every state.                                          *)
LEMMA LabelInvHolds == ShipSpec => []LabelInv
<1>1. ShipInit => LabelInv
  BY LabelInitInv
<1>2. LabelInv /\ [ShipNext]_shipVars => LabelInv'
  BY LabelStepInv
<1> QED BY <1>1, <1>2, PTL DEF ShipSpec

(* Rows and labels name each other, and one row at most is without a label: the *)
(* partial unique index holds in every state.                                   *)
THEOREM LabelTypeCorrect == ShipSpec => []ShipTypeOK
BY LabelInvHolds, LabelTypes, PTL

(* However many requests, polls and cancels meet at the order, and whatever     *)
(* crashes or answer is lost: one parcel at most is on the way, and none for a  *)
(* cancelled row, short of the mishaps the property names.                      *)
THEOREM OneParcel == ShipSpec => []ParcelsMatchRows
BY LabelInvHolds, LabelsAgree, PTL

-----------------------------------------------------------------------------
(* The routing of an order, for any number of executions, routers and decisions *)
(* and any TTL that leaves room for a run that is not slow.                     *)
Awaiting(p) == RouteAt(p, "await")

(* A run in its preamble or before the router has the lock, and the TTL is not *)
(* over: the preamble is short, and the call has a budget.                     *)
Guarded ==
  ~routeSlow => \A p \in RouteProcs :
    /\ Preparing(p) => routeLock = p /\ routeLockAge <= Preamble
    /\ Awaiting(p) => routeLock = p /\ routeLockAge <= Preamble + routeJob[p].spent

InBudget == \A p \in RouteProcs : Awaiting(p) => routeJob[p].spent <= RouteBudget

(* The budget is untouched until the call.                                     *)
Unspent ==
  \A p \in RouteProcs : Preparing(p) \/ RouteAt(p, "lock") \/ RouteAt(p, "reapLock") => routeJob[p].spent = 0

(* Works are there for a decision that was committed, once.                    *)
WorksMatch ==
  \A d \in DecisionIds :
    /\ routeWorks[d] = IF decisions[d].state = "committed" THEN 1 ELSE 0
    /\ d \in routeGone => decisions[d].state = "committed"

(* What a run has seen on its way to the claim holds until it claims.          *)
OneLive ==
  \A d, e \in DecisionIds : IsLive(d) /\ IsLive(e) => d = e
SeenStillHolds ==
  ~routeSlow =>
    /\ \A p \in RouteProcs : RouteAt(p, "works") \/ RouteAt(p, "claim") => NothingLive
    /\ \A p \in RouteProcs : RouteAt(p, "claim") => ~StandingWorks
    /\ ~NothingLive => ~StandingWorks
OneStanding ==
  ~routeSlow => \A d, e \in DecisionIds \ routeGone : routeWorks[d] > 0 /\ routeWorks[e] > 0 => d = e

(* A run's decision is one that was handed out.                                *)
JobsKnown ==
  \A p \in RouteProcs : routeJob[p].pc \in {"await", "commit", "refuse", "reap", "reapLock"} =>
    routeJob[p].id \in DecisionIds /\ decisions[routeJob[p].id].state # "none"
RInv ==
  /\ RouteTypeOK /\ Guarded /\ InBudget /\ Unspent /\ WorksMatch
  /\ OneLive /\ SeenStillHolds /\ OneStanding /\ JobsKnown

Job == [pc : RoutePcs, router : Routers \cup {NoRouter}, id : DecisionIds \cup {NoDecision}, spent : Nat]

LEMMA BudgetNat == RouteBudget \in Nat
BY RouteAssumption DEF RouteBudget

LEMMA IdleRouteType == IdleRoute \in Job
BY DEF IdleRoute, Job, RoutePcs

LEMMA RouteInitInv == RouteInit => RInv
<1> SUFFICES ASSUME RouteInit PROVE RInv
  OBVIOUS
<1>1. RouteTypeOK
  BY IdleRouteType DEF RouteInit, RouteTypeOK, Job
<1>2. Guarded /\ InBudget /\ Unspent /\ JobsKnown
  BY DEF RouteInit, Guarded, InBudget, Unspent, JobsKnown, Preparing, Awaiting, RouteAt, IdleRoute
<1>3. WorksMatch /\ OneLive /\ SeenStillHolds /\ OneStanding
  BY DEF RouteInit, WorksMatch, OneLive, SeenStillHolds, OneStanding, IsLive, StandingWorks,
         RouteAt, IdleRoute
<1> QED BY <1>1, <1>2, <1>3 DEF RInv

(* A step that moves one run on, and takes the lock or leaves it as it is, keeps*)
(* the invariant if what the run has seen by then is so.                       *)
LEMMA JobStep ==
  ASSUME RInv, NEW p \in RouteProcs, NEW job \in Job,
         routeJob' = [routeJob EXCEPT ![p] = job],
         UNCHANGED <<decisions, routeWorks, routeGone, routeSlow>>,
         routeCancelled' \in BOOLEAN, routeFaults' \in Nat,
         \/ UNCHANGED <<routeLock, routeLockAge>>
         \/ routeLock = NoRouteProc /\ routeLock' = p /\ routeLockAge' = 0,
         ~routeSlow /\ (job.pc \in {"check", "live", "works", "claim", "liveAgain", "reap"}) =>
           routeLock' = p /\ routeLockAge' <= Preamble,
         ~routeSlow /\ job.pc = "await" => routeLock' = p /\ routeLockAge' <= Preamble + job.spent,
         job.pc = "await" => job.spent <= RouteBudget,
         job.pc \in {"lock", "check", "live", "works", "claim", "liveAgain", "reapLock", "reap"} => job.spent = 0,
         ~routeSlow /\ job.pc \in {"works", "claim"} => NothingLive,
         ~routeSlow /\ job.pc = "claim" => ~StandingWorks,
         job.pc \in {"await", "commit", "refuse", "reap", "reapLock"} =>
           job.id \in DecisionIds /\ decisions[job.id].state # "none"
  PROVE  RInv'
<1> USE RouteAssumption
<1>1. /\ routeJob \in [RouteProcs -> Job] /\ routeJob' \in [RouteProcs -> Job]
      /\ \A q \in RouteProcs : routeJob'[q] = IF q = p THEN job ELSE routeJob[q]
  BY DEF RInv, RouteTypeOK, Job
<1>2. RouteTypeOK'
  BY <1>1 DEF RInv, RouteTypeOK, Job
<1>3. Guarded'
  BY <1>1 DEF RInv, RouteTypeOK, Guarded, Preparing, Awaiting, RouteAt
<1>4. InBudget' /\ Unspent' /\ JobsKnown'
  BY <1>1 DEF RInv, InBudget, Unspent, JobsKnown, Preparing, Awaiting, RouteAt
<1>5. SeenStillHolds'
  BY <1>1 DEF RInv, SeenStillHolds, NothingLive, IsLive, StandingWorks, RouteAt
<1>6. WorksMatch' /\ OneLive' /\ OneStanding'
  BY DEF RInv, WorksMatch, OneLive, OneStanding, IsLive
<1> QED BY <1>2, <1>3, <1>4, <1>5, <1>6 DEF RInv

LEMMA RouteStepInv == RInv /\ [RouteNext]_routeVars => RInv'
<1> SUFFICES ASSUME RInv, [RouteNext]_routeVars PROVE RInv'
  OBVIOUS
<1> USE RouteAssumption, BudgetNat
<1>0. /\ routeJob \in [RouteProcs -> Job]
      /\ \A p \in RouteProcs : routeJob[p] \in Job
      /\ routeCancelled \in BOOLEAN /\ routeFaults \in Nat /\ routeLockAge \in Nat
  BY DEF RInv, RouteTypeOK, Job
<1>1. ASSUME NEW p \in RouteProcs, StartRoute(p) PROVE RInv'
  <2>1. PICK r \in Routers :
          routeJob' = [routeJob EXCEPT ![p] = [IdleRoute EXCEPT !.pc = "lock", !.router = r]]
    BY <1>1 DEF StartRoute
  <2> DEFINE job == [IdleRoute EXCEPT !.pc = "lock", !.router = r]
  <2>2. job \in Job /\ job.pc = "lock" /\ job.spent = 0
    BY DEF IdleRoute, Job, RoutePcs
  <2> HIDE DEF job
  <2> QED BY <1>0, <1>1, <2>1, <2>2, JobStep DEF StartRoute, routeOrder, routeClock, job
<1>2. ASSUME NEW p \in RouteProcs, StartReap(p) PROVE RInv'
  <2>1. PICK d \in DecisionIds :
          /\ IsLive(d)
          /\ routeJob' = [routeJob EXCEPT ![p] = [IdleRoute EXCEPT !.pc = "reapLock", !.id = d]]
    BY <1>2 DEF StartReap
  <2> DEFINE job == [IdleRoute EXCEPT !.pc = "reapLock", !.id = d]
  <2>2. job \in Job /\ job.pc = "reapLock" /\ job.id = d /\ job.spent = 0
    BY DEF IdleRoute, Job, RoutePcs
  <2>3. routeJob' = [routeJob EXCEPT ![p] = job] /\ decisions[d].state # "none"
    BY <2>1 DEF IsLive
  <2>4. UNCHANGED <<decisions, routeOrder, routeClock, routeFaults>>
    BY <1>2 DEF StartReap
  <2> HIDE DEF job
  <2> QED BY <1>0, <2>2, <2>3, <2>4, JobStep DEF routeOrder, routeClock
<1>3. ASSUME NEW p \in RouteProcs, TakeRouteLock(p) PROVE RInv'
  <2>0. /\ routeJob[p].pc \in {"lock", "reapLock"}
        /\ UNCHANGED <<decisions, routeOrder, routeFaults, routeSlow>>
        /\ routeJob[p].spent = 0
    BY <1>3 DEF TakeRouteLock, RouteAt, RInv, Unspent
  <2>1. CASE routeLock = NoRouteProc
    <3> DEFINE job == [routeJob[p] EXCEPT !.pc = IF RouteAt(p, "lock") THEN "check" ELSE "reap"]
    <3>1. /\ routeJob' = [routeJob EXCEPT ![p] = job]
          /\ routeLock' = p /\ routeLockAge' = 0
      BY <1>0, <1>3, <2>1 DEF TakeRouteLock, RouteLockFree, RouteGoto
    <3>2. /\ job \in Job /\ job.pc \in {"check", "reap"} /\ job.id = routeJob[p].id
          /\ job.spent = 0
          /\ job.pc = "reap" => routeJob[p].pc = "reapLock"
      BY <1>0, <2>0 DEF Job, RoutePcs, RouteAt
    <3> HIDE DEF job
    <3>3. job.pc = "reap" => job.id \in DecisionIds /\ decisions[job.id].state # "none"
      BY <3>2 DEF RInv, JobsKnown
    <3>4. routeLockAge' <= Preamble
      BY <3>1
    <3>5. UNCHANGED <<decisions, routeWorks, routeGone, routeSlow, routeCancelled, routeFaults>>
      BY <2>0 DEF routeOrder
    <3>6. job.pc \notin {"await", "works", "claim", "commit", "refuse", "reapLock"}
      BY <3>2
    <3> QED BY <1>0, <2>1, <3>1, <3>2, <3>3, <3>4, <3>5, <3>6, JobStep
  <2>2. CASE routeLock # NoRouteProc
    <3>1. routeJob' = [routeJob EXCEPT ![p] = IdleRoute] /\ UNCHANGED <<routeLock, routeLockAge>>
      BY <1>3, <2>2 DEF TakeRouteLock, RouteLockFree
    <3>2. IdleRoute.pc = "idle"
      BY DEF IdleRoute
    <3> QED BY <1>0, <2>0, <3>1, <3>2, IdleRouteType, JobStep DEF routeOrder
  <2> QED BY <2>1, <2>2
<1>4. ASSUME NEW p \in RouteProcs, CheckCancelled(p) PROVE RInv'
  <2> DEFINE job == [routeJob[p] EXCEPT !.pc = IF routeCancelled THEN "unlock" ELSE "live"]
  <2>1. /\ routeJob[p].pc = "check" /\ routeJob' = [routeJob EXCEPT ![p] = job]
        /\ UNCHANGED <<decisions, routeOrder, routeClock, routeFaults>>
    BY <1>0, <1>4 DEF CheckCancelled, RouteAt, RouteGoto
  <2>2. job \in Job /\ job.pc \in {"unlock", "live"} /\ job.spent = routeJob[p].spent
    BY <1>0 DEF Job, RoutePcs
  <2>3. routeJob[p].spent = 0 /\ (~routeSlow => routeLock = p /\ routeLockAge <= Preamble)
    BY <2>1 DEF RInv, Guarded, Unspent, Preparing
  <2> HIDE DEF job
  <2> QED BY <1>0, <2>1, <2>2, <2>3, JobStep DEF routeOrder, routeClock
<1>5. ASSUME NEW p \in RouteProcs, FindLive(p) PROVE RInv'
  <2>0. /\ routeJob[p].pc \in {"live", "liveAgain"}
        /\ UNCHANGED <<decisions, routeOrder, routeClock, routeFaults>>
        /\ ~routeSlow => routeLock = p /\ routeLockAge <= Preamble
        /\ routeJob[p].spent = 0
    BY <1>5 DEF FindLive, RouteAt, RInv, Guarded, Unspent, Preparing
  <2>1. CASE NothingLive
    <3> DEFINE job == [routeJob[p] EXCEPT !.pc = IF RouteAt(p, "live") THEN "works" ELSE "unlock"]
    <3>1. routeJob' = [routeJob EXCEPT ![p] = job]
      BY <1>0, <1>5, <2>1 DEF FindLive, RouteGoto, NothingLive
    <3>2. job \in Job /\ job.pc \in {"works", "unlock"} /\ job.spent = 0
      BY <1>0, <2>0 DEF Job, RoutePcs
    <3> HIDE DEF job
    <3> QED BY <1>0, <2>0, <2>1, <3>1, <3>2, JobStep DEF routeOrder, routeClock
  <2>2. CASE ~NothingLive
    <3>1. PICK d \in DecisionIds :
            /\ IsLive(d)
            /\ routeJob' = [routeJob EXCEPT ![p] =
                 IF decisions[d].router = routeJob[p].router
                   THEN [routeJob[p] EXCEPT !.pc = "await", !.id = d]
                   ELSE [routeJob[p] EXCEPT !.pc = "unlock"]]
      BY <1>0, <1>5, <2>2 DEF FindLive
    <3> DEFINE job == IF decisions[d].router = routeJob[p].router
                        THEN [routeJob[p] EXCEPT !.pc = "await", !.id = d]
                        ELSE [routeJob[p] EXCEPT !.pc = "unlock"]
    <3>2. /\ job \in Job /\ job.pc \in {"await", "unlock"} /\ job.spent = routeJob[p].spent
          /\ job.pc = "await" => job.id = d
      BY <1>0 DEF Job, RoutePcs
    <3>3. routeJob' = [routeJob EXCEPT ![p] = job] /\ decisions[d].state # "none"
      BY <3>1 DEF IsLive
    <3>4. /\ job.spent = 0 /\ job.spent <= RouteBudget
          /\ ~routeSlow => routeLock' = p /\ routeLockAge' <= Preamble + job.spent
      BY <1>0, <2>0, <3>2 DEF routeClock
    <3> HIDE DEF job
    <3> QED BY <1>0, <2>0, <3>2, <3>3, <3>4, JobStep DEF routeOrder, routeClock
  <2> QED BY <2>1, <2>2
<1>6. ASSUME NEW p \in RouteProcs, FindWorks(p) PROVE RInv'
  <2> DEFINE job == [routeJob[p] EXCEPT !.pc = IF StandingWorks THEN "unlock" ELSE "claim"]
  <2>1. /\ routeJob[p].pc = "works" /\ routeJob' = [routeJob EXCEPT ![p] = job]
        /\ UNCHANGED <<decisions, routeOrder, routeClock, routeFaults>>
    BY <1>0, <1>6 DEF FindWorks, RouteAt, RouteGoto
  <2>2. /\ job \in Job /\ job.pc \in {"unlock", "claim"} /\ (job.pc = "claim" => ~StandingWorks)
        /\ job.spent = routeJob[p].spent
    BY <1>0 DEF Job, RoutePcs
  <2>3. /\ routeJob[p].spent = 0
        /\ ~routeSlow => routeLock = p /\ routeLockAge <= Preamble /\ NothingLive
    BY <2>1 DEF RInv, Guarded, Unspent, Preparing, SeenStillHolds, RouteAt
  <2> HIDE DEF job
  <2> QED BY <1>0, <2>1, <2>2, <2>3, JobStep DEF routeOrder, routeClock
<1>7. ASSUME NEW p \in RouteProcs, ClaimIntent(p) PROVE RInv'
  <2>0. /\ routeJob[p].pc = "claim" /\ routeJob[p].spent = 0
        /\ UNCHANGED <<routeOrder, routeClock, routeFaults>>
        /\ ~routeSlow => /\ routeLock = p /\ routeLockAge <= Preamble
                         /\ NothingLive /\ ~StandingWorks
    BY <1>7 DEF ClaimIntent, RouteAt, RInv, Guarded, Unspent, Preparing, SeenStillHolds
  <2>1. ASSUME NothingLive, NEW d \in DecisionIds, decisions[d].state = "none",
               decisions' = [decisions EXCEPT ![d] = [state |-> "live", router |-> routeJob[p].router]],
               routeJob' = [routeJob EXCEPT ![p].pc = "await", ![p].id = d]
        PROVE  RInv'
    <3> DEFINE job == [routeJob[p] EXCEPT !.pc = "await", !.id = d]
    <3>1. routeJob' = [routeJob EXCEPT ![p] = job]
      BY <1>0, <2>1 DEF Job
    <3>2. job \in Job /\ job.pc = "await" /\ job.id = d /\ job.spent = 0
      BY <1>0, <2>0 DEF Job, RoutePcs
    <3> HIDE DEF job
    <3>3. /\ routeJob' \in [RouteProcs -> Job]
          /\ \A q \in RouteProcs : routeJob'[q] = IF q = p THEN job ELSE routeJob[q]
      BY <1>0, <3>1, <3>2
    <3>4. \A e \in DecisionIds : decisions'[e] =
            IF e = d THEN [state |-> "live", router |-> routeJob[p].router] ELSE decisions[e]
      BY <2>1 DEF RInv, RouteTypeOK
    <3>5. RouteTypeOK'
      <4>1. [state |-> "live", router |-> routeJob[p].router]
              \in [state : {"none", "live", "committed", "abandoned"}, router : Routers \cup {NoRouter}]
        BY <1>0 DEF Job, RInv, RouteTypeOK
      <4>2. decisions' \in [DecisionIds ->
              [state : {"none", "live", "committed", "abandoned"}, router : Routers \cup {NoRouter}]]
        BY <2>1, <4>1 DEF RInv, RouteTypeOK
      <4> QED BY <2>0, <3>3, <4>2 DEF RInv, RouteTypeOK, Job, routeOrder, routeClock
    <3>6. Guarded' /\ InBudget' /\ Unspent' /\ JobsKnown'
      <4>1. Guarded'
        BY <1>0, <2>0, <3>2, <3>3 DEF RInv, Guarded, Preparing, Awaiting, RouteAt, routeClock
      <4>2. InBudget' /\ Unspent'
        BY <3>2, <3>3 DEF RInv, InBudget, Unspent, Preparing, Awaiting, RouteAt
      <4>3. JobsKnown'
        <5>1. \A e \in DecisionIds : decisions[e].state # "none" => decisions'[e].state # "none"
          BY <3>4
        <5>2. decisions'[d].state # "none"
          BY <3>4
        <5> QED BY <3>2, <3>3, <5>1, <5>2 DEF RInv, JobsKnown
      <4> QED BY <4>1, <4>2, <4>3
    <3>7. WorksMatch' /\ OneStanding'
      BY <2>0, <2>1, <3>4 DEF RInv, WorksMatch, OneStanding, routeOrder, routeClock
    <3>8. OneLive'
      BY <2>1, <3>4 DEF OneLive, NothingLive, IsLive
    <3>9. SeenStillHolds'
      <4> SUFFICES ASSUME ~routeSlow PROVE /\ ~StandingWorks'
                                           /\ \A q \in RouteProcs : ~RouteAt(q, "works")' /\ ~RouteAt(q, "claim")'
        BY <2>0 DEF SeenStillHolds, routeClock
      <4>1. ~StandingWorks'
        BY <2>0 DEF StandingWorks, routeOrder
      <4>2. \A q \in RouteProcs : routeJob[q].pc \in {"works", "claim"} => q = p
        BY <2>0 DEF RInv, Guarded, Preparing
      <4> QED BY <3>2, <3>3, <4>1, <4>2 DEF RouteAt
    <3> QED BY <3>5, <3>6, <3>7, <3>8, <3>9 DEF RInv
  <2>2. ASSUME NEW pc \in {"liveAgain", "unlock"}, RouteGoto(p, pc), UNCHANGED decisions
        PROVE  RInv'
    <3> DEFINE job == [routeJob[p] EXCEPT !.pc = pc]
    <3>1. routeJob' = [routeJob EXCEPT ![p] = job]
      BY <1>0, <2>2 DEF RouteGoto
    <3>2. job \in Job /\ job.pc \in {"liveAgain", "unlock"} /\ job.spent = 0
      BY <1>0, <2>0 DEF Job, RoutePcs
    <3> HIDE DEF job
    <3> QED BY <1>0, <2>0, <2>2, <3>1, <3>2, JobStep DEF routeOrder, routeClock
  <2> QED BY <1>7, <2>1, <2>2 DEF ClaimIntent
<1>8. ASSUME NEW p \in RouteProcs, RouterAnswers(p) PROVE RInv'
  <2>1. PICK pc \in {"commit", "refuse", "unlock"} : RouteGoto(p, pc)
    BY <1>8 DEF RouterAnswers
  <2> DEFINE job == [routeJob[p] EXCEPT !.pc = pc]
  <2>2. routeJob' = [routeJob EXCEPT ![p] = job]
    BY <1>0, <2>1 DEF RouteGoto
  <2>3. job \in Job /\ job.pc \in {"commit", "refuse", "unlock"} /\ job.id = routeJob[p].id
    BY <1>0 DEF Job, RoutePcs
  <2>4. job.id \in DecisionIds /\ decisions[job.id].state # "none"
    BY <1>8, <2>3 DEF RouterAnswers, RouteAt, RInv, JobsKnown
  <2>5. UNCHANGED <<decisions, routeOrder, routeClock>> /\ routeFaults' \in Nat
    BY <1>0, <1>8 DEF RouterAnswers, RouteFault
  <2> HIDE DEF job
  <2> QED BY <1>0, <2>2, <2>3, <2>4, <2>5, JobStep DEF routeOrder, routeClock
<1>9. ASSUME NEW p \in RouteProcs, CommitWorks(p) PROVE RInv'
  <2> DEFINE d == routeJob[p].id
             job == [routeJob[p] EXCEPT !.pc = "unlock"]
  <2>0. /\ d \in DecisionIds
        /\ routeJob' = [routeJob EXCEPT ![p] = job] /\ job \in Job /\ job.pc = "unlock"
        /\ UNCHANGED <<routeGone, routeCancelled, routeClock>> /\ routeFaults' \in Nat
    BY <1>0, <1>9 DEF CommitWorks, RouteAt, RouteGoto, RouteFault, RInv, JobsKnown, Job, RoutePcs
  <2> HIDE DEF job
  <2>1. CASE UNCHANGED <<decisions, routeWorks>>
    BY <1>0, <2>0, <2>1, JobStep DEF routeClock
  <2>2. CASE /\ Terminalises(d, "committed") /\ routeWorks' = [routeWorks EXCEPT ![d] = @ + 1]
    <3>1. \A e \in DecisionIds :
            /\ decisions'[e] = IF e = d THEN [decisions[d] EXCEPT !.state = "committed"] ELSE decisions[e]
            /\ routeWorks'[e] = IF e = d THEN 1 ELSE routeWorks[e]
      BY <2>0, <2>2 DEF RInv, RouteTypeOK, Terminalises, WorksMatch, IsLive
    <3>2. IsLive(d) /\ d \notin routeGone
      BY <2>0, <2>2 DEF Terminalises, RInv, WorksMatch, IsLive
    <3>3. decisions'[d].state = "committed" /\ decisions' \in [DecisionIds ->
            [state : {"none", "live", "committed", "abandoned"}, router : Routers \cup {NoRouter}]]
      BY <2>0, <2>2 DEF RInv, RouteTypeOK, Terminalises
    <3> DEFINE Rest == /\ RouteTypeOK' /\ Guarded' /\ InBudget' /\ Unspent' /\ JobsKnown'
    <3>4. Rest
      <4>1. \A q \in RouteProcs : routeJob'[q] = IF q = p THEN job ELSE routeJob[q]
        BY <1>0, <2>0
      <4>2. \A e \in DecisionIds : decisions[e].state # "none" => decisions'[e].state # "none"
        BY <3>1, <3>3
      <4>3. RouteTypeOK'
        <5>1. routeWorks' \in [DecisionIds -> Nat]
          BY <2>0, <2>2 DEF RInv, RouteTypeOK
        <5>2. routeJob' \in [RouteProcs -> Job]
          BY <1>0, <2>0
        <5> QED BY <2>0, <3>3, <5>1, <5>2 DEF RInv, RouteTypeOK, Job, routeClock
      <4>4. Guarded' /\ InBudget' /\ Unspent' /\ JobsKnown'
        BY <2>0, <4>1, <4>2 DEF RInv, Guarded, InBudget, Unspent, JobsKnown, Preparing, Awaiting,
          RouteAt, routeClock
      <4> QED BY <4>3, <4>4
    <3>5. WorksMatch' /\ OneLive'
      BY <2>0, <3>1, <3>3 DEF RInv, WorksMatch, OneLive, IsLive
    <3>6. SeenStillHolds' /\ OneStanding'
      <4> SUFFICES ASSUME ~routeSlow PROVE SeenStillHolds' /\ OneStanding'
        BY <2>0 DEF SeenStillHolds, OneStanding, routeClock
      <4>1. ~StandingWorks /\ \A q \in RouteProcs : ~RouteAt(q, "works") /\ ~RouteAt(q, "claim")
        BY <2>0, <3>2 DEF RInv, SeenStillHolds, NothingLive
      <4>2. \A q \in RouteProcs : ~RouteAt(q, "works")' /\ ~RouteAt(q, "claim")'
        BY <1>0, <2>0, <4>1 DEF RouteAt
      <4>3. NothingLive'
        BY <2>0, <3>1, <3>2, <3>3 DEF RInv, OneLive, NothingLive, IsLive
      <4>4. OneStanding'
        BY <2>0, <3>1, <4>1 DEF OneStanding, StandingWorks
      <4> QED BY <4>2, <4>3, <4>4 DEF SeenStillHolds
    <3> QED BY <3>4, <3>5, <3>6 DEF RInv
  <2> QED BY <1>9, <2>1, <2>2 DEF CommitWorks
<1>10. ASSUME NEW p \in RouteProcs, Abandon(p) PROVE RInv'
  <2> DEFINE d == routeJob[p].id
             job == [routeJob[p] EXCEPT !.pc = "unlock"]
  <2>0. /\ d \in DecisionIds
        /\ routeJob' = [routeJob EXCEPT ![p] = job] /\ job \in Job /\ job.pc = "unlock"
        /\ UNCHANGED <<routeOrder, routeClock>> /\ routeFaults' \in Nat
    BY <1>0, <1>10 DEF Abandon, RouteAt, RouteGoto, RouteFault, RInv, JobsKnown, Job, RoutePcs
  <2> HIDE DEF job
  <2>1. CASE UNCHANGED decisions
    BY <1>0, <2>0, <2>1, JobStep DEF routeOrder, routeClock
  <2>2. CASE Terminalises(d, "abandoned")
    <3>1. \A e \in DecisionIds :
            decisions'[e] = IF e = d THEN [decisions[d] EXCEPT !.state = "abandoned"] ELSE decisions[e]
      BY <2>0, <2>2 DEF RInv, RouteTypeOK, Terminalises
    <3>2. IsLive(d)
      BY <2>2 DEF Terminalises
    <3>3. decisions'[d].state = "abandoned" /\ decisions' \in [DecisionIds ->
            [state : {"none", "live", "committed", "abandoned"}, router : Routers \cup {NoRouter}]]
      BY <2>0, <2>2 DEF RInv, RouteTypeOK, Terminalises
    <3>4. \A q \in RouteProcs : routeJob'[q] = IF q = p THEN job ELSE routeJob[q]
      BY <1>0, <2>0
    <3>5. RouteTypeOK'
      BY <1>0, <2>0, <3>3 DEF RInv, RouteTypeOK, Job, routeOrder, routeClock
    <3>6. Guarded' /\ InBudget' /\ Unspent' /\ JobsKnown'
      <4>1. \A e \in DecisionIds : decisions[e].state # "none" => decisions'[e].state # "none"
        BY <3>1, <3>3
      <4> QED BY <2>0, <3>4, <4>1 DEF RInv, Guarded, InBudget, Unspent, JobsKnown, Preparing, Awaiting,
        RouteAt, routeClock
    <3>7. WorksMatch' /\ OneLive' /\ OneStanding'
      BY <2>0, <3>1, <3>2, <3>3 DEF RInv, WorksMatch, OneLive, OneStanding, IsLive, routeOrder, routeClock
    <3>8. SeenStillHolds'
      <4>1. \A e \in DecisionIds : IsLive(e)' => IsLive(e)
        BY <3>1, <3>3 DEF IsLive
      <4> QED BY <2>0, <3>4, <4>1 DEF RInv, SeenStillHolds, NothingLive, StandingWorks, RouteAt,
        routeOrder, routeClock
    <3> QED BY <3>5, <3>6, <3>7, <3>8 DEF RInv
  <2> QED BY <1>10, <2>1, <2>2 DEF Abandon
<1>11. ASSUME NEW p \in RouteProcs, ReleaseRouteLock(p) PROVE RInv'
  <2>1. /\ routeJob[p].pc = "unlock" /\ routeJob' = [routeJob EXCEPT ![p] = IdleRoute]
        /\ routeLock' = IF routeLock = p THEN NoRouteProc ELSE routeLock
        /\ UNCHANGED <<decisions, routeOrder, routeLockAge, routeFaults, routeSlow>>
    BY <1>11 DEF ReleaseRouteLock, RouteAt
  <2>2. /\ \A q \in RouteProcs : routeJob'[q] = IF q = p THEN IdleRoute ELSE routeJob[q]
        /\ IdleRoute.pc = "idle"
    BY <1>0, <2>1 DEF IdleRoute
  <2>3. RouteTypeOK'
    BY <1>0, <2>1, IdleRouteType DEF RInv, RouteTypeOK, Job, routeOrder
  <2>4. Guarded'
    BY <2>1, <2>2 DEF RInv, Guarded, Preparing, Awaiting, RouteAt
  <2>5. InBudget' /\ Unspent' /\ JobsKnown'
    BY <2>1, <2>2 DEF RInv, InBudget, Unspent, JobsKnown, Preparing, Awaiting, RouteAt
  <2>6. WorksMatch' /\ OneLive' /\ OneStanding'
    BY <2>1 DEF RInv, WorksMatch, OneLive, OneStanding, IsLive, routeOrder
  <2>7. SeenStillHolds'
    BY <2>1, <2>2 DEF RInv, SeenStillHolds, NothingLive, IsLive, StandingWorks, RouteAt, routeOrder
  <2> QED BY <2>3, <2>4, <2>5, <2>6, <2>7 DEF RInv
<1>12. ASSUME NEW p \in RouteProcs, CrashRoute(p) PROVE RInv'
  <2>1. /\ routeJob' = [routeJob EXCEPT ![p] = IdleRoute]
        /\ UNCHANGED <<decisions, routeOrder, routeClock>> /\ routeFaults' \in Nat
    BY <1>0, <1>12 DEF CrashRoute, RouteFault
  <2>2. IdleRoute.pc = "idle"
    BY DEF IdleRoute
  <2> QED BY <1>0, <2>1, <2>2, IdleRouteType, JobStep DEF routeOrder, routeClock
<1>13. CASE CancelWorks
  <2>1. PICK d \in DecisionIds : routeWorks[d] > 0 /\ routeGone' = routeGone \cup {d}
    BY <1>13 DEF CancelWorks
  <2>2. UNCHANGED <<decisions, routeWorks, routeCancelled, routeClock, routeJob, routeFaults>>
    BY <1>13 DEF CancelWorks
  <2>3. decisions[d].state = "committed"
    BY <2>1 DEF RInv, WorksMatch
  <2>4. RouteTypeOK' /\ WorksMatch'
    BY <2>1, <2>2, <2>3 DEF RInv, RouteTypeOK, WorksMatch, routeClock
  <2>5. Guarded' /\ InBudget' /\ Unspent' /\ JobsKnown' /\ OneLive'
    BY <2>2 DEF RInv, Guarded, InBudget, Unspent, JobsKnown, OneLive, IsLive, Preparing, Awaiting,
      RouteAt, routeClock
  <2>6. SeenStillHolds' /\ OneStanding'
    BY <2>1, <2>2 DEF RInv, SeenStillHolds, OneStanding, NothingLive, IsLive, StandingWorks, RouteAt,
      routeClock
  <2> QED BY <2>4, <2>5, <2>6 DEF RInv
<1>14. CASE CancelRoutedOrder \/ UNCHANGED routeVars
  <2>1. /\ UNCHANGED <<decisions, routeWorks, routeGone, routeClock, routeJob, routeFaults>>
        /\ routeCancelled' \in BOOLEAN
    BY <1>0, <1>14 DEF CancelRoutedOrder, routeVars, routeClock
  <2> QED BY <2>1 DEF RInv, RouteTypeOK, Guarded, InBudget, Unspent, JobsKnown, OneLive, WorksMatch,
      SeenStillHolds, OneStanding, NothingLive, IsLive, StandingWorks, Preparing, Awaiting, RouteAt,
      routeClock
<1>15. CASE RouteTick
  <2> DEFINE after(q) == IF RouteAt(q, "await") THEN [routeJob[q] EXCEPT !.spent = @ + 1] ELSE routeJob[q]
  <2>1. /\ routeJob' = [q \in RouteProcs |-> after(q)]
        /\ UNCHANGED <<decisions, routeOrder, routeFaults>>
        /\ \A q \in RouteProcs : RouteAt(q, "await") => routeJob[q].spent < RouteBudget
    BY <1>15 DEF RouteTick
  <2>2. \A q \in RouteProcs :
          /\ routeJob'[q] \in Job
          /\ routeJob'[q].pc = routeJob[q].pc /\ routeJob'[q].id = routeJob[q].id
          /\ routeJob'[q].spent = IF RouteAt(q, "await") THEN routeJob[q].spent + 1 ELSE routeJob[q].spent
    BY <1>0, <2>1 DEF Job, RouteAt
  <2>3. /\ routeSlow' \in BOOLEAN
        /\ ~routeSlow' => ~routeSlow /\ \A q \in RouteProcs : Preparing(q) => routeLockAge < Preamble
    <3> DEFINE Slow == \E q \in RouteProcs : Preparing(q) /\ routeLockAge >= Preamble
    <3>1. routeSlow' = (routeSlow \/ Slow)
      BY <1>15 DEF RouteTick
    <3>2. ~Slow => \A q \in RouteProcs : Preparing(q) => routeLockAge < Preamble
      BY <1>0
    <3>3. routeSlow \in BOOLEAN
      BY DEF RInv, RouteTypeOK
    <3> HIDE DEF Slow
    <3> QED BY <3>1, <3>2, <3>3
  <2>4. /\ routeLockAge' \in Nat /\ routeLock' \in RouteProcs \cup {NoRouteProc}
        /\ routeLock \in RouteProcs /\ routeLockAge + 1 < RouteTTL =>
             routeLock' = routeLock /\ routeLockAge' = routeLockAge + 1
    BY <1>0, <1>15 DEF RouteTick, RInv, RouteTypeOK
  <2>5. RouteTypeOK'
    BY <2>1, <2>2, <2>3, <2>4 DEF RInv, RouteTypeOK, Job, routeOrder
  <2>6. Guarded'
    <3> SUFFICES ASSUME ~routeSlow', NEW q \in RouteProcs
                 PROVE  /\ Preparing(q)' => routeLock' = q /\ routeLockAge' <= Preamble
                        /\ Awaiting(q)' => routeLock' = q /\ routeLockAge' <= Preamble + routeJob'[q].spent
      BY DEF Guarded
    <3>1. CASE Preparing(q)
      <4>1. routeLock = q /\ routeLockAge < Preamble
        BY <2>3, <3>1 DEF RInv, Guarded
      <4>2. routeLock' = q /\ routeLockAge' <= Preamble
        BY <1>0, <2>4, <4>1
      <4> QED BY <2>2, <3>1, <4>2 DEF Preparing, Awaiting, RouteAt
    <3>2. CASE Awaiting(q)
      <4>1. /\ routeLock = q /\ routeLockAge <= Preamble + routeJob[q].spent
            /\ routeJob[q].spent < RouteBudget /\ routeJob[q].spent \in Nat
        BY <1>0, <2>1, <2>3, <3>2 DEF RInv, Guarded, Awaiting, Job
      <4>2. routeLock' = q /\ routeLockAge' <= Preamble + routeJob'[q].spent
        BY <1>0, <2>2, <2>4, <3>2, <4>1 DEF Awaiting
      <4> QED BY <2>2, <3>2, <4>2 DEF Preparing, Awaiting, RouteAt
    <3>3. CASE ~Preparing(q) /\ ~Awaiting(q)
      BY <2>2, <3>3 DEF Preparing, Awaiting, RouteAt
    <3> QED BY <3>1, <3>2, <3>3
  <2>7. InBudget' /\ Unspent' /\ JobsKnown'
    BY <1>0, <2>1, <2>2 DEF RInv, InBudget, Unspent, JobsKnown, Preparing, Awaiting, RouteAt, Job
  <2>8. WorksMatch' /\ OneLive' /\ OneStanding'
    BY <2>1, <2>3 DEF RInv, WorksMatch, OneLive, OneStanding, IsLive, routeOrder
  <2>9. SeenStillHolds'
    BY <2>1, <2>2, <2>3 DEF RInv, SeenStillHolds, NothingLive, IsLive, StandingWorks, RouteAt, routeOrder
  <2> QED BY <2>5, <2>6, <2>7, <2>8, <2>9 DEF RInv
<1> QED
  BY <1>1, <1>2, <1>3, <1>4, <1>5, <1>6, <1>7, <1>8, <1>9, <1>10, <1>11, <1>12, <1>13, <1>14, <1>15
  DEF RouteNext

(* The variables of routing have their types, whatever runs are slow or crash. *)
THEOREM RouteTypeCorrect == RouteSpec => []RouteTypeOK
<1>1. RInv => RouteTypeOK
  BY DEF RInv
<1> QED BY <1>1, RouteInitInv, RouteStepInv, PTL DEF RouteSpec

(* Whatever runs resume a decision, outlive their lock, are refused, reaped or *)
(* crash, an order has the works of one decision, committed once; the second   *)
(* decision that a slow run could add is the only exception.                   *)
THEOREM ShipsOnce == RouteSpec => []RouteShipsOnce
<1>1. RInv => RouteShipsOnce
  BY DEF RInv, WorksMatch, OneStanding, RouteShipsOnce
<1> QED BY <1>1, RouteInitInv, RouteStepInv, PTL DEF RouteSpec

(* Unless a run was slow, the router is never asked under two keys at a time,  *)
(* and no decision is reaped while its call runs within the lock.              *)
THEOREM KeysApart == RouteSpec => []RouteKeysApart
<1>1. RInv => RouteKeysApart
  BY DEF RInv, Guarded, RouteKeysApart, Preparing, Awaiting, RouteAt
<1> QED BY <1>1, RouteInitInv, RouteStepInv, PTL DEF RouteSpec

(* Both, for every TTL and call budget that leaves room for what precedes it.  *)
THEOREM OneRouting == RouteSpec => []RoutedOnce
<1>1. RouteShipsOnce /\ RouteKeysApart => RoutedOnce
  BY DEF RoutedOnce
<1> QED BY <1>1, ShipsOnce, KeysApart, PTL
===============================================================================
