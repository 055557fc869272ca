------------------------------ MODULE OrderHold ------------------------------
(* Holding one order back: OrderHoldService.place and release over order_holds, *)
(* the copy of the open hold's reason on the order record (the badge) and its   *)
(* hourly reconciliation, and the dispatch that a hold is to stop.              *)
(*                                                                              *)
(* A hold and a dispatch do not exclude each other: the dispatch looks for a    *)
(* hold under the order's lock, and whoever places a hold tries that lock       *)
(* afterwards, to say whether a label may still be bought.                      *)
EXTENDS Naturals

CONSTANTS
  HoldProcs,      \* requests and jobs handled at a time
  Reasons,
  MaxHolds,       \* bound: holds placed
  MaxHoldFaults,  \* bound: crashes, failing writes and probes, a lock that ends too soon
  NoReason, NoHoldProc

ASSUME HoldAssumption ==
  /\ NoReason \notin Reasons /\ NoHoldProc \notin HoldProcs
  /\ MaxHolds \in Nat /\ MaxHoldFaults \in Nat

VARIABLES
  hold,          \* the open row of order_holds: its id, 0 if there is none, and reason
  holds,         \* rows placed so far
  badge,         \* activeHoldReason of the order record
  dispatchLock,
  actor,         \* per request: where it is, the hold it is about
  repair,        \* the reconciliation: where it is, the divergence it read
  clear,         \* history: holds whose placing was told that no dispatch is in flight
  shippedHeld,   \* history: a label was bought while such a hold was open
  dispatchSlow,  \* history: a dispatch lost its lock, or a probe failed
  holdFaults

holdVars == <<hold, holds, badge, dispatchLock, actor, repair,
              clear, shippedHeld, dispatchSlow, holdFaults>>
dispatchHistory == <<clear, shippedHeld, dispatchSlow>>

NotHeld == [id |-> 0, reason |-> NoReason]
NoActor == [pc |-> "idle", hold |-> NotHeld]
NoRepair == [pc |-> "idle", expected |-> NoReason, projected |-> NoReason]

HoldInit ==
  /\ hold = NotHeld /\ holds = 0
  /\ badge = NoReason
  /\ dispatchLock = NoHoldProc
  /\ actor = [p \in HoldProcs |-> NoActor]
  /\ repair = NoRepair
  /\ clear = {} /\ shippedHeld = FALSE /\ dispatchSlow = FALSE
  /\ holdFaults = 0

HoldFault == holdFaults < MaxHoldFaults /\ holdFaults' = holdFaults + 1
NoHoldFault == UNCHANGED holdFaults
ActorAt(p, pc) == actor[p].pc = pc
ActorGoto(p, pc) == actor' = [actor EXCEPT ![p].pc = pc]
ActorDone(p) == actor' = [actor EXCEPT ![p] = NoActor]

-----------------------------------------------------------------------------
(* placeIfNoneOpen: the unique index admits one open hold.                     *)
PlaceHold(p) ==
  /\ ActorAt(p, "idle") /\ hold = NotHeld /\ holds < MaxHolds
  /\ holds' = holds + 1
  /\ \E reason \in Reasons :
       /\ hold' = [id |-> holds + 1, reason |-> reason]
       /\ actor' = [actor EXCEPT ![p] = [pc |-> "project", hold |-> hold']]
  /\ UNCHANGED <<badge, dispatchLock, repair, dispatchHistory, holdFaults>>

(* projectActiveHoldReason: unconditional, and a failure is only logged.       *)
ProjectHold(p) ==
  /\ ActorAt(p, "project") /\ ActorGoto(p, "probe")
  /\ \/ badge' = actor[p].hold.reason /\ NoHoldFault
     \/ HoldFault /\ UNCHANGED badge
  /\ UNCHANGED <<hold, holds, dispatchLock, repair, dispatchHistory>>

(* detectDispatchInFlight: what cannot be told is told as no overlap.          *)
ProbeDispatch(p) ==
  /\ ActorAt(p, "probe")
  /\ \/ /\ dispatchLock = NoHoldProc /\ dispatchLock' = p
        /\ ActorGoto(p, "unprobe") /\ NoHoldFault /\ UNCHANGED dispatchSlow
     \/ /\ dispatchLock # NoHoldProc /\ UNCHANGED dispatchLock
        /\ ActorDone(p) /\ NoHoldFault /\ UNCHANGED dispatchSlow
     \/ /\ HoldFault /\ dispatchSlow' = TRUE
        /\ ActorDone(p) /\ UNCHANGED dispatchLock
  /\ UNCHANGED <<hold, holds, badge, repair, clear, shippedHeld>>

EndProbe(p) ==
  /\ ActorAt(p, "unprobe") /\ ActorDone(p)
  /\ dispatchLock' = IF dispatchLock = p THEN NoHoldProc ELSE dispatchLock
  /\ clear' = clear \cup {actor[p].hold.id}
  /\ UNCHANGED <<hold, holds, badge, repair, shippedHeld, dispatchSlow, holdFaults>>

(* release: a read by id, a conditional UPDATE, the badge.                     *)
StartRelease(p) ==
  /\ ActorAt(p, "idle") /\ hold # NotHeld
  /\ actor' = [actor EXCEPT ![p] = [pc |-> "release", hold |-> hold]]
  /\ UNCHANGED <<hold, holds, badge, dispatchLock, repair, dispatchHistory, holdFaults>>

ReleaseHeld(p) ==
  /\ ActorAt(p, "release")
  /\ IF hold = actor[p].hold THEN hold' = NotHeld /\ ActorGoto(p, "clear")
                             ELSE ActorDone(p) /\ UNCHANGED hold
  /\ UNCHANGED <<holds, badge, dispatchLock, repair, dispatchHistory, holdFaults>>

ClearBadge(p) ==
  /\ ActorAt(p, "clear") /\ ActorDone(p)
  /\ \/ badge' = NoReason /\ NoHoldFault
     \/ HoldFault /\ UNCHANGED badge
  /\ UNCHANGED <<hold, holds, dispatchLock, repair, dispatchHistory>>

-----------------------------------------------------------------------------
(* dispatch takes the order's lock, then asks order_holds, not the badge.      *)
StartHeldDispatch(p) ==
  /\ ActorAt(p, "idle") /\ dispatchLock = NoHoldProc
  /\ dispatchLock' = p /\ ActorGoto(p, "gate")
  /\ UNCHANGED <<hold, holds, badge, repair, dispatchHistory, holdFaults>>

HoldGate_Badge == badge # NoReason
HoldGate == hold # NotHeld
PassHoldGate(p) ==
  /\ ActorAt(p, "gate") /\ ActorGoto(p, IF HoldGate THEN "endDispatch" ELSE "buyLabel")
  /\ UNCHANGED <<hold, holds, badge, dispatchLock, repair, dispatchHistory, holdFaults>>

BuyUnheld(p) ==
  /\ ActorAt(p, "buyLabel") /\ ActorGoto(p, "endDispatch")
  /\ shippedHeld' = (shippedHeld \/ hold.id \in clear)
  /\ UNCHANGED <<hold, holds, badge, dispatchLock, repair, clear, dispatchSlow, holdFaults>>

EndDispatch(p) ==
  /\ ActorAt(p, "endDispatch") /\ ActorDone(p)
  /\ dispatchLock' = IF dispatchLock = p THEN NoHoldProc ELSE dispatchLock
  /\ UNCHANGED <<hold, holds, badge, repair, dispatchHistory, holdFaults>>

-----------------------------------------------------------------------------
(* findDivergentProjections; its page has the order if the badge is not that of*)
(* the open hold, or there is one and no hold.                                 *)
Divergent_HeldOnly == hold # NotHeld /\ badge # hold.reason
Divergent == badge # hold.reason
ReadDivergence ==
  /\ repair = NoRepair /\ Divergent
  /\ repair' = [pc |-> "repair", expected |-> hold.reason, projected |-> badge]
  /\ UNCHANGED <<hold, holds, badge, dispatchLock, actor, dispatchHistory, holdFaults>>

(* repairOne: where the badge is still the one read, and, to clear it, where   *)
(* there is no open hold.                                                      *)
StillWitnessed == badge = repair.projected
ClearAllowed == repair.expected = NoReason => hold = NotHeld
RepairBadge ==
  /\ repair.pc = "repair"
  /\ \/ badge' = (IF StillWitnessed /\ ClearAllowed THEN repair.expected ELSE badge) /\ NoHoldFault
     \/ HoldFault /\ UNCHANGED badge
  /\ repair' = NoRepair
  /\ UNCHANGED <<hold, holds, dispatchLock, actor, dispatchHistory>>

-----------------------------------------------------------------------------
CrashHolder(p) ==
  /\ ~ActorAt(p, "idle") /\ HoldFault /\ ActorDone(p)
  /\ UNCHANGED <<hold, holds, badge, dispatchLock, repair, dispatchHistory>>

Dispatches(p) == actor[p].pc \in {"gate", "buyLabel", "endDispatch"}
DispatchLockExpires ==
  /\ dispatchLock # NoHoldProc /\ dispatchLock' = NoHoldProc
  /\ IF Dispatches(dispatchLock) THEN HoldFault /\ dispatchSlow' = TRUE
                                 ELSE NoHoldFault /\ UNCHANGED dispatchSlow
  /\ UNCHANGED <<hold, holds, badge, actor, repair, clear, shippedHeld>>

HoldWork(p) ==
  \/ ProjectHold(p) \/ ProbeDispatch(p) \/ EndProbe(p) \/ ReleaseHeld(p) \/ ClearBadge(p)
  \/ PassHoldGate(p) \/ BuyUnheld(p) \/ EndDispatch(p)

HoldNext ==
  \/ \E p \in HoldProcs :
       PlaceHold(p) \/ StartRelease(p) \/ StartHeldDispatch(p) \/ HoldWork(p) \/ CrashHolder(p)
  \/ ReadDivergence \/ RepairBadge \/ DispatchLockExpires

HoldSpec == HoldInit /\ [][HoldNext]_holdVars

(* Requests that began go on, and the reconciliation keeps being scheduled.    *)
HoldFairness ==
  /\ \A p \in HoldProcs : WF_holdVars(HoldWork(p))
  /\ WF_holdVars(ReadDivergence) /\ WF_holdVars(RepairBadge)

HoldFairSpec == HoldSpec /\ HoldFairness

-----------------------------------------------------------------------------
HoldTypeOK ==
  /\ hold = NotHeld \/ (hold.id \in 1..holds /\ hold.reason \in Reasons)
  /\ badge \in Reasons \cup {NoReason}
  /\ clear \subseteq 1..holds
  /\ dispatchLock \in HoldProcs \cup {NoHoldProc}
  /\ shippedHeld \in BOOLEAN /\ dispatchSlow \in BOOLEAN
  /\ holdFaults \in 0..MaxHoldFaults

(* "acquired means no dispatch was running": whoever placed a hold and was told*)
(* so gets no label while the hold is open, whatever becomes of the badge.     *)
ClearHoldShipsNothing == ~dispatchSlow => ~shippedHeld

(* The badge comes to be that of the open hold, or none, whatever write failed *)
(* or came late, and stays so once no hold is placed or released any more.     *)
BadgeConverges == <>[](badge = hold.reason)

(* "A release() committing between the read and here wins."  The code does not *)
(* keep this: README, "What the code does not keep".                           *)
ReleaseWins ==
  [][RepairBadge /\ badge' # badge /\ badge' # NoReason => badge' = hold.reason]_holdVars
=============================================================================
