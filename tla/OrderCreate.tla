----------------------------- MODULE OrderCreate -----------------------------
(* Creating one order at one destination: OrderSyncService's                   *)
(* createOrderIdempotently.  A run takes the lock of the order and the         *)
(* destination, looks for the mapping of an earlier run, else has the adapter  *)
(* create the order and records the mapping.  Create and record are not atomic:*)
(* what happens in between is left to the adapter's own recovery of            *)
(* duplicates, which a destination may have or not.                            *)
(*                                                                             *)
(* Time is counted in ticks.  That a run is through with reading, creating and *)
(* recording within CreateMax ticks of taking the lock, and a request the      *)
(* destination still works on too, is the assumption the lock's TTL is chosen  *)
(* by.                                                                         *)
EXTENDS Naturals

CONSTANTS
  CreateProcs,      \* executions of the order's sync at a time
  CreateTTL,        \* ORDER_CREATE_LOCK_TTL_MS
  CreateMax,        \* the longest a run works under its lock
  MaxCreateFaults,  \* bound: crashes and failing calls
  NoCreateProc

ASSUME CreateAssumption ==
  /\ NoCreateProc \notin CreateProcs
  /\ CreateTTL \in Nat /\ CreateMax \in Nat /\ CreateMax < CreateTTL
  /\ MaxCreateFaults \in Nat

VARIABLES
  createLock,    \* the execution that has the lock
  createAge,     \* ticks since it was taken
  createPc,      \* per execution: idle, read, call, map, unlock
  createWire,    \* executions whose request the destination may still carry out
  placed,        \* orders at the destination
  mapped,        \* identifier mapping of the order and the destination
  adapterDedups, \* the adapter recovers an order it placed before
  createLost,    \* a run ended between placing the order and recording it
  createFaults

createVars == <<createLock, createAge, createPc, createWire, placed, mapped, adapterDedups,
                createLost, createFaults>>

CreateInit ==
  /\ createLock = NoCreateProc /\ createAge = 0
  /\ createPc = [p \in CreateProcs |-> "idle"]
  /\ createWire = {}
  /\ placed = 0 /\ mapped = FALSE
  /\ adapterDedups \in BOOLEAN
  /\ createLost = FALSE
  /\ createFaults = 0

CreateFault == createFaults < MaxCreateFaults /\ createFaults' = createFaults + 1
CreateAt(p, pc) == createPc[p] = pc
CreateGoto(p, pc) == createPc' = [createPc EXCEPT ![p] = pc]

(* A run that finds the lock taken reads the mapping and is done, or throws and*)
(* comes back: it changes nothing.                                             *)
CreateLockFree == createLock = NoCreateProc
AcquireCreateLock(p) ==
  /\ CreateAt(p, "idle") /\ CreateLockFree
  /\ createLock' = p /\ createAge' = 0
  /\ CreateGoto(p, "read")
  /\ UNCHANGED <<createWire, placed, mapped, adapterDedups, createLost, createFaults>>

(* The mapping, read again under the lock; if there is none the adapter is     *)
(* called.                                                                     *)
KnownAtDestination_Assumed == FALSE
KnownAtDestination == mapped
ReadMapping(p) ==
  /\ CreateAt(p, "read")
  /\ \/ KnownAtDestination /\ CreateGoto(p, "unlock") /\ UNCHANGED createWire
     \/ ~KnownAtDestination /\ CreateGoto(p, "call") /\ createWire' = createWire \cup {p}
  /\ UNCHANGED <<createLock, createAge, placed, mapped, adapterDedups, createLost, createFaults>>

(* A request is carried out: its run may have crashed by now.                  *)
Place(p) ==
  /\ p \in createWire
  /\ createWire' = createWire \ {p}
  /\ placed' = IF adapterDedups /\ placed > 0 THEN placed ELSE placed + 1
  /\ IF CreateAt(p, "call") THEN CreateGoto(p, "map") /\ UNCHANGED createLost
                            ELSE createLost' = TRUE /\ UNCHANGED createPc
  /\ UNCHANGED <<createLock, createAge, mapped, adapterDedups, createFaults>>

(* The call is refused, or its answer is lost with the order placed or not.    *)
CreateFails(p) ==
  /\ CreateAt(p, "call") \/ CreateAt(p, "map")
  /\ CreateFault /\ CreateGoto(p, "unlock")
  /\ createWire' = createWire \ {p}
  /\ createLost' = (createLost \/ CreateAt(p, "map"))
  /\ UNCHANGED <<createLock, createAge, placed, mapped, adapterDedups>>

(* persistDestinationMapping: a duplicate is swallowed.                        *)
RecordMapping(p) ==
  /\ CreateAt(p, "map")
  /\ mapped' = TRUE
  /\ CreateGoto(p, "unlock")
  /\ UNCHANGED <<createLock, createAge, createWire, placed, adapterDedups, createLost, createFaults>>

ReleaseCreateLock(p) ==
  /\ CreateAt(p, "unlock")
  /\ createLock' = IF createLock = p THEN NoCreateProc ELSE createLock
  /\ CreateGoto(p, "idle")
  /\ UNCHANGED <<createAge, createWire, placed, mapped, adapterDedups, createLost, createFaults>>

(* A worker dies: its lock is left to the TTL, its request to the destination. *)
CrashCreate(p) ==
  /\ ~CreateAt(p, "idle") /\ CreateFault
  /\ CreateGoto(p, "idle")
  /\ createLost' = (createLost \/ CreateAt(p, "map"))
  /\ UNCHANGED <<createLock, createAge, createWire, placed, mapped, adapterDedups>>

(* A request of a crashed run is dropped.                                      *)
DropRequest(p) ==
  /\ p \in createWire /\ ~CreateAt(p, "call")
  /\ createWire' = createWire \ {p}
  /\ UNCHANGED <<createLock, createAge, createPc, placed, mapped, adapterDedups, createLost, createFaults>>

Working == {p \in CreateProcs : createPc[p] \in {"read", "call", "map"}}
CreateTick ==
  /\ createLock # NoCreateProc
  /\ Working \cup createWire # {} => createAge < CreateMax
  /\ IF createAge + 1 >= CreateTTL
       THEN createLock' = NoCreateProc /\ createAge' = 0
       ELSE createAge' = createAge + 1 /\ UNCHANGED createLock
  /\ UNCHANGED <<createPc, createWire, placed, mapped, adapterDedups, createLost, createFaults>>

CreateNext ==
  \/ \E p \in CreateProcs :
       \/ AcquireCreateLock(p) \/ ReadMapping(p) \/ Place(p) \/ CreateFails(p) \/ RecordMapping(p)
       \/ ReleaseCreateLock(p) \/ CrashCreate(p) \/ DropRequest(p)
  \/ CreateTick

CreateSpec == CreateInit /\ [][CreateNext]_createVars

-----------------------------------------------------------------------------
CreateTypeOK ==
  /\ createLock \in CreateProcs \cup {NoCreateProc}
  /\ createAge \in Nat
  /\ createPc \in [CreateProcs -> {"idle", "read", "call", "map", "unlock"}]
  /\ createWire \subseteq CreateProcs
  /\ placed \in Nat
  /\ mapped \in BOOLEAN /\ adapterDedups \in BOOLEAN /\ createLost \in BOOLEAN
  /\ createFaults \in Nat

(* One order is placed at the destination, whoever retries or contends: a      *)
(* second one needs a run that ended between placing it and recording it, and  *)
(* an adapter that does not recover duplicates.                                *)
PlacedOnce == placed > 1 => createLost /\ ~adapterDedups
=============================================================================
