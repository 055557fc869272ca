--------------------------- MODULE RedisLockProofs ---------------------------
(* Theorems about work under a lock of Redis whose TTL runs on: the create at a *)
(* destination, for any number of executions and any TTL longer than a run      *)
(* works under its lock; and the lease of the scheduler, for any number of      *)
(* processes, any TTL and any latency; and the sale decrement, whose lock runs  *)
(* out while it works, for any works, edits, executions and faults.             *)
EXTENDS OrderCreate, SingletonLease, SaleDecrement, SetSums

(* OrderCreate.                                                                 *)
(* What PlacedOnce rests on.  A run that reads, calls or records has the lock, *)
(* and so has one whose request is still on its way, dead or not; its age is   *)
(* one the TTL has not ended.                                                  *)
Exclusive ==
  \A p \in CreateProcs :
    CreateAt(p, "read") \/ CreateAt(p, "call") \/ CreateAt(p, "map") \/ p \in createWire =>
      createLock = p /\ createAge <= CreateMax

(* Only a run that awaits its answer, or died since, has a request on its way, *)
(* and only before the mapping is written.                                     *)
WireMatches ==
  /\ \A p \in createWire : CreateAt(p, "call") \/ CreateAt(p, "idle")
  /\ \A p \in CreateProcs : p \in createWire \/ CreateAt(p, "call") => ~mapped

(* An order that is placed is mapped, about to be mapped, or was lost.         *)
Accounted ==
  placed > 0 => mapped \/ createLost \/ \E p \in CreateProcs : CreateAt(p, "map")

CInv == CreateTypeOK /\ Exclusive /\ WireMatches /\ Accounted /\ PlacedOnce

LEMMA CreateInitInv == CreateInit => CInv
<1> SUFFICES ASSUME CreateInit PROVE CInv
  OBVIOUS
<1> USE CreateAssumption DEF CreateInit
<1>1. CreateTypeOK
  BY DEF CreateTypeOK
<1>2. Exclusive /\ WireMatches
  BY DEF Exclusive, WireMatches, CreateAt
<1>3. placed = 0
  OBVIOUS
<1>4. Accounted /\ PlacedOnce
  BY <1>3 DEF Accounted, PlacedOnce
<1> QED BY <1>1, <1>2, <1>4 DEF CInv

(* That a run was lost is never forgotten, and one that ends at "map" is lost. *)
LEMMA LostRecorded ==
  ASSUME CreateTypeOK, NEW p \in CreateProcs,
         createLost' = (createLost \/ CreateAt(p, "map"))
  PROVE  createLost' \in BOOLEAN /\ (createLost => createLost') /\ (CreateAt(p, "map") => createLost')
BY DEF CreateTypeOK

LEMMA CreateStepInv == CInv /\ [CreateNext]_createVars => CInv'
<1> SUFFICES ASSUME CInv, [CreateNext]_createVars PROVE CInv'
  OBVIOUS
<1> USE CreateAssumption DEF CInv, CreateTypeOK, Exclusive, WireMatches, Accounted, PlacedOnce,
                             CreateAt, CreateGoto, CreateFault
<1>1. ASSUME NEW p \in CreateProcs, AcquireCreateLock(p) PROVE CInv'
  BY <1>1 DEF AcquireCreateLock, CreateLockFree
<1>2. ASSUME NEW p \in CreateProcs, ReadMapping(p) PROVE CInv'
  BY <1>2 DEF ReadMapping, KnownAtDestination
<1>3. ASSUME NEW p \in CreateProcs, Place(p) PROVE CInv'
  <2>1. CASE CreateAt(p, "call")
    <3>1. placed > 0 => createLost
      BY <1>3, <2>1 DEF Place
    <3>2. placed' \in Nat /\ (placed' > 1 => placed > 0 /\ ~adapterDedups)
      BY <1>3 DEF Place
    <3>3. CreateTypeOK' /\ Exclusive' /\ WireMatches' /\ Accounted'
      BY <1>3, <2>1, <3>2 DEF Place
    <3>4. PlacedOnce'
      BY <1>3, <2>1, <3>1, <3>2 DEF Place
    <3> QED BY <3>3, <3>4
  <2>2. CASE ~CreateAt(p, "call")
    <3>1. createLost' = TRUE
      BY <1>3, <2>2 DEF Place
    <3>2. placed' \in Nat /\ (placed' > 1 => placed > 1 \/ ~adapterDedups)
      BY <1>3 DEF Place
    <3>3. CreateTypeOK' /\ Exclusive' /\ WireMatches'
      BY <1>3, <2>2, <3>1, <3>2 DEF Place
    <3>4. PlacedOnce' /\ Accounted'
      BY <1>3, <2>2, <3>1, <3>2 DEF Place
    <3> QED BY <3>3, <3>4
  <2> QED BY <2>1, <2>2
<1>4. ASSUME NEW p \in CreateProcs, CreateFails(p) PROVE CInv'
  <2>1. createLost' \in BOOLEAN /\ (createLost => createLost') /\ (CreateAt(p, "map") => createLost')
    BY <1>4, LostRecorded DEF CreateFails
  <2>2. CreateTypeOK' /\ Exclusive' /\ WireMatches'
    BY <1>4, <2>1 DEF CreateFails
  <2>3. Accounted' /\ PlacedOnce'
    BY <1>4, <2>1 DEF CreateFails
  <2> QED BY <2>2, <2>3
<1>5. ASSUME NEW p \in CreateProcs, RecordMapping(p) PROVE CInv'
  BY <1>5 DEF RecordMapping
<1>6. ASSUME NEW p \in CreateProcs, ReleaseCreateLock(p) PROVE CInv'
  BY <1>6 DEF ReleaseCreateLock
<1>7. ASSUME NEW p \in CreateProcs, CrashCreate(p) PROVE CInv'
  <2>1. createLost' \in BOOLEAN /\ (createLost => createLost') /\ (CreateAt(p, "map") => createLost')
    BY <1>7, LostRecorded DEF CrashCreate
  <2>2. CreateTypeOK' /\ Exclusive' /\ WireMatches'
    BY <1>7, <2>1 DEF CrashCreate
  <2>3. Accounted' /\ PlacedOnce'
    BY <1>7, <2>1 DEF CrashCreate
  <2> QED BY <2>2, <2>3
<1>8. ASSUME NEW p \in CreateProcs, DropRequest(p) PROVE CInv'
  BY <1>8 DEF DropRequest
<1>9. CASE CreateTick
  BY <1>9 DEF CreateTick, Working
<1>10. CASE UNCHANGED createVars
  BY <1>10 DEF createVars
<1> QED
  BY <1>1, <1>2, <1>3, <1>4, <1>5, <1>6, <1>7, <1>8, <1>9, <1>10 DEF CreateNext

(* The variables of a create have their types, whatever its workers do.        *)
THEOREM CreateTypeCorrect == CreateSpec => []CreateTypeOK
<1>1. CInv => CreateTypeOK
  BY DEF CInv
<1> QED BY <1>1, CreateInitInv, CreateStepInv, PTL DEF CreateSpec

(* However many workers retry or contend, one order is placed at a destination;*)
(* a second one needs a run that ended between placing and recording it, and an*)
(* adapter that does not recover duplicates.                                   *)
THEOREM OneOrderPlaced == CreateSpec => []PlacedOnce
<1>1. CInv => PlacedOnce
  BY DEF CInv
<1> QED BY <1>1, CreateInitInv, CreateStepInv, PTL DEF CreateSpec

-----------------------------------------------------------------------------
(* SingletonLease.                                                              *)

(* What a tick awaits, and the token it took along.                             *)
TakesToken == {"acquire", "acquired", "release", "undo"}
TicksOK ==
  \A p \in Procs :
    /\ timer[p] <= Interval
    /\ Stopped(p) => token[p] = NoToken
    /\ tick[p].pc \in TakesToken => token[p] = NoToken /\ stop[p] \notin Tokens
    /\ tick[p].pc = "extend" => token[p] \in {NoToken, tick[p].by}
    /\ tick[p].by \in Tokens <=> tick[p].pc \in TakesToken \cup {"extend"}

(* No two processes use the same token.                                         *)
Uses(p, t) == t \in Tokens /\ t \in {token[p], tick[p].by, stop[p]}
OwnTokens == \A p, q \in Procs, t \in Tokens : Uses(p, t) /\ Uses(q, t) => p = q

(* The lock is a confirmed holder's, and lasts for as long as it was promised.  *)
LockTimed == lock.by = NoToken <=> lock.left = 0
Promised(p) ==
  /\ token[p] # NoToken /\ age[p] + Latency < TTL => lock.by = token[p] /\ lock.left + age[p] + Latency >= TTL
  /\ token[p] # NoToken /\ tick[p].pc = "extended" /\ wait[p] < TTL => lock.by = token[p] /\ lock.left + wait[p] >= TTL
  /\ tick[p].pc = "acquired" /\ wait[p] < TTL => lock.by = tick[p].by /\ lock.left + wait[p] >= TTL

(* A holder starts the scheduler, or is about to.                               *)
Starts(p) == token[p] # NoToken => running[p] \/ tick[p].pc = "onAcquired"

(* How long a holder has acted without confirmation, by what its tick awaits.   *)
Unanswered(p) ==
  token[p] # NoToken =>
    /\ tick[p].pc = "none" => age[p] + timer[p] <= TTL + Latency + Interval
    /\ tick[p].pc = "onAcquired" => age[p] <= wait[p]
    /\ tick[p].pc = "extend" => age[p] <= TTL + Latency + Interval + wait[p]
    /\ tick[p].pc \in {"extended", "refused", "threw"} => age[p] <= TTL + 2 * Latency + Interval + wait[p]

AllPromised == \A p \in Procs : Promised(p)
AllStart == \A p \in Procs : Starts(p)
AllAnswered == \A p \in Procs : Unanswered(p)
LeaseInv == TypeOK /\ TicksOK /\ OwnTokens /\ LockTimed /\ AllPromised /\ AllStart /\ AllAnswered

TickPcs == {"none", "acquire", "acquired", "onAcquired", "release", "undo", "extend", "extended", "refused", "threw"}

(* A token is none of the words stop knows.                                     *)
LEMMA TokensAre == NoToken \notin Tokens /\ "off" \notin Tokens /\ "no" \notin Tokens /\ "returned" \notin Tokens
BY ConstantsAssumption

(* The times the code compares.                                                 *)
LEMMA TimesAre ==
  /\ TTL \in Nat /\ TTL >= 3 /\ Latency \in Nat /\ MaxFaults \in Nat
  /\ Interval \in Nat /\ Interval <= TTL /\ VacancyCap \in Nat
BY ConstantsAssumption DEF Interval, VacancyCap

(* A random token is nobody's.                                                  *)
LEMMA FreshIsNew ==
  ASSUME NEW t \in Fresh
  PROVE  /\ t \in Tokens /\ t # lock.by
         /\ \A p \in Procs : t # token[p] /\ t # tick[p].by /\ t # stop[p]
<1> DEFINE spare == Tokens \ ({lock.by} \cup UNION {{token[p], tick[p].by, stop[p]} : p \in Procs})
<1>1. t \in spare
  BY DEF Fresh
<1> QED BY <1>1

(* A tick goes on to await something else.                                      *)
LEMMA AwaitsTypes ==
  ASSUME TypeOK, NEW p \in Procs, NEW pc \in TickPcs, NEW by \in MaybeToken, Awaits(p, pc, by)
  PROVE  tick' \in [Procs -> [pc : TickPcs, by : MaybeToken]] /\ wait' \in [Procs -> 0..Latency]
<1>1. tick' \in [Procs -> [pc : TickPcs, by : MaybeToken]]
  BY DEF TypeOK, TickPcs, Awaits
<1>2. wait' \in [Procs -> 0..Latency]
  BY TimesAre DEF TypeOK, Awaits
<1> QED BY <1>1, <1>2

(* Every step keeps the types.                                                *)
LEMMA LeaseTypeStep == ASSUME TypeOK, TicksOK, [Next]_vars PROVE TypeOK'
<1> USE TokensAre, TimesAre DEF TypeOK, TicksOK, MaybeToken, TakesToken
<1>1. ASSUME NEW p \in Procs, Start(p) PROVE TypeOK'
  BY <1>1 DEF Start, Up
<1>2. ASSUME NEW p \in Procs, Tick(p) PROVE TypeOK'
  BY <1>2, FreshIsNew, SMTT(30) DEF Tick, Awaits
<1>3. ASSUME NEW p \in Procs, Acquire(p) PROVE TypeOK'
  <2>1. /\ tick[p] \in [pc : TickPcs, by : MaybeToken] /\ lock \in [by : MaybeToken, left : 0..TTL]
        /\ vacant' \in 0..VacancyCap /\ faults' \in 0..MaxFaults /\ UNCHANGED <<token, age, timer, stop, running>>
    BY <1>3 DEF Acquire, Fault, NoFault, TickPcs
  <2>2. lock' \in [by : MaybeToken, left : 0..TTL]
    BY <1>3, <2>1 DEF Acquire, SetNX
  <2>3. tick' \in [Procs -> [pc : TickPcs, by : MaybeToken]] /\ wait' \in [Procs -> 0..Latency]
    BY <1>3, <2>1, AwaitsTypes DEF Acquire, TickEnds, TickPcs
  <2> QED BY <2>1, <2>2, <2>3 DEF TickPcs
<1>4. ASSUME NEW p \in Procs, Acquired(p) PROVE TypeOK'
  <2>1. /\ tick[p].by \in MaybeToken /\ UNCHANGED <<lock, timer, stop, running, vacant, faults>>
    BY <1>4 DEF Acquired
  <2>2. token' \in [Procs -> MaybeToken]
    BY <1>4, <2>1 DEF Acquired
  <2>4. age' \in [Procs -> Nat]
    BY <1>4 DEF Acquired
  <2>3. tick' \in [Procs -> [pc : TickPcs, by : MaybeToken]] /\ wait' \in [Procs -> 0..Latency]
    BY <1>4, <2>1, AwaitsTypes DEF Acquired, TickPcs
  <2> QED BY <2>1, <2>2, <2>3, <2>4 DEF TickPcs
<1>5. ASSUME NEW p \in Procs, OnAcquired(p) PROVE TypeOK'
  <2>1. /\ UNCHANGED <<lock, age, timer, stop>> /\ token[p] \in MaybeToken
        /\ token' \in [Procs -> MaybeToken] /\ running' \in [Procs -> BOOLEAN]
    BY <1>5 DEF OnAcquired, StartFails
  <2>2. vacant' \in 0..VacancyCap /\ faults' \in 0..MaxFaults
    BY <1>5 DEF OnAcquired, Fault, NoFault
  <2>3. tick' \in [Procs -> [pc : TickPcs, by : MaybeToken]] /\ wait' \in [Procs -> 0..Latency]
    BY <1>5, <2>1, AwaitsTypes DEF OnAcquired, TickEnds, TickPcs
  <2> QED BY <2>1, <2>2, <2>3 DEF TickPcs
<1>6. ASSUME NEW p \in Procs, ReleaseBack(p) PROVE TypeOK'
  BY <1>6 DEF ReleaseBack, Awaits, TickEnds, DeleteIfHeld, NoLock, Fault, NoFault
<1>7. ASSUME NEW p \in Procs, Extend(p) PROVE TypeOK'
  <2>1. /\ vacant' \in 0..VacancyCap /\ faults' \in 0..MaxFaults /\ UNCHANGED <<token, age, timer, stop, running>>
    BY <1>7 DEF Extend, Fault, NoFault
  <2>2. lock' \in [by : MaybeToken, left : 0..TTL]
    BY <1>7 DEF Extend, PExpire
  <2>3. tick' \in [Procs -> [pc : TickPcs, by : MaybeToken]] /\ wait' \in [Procs -> 0..Latency]
    BY <1>7, AwaitsTypes DEF Extend, TickPcs
  <2> QED BY <2>1, <2>2, <2>3 DEF TickPcs
<1>8. ASSUME NEW p \in Procs, Extended(p) PROVE TypeOK'
  BY <1>8 DEF Extended, Awaits, TickEnds
<1>9. ASSUME NEW p \in Procs, Refused(p) PROVE TypeOK'
  BY <1>9 DEF Refused, Awaits, TickEnds, Demote
<1>10. ASSUME NEW p \in Procs, Threw(p) PROVE TypeOK'
  <2>1. /\ UNCHANGED <<lock, age, timer, stop, vacant, faults>>
        /\ token' \in [Procs -> MaybeToken] /\ running' \in [Procs -> BOOLEAN]
    BY <1>10 DEF Threw, Demote
  <2>2. tick' \in [Procs -> [pc : TickPcs, by : MaybeToken]] /\ wait' \in [Procs -> 0..Latency]
    BY <1>10, AwaitsTypes DEF Threw, TickEnds, TickPcs
  <2> QED BY <2>1, <2>2 DEF TickPcs
<1>11. ASSUME NEW p \in Procs, CallStop(p) PROVE TypeOK'
  BY <1>11 DEF CallStop, Awaits
<1>12. ASSUME NEW p \in Procs, ReleaseOnStop(p) PROVE TypeOK'
  BY <1>12 DEF ReleaseOnStop, DeleteIfHeld, NoLock, Fault, NoFault
<1>13. ASSUME NEW p \in Procs, Exit(p) PROVE TypeOK'
  BY <1>13 DEF Exit, Die, NoFault, NoTick
<1>14. ASSUME NEW p \in Procs, Crash(p) PROVE TypeOK'
  BY <1>14 DEF Crash, Die, Fault, NoTick, Up
<1>15. ASSUME TimePasses PROVE TypeOK'
  <2>1. UNCHANGED <<token, tick, stop, running, faults>>
    BY <1>15, SMTT(30) DEF TimePasses
  <2>2. lock' \in [by : MaybeToken, left : 0..TTL]
    BY <1>15 DEF TimePasses, NoLock
  <2>3. timer' \in [Procs -> 0..TTL] /\ age' \in [Procs -> Nat]
    BY <1>15, SMTT(30) DEF TimePasses
  <2>4. wait' \in [Procs -> 0..Latency]
    BY <1>15 DEF TimePasses, InFlight
  <2>5. vacant' \in 0..VacancyCap
    BY <1>15, SMTT(30) DEF TimePasses
  <2> QED BY <2>1, <2>2, <2>3, <2>4, <2>5
<1>16. CASE UNCHANGED vars
  BY <1>16 DEF vars
<1> QED BY <1>1, <1>2, <1>3, <1>4, <1>5, <1>6, <1>7, <1>8, <1>9, <1>10, <1>11, <1>12, <1>13, <1>14, <1>15, <1>16
        DEF Next

(* Every step keeps what a tick took along in agreement with the token.       *)
LEMMA TicksStep == ASSUME TypeOK, TicksOK, [Next]_vars PROVE TicksOK'
<1> USE TokensAre, TimesAre DEF TypeOK, TicksOK, MaybeToken, TakesToken, Stopped
<1>1. ASSUME NEW p \in Procs, Start(p) PROVE TicksOK'
  BY <1>1 DEF Start, Up
<1>2. ASSUME NEW p \in Procs, Tick(p) PROVE TicksOK'
  BY <1>2, FreshIsNew DEF Tick, Awaits
<1>3. ASSUME NEW p \in Procs, Acquire(p) PROVE TicksOK'
  BY <1>3 DEF Acquire, Awaits, TickEnds, SetNX, NoLock, Fault, NoFault
<1>4. ASSUME NEW p \in Procs, Acquired(p) PROVE TicksOK'
  BY <1>4 DEF Acquired, Awaits, Stopped
<1>5. ASSUME NEW p \in Procs, OnAcquired(p) PROVE TicksOK'
  BY <1>5 DEF OnAcquired, Awaits, TickEnds, StartFails, Fault, NoFault
<1>6. ASSUME NEW p \in Procs, ReleaseBack(p) PROVE TicksOK'
  BY <1>6 DEF ReleaseBack, Awaits, TickEnds, DeleteIfHeld, NoLock, Fault, NoFault
<1>7. ASSUME NEW p \in Procs, Extend(p) PROVE TicksOK'
  <2>1. UNCHANGED <<token, timer, stop>> /\ \A q \in Procs \ {p} : tick'[q] = tick[q]
    BY <1>7 DEF Extend, Awaits
  <2>2. tick'[p].by = NoToken /\ tick'[p].pc \in {"extended", "refused", "threw"}
    BY <1>7 DEF Extend, Awaits
  <2> QED BY <2>1, <2>2
<1>8. ASSUME NEW p \in Procs, Extended(p) PROVE TicksOK'
  BY <1>8 DEF Extended, Awaits, TickEnds
<1>9. ASSUME NEW p \in Procs, Refused(p) PROVE TicksOK'
  BY <1>9 DEF Refused, Awaits, TickEnds, Demote
<1>10. ASSUME NEW p \in Procs, Threw(p) PROVE TicksOK'
  BY <1>10 DEF Threw, Awaits, TickEnds, Demote, Unconfirmed
<1>11. ASSUME NEW p \in Procs, CallStop(p) PROVE TicksOK'
  BY <1>11 DEF CallStop, Awaits
<1>12. ASSUME NEW p \in Procs, ReleaseOnStop(p) PROVE TicksOK'
  BY <1>12 DEF ReleaseOnStop, DeleteIfHeld, NoLock, Fault, NoFault
<1>13. ASSUME NEW p \in Procs, Exit(p) PROVE TicksOK'
  BY <1>13 DEF Exit, Die, NoFault, NoTick
<1>14. ASSUME NEW p \in Procs, Crash(p) PROVE TicksOK'
  BY <1>14 DEF Crash, Die, Fault, NoTick, Up
<1>15. ASSUME TimePasses PROVE TicksOK'
  BY <1>15 DEF TimePasses, InFlight, NoLock
<1>16. CASE UNCHANGED vars
  BY <1>16 DEF vars
<1> QED BY <1>1, <1>2, <1>3, <1>4, <1>5, <1>6, <1>7, <1>8, <1>9, <1>10, <1>11, <1>12, <1>13, <1>14, <1>15, <1>16
        DEF Next

(* Nobody takes a token another one uses.                                     *)
LEMMA OwnTokensStep == ASSUME TypeOK, TicksOK, OwnTokens, [Next]_vars PROVE OwnTokens'
<1> USE TokensAre, TimesAre DEF TypeOK, TicksOK, MaybeToken, TakesToken, OwnTokens, Uses
<1>1. ASSUME NEW p \in Procs, Start(p) PROVE OwnTokens'
  BY <1>1 DEF Start, Up
<1>2. ASSUME NEW p \in Procs, Tick(p) PROVE OwnTokens'
  <2>1. UNCHANGED <<token, stop>> /\ \A q \in Procs \ {p} : tick'[q] = tick[q]
    BY <1>2 DEF Tick, Awaits
  <2>2. \/ tick'[p].by = tick[p].by
        \/ tick'[p].by = token[p]
        \/ \A q \in Procs : tick'[p].by \notin {token[q], tick[q].by, stop[q]}
    BY <1>2, FreshIsNew DEF Tick, Awaits
  <2> QED BY <2>1, <2>2
<1>3. ASSUME NEW p \in Procs, Acquire(p) PROVE OwnTokens'
  <2>1. UNCHANGED <<token, stop>> /\ \A q \in Procs \ {p} : tick'[q] = tick[q]
    BY <1>3 DEF Acquire, Awaits, TickEnds
  <2>2. tick'[p].by \in {NoToken, tick[p].by}
    BY <1>3 DEF Acquire, Awaits, TickEnds
  <2> QED BY <2>1, <2>2, SMTT(40)
<1>4. ASSUME NEW p \in Procs, Acquired(p) PROVE OwnTokens'
  <2>1. UNCHANGED stop /\ \A q \in Procs \ {p} : tick'[q] = tick[q] /\ token'[q] = token[q]
    BY <1>4 DEF Acquired, Awaits
  <2>2. tick'[p].by \in {NoToken, tick[p].by} /\ token'[p] \in {token[p], tick[p].by}
    BY <1>4 DEF Acquired, Awaits
  <2> QED BY <2>1, <2>2
<1>5. ASSUME NEW p \in Procs, OnAcquired(p) PROVE OwnTokens'
  <2>1. UNCHANGED stop /\ \A q \in Procs \ {p} : tick'[q] = tick[q] /\ token'[q] = token[q]
    BY <1>5 DEF OnAcquired, Awaits, TickEnds, StartFails
  <2>2. tick'[p].by \in {NoToken, token[p]} /\ token'[p] \in {NoToken, token[p]}
    BY <1>5 DEF OnAcquired, Awaits, TickEnds, StartFails
  <2> QED BY <2>1, <2>2
<1>6. ASSUME NEW p \in Procs, ReleaseBack(p) PROVE OwnTokens'
  BY <1>6 DEF ReleaseBack, Awaits, TickEnds, DeleteIfHeld, NoLock, Fault, NoFault
<1>7. ASSUME NEW p \in Procs, Extend(p) PROVE OwnTokens'
  <2>1. UNCHANGED <<token, stop>> /\ (\A q \in Procs \ {p} : tick'[q] = tick[q]) /\ tick'[p].by = NoToken
    BY <1>7 DEF Extend, Awaits
  <2> QED BY <2>1
<1>8. ASSUME NEW p \in Procs, Extended(p) PROVE OwnTokens'
  BY <1>8 DEF Extended, Awaits, TickEnds
<1>9. ASSUME NEW p \in Procs, Refused(p) PROVE OwnTokens'
  BY <1>9 DEF Refused, Awaits, TickEnds, Demote
<1>10. ASSUME NEW p \in Procs, Threw(p) PROVE OwnTokens'
  BY <1>10 DEF Threw, Awaits, TickEnds, Demote, Unconfirmed
<1>11. ASSUME NEW p \in Procs, CallStop(p) PROVE OwnTokens'
  BY <1>11 DEF CallStop, Awaits
<1>12. ASSUME NEW p \in Procs, ReleaseOnStop(p) PROVE OwnTokens'
  BY <1>12 DEF ReleaseOnStop, DeleteIfHeld, NoLock, Fault, NoFault
<1>13. ASSUME NEW p \in Procs, Exit(p) PROVE OwnTokens'
  BY <1>13 DEF Exit, Die, NoFault, NoTick
<1>14. ASSUME NEW p \in Procs, Crash(p) PROVE OwnTokens'
  BY <1>14 DEF Crash, Die, Fault, NoTick, Up
<1>15. ASSUME TimePasses PROVE OwnTokens'
  BY <1>15 DEF TimePasses, InFlight, NoLock
<1>16. CASE UNCHANGED vars
  BY <1>16 DEF vars
<1> QED BY <1>1, <1>2, <1>3, <1>4, <1>5, <1>6, <1>7, <1>8, <1>9, <1>10, <1>11, <1>12, <1>13, <1>14, <1>15, <1>16
        DEF Next

(* The lock has a holder as long as it has time left.                         *)
LEMMA LockTimedStep == ASSUME TypeOK, TicksOK, LockTimed, [Next]_vars PROVE LockTimed'
<1> USE TokensAre, TimesAre DEF TypeOK, TicksOK, MaybeToken, TakesToken, LockTimed
<1>1. ASSUME NEW p \in Procs, Start(p) PROVE LockTimed'
  BY <1>1 DEF Start, Up
<1>2. ASSUME NEW p \in Procs, Tick(p) PROVE LockTimed'
  BY <1>2, FreshIsNew DEF Tick, Awaits
<1>3. ASSUME NEW p \in Procs, Acquire(p) PROVE LockTimed'
  BY <1>3 DEF Acquire, Awaits, TickEnds, SetNX, NoLock, Fault, NoFault
<1>4. ASSUME NEW p \in Procs, Acquired(p) PROVE LockTimed'
  BY <1>4 DEF Acquired, Awaits, Stopped
<1>5. ASSUME NEW p \in Procs, OnAcquired(p) PROVE LockTimed'
  BY <1>5 DEF OnAcquired, Awaits, TickEnds, StartFails, Fault, NoFault
<1>6. ASSUME NEW p \in Procs, ReleaseBack(p) PROVE LockTimed'
  BY <1>6 DEF ReleaseBack, Awaits, TickEnds, DeleteIfHeld, NoLock, Fault, NoFault
<1>7. ASSUME NEW p \in Procs, Extend(p) PROVE LockTimed'
  BY <1>7 DEF Extend, Awaits, PExpire, Fault, NoFault
<1>8. ASSUME NEW p \in Procs, Extended(p) PROVE LockTimed'
  BY <1>8 DEF Extended, Awaits, TickEnds
<1>9. ASSUME NEW p \in Procs, Refused(p) PROVE LockTimed'
  BY <1>9 DEF Refused, Awaits, TickEnds, Demote
<1>10. ASSUME NEW p \in Procs, Threw(p) PROVE LockTimed'
  BY <1>10 DEF Threw, Awaits, TickEnds, Demote, Unconfirmed
<1>11. ASSUME NEW p \in Procs, CallStop(p) PROVE LockTimed'
  BY <1>11 DEF CallStop, Awaits
<1>12. ASSUME NEW p \in Procs, ReleaseOnStop(p) PROVE LockTimed'
  BY <1>12 DEF ReleaseOnStop, DeleteIfHeld, NoLock, Fault, NoFault
<1>13. ASSUME NEW p \in Procs, Exit(p) PROVE LockTimed'
  BY <1>13 DEF Exit, Die, NoFault, NoTick
<1>14. ASSUME NEW p \in Procs, Crash(p) PROVE LockTimed'
  BY <1>14 DEF Crash, Die, Fault, NoTick, Up
<1>15. ASSUME TimePasses PROVE LockTimed'
  BY <1>15 DEF TimePasses, InFlight, NoLock
<1>16. CASE UNCHANGED vars
  BY <1>16 DEF vars
<1> QED BY <1>1, <1>2, <1>3, <1>4, <1>5, <1>6, <1>7, <1>8, <1>9, <1>10, <1>11, <1>12, <1>13, <1>14, <1>15, <1>16
        DEF Next

(* Whoever keeps the token starts the scheduler.                              *)
LEMMA StartsStep == ASSUME TypeOK, TicksOK, AllStart, [Next]_vars PROVE AllStart'
<1> USE TokensAre, TimesAre DEF TypeOK, TicksOK, MaybeToken, TakesToken, Starts, AllStart
<1>1. ASSUME NEW p \in Procs, Start(p) PROVE AllStart'
  BY <1>1 DEF Start, Up
<1>2. ASSUME NEW p \in Procs, Tick(p) PROVE AllStart'
  BY <1>2, FreshIsNew DEF Tick, Awaits
<1>3. ASSUME NEW p \in Procs, Acquire(p) PROVE AllStart'
  BY <1>3 DEF Acquire, Awaits, TickEnds, SetNX, NoLock, Fault, NoFault
<1>4. ASSUME NEW p \in Procs, Acquired(p) PROVE AllStart'
  BY <1>4 DEF Acquired, Awaits, Stopped
<1>5. ASSUME NEW p \in Procs, OnAcquired(p) PROVE AllStart'
  <2>1. \A q \in Procs \ {p} : tick'[q] = tick[q] /\ token'[q] = token[q] /\ running'[q] = running[q]
    BY <1>5 DEF OnAcquired, Awaits, TickEnds, StartFails
  <2>2. token'[p] = NoToken \/ running'[p]
    BY <1>5 DEF OnAcquired, StartFails
  <2> QED BY <2>1, <2>2
<1>6. ASSUME NEW p \in Procs, ReleaseBack(p) PROVE AllStart'
  BY <1>6 DEF ReleaseBack, Awaits, TickEnds, DeleteIfHeld, NoLock, Fault, NoFault
<1>7. ASSUME NEW p \in Procs, Extend(p) PROVE AllStart'
  BY <1>7 DEF Extend, Awaits, PExpire, Fault, NoFault
<1>8. ASSUME NEW p \in Procs, Extended(p) PROVE AllStart'
  BY <1>8 DEF Extended, Awaits, TickEnds
<1>9. ASSUME NEW p \in Procs, Refused(p) PROVE AllStart'
  BY <1>9 DEF Refused, Awaits, TickEnds, Demote
<1>10. ASSUME NEW p \in Procs, Threw(p) PROVE AllStart'
  BY <1>10 DEF Threw, Awaits, TickEnds, Demote, Unconfirmed
<1>11. ASSUME NEW p \in Procs, CallStop(p) PROVE AllStart'
  BY <1>11 DEF CallStop, Awaits
<1>12. ASSUME NEW p \in Procs, ReleaseOnStop(p) PROVE AllStart'
  <2>1. UNCHANGED <<token, tick>> /\ (\A q \in Procs \ {p} : running'[q] = running[q]) /\ token[p] = NoToken
    BY <1>12 DEF ReleaseOnStop, Stopped
  <2> QED BY <2>1
<1>13. ASSUME NEW p \in Procs, Exit(p) PROVE AllStart'
  BY <1>13 DEF Exit, Die, NoFault, NoTick
<1>14. ASSUME NEW p \in Procs, Crash(p) PROVE AllStart'
  BY <1>14 DEF Crash, Die, Fault, NoTick, Up
<1>15. ASSUME TimePasses PROVE AllStart'
  BY <1>15 DEF TimePasses, InFlight, NoLock
<1>16. CASE UNCHANGED vars
  BY <1>16 DEF vars
<1> QED BY <1>1, <1>2, <1>3, <1>4, <1>5, <1>6, <1>7, <1>8, <1>9, <1>10, <1>11, <1>12, <1>13, <1>14, <1>15, <1>16
        DEF Next

(* A tick that gets no answer ends before the hold is too old.                *)
LEMMA UnansweredStep == ASSUME TypeOK, TicksOK, AllAnswered, [Next]_vars PROVE AllAnswered'
<1> USE TokensAre, TimesAre DEF TypeOK, TicksOK, MaybeToken, TakesToken, Unanswered, AllAnswered
<1>1. ASSUME NEW p \in Procs, Start(p) PROVE AllAnswered'
  BY <1>1 DEF Start, Up
<1>2. ASSUME NEW p \in Procs, Tick(p) PROVE AllAnswered'
  BY <1>2, FreshIsNew DEF Tick, Awaits
<1>3. ASSUME NEW p \in Procs, Acquire(p) PROVE AllAnswered'
  BY <1>3 DEF Acquire, Awaits, TickEnds, SetNX, NoLock, Fault, NoFault
<1>4. ASSUME NEW p \in Procs, Acquired(p) PROVE AllAnswered'
  <2>1. /\ UNCHANGED timer
        /\ \A q \in Procs \ {p} : tick'[q] = tick[q] /\ token'[q] = token[q] /\ age'[q] = age[q] /\ wait'[q] = wait[q]
    BY <1>4 DEF Acquired, Awaits
  <2>2. /\ tick'[p].pc \in {"release", "onAcquired"}
        /\ token'[p] = NoToken \/ age'[p] = 0
        /\ wait'[p] = 0
    BY <1>4 DEF Acquired, Awaits, Stopped
  <2>3. \A q \in Procs \ {p} : Unanswered(q)'
    BY <2>1
  <2>4. Unanswered(p)'
    BY <2>1, <2>2
  <2> QED BY <2>3, <2>4
<1>5. ASSUME NEW p \in Procs, OnAcquired(p) PROVE AllAnswered'
  BY <1>5 DEF OnAcquired, Awaits, TickEnds, StartFails, Fault, NoFault
<1>6. ASSUME NEW p \in Procs, ReleaseBack(p) PROVE AllAnswered'
  BY <1>6 DEF ReleaseBack, Awaits, TickEnds, DeleteIfHeld, NoLock, Fault, NoFault
<1>7. ASSUME NEW p \in Procs, Extend(p) PROVE AllAnswered'
  BY <1>7 DEF Extend, Awaits, PExpire, Fault, NoFault
<1>8. ASSUME NEW p \in Procs, Extended(p) PROVE AllAnswered'
  BY <1>8 DEF Extended, Awaits, TickEnds
<1>9. ASSUME NEW p \in Procs, Refused(p) PROVE AllAnswered'
  BY <1>9 DEF Refused, Awaits, TickEnds, Demote
<1>10. ASSUME NEW p \in Procs, Threw(p) PROVE AllAnswered'
  BY <1>10 DEF Threw, Awaits, TickEnds, Demote, Unconfirmed
<1>11. ASSUME NEW p \in Procs, CallStop(p) PROVE AllAnswered'
  BY <1>11 DEF CallStop, Awaits
<1>12. ASSUME NEW p \in Procs, ReleaseOnStop(p) PROVE AllAnswered'
  BY <1>12 DEF ReleaseOnStop, DeleteIfHeld, NoLock, Fault, NoFault
<1>13. ASSUME NEW p \in Procs, Exit(p) PROVE AllAnswered'
  BY <1>13 DEF Exit, Die, NoFault, NoTick
<1>14. ASSUME NEW p \in Procs, Crash(p) PROVE AllAnswered'
  BY <1>14 DEF Crash, Die, Fault, NoTick, Up
<1>15. ASSUME TimePasses PROVE AllAnswered'
  <2>1. /\ UNCHANGED <<token, tick>>
        /\ \A q \in Procs : token[q] # NoToken => age'[q] = age[q] + 1
        /\ \A q \in Procs : tick[q].pc # "none" => wait'[q] = wait[q] + 1
        /\ \A q \in Procs : stop[q] = "no" => timer'[q] = timer[q] - 1 /\ timer[q] > 0
    BY <1>15 DEF TimePasses, InFlight
  <2>2. \A q \in Procs : token[q] # NoToken => stop[q] = "no"
    BY DEF Stopped
  <2>3. ASSUME NEW q \in Procs PROVE Unanswered(q)'
    <3>1. age[q] \in Nat /\ wait[q] \in Nat /\ timer[q] \in Nat
      OBVIOUS
    <3> QED BY <2>1, <2>2, <3>1
  <2> QED BY <2>3
<1>16. CASE UNCHANGED vars
  BY <1>16 DEF vars
<1> QED BY <1>1, <1>2, <1>3, <1>4, <1>5, <1>6, <1>7, <1>8, <1>9, <1>10, <1>11, <1>12, <1>13, <1>14, <1>15, <1>16
        DEF Next

(* The time promised to a holder is kept: whoever else deletes or takes the   *)
(* lock has another token.                                                      *)
LEMMA PromisedStep == ASSUME LeaseInv, [Next]_vars PROVE AllPromised'
<1> USE TokensAre, TimesAre DEF LeaseInv, TypeOK, TicksOK, MaybeToken, TakesToken, OwnTokens, Uses, LockTimed,
        Promised, AllPromised
<1>1. ASSUME NEW p \in Procs, Start(p) PROVE AllPromised'
  BY <1>1 DEF Start, Up
<1>2. ASSUME NEW p \in Procs, Tick(p) PROVE AllPromised'
  BY <1>2, FreshIsNew DEF Tick, Awaits
<1>3. ASSUME NEW p \in Procs, Acquire(p) PROVE AllPromised'
  BY <1>3 DEF Acquire, Awaits, TickEnds, SetNX, NoLock, Fault, NoFault
<1>4. ASSUME NEW p \in Procs, Acquired(p) PROVE AllPromised'
  <2>1. UNCHANGED lock /\ \A q \in Procs \ {p} : tick'[q] = tick[q] /\ token'[q] = token[q] /\ age'[q] = age[q] /\ wait'[q] = wait[q]
    BY <1>4 DEF Acquired, Awaits
  <2>2. /\ tick[p].pc = "acquired" /\ wait[p] \in 0..Latency /\ tick'[p].pc \in {"release", "onAcquired"}
        /\ (token'[p] = NoToken \/ (token'[p] = tick[p].by /\ age'[p] = 0))
    BY <1>4 DEF Acquired, Awaits, Stopped
  <2> QED BY <2>1, <2>2
<1>5. ASSUME NEW p \in Procs, OnAcquired(p) PROVE AllPromised'
  BY <1>5 DEF OnAcquired, Awaits, TickEnds, StartFails, Fault, NoFault
<1>6. ASSUME NEW p \in Procs, ReleaseBack(p) PROVE AllPromised'
  BY <1>6 DEF ReleaseBack, Awaits, TickEnds, DeleteIfHeld, NoLock, Fault, NoFault
<1>7. ASSUME NEW p \in Procs, Extend(p) PROVE AllPromised'
  BY <1>7 DEF Extend, Awaits, PExpire, Fault, NoFault
<1>8. ASSUME NEW p \in Procs, Extended(p) PROVE AllPromised'
  BY <1>8 DEF Extended, Awaits, TickEnds
<1>9. ASSUME NEW p \in Procs, Refused(p) PROVE AllPromised'
  BY <1>9 DEF Refused, Awaits, TickEnds, Demote
<1>10. ASSUME NEW p \in Procs, Threw(p) PROVE AllPromised'
  BY <1>10 DEF Threw, Awaits, TickEnds, Demote, Unconfirmed
<1>11. ASSUME NEW p \in Procs, CallStop(p) PROVE AllPromised'
  BY <1>11 DEF CallStop, Awaits
<1>12. ASSUME NEW p \in Procs, ReleaseOnStop(p) PROVE AllPromised'
  <2>1. UNCHANGED <<token, age, tick, wait>> /\ (lock' = lock \/ (lock.by = stop[p] /\ stop[p] \in Tokens))
    BY <1>12 DEF ReleaseOnStop, DeleteIfHeld, Fault, NoFault
  <2>2. \A q \in Procs : token[q] # stop[p] /\ (tick[q].pc = "acquired" => tick[q].by # stop[p])
    BY <1>12 DEF ReleaseOnStop, Stopped
  <2> QED BY <2>1, <2>2
<1>13. ASSUME NEW p \in Procs, Exit(p) PROVE AllPromised'
  BY <1>13 DEF Exit, Die, NoFault, NoTick
<1>14. ASSUME NEW p \in Procs, Crash(p) PROVE AllPromised'
  BY <1>14 DEF Crash, Die, Fault, NoTick, Up
<1>15. ASSUME TimePasses PROVE AllPromised'
  <2>1. /\ UNCHANGED <<token, tick>>
        /\ \A q \in Procs : token[q] # NoToken => age'[q] = age[q] + 1
        /\ \A q \in Procs : tick[q].pc # "none" => wait'[q] = wait[q] + 1
    BY <1>15 DEF TimePasses, InFlight
  <2>2. lock.left > 1 => lock'.by = lock.by /\ lock'.left = lock.left - 1
    BY <1>15, SMTT(30) DEF TimePasses
  <2>3. ASSUME NEW q \in Procs PROVE Promised(q)'
    BY <2>1, <2>2
  <2> QED BY <2>3
<1>16. CASE UNCHANGED vars
  BY <1>16 DEF vars
<1> QED BY <1>1, <1>2, <1>3, <1>4, <1>5, <1>6, <1>7, <1>8, <1>9, <1>10, <1>11, <1>12, <1>13, <1>14, <1>15, <1>16
        DEF Next

(* At first nobody competes.                                                    *)
LEMMA LeaseInitInv == ASSUME Init PROVE LeaseInv
<1> USE TokensAre, TimesAre DEF Init, NoLock, NoTick
<1>1. TypeOK
  BY DEF TypeOK, MaybeToken
<1>2. TicksOK /\ OwnTokens /\ LockTimed
  BY DEF TicksOK, TakesToken, OwnTokens, Uses, LockTimed, Stopped
<1>3. AllPromised /\ AllStart /\ AllAnswered
  BY DEF AllPromised, AllStart, AllAnswered, Promised, Starts, Unanswered
<1> QED BY <1>1, <1>2, <1>3 DEF LeaseInv

(* The invariant holds in every state.                                          *)
LEMMA LeaseInvHolds == Spec => []LeaseInv
<1>1. Init => LeaseInv
  BY LeaseInitInv
<1>2. LeaseInv /\ [Next]_vars => LeaseInv'
  BY LeaseTypeStep, TicksStep, OwnTokensStep, LockTimedStep, PromisedStep, StartsStep, UnansweredStep
  DEF LeaseInv
<1> QED BY <1>1, <1>2, PTL DEF Spec

(* The lease and its processes are of the types the code declares, and the     *)
(* timers and waits stay within their bounds.                                  *)
THEOREM LeaseTypeCorrect == Spec => []TypeOK
<1>1. LeaseInv => TypeOK
  BY DEF LeaseInv
<1> QED BY <1>1, LeaseInvHolds, PTL

(* A hold that SingletonRoleLease confirmed within the TTL, less a call, is    *)
(* really the key of Redis, and its holder runs the cron jobs or starts them:  *)
(* however many processes compete, and whatever calls fail, arrive late, or    *)
(* race a stop().                                                              *)
THEOREM LeaderIsLeader == Spec => []LeaderLeads
<1>1. LeaseInv => ConfirmedHolds
  BY DEF LeaseInv, AllPromised, Promised, ConfirmedHolds, Holder
<1>2. LeaseInv => HolderRuns
  BY DEF LeaseInv, AllStart, Starts, HolderRuns
<1> QED BY <1>1, <1>2, LeaseInvHolds, PTL DEF LeaderLeads

(* However calls fail, an owner that nobody confirms acts for at most a TTL, an *)
(* interval and three calls before it demotes itself.                          *)
THEOREM NoOverstay == Spec => []Overstay
<1>1. ASSUME LeaseInv, NEW p \in Procs, token[p] # NoToken PROVE age[p] <= TTL + Interval + 3 * Latency
  <2>1. /\ age[p] \in Nat /\ timer[p] \in Nat /\ wait[p] \in 0..Latency
        /\ tick[p].pc \in {"none", "acquire", "acquired", "onAcquired", "release",
                           "undo", "extend", "extended", "refused", "threw"}
    BY <1>1 DEF LeaseInv, TypeOK
  <2>2. tick[p].pc \in {"none", "onAcquired", "extend", "extended", "refused", "threw"}
    BY <1>1, <2>1 DEF LeaseInv, TicksOK, TakesToken
  <2> QED BY <1>1, <2>1, <2>2, TimesAre DEF LeaseInv, AllAnswered, Unanswered
<1>2. LeaseInv => Overstay
  BY <1>1 DEF Overstay
<1> QED BY <1>2, LeaseInvHolds, PTL

(* A process that was started and not stopped competes for the lease; its acquire *)
(* has won when the reply is still on its way to it.                            *)
Competes(p) == stop[p] = "no"
Winner(p) == tick[p].pc = "acquired" /\ Competes(p) /\ lock.by = tick[p].by
(* The time nobody holds the lock, by what a process awaits.  A stop() or a fault *)
(* starts it afresh, so a call that outlives one is no older; it is short while  *)
(* a process still believes in a hold it lost, for a tick tells it.              *)
Vacated(p) ==
  /\ stop[p] = "off" => tick[p].pc = "none"
  /\ tick[p].pc = "release" => Stopped(p)
  /\ Competes(p) /\ token[p] = NoToken => tick[p].pc \in {"none", "acquire", "acquired", "undo"}
  /\ Stopped(p) /\ tick[p].pc \in {"acquire", "extend"} => vacant <= wait[p]
  /\ tick[p].pc = "undo" => vacant <= wait[p]
  /\ tick[p].pc = "refused" /\ token[p] # NoToken => age[p] > 0
  /\ Holder(p) /\ age[p] > 0 => vacant = 0
  /\ Winner(p) => vacant <= TTL + Interval + 2 * Latency + wait[p]
  /\ token[p] # NoToken /\ age[p] > 0 =>
       /\ tick[p].pc = "none" => vacant + timer[p] <= Interval + Latency
       /\ tick[p].pc = "extend" => vacant <= Interval + Latency + wait[p]
       /\ tick[p].pc = "refused" => vacant <= Interval + 2 * Latency + wait[p]
       /\ tick[p].pc = "threw" => vacant <= wait[p]
AllVacated == \A p \in Procs : Vacated(p)
(* Without a competitor no time counts.                                         *)
NobodyCompetes == (\A p \in Procs : ~Competes(p)) => vacant = 0
(* A lock that is nobody's runs out within a TTL and a call.                     *)
LeftBehind == lock # NoLock /\ (\A p \in Procs : ~Holder(p) /\ ~Winner(p)) => vacant + lock.left <= TTL + Latency
(* When it is free for longer, a competitor is about to acquire it: at its next  *)
(* tick, or it has sent the call.                                               *)
NextUp(p) ==
  /\ Competes(p) /\ token[p] = NoToken
  /\ \/ tick[p].pc = "none" /\ vacant + timer[p] <= TTL + Latency + Interval
     \/ tick[p].pc = "acquire" /\ vacant <= TTL + Latency + Interval + wait[p]
LeftFree == lock = NoLock => vacant <= TTL + Latency \/ \E p \in Procs : NextUp(p)
(* Two calls fit in what a tick leaves of the TTL.                              *)
Quick == Interval + 2 * Latency <= TTL
VacancyInv == LeaseInv /\ AllVacated /\ NobodyCompetes /\ LeftBehind /\ LeftFree /\ FailoverBound
(* Time counts for a competitor only.                                           *)
LEMMA NobodyStep == ASSUME VacancyInv, [Next]_vars PROVE NobodyCompetes'
<1> USE TokensAre, TimesAre DEF VacancyInv, LeaseInv, TypeOK, TicksOK, MaybeToken, TakesToken, Stopped,
        Competes, NobodyCompetes
<1>1. ASSUME NEW p \in Procs, Start(p) PROVE NobodyCompetes'
  BY <1>1 DEF Start, Up
<1>2. ASSUME NEW p \in Procs, Tick(p) PROVE NobodyCompetes'
  BY <1>2, FreshIsNew DEF Tick, Awaits
<1>3. ASSUME NEW p \in Procs, Acquire(p) PROVE NobodyCompetes'
  BY <1>3 DEF Acquire, Awaits, TickEnds, SetNX, NoLock, Fault, NoFault
<1>4. ASSUME NEW p \in Procs, Acquired(p) PROVE NobodyCompetes'
  BY <1>4 DEF Acquired, Awaits
<1>5. ASSUME NEW p \in Procs, OnAcquired(p) PROVE NobodyCompetes'
  BY <1>5 DEF OnAcquired, Awaits, TickEnds, StartFails, Fault, NoFault
<1>6. ASSUME NEW p \in Procs, ReleaseBack(p) PROVE NobodyCompetes'
  BY <1>6 DEF ReleaseBack, Awaits, TickEnds, DeleteIfHeld, NoLock, Fault, NoFault
<1>7. ASSUME NEW p \in Procs, Extend(p) PROVE NobodyCompetes'
  BY <1>7 DEF Extend, Awaits, PExpire, Fault, NoFault
<1>8. ASSUME NEW p \in Procs, Extended(p) PROVE NobodyCompetes'
  BY <1>8 DEF Extended, Awaits, TickEnds
<1>9. ASSUME NEW p \in Procs, Refused(p) PROVE NobodyCompetes'
  BY <1>9 DEF Refused, Awaits, TickEnds, Demote
<1>10. ASSUME NEW p \in Procs, Threw(p) PROVE NobodyCompetes'
  BY <1>10 DEF Threw, Awaits, TickEnds, Demote, Unconfirmed
<1>11. ASSUME NEW p \in Procs, CallStop(p) PROVE NobodyCompetes'
  BY <1>11 DEF CallStop, Awaits
<1>12. ASSUME NEW p \in Procs, ReleaseOnStop(p) PROVE NobodyCompetes'
  BY <1>12 DEF ReleaseOnStop, DeleteIfHeld, NoLock, Fault, NoFault
<1>13. ASSUME NEW p \in Procs, Exit(p) PROVE NobodyCompetes'
  BY <1>13 DEF Exit, Die, NoFault, NoTick
<1>14. ASSUME NEW p \in Procs, Crash(p) PROVE NobodyCompetes'
  BY <1>14 DEF Crash, Die, Fault, NoTick, Up
<1>15. ASSUME TimePasses PROVE NobodyCompetes'
  BY <1>15 DEF TimePasses, NoLock, InFlight
<1>16. CASE UNCHANGED vars
  BY <1>16 DEF vars
<1> QED BY <1>1, <1>2, <1>3, <1>4, <1>5, <1>6, <1>7, <1>8, <1>9, <1>10, <1>11, <1>12, <1>13, <1>14, <1>15, <1>16
        DEF Next

(* A fault, a delete, or a step that leaves the lock and its claimants alone.   *)
LEMMA LeftBehindKept ==
  ASSUME TypeOK', LeftBehind,
         \/ vacant' = 0
         \/ lock' = NoLock
         \/ /\ lock' = lock /\ vacant' = vacant
            /\ \A q \in Procs : Holder(q) \/ Winner(q) => Holder(q)' \/ Winner(q)'
  PROVE  LeftBehind'
<1>1. lock'.left \in 0..TTL
  BY DEF TypeOK
<1> QED BY <1>1, TimesAre DEF LeftBehind, NoLock

(* Who gives up the lock without a release was stopped, failed, or lost it while  *)
(* a holder was counted: the time nobody holds it starts then.                  *)
LEMMA LeftBehindStep == ASSUME VacancyInv, Quick, [Next]_vars PROVE LeftBehind'
<1>0. TypeOK'
  BY LeaseTypeStep DEF VacancyInv, LeaseInv
<1> USE TokensAre, TimesAre DEF VacancyInv, LeaseInv, TypeOK, TicksOK, MaybeToken, TakesToken, Stopped, Competes,
        Holder, Winner, LeftBehind, AllVacated, Vacated
<1>1. ASSUME NEW p \in Procs, Start(p) PROVE LeftBehind'
  BY <1>1 DEF Start, Up
<1>2. ASSUME NEW p \in Procs, Tick(p) PROVE LeftBehind'
  BY <1>2, FreshIsNew DEF Tick, Awaits
<1>3. ASSUME NEW p \in Procs, Acquire(p) PROVE LeftBehind'
  <2>1. CASE NoFault
    <3>1. UNCHANGED <<token, stop, vacant>> /\ \A q \in Procs \ {p} : tick'[q] = tick[q]
      BY <1>3, <2>1 DEF Acquire, Awaits, TickEnds, NoFault
    <3>2. CASE lock = NoLock
      <4>1. lock' = [by |-> tick[p].by, left |-> TTL] /\ tick'[p] = [pc |-> "acquired", by |-> tick[p].by]
        BY <1>3, <2>1, <3>2 DEF Acquire, SetNX, Awaits, NoFault, TickEnds, Fault
      <4>2. stop[p] = "no" => Winner(p)'
        BY <3>1, <4>1
      <4>3. stop[p] # "no" => vacant <= Latency
        BY <1>3 DEF Acquire
      <4> QED BY <3>1, <4>1, <4>2, <4>3
    <3>3. CASE lock # NoLock
      <4>1. lock' = lock
        BY <1>3, <2>1, <3>3 DEF Acquire, SetNX
      <4>2. \A q \in Procs : Holder(q) \/ Winner(q) => Holder(q)' \/ Winner(q)'
        BY <1>3, <3>1, <4>1 DEF Acquire
      <4> QED BY <1>0, <3>1, <4>1, <4>2, LeftBehindKept
    <3> QED BY <3>2, <3>3
  <2>2. CASE Fault
    BY <1>0, <2>2, LeftBehindKept DEF Fault
  <2> QED BY <1>3, <2>1, <2>2 DEF Acquire
<1>4. ASSUME NEW p \in Procs, Acquired(p) PROVE LeftBehind'
  BY <1>4 DEF Acquired, Awaits
<1>5. ASSUME NEW p \in Procs, OnAcquired(p) PROVE LeftBehind'
  <2>1. CASE NoFault
    <3>1. UNCHANGED <<token, stop, vacant, lock>> /\ tick[p].pc = "onAcquired" /\ \A q \in Procs \ {p} : tick'[q] = tick[q]
      BY <1>5, <2>1 DEF OnAcquired, Awaits, TickEnds, NoFault, Fault
    <3> QED BY <1>0, <3>1, LeftBehindKept
  <2>2. CASE Fault
    BY <1>0, <2>2, LeftBehindKept DEF Fault
  <2> QED BY <1>5, <2>1, <2>2 DEF OnAcquired
<1>6. ASSUME NEW p \in Procs, ReleaseBack(p) PROVE LeftBehind'
  <2>1. CASE NoFault /\ lock' = lock
    <3>1. UNCHANGED <<token, stop, vacant, lock>> /\ tick[p].pc \in {"release", "undo"} /\ \A q \in Procs \ {p} : tick'[q] = tick[q]
      BY <1>6, <2>1 DEF ReleaseBack, Awaits, TickEnds, NoFault
    <3> QED BY <1>0, <3>1, LeftBehindKept
  <2>2. CASE lock' = NoLock
    BY <1>0, <2>2, LeftBehindKept
  <2>3. CASE Fault
    BY <1>0, <2>3, LeftBehindKept DEF Fault
  <2> QED BY <1>6, <2>1, <2>2, <2>3 DEF ReleaseBack, DeleteIfHeld
<1>7. ASSUME NEW p \in Procs, Extend(p) PROVE LeftBehind'
  <2>1. CASE NoFault
    <3>1. UNCHANGED <<token, stop, vacant>> /\ tick[p].pc = "extend" /\ \A q \in Procs \ {p} : tick'[q] = tick[q]
      BY <1>7, <2>1 DEF Extend, Awaits, NoFault
    <3>2. CASE lock' = lock
      BY <1>0, <3>1, <3>2, LeftBehindKept
    <3>3. CASE lock' = [lock EXCEPT !.left = TTL] /\ lock.by = tick[p].by
      <4>1. CASE stop[p] # "no"
        BY <3>1, <3>3, <4>1
      <4>2. CASE stop[p] = "no"
        <5>1. token[p] # NoToken
          BY <3>1, <4>2
        <5>2. Holder(p)'
          BY <3>1, <3>3, <5>1
        <5> QED BY <5>2
      <4> QED BY <4>1, <4>2
    <3> QED BY <1>7, <2>1, <3>2, <3>3 DEF Extend, PExpire
  <2>2. CASE Fault
    BY <1>0, <2>2, LeftBehindKept DEF Fault
  <2> QED BY <1>7, <2>1, <2>2 DEF Extend
<1>8. ASSUME NEW p \in Procs, Extended(p) PROVE LeftBehind'
  BY <1>8 DEF Extended, Awaits, TickEnds
<1>9. ASSUME NEW p \in Procs, Refused(p) PROVE LeftBehind'
  <2>1. UNCHANGED <<stop, vacant, lock>> /\ tick[p].pc = "refused" /\ \A q \in Procs \ {p} : tick'[q] = tick[q] /\ token'[q] = token[q]
    BY <1>9 DEF Refused, Awaits, TickEnds, Demote
  <2>2. CASE Holder(p) /\ age[p] > 0
    BY <1>0, <2>1, <2>2, LeftBehindKept
  <2>3. CASE ~Holder(p)
    BY <1>0, <2>1, <2>3, LeftBehindKept
  <2> QED BY <2>1, <2>2, <2>3
<1>10. ASSUME NEW p \in Procs, Threw(p) PROVE LeftBehind'
  BY <1>10 DEF Threw, Awaits, TickEnds, Demote, Unconfirmed
<1>11. ASSUME NEW p \in Procs, CallStop(p) PROVE LeftBehind'
  BY <1>11 DEF CallStop, Awaits
<1>12. ASSUME NEW p \in Procs, ReleaseOnStop(p) PROVE LeftBehind'
  <2>1. UNCHANGED <<token, tick>> /\ stop[p] \in Tokens /\ \A q \in Procs \ {p} : stop'[q] = stop[q]
    BY <1>12 DEF ReleaseOnStop
  <2>2. CASE NoFault /\ lock' = lock
    BY <1>0, <2>1, <2>2, LeftBehindKept DEF NoFault
  <2>3. CASE lock' = NoLock
    BY <1>0, <2>3, LeftBehindKept
  <2>4. CASE Fault
    BY <1>0, <2>4, LeftBehindKept DEF Fault
  <2> QED BY <1>12, <2>2, <2>3, <2>4 DEF ReleaseOnStop, DeleteIfHeld
<1>13. ASSUME NEW p \in Procs, Exit(p) PROVE LeftBehind'
  BY <1>13 DEF Exit, Die, NoFault, NoTick
<1>14. ASSUME NEW p \in Procs, Crash(p) PROVE LeftBehind'
  BY <1>14 DEF Crash, Die, Fault, NoTick, Up
<1>15. ASSUME TimePasses PROVE LeftBehind'
  BY <1>15 DEF TimePasses, NoLock, InFlight
<1>16. CASE UNCHANGED vars
  BY <1>16 DEF vars
<1> QED BY <1>1, <1>2, <1>3, <1>4, <1>5, <1>6, <1>7, <1>8, <1>9, <1>10, <1>11, <1>12, <1>13, <1>14, <1>15, <1>16
        DEF Next

(* What the passing of a unit of time does to the times of a process.           *)
LEMMA TimesPass ==
  ASSUME VacancyInv, TimePasses
  PROVE  /\ vacant \in Nat /\ vacant' \in Nat /\ vacant' <= vacant + 1 /\ lock.left \in Nat
         /\ UNCHANGED <<token, tick, stop>>
         /\ lock = NoLock => lock' = NoLock
         /\ lock' = NoLock => lock = NoLock \/ lock.left = 1
         /\ \A q \in Procs :
              /\ timer[q] \in 0..Interval /\ wait[q] \in 0..Latency /\ age[q] \in Nat
              /\ tick[q].pc # "none" => wait'[q] = wait[q] + 1 /\ wait[q] < Latency
              /\ stop[q] = "no" => timer'[q] = timer[q] - 1 /\ timer[q] > 0
<1> USE TokensAre, TimesAre DEF VacancyInv, LeaseInv, TypeOK, TicksOK, MaybeToken
<1>1. vacant \in Nat /\ vacant' \in Nat /\ vacant' <= vacant + 1 /\ lock.left \in Nat /\ UNCHANGED <<token, tick, stop>>
  BY DEF TimePasses
<1>2. lock = [by |-> lock.by, left |-> lock.left] /\ (lock.by = NoToken <=> lock.left = 0)
  BY DEF LockTimed
<1>3. (lock = NoLock => lock' = NoLock) /\ (lock' = NoLock => lock = NoLock \/ lock.left = 1)
  <2>1. lock' = IF lock.left <= 1 THEN NoLock ELSE [lock EXCEPT !.left = @ - 1]
    BY DEF TimePasses
  <2>2. lock.left <= 1 \/ lock'.by = lock.by
    BY <2>1
  <2>3. lock = NoLock <=> lock.by = NoToken
    BY ONLY <1>2 DEF NoLock
  <2> QED BY ONLY <1>1, <1>2, <2>1, <2>2, <2>3 DEF NoLock
<1>4. ASSUME NEW q \in Procs
      PROVE  /\ timer[q] \in 0..Interval /\ wait[q] \in 0..Latency /\ age[q] \in Nat
             /\ tick[q].pc # "none" => wait'[q] = wait[q] + 1 /\ wait[q] < Latency
             /\ stop[q] = "no" => timer'[q] = timer[q] - 1 /\ timer[q] > 0
  BY DEF TimePasses, InFlight
<1> QED BY <1>1, <1>3, <1>4

(* Nobody who won the lock loses it while its answer is on its way.             *)
LEMMA WinnerKeeps ==
  ASSUME VacancyInv, Quick, TimePasses, NEW q \in Procs, tick[q].pc = "acquired"
  PROVE  lock' # NoLock /\ lock # NoLock
<1>1. wait[q] \in Nat /\ wait[q] < Latency /\ (lock' = NoLock => lock = NoLock \/ lock.left = 1)
  BY TimesPass
<1>2. lock.by = tick[q].by /\ lock.left + wait[q] >= TTL
  BY <1>1, TimesAre DEF Quick, VacancyInv, LeaseInv, AllPromised, Promised
<1>3. lock # NoLock
  BY <1>1, <1>2, TimesAre DEF NoLock, Quick
<1> QED BY <1>1, <1>2, <1>3, TimesAre DEF Quick

(* A competitor that nobody keeps waiting any longer than this is next.          *)
LEMMA CompetitorIsNext ==
  ASSUME VacancyInv, Quick, TimePasses, NEW q \in Procs, stop[q] = "no", ~Holder(q), lock = NoLock,
         vacant = TTL + Latency
  PROVE  NextUp(q)'
<1>1. Vacated(q) /\ (token[q] # NoToken => tick[q].pc \in {"none", "onAcquired", "extend", "extended", "refused", "threw"})
  BY DEF VacancyInv, AllVacated, LeaseInv, TypeOK, TicksOK, TakesToken
<1>2. /\ timer[q] \in 0..Interval /\ wait[q] \in 0..Latency /\ age[q] \in Nat
      /\ tick[q].pc # "none" => wait'[q] = wait[q] + 1 /\ wait[q] < Latency
      /\ timer'[q] = timer[q] - 1 /\ timer[q] > 0
      /\ UNCHANGED <<token, tick, stop>> /\ vacant' \in Nat /\ vacant' <= vacant + 1
  BY TimesPass
<1>3. token[q] = NoToken
  <2> SUFFICES ASSUME token[q] # NoToken PROVE FALSE
    OBVIOUS
  <2>1. Promised(q) /\ Unanswered(q)
    BY DEF VacancyInv, LeaseInv, AllPromised, AllAnswered
  <2>2. lock.by # token[q]
    BY DEF Holder
  <2>3. age[q] + Latency >= TTL /\ tick[q].pc # "extended"
    BY <1>2, <2>1, <2>2, TimesAre DEF Promised, Quick
  <2>4. tick[q].pc # "onAcquired"
    BY <1>2, <2>1, <2>3, TimesAre DEF Unanswered, Quick
  <2> QED BY <1>1, <1>2, <2>3, <2>4, TimesAre DEF Vacated, Quick
<1>4. tick[q].pc # "acquired"
  BY WinnerKeeps
<1>5. tick[q].pc \in {"none", "acquire"}
  BY <1>1, <1>2, <1>3, <1>4, TimesAre DEF Vacated, Competes
<1> QED BY <1>2, <1>3, <1>5, TimesAre DEF NextUp, Competes

(* A step that leaves the lock alone and whom will have it next.                *)
LEMMA LeftFreeKept ==
  ASSUME LeftFree, lock' = lock, vacant' \in {0, vacant}, \A q \in Procs : NextUp(q) => NextUp(q)'
  PROVE  LeftFree'
BY TimesAre DEF LeftFree

(* A free lock waits for the next tick of a competitor, which is its own.        *)
LEMMA LeftFreeStep == ASSUME VacancyInv, Quick, [Next]_vars PROVE LeftFree'
<1> USE TokensAre, TimesAre DEF VacancyInv, LeaseInv, TypeOK, TicksOK, MaybeToken, TakesToken, Stopped,
        Competes, Holder, Winner, OwnTokens, Uses, LockTimed, LeftFree, LeftBehind, NextUp, Quick, AllVacated,
        Vacated, AllPromised, Promised
<1>1. ASSUME NEW p \in Procs, Start(p) PROVE LeftFree'
  BY <1>1 DEF Start, Up
<1>2. ASSUME NEW p \in Procs, Tick(p) PROVE LeftFree'
  BY <1>2, FreshIsNew DEF Tick, Awaits
<1>3. ASSUME NEW p \in Procs, Acquire(p) PROVE LeftFree'
  BY <1>3 DEF Acquire, Awaits, TickEnds, SetNX, NoLock, Fault, NoFault
<1>4. ASSUME NEW p \in Procs, Acquired(p) PROVE LeftFree'
  <2>1. UNCHANGED <<lock, stop, vacant, timer>> /\ tick[p].pc = "acquired"
        /\ \A q \in Procs \ {p} : tick'[q] = tick[q] /\ token'[q] = token[q] /\ wait'[q] = wait[q]
    BY <1>4 DEF Acquired, Awaits
  <2> QED BY <2>1, LeftFreeKept
<1>5. ASSUME NEW p \in Procs, OnAcquired(p) PROVE LeftFree'
  <2>1. UNCHANGED <<lock, stop, timer>> /\ vacant' \in {0, vacant} /\ tick[p].pc = "onAcquired"
        /\ \A q \in Procs \ {p} : tick'[q] = tick[q] /\ token'[q] = token[q] /\ wait'[q] = wait[q]
    BY <1>5 DEF OnAcquired, Awaits, TickEnds, StartFails, Fault, NoFault
  <2> QED BY <2>1, LeftFreeKept
<1>6. ASSUME NEW p \in Procs, ReleaseBack(p) PROVE LeftFree'
  BY <1>6 DEF ReleaseBack, Awaits, TickEnds, DeleteIfHeld, NoLock, Fault, NoFault
<1>7. ASSUME NEW p \in Procs, Extend(p) PROVE LeftFree'
  <2>1. UNCHANGED <<stop, timer, token>> /\ vacant' \in {0, vacant} /\ tick[p].pc = "extend" /\ tick[p].by \in Tokens
        /\ \A q \in Procs \ {p} : tick'[q] = tick[q] /\ wait'[q] = wait[q]
    BY <1>7 DEF Extend, Awaits, Fault, NoFault
  <2>2. lock' = lock \/ (lock.by \in Tokens /\ lock'.by = lock.by)
    BY <1>7, <2>1 DEF Extend, PExpire
  <2> QED BY <2>1, <2>2, LeftFreeKept DEF NoLock
<1>8. ASSUME NEW p \in Procs, Extended(p) PROVE LeftFree'
  <2>1. UNCHANGED <<lock, stop, timer, token, vacant>> /\ tick[p].pc = "extended"
        /\ \A q \in Procs \ {p} : tick'[q] = tick[q] /\ wait'[q] = wait[q]
    BY <1>8 DEF Extended, Awaits, TickEnds
  <2> QED BY <2>1, LeftFreeKept
<1>9. ASSUME NEW p \in Procs, Refused(p) PROVE LeftFree'
  BY <1>9 DEF Refused, Awaits, TickEnds, Demote
<1>10. ASSUME NEW p \in Procs, Threw(p) PROVE LeftFree'
  BY <1>10 DEF Threw, Awaits, TickEnds, Demote, Unconfirmed
<1>11. ASSUME NEW p \in Procs, CallStop(p) PROVE LeftFree'
  BY <1>11 DEF CallStop, Awaits
<1>12. ASSUME NEW p \in Procs, ReleaseOnStop(p) PROVE LeftFree'
  BY <1>12 DEF ReleaseOnStop, DeleteIfHeld, NoLock, Fault, NoFault
<1>13. ASSUME NEW p \in Procs, Exit(p) PROVE LeftFree'
  BY <1>13 DEF Exit, Die, NoFault, NoTick
<1>14. ASSUME NEW p \in Procs, Crash(p) PROVE LeftFree'
  BY <1>14 DEF Crash, Die, Fault, NoTick, Up
<1>15. ASSUME TimePasses PROVE LeftFree'
  <2> SUFFICES ASSUME lock' = NoLock, \A q \in Procs : ~Holder(q), NEW r \in Procs, stop[r] = "no"
               PROVE  vacant' <= TTL + Latency \/ \E q \in Procs : NextUp(q)'
    BY <1>15 DEF TimePasses
  <2>1. CASE lock # NoLock
    <3>1. lock.left = 1 /\ vacant \in Nat /\ vacant' \in Nat /\ vacant' <= vacant + 1
      BY <1>15, <2>1, TimesPass
    <3>2. \A q \in Procs : ~Winner(q)
      BY <1>15, WinnerKeeps
    <3>3. LeftBehind /\ \A q \in Procs : ~Holder(q)
      OBVIOUS
    <3>4. vacant + lock.left <= TTL + Latency
      BY ONLY <2>1, <3>2, <3>3 DEF LeftBehind
    <3> QED BY ONLY <3>1, <3>4, TimesAre
  <2>2. CASE lock = NoLock /\ vacant < TTL + Latency
    <3>1. vacant \in Nat /\ vacant' \in Nat /\ vacant' <= vacant + 1
      BY <1>15, TimesPass
    <3> QED BY ONLY <2>2, <3>1, TimesAre
  <2>3. CASE lock = NoLock /\ vacant = TTL + Latency
    BY <1>15, <2>3, CompetitorIsNext
  <2>4. CASE lock = NoLock /\ vacant > TTL + Latency
    <3>1. PICK q \in Procs : NextUp(q)
      BY <2>4
    <3>2. NextUp(q)'
      BY ONLY <1>15, <3>1, TimesPass, TimesAre, VacancyInv DEF NextUp, Competes
    <3> QED BY <3>2
  <2>5. vacant \in Nat
    BY <1>15, TimesPass
  <2> QED BY ONLY <2>1, <2>2, <2>3, <2>4, <2>5, TimesAre
<1>16. CASE UNCHANGED vars
  BY <1>16 DEF vars
<1> QED BY <1>1, <1>2, <1>3, <1>4, <1>5, <1>6, <1>7, <1>8, <1>9, <1>10, <1>11, <1>12, <1>13, <1>14, <1>15, <1>16
        DEF Next

(* The bound itself follows from who is next.                                    *)
LEMMA BoundStep == ASSUME VacancyInv, Quick, [Next]_vars PROVE FailoverBound'
<1> USE TokensAre, TimesAre DEF VacancyInv, LeaseInv, TypeOK, TicksOK, MaybeToken, TakesToken, Stopped,
        Competes, Holder, Winner, OwnTokens, Uses, LockTimed, FailoverBound, LeftBehind, LeftFree, NextUp, Quick, AllVacated, Vacated, AllPromised, Promised
<1>1. ASSUME NEW p \in Procs, Start(p) PROVE FailoverBound'
  BY <1>1 DEF Start, Up
<1>2. ASSUME NEW p \in Procs, Tick(p) PROVE FailoverBound'
  BY <1>2, FreshIsNew DEF Tick, Awaits
<1>3. ASSUME NEW p \in Procs, Acquire(p) PROVE FailoverBound'
  BY <1>3 DEF Acquire, Awaits, TickEnds, SetNX, NoLock, Fault, NoFault
<1>4. ASSUME NEW p \in Procs, Acquired(p) PROVE FailoverBound'
  BY <1>4 DEF Acquired, Awaits
<1>5. ASSUME NEW p \in Procs, OnAcquired(p) PROVE FailoverBound'
  BY <1>5 DEF OnAcquired, Awaits, TickEnds, StartFails, Fault, NoFault
<1>6. ASSUME NEW p \in Procs, ReleaseBack(p) PROVE FailoverBound'
  BY <1>6 DEF ReleaseBack, Awaits, TickEnds, DeleteIfHeld, NoLock, Fault, NoFault
<1>7. ASSUME NEW p \in Procs, Extend(p) PROVE FailoverBound'
  BY <1>7 DEF Extend, Awaits, PExpire, Fault, NoFault
<1>8. ASSUME NEW p \in Procs, Extended(p) PROVE FailoverBound'
  BY <1>8 DEF Extended, Awaits, TickEnds
<1>9. ASSUME NEW p \in Procs, Refused(p) PROVE FailoverBound'
  BY <1>9 DEF Refused, Awaits, TickEnds, Demote
<1>10. ASSUME NEW p \in Procs, Threw(p) PROVE FailoverBound'
  BY <1>10 DEF Threw, Awaits, TickEnds, Demote, Unconfirmed
<1>11. ASSUME NEW p \in Procs, CallStop(p) PROVE FailoverBound'
  BY <1>11 DEF CallStop, Awaits
<1>12. ASSUME NEW p \in Procs, ReleaseOnStop(p) PROVE FailoverBound'
  BY <1>12 DEF ReleaseOnStop, DeleteIfHeld, NoLock, Fault, NoFault
<1>13. ASSUME NEW p \in Procs, Exit(p) PROVE FailoverBound'
  BY <1>13 DEF Exit, Die, NoFault, NoTick
<1>14. ASSUME NEW p \in Procs, Crash(p) PROVE FailoverBound'
  BY <1>14 DEF Crash, Die, Fault, NoTick, Up
<1>15. ASSUME TimePasses PROVE FailoverBound'
  <2>1. CASE (\E q \in Procs : Holder(q)) \/ ~\E q \in Procs : stop[q] = "no"
    BY <1>15, <2>1 DEF TimePasses
  <2>2. /\ vacant \in Nat /\ vacant' \in Nat /\ vacant' <= vacant + 1 /\ lock.left \in Nat
        /\ lock = NoLock => lock' = NoLock
        /\ \A q \in Procs : wait[q] \in Nat /\ (tick[q].pc # "none" => wait[q] < Latency)
    BY <1>15, TimesPass
  <2>3. CASE lock = NoLock
    <3>1. \A q \in Procs : timer'[q] \in Nat /\ wait'[q] \in 0..Latency
      BY LeaseTypeStep
    <3>2. LeftFree'
      BY LeftFreeStep
    <3> QED BY ONLY <2>2, <2>3, <3>1, <3>2, TimesAre DEF LeftFree, NextUp, FailoverBound, Interval
  <2>4. ASSUME NEW q \in Procs, Winner(q) PROVE FailoverBound'
    <3>1. vacant <= TTL + Interval + 2 * Latency + wait[q] /\ wait[q] < Latency
      BY <2>2, <2>4
    <3> QED BY ONLY <2>2, <3>1, TimesAre DEF FailoverBound, Interval
  <2>5. CASE lock # NoLock /\ \A q \in Procs : ~Holder(q) /\ ~Winner(q)
    <3>1. vacant + lock.left <= TTL + Latency /\ lock.left # 0
      BY <2>5 DEF NoLock
    <3> QED BY ONLY <2>2, <3>1, TimesAre DEF FailoverBound, Interval
  <2> QED BY <2>1, <2>3, <2>4, <2>5
<1>16. CASE UNCHANGED vars
  BY <1>16 DEF vars
<1> QED BY <1>1, <1>2, <1>3, <1>4, <1>5, <1>6, <1>7, <1>8, <1>9, <1>10, <1>11, <1>12, <1>13, <1>14, <1>15, <1>16
        DEF Next

(* What a process awaits bounds the vacancy, whatever it or another one does.    *)
LEMMA VacatedStep == ASSUME VacancyInv, Quick, [Next]_vars PROVE AllVacated'
<1> USE TokensAre, TimesAre DEF VacancyInv, LeaseInv, TypeOK, TicksOK, MaybeToken, TakesToken, Stopped,
        Competes, Holder, Winner, OwnTokens, Uses, LockTimed, AllVacated, Vacated, AllPromised, Promised, Quick, LeftFree, NextUp, AllAnswered, Unanswered
<1>1. ASSUME NEW p \in Procs, Start(p) PROVE AllVacated'
  BY <1>1 DEF Start, Up
<1>2. ASSUME NEW p \in Procs, Tick(p) PROVE AllVacated'
  BY <1>2, FreshIsNew DEF Tick, Awaits
<1>3. ASSUME NEW p \in Procs, Acquire(p) PROVE AllVacated'
  <2>1. /\ UNCHANGED <<token, age, timer, stop>> /\ vacant' \in {0, vacant} /\ tick[p].pc = "acquire" /\ token[p] = NoToken
        /\ \A q \in Procs \ {p} : tick'[q] = tick[q] /\ wait'[q] = wait[q]
    BY <1>3 DEF Acquire, Awaits, TickEnds, Fault, NoFault
  <2>2. lock' = lock \/ (lock = NoLock /\ lock'.by = tick[p].by)
    BY <1>3 DEF Acquire, SetNX
  <2>3. ASSUME NEW q \in Procs \ {p} PROVE Vacated(q)'
    <3>1. Winner(q)' => Winner(q)
      BY <2>1, <2>2
    <3>2. Holder(q)' => Holder(q)
      BY <2>1, <2>2
    <3> QED BY <2>1, <3>1, <3>2
  <2>4. /\ tick'[p].pc \in {"none", "acquired"} /\ wait'[p] = 0
        /\ tick'[p].pc = "acquired" => lock = NoLock /\ vacant' = vacant
    BY <1>3, <2>1 DEF Acquire, Awaits, TickEnds, Fault, NoFault
  <2>5. lock = NoLock => vacant <= TTL + Interval + 2 * Latency
    <3>1. vacant \in Nat /\ \A q \in Procs : timer[q] \in Nat /\ wait[q] \in 0..Latency
      OBVIOUS
    <3> QED BY <3>1
  <2> QED BY <2>1, <2>3, <2>4, <2>5
<1>4. ASSUME NEW p \in Procs, Acquired(p) PROVE AllVacated'
  BY <1>4 DEF Acquired, Awaits
<1>5. ASSUME NEW p \in Procs, OnAcquired(p) PROVE AllVacated'
  <2>1. /\ UNCHANGED <<lock, stop, age, timer>> /\ vacant' \in {0, vacant} /\ tick[p].pc = "onAcquired"
        /\ \A q \in Procs \ {p} : tick'[q] = tick[q] /\ token'[q] = token[q] /\ wait'[q] = wait[q]
    BY <1>5 DEF OnAcquired, Awaits, TickEnds, StartFails, Fault, NoFault
  <2>2. ASSUME NEW q \in Procs \ {p} PROVE Vacated(q)'
    BY <2>1, <2>2
  <2>3. CASE NoFault
    <3>1. tick'[p] = [pc |-> "none", by |-> NoToken] /\ UNCHANGED <<token, vacant>>
      BY <1>5, <2>3 DEF OnAcquired, Awaits, TickEnds, NoFault, Fault
    <3>2. token[p] # NoToken => Holder(p)
      <4>1. age[p] \in Nat /\ wait[p] \in 0..Latency /\ (token[p] # NoToken => age[p] <= wait[p])
        BY <2>1
      <4>2. token[p] # NoToken => age[p] + Latency < TTL
        BY ONLY <4>1, Quick, TimesAre DEF Quick, Interval
      <4> QED BY <4>2
    <3> QED BY <2>1, <2>2, <3>1, <3>2
  <2>4. CASE Fault
    <3>1. StartFails(p) /\ vacant' = 0 /\ \E pc \in {"none", "undo"} : \E by \in MaybeToken : Awaits(p, pc, by)
      <4>1. StartFails(p) /\ (IF token[p] = NoToken THEN TickEnds(p) ELSE Awaits(p, "undo", token[p]))
        BY <1>5, <2>4 DEF OnAcquired, NoFault, Fault
      <4> QED BY <2>4, <4>1 DEF TickEnds, Fault
    <3>2. tick'[p].pc \in {"none", "undo"} /\ token'[p] = NoToken /\ vacant' = 0 /\ wait'[p] = 0
      BY <3>1 DEF StartFails, Awaits
    <3>3. stop[p] # "off"
      BY <2>1
    <3> QED BY <2>1, <2>2, <3>2, <3>3
  <2> QED BY <1>5, <2>3, <2>4 DEF OnAcquired
<1>6. ASSUME NEW p \in Procs, ReleaseBack(p) PROVE AllVacated'
  BY <1>6 DEF ReleaseBack, Awaits, TickEnds, DeleteIfHeld, NoLock, Fault, NoFault
<1>7. ASSUME NEW p \in Procs, Extend(p) PROVE AllVacated'
  BY <1>7 DEF Extend, Awaits, PExpire, Fault, NoFault
<1>8. ASSUME NEW p \in Procs, Extended(p) PROVE AllVacated'
  BY <1>8 DEF Extended, Awaits, TickEnds
<1>9. ASSUME NEW p \in Procs, Refused(p) PROVE AllVacated'
  BY <1>9 DEF Refused, Awaits, TickEnds, Demote
<1>10. ASSUME NEW p \in Procs, Threw(p) PROVE AllVacated'
  BY <1>10 DEF Threw, Awaits, TickEnds, Demote, Unconfirmed
<1>11. ASSUME NEW p \in Procs, CallStop(p) PROVE AllVacated'
  BY <1>11 DEF CallStop, Awaits
<1>12. ASSUME NEW p \in Procs, ReleaseOnStop(p) PROVE AllVacated'
  BY <1>12 DEF ReleaseOnStop, DeleteIfHeld, NoLock, Fault, NoFault
<1>13. ASSUME NEW p \in Procs, Exit(p) PROVE AllVacated'
  BY <1>13 DEF Exit, Die, NoFault, NoTick
<1>14. ASSUME NEW p \in Procs, Crash(p) PROVE AllVacated'
  BY <1>14 DEF Crash, Die, Fault, NoTick, Up
<1>15. ASSUME TimePasses PROVE AllVacated'
  BY <1>15 DEF TimePasses, NoLock, InFlight
<1>16. CASE UNCHANGED vars
  BY <1>16 DEF vars
<1> QED BY <1>1, <1>2, <1>3, <1>4, <1>5, <1>6, <1>7, <1>8, <1>9, <1>10, <1>11, <1>12, <1>13, <1>14, <1>15, <1>16
        DEF Next


(* At first nobody competes.                                                    *)
LEMMA VacancyInitInv == ASSUME Init PROVE VacancyInv
<1>1. LeaseInv
  BY LeaseInitInv
<1>2. vacant = 0 /\ lock = NoLock /\ \A p \in Procs : token[p] = NoToken /\ tick[p].pc = "none" /\ stop[p] = "off"
  BY DEF Init, NoTick
<1>3. AllVacated
  BY <1>2, TimesAre DEF AllVacated, Vacated, Competes, Winner, Holder
<1>4. NobodyCompetes /\ LeftBehind /\ LeftFree /\ FailoverBound
  BY <1>2, TimesAre DEF NobodyCompetes, LeftBehind, LeftFree, FailoverBound, Interval
<1> QED BY <1>1, <1>3, <1>4 DEF VacancyInv

(* When a third of the TTL and two calls fit in the TTL (with the 15 seconds the *)
(* coordinator allows at least, calls of up to five), a competitor holds the     *)
(* lock within four thirds of the TTL and three calls of the holder's death, and *)
(* the holder itself has stopped in time: for any number of processes and faults.*)
THEOREM LeaseChangesHands ==
  ASSUME Interval + 2 * Latency <= TTL
  PROVE  Spec => []LeaseIsTimely
<1>0. Quick
  BY DEF Quick
<1>1. Init => VacancyInv
  BY VacancyInitInv
<1>2. VacancyInv /\ [Next]_vars => VacancyInv'
  <2> SUFFICES ASSUME VacancyInv, [Next]_vars PROVE VacancyInv'
    OBVIOUS
  <2>1. LeaseInv'
    BY LeaseTypeStep, TicksStep, OwnTokensStep, LockTimedStep, PromisedStep, StartsStep, UnansweredStep
    DEF VacancyInv, LeaseInv
  <2>2. AllVacated' /\ NobodyCompetes' /\ LeftBehind' /\ LeftFree' /\ FailoverBound'
    BY <1>0, VacatedStep, NobodyStep, LeftBehindStep, LeftFreeStep, BoundStep
  <2> QED BY <2>1, <2>2 DEF VacancyInv
<1>3. VacancyInv => FailoverBound
  BY DEF VacancyInv
<1> QED BY <1>1, <1>2, <1>3, NoOverstay, PTL DEF Spec, LeaseIsTimely

-----------------------------------------------------------------------------
(* SaleDecrement.                                                              *)
(* What SaleSentOnce rests on: rows and jobs are what they look like, ...      *)
SaleStatuses == {"none", "retryable", "pending", "applied", "blocked", "in_doubt"}
RowFits(r) == r = [status |-> r.status, work |-> r.work, qty |-> r.qty] /\ r.status \in SaleStatuses
JobShape(j) ==
  j \in [pc : {j.pc}, kind : {j.kind}, edit : {j.edit}, task : {j.task}, todo : {j.todo},
         answer : {j.answer}, figure : {j.figure}]
JobFits(j) ==
  /\ JobShape(j)
  /\ j.pc \notin {"idle", "list", "next"} => j.task.key \in SaleKeys
  /\ j.kind = "edit" => j.edit \in Edits
  /\ j.pc = "list" => j.kind \in {"cancel", "edit"}
  /\ \A task \in j.todo : task.key \in SaleKeys
SaleFits ==
  /\ saleCase \in SaleCases
  /\ saleRow = [key \in SaleKeys |-> saleRow[key]] /\ \A key \in SaleKeys : RowFits(saleRow[key])
  /\ saleJob = [p \in SaleProcs |-> saleJob[p]] /\ \A p \in SaleProcs : JobFits(saleJob[p])
  /\ saleSent \in [SaleKeys -> Nat]

(* ... a row that is claimed has one claimant, which knows whether its request *)
(* was sent; nobody else touches what the row says but to doubt it.            *)
HasClaim(p) == saleJob[p].pc \in {"call", "settle"}
ClaimHeld(j) ==
  /\ j.pc \in {"call", "settle"} => Status(j.task.key) \in {"pending", "in_doubt"}
  /\ j.pc = "call" => saleSent[j.task.key] = 0
  /\ j.pc = "settle" => /\ j.answer \in {"applied", "blocked", "in_doubt"}
                        /\ j.answer = "applied" => saleSent[j.task.key] = 1
                        /\ j.answer = "blocked" => saleSent[j.task.key] = 0
ClaimsHeld == \A p \in SaleProcs : ClaimHeld(saleJob[p])
ClaimsApart ==
  \A p, q \in SaleProcs : p # q /\ HasClaim(p) /\ HasClaim(q) => saleJob[p].task.key # saleJob[q].task.key
SaleInv == SaleFits /\ ClaimsHeld /\ ClaimsApart /\ SaleSentOnce

LEMMA SaleKeysAre ==
  /\ \A w \in Works : SaleKey(w) \in SaleKeys /\ BackKey(w) \in SaleKeys
  /\ \A e \in Edits, w \in Works \cup {0} : EditKey(e, w) \in SaleKeys
BY DEF SaleKeys

(* Where a job goes on, with the task it has.                                  *)
LEMMA ReachedFits ==
  ASSUME NEW j, JobFits(j), NEW pc, pc # "list",
         j.pc \notin {"idle", "list", "next"} \/ pc \in {"idle", "next"}
  PROVE  /\ JobFits(Reached(j, pc)) /\ Reached(j, pc).pc = pc
         /\ pc \notin {"idle", "next"} => /\ Reached(j, pc).task = j.task /\ Reached(j, pc).answer = j.answer
<1> USE DEF JobFits, JobShape
<1>1. CASE pc = "idle"
  BY <1>1 DEF Reached, IdleJob, NoTask
<1>2. CASE pc = "next"
  BY <1>2 DEF Reached, NoTask
<1>3. CASE pc \notin {"idle", "next"}
  BY <1>3 DEF Reached
<1> QED BY <1>1, <1>2, <1>3

(* What a step may do to rows it has no claim on: take one that was not sent   *)
(* for one that may be sent again, and doubt one that is claimed.              *)
RowsKept ==
  /\ saleRow' = [key \in SaleKeys |-> saleRow'[key]]
  /\ \A key \in SaleKeys :
       /\ RowFits(saleRow'[key])
       /\ \/ saleRow'[key].status = saleRow[key].status
          \/ {saleRow'[key].status, saleRow[key].status} \subseteq {"none", "retryable"}
          \/ saleRow[key].status = "pending" /\ saleRow'[key].status = "in_doubt"

LEMMA RowsSame == ASSUME SaleFits, UNCHANGED saleRow PROVE RowsKept
BY DEF SaleFits, RowsKept

LEMMA RecordKeepsRows == ASSUME SaleFits, NEW task, RecordRetryable(task) PROVE RowsKept
<1>1. CASE UNCHANGED saleRow
  BY <1>1, RowsSame
<1>2. CASE Status(task.key) \in {"none", "retryable"} /\ task.key \in SaleKeys
  <2> DEFINE r == [status |-> "retryable", work |-> task.work,
                   qty |-> IF Status(task.key) = "none" THEN task.qty ELSE saleRow[task.key].qty]
  <2>1. saleRow' = [saleRow EXCEPT ![task.key] = r]
    BY <1>2 DEF RecordRetryable
  <2>2. RowFits(r) /\ r.status = "retryable"
    BY DEF RowFits, SaleStatuses
  <2> HIDE DEF r
  <2>3. \A key \in SaleKeys : saleRow'[key] = IF key = task.key THEN r ELSE saleRow[key]
    BY <2>1 DEF SaleFits
  <2>4. saleRow' = [key \in SaleKeys |-> saleRow'[key]]
    BY <2>1 DEF SaleFits
  <2> QED BY <1>2, <2>2, <2>3, <2>4 DEF RowsKept, SaleFits, Status
<1>3. CASE task.key \notin SaleKeys
  <2>1. saleRow' = saleRow
    BY <1>3 DEF RecordRetryable, SaleFits
  <2> QED BY <2>1, RowsSame
<1> QED BY <1>1, <1>2, <1>3 DEF RecordRetryable

(* A job that claims nothing, and gives up what it claimed, leaves the claims  *)
(* of the others alone.                                                        *)
LEMMA QuietJob ==
  ASSUME SaleInv, RowsKept, UNCHANGED <<saleCase, saleSent>>,
         NEW p \in SaleProcs, NEW j, saleJob' = [saleJob EXCEPT ![p] = j], JobFits(j),
         j.pc \notin {"call", "settle"}
  PROVE  SaleInv'
<1>1. /\ saleJob' = [q \in SaleProcs |-> saleJob'[q]] /\ saleJob'[p] = j
      /\ \A q \in SaleProcs \ {p} : saleJob'[q] = saleJob[q]
  BY DEF SaleInv, SaleFits
<1>2. SaleFits'
  BY <1>1 DEF SaleInv, SaleFits, RowsKept
<1>3. ClaimsHeld'
  <2>1. ClaimHeld(saleJob[p])'
    BY <1>1 DEF ClaimHeld
  <2>2. ASSUME NEW q \in SaleProcs \ {p} PROVE ClaimHeld(saleJob[q])'
    <3>1. CASE HasClaim(q)
      <4>1. ClaimHeld(saleJob[q]) /\ saleJob[q].task.key \in SaleKeys /\ saleJob'[q] = saleJob[q]
        BY <1>1, <3>1 DEF SaleInv, SaleFits, JobFits, HasClaim, ClaimsHeld
      <4> QED BY <4>1 DEF ClaimHeld, RowsKept, Status
    <3>2. CASE ~HasClaim(q)
      BY <1>1, <3>2 DEF ClaimHeld, HasClaim
    <3> QED BY <3>1, <3>2
  <2> QED BY <2>1, <2>2 DEF ClaimsHeld
<1>4. ClaimsApart'
  BY <1>1 DEF SaleInv, ClaimsApart, HasClaim
<1>5. SaleSentOnce'
  BY DEF SaleInv, SaleSentOnce, RowsKept, Status
<1> QED BY <1>2, <1>3, <1>4, <1>5 DEF SaleInv

(* One that goes on without a claim.                                           *)
LEMMA QuietGoto ==
  ASSUME SaleInv, RowsKept, UNCHANGED <<saleCase, saleSent>>,
         NEW p \in SaleProcs, NEW pc, pc \notin {"call", "settle", "list"}, Goto(p, pc),
         saleJob[p].pc \notin {"idle", "list", "next"} \/ pc \in {"idle", "next"}
  PROVE  SaleInv'
<1>1. saleJob' = [saleJob EXCEPT ![p] = Reached(saleJob[p], pc)]
  BY DEF Goto
<1>2. JobFits(Reached(saleJob[p], pc)) /\ Reached(saleJob[p], pc).pc = pc
  BY ReachedFits DEF SaleInv, SaleFits
<1> QED BY <1>1, <1>2, QuietJob

(* A row that is claimed: nobody had a claim on it, and nothing was sent.      *)
LEMMA ClaimTaken ==
  ASSUME SaleInv, UNCHANGED <<saleCase, saleSent>>, NEW task, task.key \in SaleKeys, ClaimRow(task),
         NEW p \in SaleProcs, NEW j, saleJob' = [saleJob EXCEPT ![p] = j], JobFits(j),
         j.pc = "call", j.task = task
  PROVE  SaleInv'
<1>1. /\ saleJob' = [q \in SaleProcs |-> saleJob'[q]] /\ saleJob'[p] = j
      /\ \A q \in SaleProcs \ {p} : saleJob'[q] = saleJob[q]
  BY DEF SaleInv, SaleFits
<1> DEFINE r == [status |-> "pending", work |-> task.work,
                 qty |-> IF Status(task.key) = "none" THEN task.qty ELSE saleRow[task.key].qty]
<1>2. saleRow' = [saleRow EXCEPT ![task.key] = r]
  BY DEF ClaimRow
<1>3. RowFits(r) /\ r.status = "pending"
  BY DEF RowFits, SaleStatuses
<1> HIDE DEF r
<1>4. /\ \A key \in SaleKeys : saleRow'[key] = IF key = task.key THEN r ELSE saleRow[key]
      /\ saleRow' = [key \in SaleKeys |-> saleRow'[key]]
  BY <1>2 DEF SaleInv, SaleFits
<1>5. Status(task.key) \in {"none", "retryable"} /\ saleSent[task.key] = 0
  BY DEF SaleInv, SaleSentOnce, ClaimRow, Claimable
<1>6. SaleFits'
  BY <1>1, <1>3, <1>4 DEF SaleInv, SaleFits
<1>7. ASSUME NEW q \in SaleProcs \ {p}, HasClaim(q)
      PROVE  /\ saleJob[q].task.key # task.key /\ saleJob[q].task.key \in SaleKeys
             /\ ClaimHeld(saleJob[q])
  BY <1>5, <1>7 DEF SaleInv, SaleFits, JobFits, HasClaim, ClaimsHeld, ClaimHeld
<1>8. ClaimsHeld'
  <2>1. ClaimHeld(saleJob[p])'
    BY <1>1, <1>3, <1>4, <1>5 DEF ClaimHeld, Status
  <2>2. ASSUME NEW q \in SaleProcs \ {p} PROVE ClaimHeld(saleJob[q])'
    <3>1. CASE HasClaim(q)
      BY <1>1, <1>4, <1>7, <3>1 DEF ClaimHeld, Status
    <3>2. CASE ~HasClaim(q)
      BY <1>1, <3>2 DEF ClaimHeld, HasClaim
    <3> QED BY <3>1, <3>2
  <2> QED BY <2>1, <2>2 DEF ClaimsHeld
<1>9. ClaimsApart'
  BY <1>1, <1>7 DEF SaleInv, ClaimsApart, HasClaim
<1>10. SaleSentOnce'
  BY <1>3, <1>4, <1>5 DEF SaleInv, SaleSentOnce, Status
<1> QED BY <1>6, <1>8, <1>9, <1>10 DEF SaleInv

(* Every work of an order, and every edit of it, has its keys.                 *)
LEMMA TasksHaveKeys ==
  ASSUME SaleFits
  PROVE  /\ \A w \in Routed : SaleKey(w) \in SaleKeys
         /\ \A task \in RestoreTasks : task.key \in SaleKeys
         /\ \A e \in Edits : \A task \in EditTasks(e) : task.key \in SaleKeys
<1>1. Routed \subseteq Works
  BY SaleAssumption DEF Routed, SaleFits
<1>2. Sold \subseteq Works
  BY <1>1 DEF Sold
<1>3. \A task \in RestoreTasks : task.key \in SaleKeys
  BY <1>2, SaleKeysAre DEF RestoreTasks
<1>4. ASSUME NEW e \in Edits, NEW task \in EditTasks(e) PROVE task.key \in SaleKeys
  <2>1. \E w \in Sold : \E v \in {0, w} : task.key = EditKey(e, v)
    <3> DEFINE first(w) == \A v \in Sold : w <= v
    <3>1. \E w \in Sold : \E units :
            task = [key |-> EditKey(e, IF first(w) THEN 0 ELSE w), work |-> w, qty |-> units]
      BY <1>4, Zenon DEF EditTasks
    <3> QED BY <3>1
  <2>2. PICK w \in Sold : \E v \in {0, w} : task.key = EditKey(e, v)
    BY <2>1
  <2> QED BY <1>2, <2>2, SaleKeysAre
<1> QED BY <1>1, <1>3, <1>4, SaleKeysAre

LEMMA IdleJobFits ==
  /\ IdleJob.pc = "idle" /\ JobFits(IdleJob)
  /\ \A task : task.key \in SaleKeys =>
       JobFits([IdleJob EXCEPT !.pc = "lock", !.kind = "sell", !.task = task])
  /\ JobFits([IdleJob EXCEPT !.pc = "list", !.kind = "cancel"])
  /\ \A e \in Edits : JobFits([IdleJob EXCEPT !.pc = "list", !.kind = "edit", !.edit = e])
<1> USE DEF IdleJob, JobFits, JobShape, NoTask
<1>1. IdleJob.pc = "idle" /\ JobFits(IdleJob)
  OBVIOUS
<1>2. \A task : task.key \in SaleKeys =>
        JobFits([IdleJob EXCEPT !.pc = "lock", !.kind = "sell", !.task = task])
  OBVIOUS
<1>3. JobFits([IdleJob EXCEPT !.pc = "list", !.kind = "cancel"])
  OBVIOUS
<1>4. \A e \in Edits : JobFits([IdleJob EXCEPT !.pc = "list", !.kind = "edit", !.edit = e])
  OBVIOUS
<1> QED BY <1>1, <1>2, <1>3, <1>4

(* The request is sent, or the process dies while it is on its way.            *)
LEMMA SentOnce ==
  ASSUME SaleInv, UNCHANGED <<saleCase, saleRow>>, NEW p \in SaleProcs, JobAt(p, "call"),
         Lands(p) \/ UNCHANGED saleSent,
         NEW j, saleJob' = [saleJob EXCEPT ![p] = j], JobFits(j),
         \/ j.pc = "settle" /\ j.task = saleJob[p].task /\ j.answer = "in_doubt"
         \/ j.pc = "settle" /\ j.task = saleJob[p].task /\ j.answer = "applied" /\ Lands(p)
         \/ j.pc = "settle" /\ j.task = saleJob[p].task /\ j.answer = "blocked" /\ UNCHANGED saleSent
         \/ j.pc = "idle"
  PROVE  SaleInv'
<1> DEFINE key == saleJob[p].task.key
<1>1. /\ saleJob' = [q \in SaleProcs |-> saleJob'[q]] /\ saleJob'[p] = j
      /\ \A q \in SaleProcs \ {p} : saleJob'[q] = saleJob[q]
  BY DEF SaleInv, SaleFits
<1>2. /\ key \in SaleKeys /\ saleSent[key] = 0 /\ Status(key) \in {"pending", "in_doubt"}
      /\ HasClaim(p)
  BY DEF SaleInv, SaleFits, JobFits, JobAt, ClaimsHeld, ClaimHeld, HasClaim
<1>3. /\ \A k \in SaleKeys : k # key => saleSent'[k] = saleSent[k]
      /\ saleSent'[key] \in {0, 1} /\ saleSent' \in [SaleKeys -> Nat]
      /\ Lands(p) => saleSent'[key] = 1
  BY <1>2 DEF SaleInv, SaleFits, Lands
<1>4. SaleFits'
  BY <1>1, <1>3 DEF SaleInv, SaleFits
<1>5. ClaimsHeld'
  <2>1. ClaimHeld(saleJob[p])'
    BY <1>1, <1>2, <1>3 DEF ClaimHeld, Status
  <2>2. ASSUME NEW q \in SaleProcs \ {p} PROVE ClaimHeld(saleJob[q])'
    <3>1. CASE HasClaim(q)
      <4>1. /\ saleJob[q].task.key # key /\ saleJob[q].task.key \in SaleKeys
            /\ ClaimHeld(saleJob[q])
        BY <1>2, <3>1 DEF SaleInv, SaleFits, JobFits, ClaimsApart, HasClaim, ClaimsHeld
      <4> QED BY <1>1, <1>3, <4>1 DEF ClaimHeld, Status
    <3>2. CASE ~HasClaim(q)
      BY <1>1, <3>2 DEF ClaimHeld, HasClaim
    <3> QED BY <3>1, <3>2
  <2> QED BY <2>1, <2>2 DEF ClaimsHeld
<1>6. ClaimsApart'
  BY <1>1, <1>2 DEF SaleInv, ClaimsApart, HasClaim
<1>7. SaleSentOnce'
  BY <1>2, <1>3 DEF SaleInv, SaleSentOnce, Status
<1> QED BY <1>4, <1>5, <1>6, <1>7 DEF SaleInv

(* The answer is written to the row, whatever the row has come to say.         *)
LEMMA SettledRight ==
  ASSUME SaleInv, UNCHANGED <<saleCase, saleSent>>, NEW p \in SaleProcs, JobAt(p, "settle"),
         saleRow' = [saleRow EXCEPT ![saleJob[p].task.key].status = saleJob[p].answer],
         NEW j, saleJob' = [saleJob EXCEPT ![p] = j], JobFits(j), j.pc \notin {"call", "settle"}
  PROVE  SaleInv'
<1> DEFINE key == saleJob[p].task.key
           answer == saleJob[p].answer
<1>1. /\ saleJob' = [q \in SaleProcs |-> saleJob'[q]] /\ saleJob'[p] = j
      /\ \A q \in SaleProcs \ {p} : saleJob'[q] = saleJob[q]
  BY DEF SaleInv, SaleFits
<1>2. /\ key \in SaleKeys /\ HasClaim(p) /\ ClaimHeld(saleJob[p])
      /\ answer \in {"applied", "blocked", "in_doubt"}
  BY DEF SaleInv, SaleFits, JobFits, JobAt, ClaimsHeld, ClaimHeld, HasClaim
<1> DEFINE r == [saleRow[key] EXCEPT !.status = answer]
<1>3. RowFits(r) /\ r.status = answer
  BY <1>2 DEF SaleInv, SaleFits, RowFits, SaleStatuses
<1>4. /\ \A k \in SaleKeys : saleRow'[k] = IF k = key THEN r ELSE saleRow[k]
      /\ saleRow' = [k \in SaleKeys |-> saleRow'[k]]
  BY DEF SaleInv, SaleFits
<1> HIDE DEF r
<1>5. SaleFits'
  BY <1>1, <1>3, <1>4 DEF SaleInv, SaleFits
<1>6. ClaimsHeld'
  <2>1. ClaimHeld(saleJob[p])'
    BY <1>1 DEF ClaimHeld
  <2>2. ASSUME NEW q \in SaleProcs \ {p} PROVE ClaimHeld(saleJob[q])'
    <3>1. CASE HasClaim(q)
      <4>1. /\ saleJob[q].task.key # key /\ saleJob[q].task.key \in SaleKeys
            /\ ClaimHeld(saleJob[q])
        BY <1>2, <3>1 DEF SaleInv, SaleFits, JobFits, ClaimsApart, HasClaim, ClaimsHeld
      <4> QED BY <1>1, <1>4, <4>1 DEF ClaimHeld, Status
    <3>2. CASE ~HasClaim(q)
      BY <1>1, <3>2 DEF ClaimHeld, HasClaim
    <3> QED BY <3>1, <3>2
  <2> QED BY <2>1, <2>2 DEF ClaimsHeld
<1>7. ClaimsApart'
  BY <1>1 DEF SaleInv, ClaimsApart, HasClaim
<1>8. SaleSentOnce'
  <2>1. /\ answer = "applied" => saleSent[key] = 1
        /\ answer = "blocked" => saleSent[key] = 0
    BY <1>2 DEF ClaimHeld, JobAt
  <2> QED BY <1>2, <1>3, <1>4, <2>1 DEF SaleInv, SaleSentOnce, Status
<1> QED BY <1>5, <1>6, <1>7, <1>8 DEF SaleInv

LEMMA SaleInitInv == SaleInit => SaleInv
<1> SUFFICES ASSUME SaleInit PROVE SaleInv
  OBVIOUS
<1>1. RowFits(NoRow) /\ NoRow.status = "none"
  BY DEF RowFits, NoRow, SaleStatuses
<1>2. SaleFits
  BY <1>1, IdleJobFits DEF SaleInit, SaleFits
<1>3. \A p \in SaleProcs : saleJob[p].pc = "idle"
  BY IdleJobFits DEF SaleInit
<1>4. ClaimsHeld /\ ClaimsApart
  BY <1>3 DEF ClaimsHeld, ClaimHeld, ClaimsApart, HasClaim
<1>5. SaleSentOnce
  BY <1>1 DEF SaleInit, SaleSentOnce, Status
<1> QED BY <1>2, <1>4, <1>5 DEF SaleInv

(* An execution under the position's lock.                                     *)
LEMMA SellStep ==
  ASSUME SaleInv, NEW p \in SaleProcs,
         \/ StartSell(p) \/ LockPosition(p) \/ FindRow(p) \/ ClaimSale(p) \/ MarkInterrupted(p)
         \/ CallMaster(p) \/ SettleRow(p) \/ ConsumeHold(p) \/ Reread(p) \/ WriteMirror(p) \/ UnlockPosition(p)
  PROVE  SaleInv'
<1> USE DEF JobAt, saleOrder, saleMaster, JobEnds
<1>1. SaleFits /\ JobFits(saleJob[p])
  BY DEF SaleInv, SaleFits
<1>2. CASE StartSell(p)
  <2>1. PICK w \in Routed :
          saleJob' = [saleJob EXCEPT ![p] = [IdleJob EXCEPT !.pc = "lock", !.kind = "sell",
                        !.task = [key |-> SaleKey(w), work |-> w, qty |-> Owed(w)]]]
    BY <1>2 DEF StartSell
  <2> DEFINE task == [key |-> SaleKey(w), work |-> w, qty |-> Owed(w)]
             j == [IdleJob EXCEPT !.pc = "lock", !.kind = "sell", !.task = task]
  <2>2. task.key \in SaleKeys
    BY <1>1, TasksHaveKeys
  <2>3. JobFits(j)
    BY <2>2, IdleJobFits
  <2>4. j.pc = "lock"
    BY DEF IdleJob
  <2>5. saleJob' = [saleJob EXCEPT ![p] = j] /\ RowsKept /\ UNCHANGED <<saleCase, saleSent>>
    BY <1>1, <1>2, <2>1, RowsSame DEF StartSell
  <2> HIDE DEF j
  <2> QED BY <2>3, <2>4, <2>5, QuietJob
<1>3. CASE LockPosition(p)
  <2>1. /\ saleJob[p].pc = "lock" /\ UNCHANGED <<saleCase, saleSent>>
        /\ RowsKept /\ (Goto(p, "find") \/ Goto(p, "idle"))
    BY <1>1, <1>3, RowsSame, RecordKeepsRows DEF LockPosition
  <2> QED BY <2>1, QuietGoto
<1>4. CASE FindRow(p)
  <2>1. saleJob[p].pc \in {"find", "winner"} /\ UNCHANGED <<saleCase, saleSent>> /\ RowsKept
    BY <1>1, <1>4, RowsSame, RecordKeepsRows DEF FindRow
  <2>2. \E pc \in {"replayHold", "interrupt", "unlock", "claim"} : Goto(p, pc)
    BY <1>4 DEF FindRow, AfterFind
  <2> QED BY <2>1, <2>2, QuietGoto
<1>5. CASE ClaimSale(p)
  <2>1. CASE ClaimRow(saleJob[p].task) /\ Goto(p, "call")
    <3> DEFINE j == Reached(saleJob[p], "call")
    <3>1. /\ saleJob[p].task.key \in SaleKeys /\ saleJob[p].pc = "claim"
          /\ UNCHANGED <<saleCase, saleSent>>
      BY <1>1, <1>5 DEF JobFits, ClaimSale
    <3>2. saleJob' = [saleJob EXCEPT ![p] = j]
      BY <2>1 DEF Goto
    <3>3. JobFits(j) /\ j.pc = "call" /\ j.task = saleJob[p].task
      BY <1>1, <3>1, ReachedFits
    <3> HIDE DEF j
    <3> QED BY <2>1, <3>1, <3>2, <3>3, ClaimTaken
  <2>2. CASE Goto(p, "winner") /\ UNCHANGED saleRow
    BY <1>1, <1>5, <2>2, RowsSame, QuietGoto DEF ClaimSale
  <2> QED BY <1>5, <2>1, <2>2 DEF ClaimSale
<1>6. CASE MarkInterrupted(p)
  <2> DEFINE key == saleJob[p].task.key
  <2>1. saleJob[p].pc = "interrupt" /\ UNCHANGED <<saleCase, saleSent>> /\ key \in SaleKeys
    BY <1>1, <1>6 DEF MarkInterrupted, JobFits
  <2>2. CASE Status(key) = "pending" /\ saleRow' = [saleRow EXCEPT ![key].status = "in_doubt"] /\ Goto(p, "reread")
    <3> DEFINE r == [saleRow[key] EXCEPT !.status = "in_doubt"]
    <3>1. RowFits(r) /\ r.status = "in_doubt"
      BY <1>1, <2>1 DEF SaleFits, RowFits, SaleStatuses
    <3>2. /\ \A k \in SaleKeys : saleRow'[k] = IF k = key THEN r ELSE saleRow[k]
          /\ saleRow' = [k \in SaleKeys |-> saleRow'[k]]
      BY <1>1, <2>2 DEF SaleFits
    <3> HIDE DEF r
    <3>3. RowsKept
      BY <1>1, <2>2, <3>1, <3>2 DEF SaleFits, RowsKept, Status
    <3> QED BY <2>1, <2>2, <3>3, QuietGoto
  <2>3. CASE Goto(p, "unlock") /\ UNCHANGED saleRow
    BY <1>1, <2>1, <2>3, RowsSame, QuietGoto
  <2> QED BY <1>6, <2>2, <2>3 DEF MarkInterrupted
<1>7. CASE CallMaster(p)
  <2>1. PICK answer \in {"applied", "blocked", "in_doubt"} :
          /\ Answered(p, answer) /\ (Lands(p) \/ UNCHANGED saleSent)
          /\ answer = "applied" => Lands(p)
          /\ answer = "blocked" => UNCHANGED saleSent
    BY <1>7 DEF CallMaster
  <2> DEFINE j == [saleJob[p] EXCEPT !.pc = "settle", !.answer = answer, !.figure = saleStock']
  <2>2. saleJob' = [saleJob EXCEPT ![p] = j]
    BY <1>1, <2>1 DEF Answered, SaleFits
  <2>3. JobFits(j) /\ j.pc = "settle" /\ j.answer = answer /\ j.task = saleJob[p].task
    BY <1>1, <1>7 DEF JobFits, JobShape, CallMaster
  <2>4. JobAt(p, "call") /\ UNCHANGED <<saleCase, saleRow>>
    BY <1>7 DEF CallMaster
  <2> HIDE DEF j, JobAt
  <2> QED BY <2>1, <2>2, <2>3, <2>4, SentOnce
<1>8. CASE SettleRow(p)
  <2>1. saleJob[p].pc = "settle" /\ UNCHANGED <<saleCase, saleSent>>
    BY <1>8 DEF SettleRow
  <2>2. ASSUME saleRow' = [saleRow EXCEPT ![saleJob[p].task.key].status = saleJob[p].answer],
               NEW pc \in {"hold", "mirror", "reread", "unlock", "idle", "next"}, Goto(p, pc)
        PROVE  SaleInv'
    <3> DEFINE j == Reached(saleJob[p], pc)
    <3>1. saleJob' = [saleJob EXCEPT ![p] = j]
      BY <2>2 DEF Goto
    <3>2. JobFits(j) /\ j.pc = pc
      BY <1>1, <2>1, ReachedFits
    <3> HIDE DEF j
    <3> QED BY <2>1, <2>2, <3>1, <3>2, SettledRight
  <2>3. ASSUME UNCHANGED saleRow, NEW pc \in {"unlock", "idle"}, Goto(p, pc) PROVE SaleInv'
    BY <1>1, <2>1, <2>3, RowsSame, QuietGoto
  <2> QED BY <1>8, <2>2, <2>3 DEF SettleRow, RowDone
<1>9. CASE ConsumeHold(p)
  <2>1. /\ saleJob[p].pc \in {"hold", "replayHold"} /\ UNCHANGED <<saleCase, saleSent, saleRow>>
        /\ Goto(p, "mirror") \/ Goto(p, "unlock")
    BY <1>9 DEF ConsumeHold
  <2> QED BY <1>1, <2>1, RowsSame, QuietGoto
<1>10. CASE Reread(p)
  <2>1. saleJob[p].pc = "reread" /\ UNCHANGED <<saleCase, saleSent, saleRow>>
    BY <1>10 DEF Reread
  <2>2. CASE saleJob' = [saleJob EXCEPT ![p].pc = "mirror", ![p].figure = saleStock]
    <3> DEFINE j == [saleJob[p] EXCEPT !.pc = "mirror", !.figure = saleStock]
    <3>1. saleJob' = [saleJob EXCEPT ![p] = j]
      BY <1>1, <2>2 DEF SaleFits
    <3>2. JobFits(j) /\ j.pc = "mirror"
      BY <1>1, <2>1 DEF JobFits, JobShape
    <3> HIDE DEF j
    <3> QED BY <1>1, <2>1, <3>1, <3>2, RowsSame, QuietJob
  <2>3. CASE Goto(p, RowDone(p))
    BY <1>1, <2>1, <2>3, RowsSame, QuietGoto DEF RowDone
  <2> QED BY <1>10, <2>2, <2>3 DEF Reread
<1>11. CASE WriteMirror(p) \/ UnlockPosition(p)
  <2>1. /\ saleJob[p].pc \in {"mirror", "unlock"} /\ UNCHANGED <<saleCase, saleSent, saleRow>>
        /\ \E pc \in {"unlock", "idle", "next"} : Goto(p, pc)
    BY <1>11 DEF WriteMirror, UnlockPosition, RowDone
  <2> QED BY <1>1, <2>1, RowsSame, QuietGoto
<1> QED BY <1>2, <1>3, <1>4, <1>5, <1>6, <1>7, <1>8, <1>9, <1>10, <1>11

(* A return, and the death of a process.                                       *)
LEMMA ReturnStep ==
  ASSUME SaleInv, NEW p \in SaleProcs,
         \/ StartRestore(p) \/ StartEdit(p) \/ ListReturns(p) \/ NextReturn(p) \/ ReturnsEnd(p) \/ CrashSale(p)
  PROVE  SaleInv'
<1> USE DEF JobAt, saleOrder, saleMaster, JobEnds
<1>1. SaleFits /\ JobFits(saleJob[p])
  BY DEF SaleInv, SaleFits
<1>2. CASE StartRestore(p)
  <2> DEFINE j == [IdleJob EXCEPT !.pc = "list", !.kind = "cancel"]
  <2>1. JobFits(j)
    BY IdleJobFits
  <2>2. j.pc = "list" /\ saleJob' = [saleJob EXCEPT ![p] = j]
    BY <1>2 DEF StartRestore, IdleJob
  <2>3. RowsKept /\ UNCHANGED <<saleCase, saleSent>>
    BY <1>1, <1>2, RowsSame DEF StartRestore
  <2> HIDE DEF j
  <2> QED BY <2>1, <2>2, <2>3, QuietJob
<1>3. CASE StartEdit(p)
  <2>1. PICK e \in DOMAIN saleCase.edits :
          saleJob' = [saleJob EXCEPT ![p] = [IdleJob EXCEPT !.pc = "list", !.kind = "edit", !.edit = e]]
    BY <1>3 DEF StartEdit
  <2> DEFINE j == [IdleJob EXCEPT !.pc = "list", !.kind = "edit", !.edit = e]
  <2>2. e \in Edits
    BY <1>1, SaleAssumption DEF SaleFits
  <2>3. JobFits(j)
    BY <2>2, IdleJobFits
  <2>4. j.pc = "list" /\ saleJob' = [saleJob EXCEPT ![p] = j]
    BY <2>1 DEF IdleJob
  <2>5. RowsKept /\ UNCHANGED <<saleCase, saleSent>>
    BY <1>1, <1>3, RowsSame DEF StartEdit
  <2> HIDE DEF j
  <2> QED BY <2>3, <2>4, <2>5, QuietJob
<1>4. CASE ListReturns(p)
  <2>1. PICK tasks : /\ saleJob' = [saleJob EXCEPT ![p].todo = tasks, ![p].pc = "next"]
                     /\ \A task \in tasks : task.key \in SaleKeys
    <3>1. saleJob[p].kind # "cancel" => \A task \in EditTasks(saleJob[p].edit) : task.key \in SaleKeys
      BY <1>1, <1>4, TasksHaveKeys DEF JobFits, ListReturns
    <3>2. \A tasks : (/\ saleJob' = [saleJob EXCEPT ![p].todo = tasks, ![p].pc = "next"]
                      /\ tasks \in {RestoreTasks, {}, EditTasks(saleJob[p].edit)}
                      /\ saleJob[p].kind = "cancel" => tasks = RestoreTasks)
                     => \A task \in tasks : task.key \in SaleKeys
      BY <1>1, <3>1, TasksHaveKeys
    <3> QED BY <1>4, <3>2, Zenon DEF ListReturns
  <2> DEFINE j == [saleJob[p] EXCEPT !.todo = tasks, !.pc = "next"]
  <2>2. saleJob' = [saleJob EXCEPT ![p] = j]
    BY <1>1, <2>1 DEF SaleFits
  <2>3. JobFits(j) /\ j.pc = "next"
    BY <1>1, <2>1 DEF JobFits, JobShape
  <2>4. RowsKept /\ UNCHANGED <<saleCase, saleSent>>
    BY <1>1, <1>4, RowsSame DEF ListReturns
  <2> HIDE DEF j
  <2> QED BY <2>2, <2>3, <2>4, QuietJob
<1>5. CASE NextReturn(p)
  <2> DEFINE rest(task) == [saleJob[p] EXCEPT !.todo = @ \ {task}]
             reported(task, answer) ==
               IF rest(task).kind = "edit" /\ answer # "applied" THEN IdleJob ELSE rest(task)
  <2>1. PICK task \in saleJob[p].todo :
          \/ /\ saleJob' = [saleJob EXCEPT ![p] = reported(task, Status(task.key))]
             /\ UNCHANGED saleRow
          \/ /\ ClaimRow(task)
             /\ saleJob' = [saleJob EXCEPT ![p] = [rest(task) EXCEPT !.pc = "call", !.task = task]]
          \/ /\ RecordRetryable(task)
             /\ saleJob' = [saleJob EXCEPT ![p] = reported(task, "retryable")]
    BY <1>5 DEF NextReturn
  <2>2. UNCHANGED <<saleCase, saleSent>> /\ saleJob[p].pc = "next" /\ task.key \in SaleKeys
    BY <1>1, <1>5 DEF NextReturn, JobFits
  <2>3. \A answer : JobFits(reported(task, answer)) /\ reported(task, answer).pc \in {"idle", "next"}
    BY <1>1, <2>2, IdleJobFits DEF JobFits, JobShape
  <2>4. ASSUME NEW answer, UNCHANGED saleRow \/ RecordRetryable(task),
               saleJob' = [saleJob EXCEPT ![p] = reported(task, answer)]
        PROVE  SaleInv'
    <3> HIDE DEF reported
    <3>1. RowsKept
      BY <1>1, <2>4, RowsSame, RecordKeepsRows
    <3> QED BY <2>2, <2>3, <2>4, <3>1, QuietJob
  <2>5. ASSUME ClaimRow(task),
               saleJob' = [saleJob EXCEPT ![p] = [rest(task) EXCEPT !.pc = "call", !.task = task]]
        PROVE  SaleInv'
    <3> DEFINE j == [rest(task) EXCEPT !.pc = "call", !.task = task]
    <3>1. JobFits(j) /\ j.pc = "call" /\ j.task = task
      BY <1>1, <2>2 DEF JobFits, JobShape
    <3>2. saleJob' = [saleJob EXCEPT ![p] = j]
      BY <2>5
    <3> HIDE DEF j
    <3> QED BY <2>2, <2>5, <3>1, <3>2, ClaimTaken
  <2> QED
    <3> HIDE DEF rest, reported
    <3> QED BY <2>1, <2>4, <2>5
<1>6. CASE ReturnsEnd(p)
  <2>1. Goto(p, "idle") /\ UNCHANGED <<saleCase, saleSent>> /\ RowsKept
    BY <1>1, <1>6, RowsSame DEF ReturnsEnd
  <2> QED BY <2>1, QuietGoto
<1>7. CASE CrashSale(p)
  <2>1. Goto(p, "idle") /\ UNCHANGED <<saleCase, saleRow>>
    BY <1>7 DEF CrashSale
  <2>2. CASE UNCHANGED saleSent
    BY <1>1, <2>1, <2>2, RowsSame, QuietGoto
  <2>3. CASE JobAt(p, "call") /\ Lands(p)
    <3> DEFINE j == Reached(saleJob[p], "idle")
    <3>1. saleJob' = [saleJob EXCEPT ![p] = j]
      BY <2>1 DEF Goto
    <3>2. JobFits(j) /\ j.pc = "idle"
      BY <1>1, ReachedFits
    <3> HIDE DEF j, JobAt
    <3> QED BY <2>1, <2>3, <3>1, <3>2, SentOnce
  <2> QED BY <1>7, <2>2, <2>3 DEF CrashSale
<1> QED BY <1>2, <1>3, <1>4, <1>5, <1>6, <1>7

LEMMA SaleStepInv == SaleInv /\ [SaleNext]_saleVars => SaleInv'
<1> SUFFICES ASSUME SaleInv, [SaleNext]_saleVars PROVE SaleInv'
  OBVIOUS
<1>1. ASSUME UNCHANGED <<saleCase, saleRow, saleSent, saleJob>> PROVE SaleInv'
  BY <1>1 DEF SaleInv, SaleFits, ClaimsHeld, ClaimHeld, ClaimsApart, HasClaim, SaleSentOnce, Status
<1>2. CASE CancelOrder \/ SaleLockExpires \/ UNCHANGED saleVars
  BY <1>1, <1>2 DEF CancelOrder, SaleLockExpires, saleVars, saleOrder, saleMaster
<1> QED BY <1>2, SellStep, ReturnStep DEF SaleNext

(* For any orders, works, edits, executions and faults: the request of a key   *)
(* reaches the master once at most, and its row says applied only if it did,   *)
(* and retryable only if it did not (claim, settle, markInterrupted): the lock *)
(* is not needed for that.                                                     *)
THEOREM SalesAreSentOnce == SaleSpec => []SaleSentOnce
<1>1. SaleInv => SaleSentOnce
  BY DEF SaleInv
<1> QED BY <1>1, SaleInitInv, SaleStepInv, PTL DEF SaleSpec

-----------------------------------------------------------------------------
(* What a step does, field by field.                                           *)
Alone(p) == \A q \in SaleProcs \ {p} : saleJob'[q] = saleJob[q]
Goes(p, pc) ==
  /\ Alone(p) /\ saleJob'[p].pc = pc
  /\ pc = "idle" => saleJob'[p] = IdleJob
  /\ pc # "idle" => /\ saleJob'[p].kind = saleJob[p].kind /\ saleJob'[p].edit = saleJob[p].edit
                    /\ saleJob'[p].todo = saleJob[p].todo
  /\ pc \notin {"idle", "next"} => /\ saleJob'[p].task = saleJob[p].task /\ saleJob'[p].answer = saleJob[p].answer
                                   /\ saleJob'[p].figure = saleJob[p].figure
RowBecomes(key, r) == \A k \in SaleKeys : saleRow'[k] = IF k = key THEN r ELSE saleRow[k]
Recorded(task) ==
  [status |-> "retryable", work |-> task.work,
   qty |-> IF Status(task.key) = "none" THEN task.qty ELSE saleRow[task.key].qty]
ClaimedAs(task) == [Recorded(task) EXCEPT !.status = "pending"]

LEMMA GotoGoes == ASSUME SaleFits, NEW p \in SaleProcs, NEW pc, Goto(p, pc) PROVE Goes(p, pc)
<1>1. saleJob' = [saleJob EXCEPT ![p] = Reached(saleJob[p], pc)] /\ JobShape(saleJob[p])
  BY DEF Goto, SaleFits, JobFits
<1>2. saleJob'[p] = Reached(saleJob[p], pc) /\ Alone(p)
  BY <1>1 DEF SaleFits, Alone
<1>3. CASE pc = "idle"
  BY <1>2, <1>3 DEF Goes, Reached, IdleJob
<1>4. CASE pc = "next"
  <2>1. saleJob'[p] = [saleJob[p] EXCEPT !.pc = "next", !.task = NoTask, !.answer = "none", !.figure = 0]
    BY <1>2, <1>4 DEF Reached
  <2>2. /\ saleJob'[p].pc = "next" /\ saleJob'[p].kind = saleJob[p].kind /\ saleJob'[p].edit = saleJob[p].edit
        /\ saleJob'[p].todo = saleJob[p].todo
    <3>1. DOMAIN saleJob[p] = {"pc", "kind", "edit", "task", "todo", "answer", "figure"}
      BY <1>1 DEF JobShape
    <3> QED BY <2>1, <3>1
  <2> QED BY <1>2, <1>4, <2>2 DEF Goes
<1>5. CASE pc \notin {"idle", "next"}
  BY <1>1, <1>2, <1>5 DEF Goes, Reached, JobShape
<1> QED BY <1>3, <1>4, <1>5

LEMMA RecordIs ==
  ASSUME SaleFits, NEW task, task.key \in SaleKeys, RecordRetryable(task)
  PROVE  \/ Claimable(task.key) /\ RowBecomes(task.key, Recorded(task))
         \/ ~Claimable(task.key) /\ UNCHANGED saleRow
BY DEF RecordRetryable, RowBecomes, Recorded, SaleFits, Claimable

LEMMA ClaimIs ==
  ASSUME SaleFits, NEW task, task.key \in SaleKeys, ClaimRow(task)
  PROVE  /\ Claimable(task.key) /\ RowBecomes(task.key, ClaimedAs(task))
         /\ saleUnsure' = (saleUnsure \/ (Status(task.key) = "retryable" /\ saleRow[task.key].qty # task.qty))
BY DEF ClaimRow, RowBecomes, ClaimedAs, Recorded, SaleFits

(* A claim is given up by nobody but its claimant: a row goes on from status to *)
(* status, and what was asked for stays.                                        *)
Onward(r, s) ==
  /\ r.status = "applied" => s.status = "applied"
  /\ r.status # "none" => s.status # "none" /\ s.qty = r.qty
  /\ r.status \notin {"none", "retryable"} => s.work = r.work /\ s.status \notin {"none", "retryable"}
  /\ r.status \notin {"pending", "in_doubt"} /\ s.status \in {"pending", "in_doubt"} =>
       r.status \in {"none", "retryable"} /\ s.status = "pending"
RowsGoOn == \A key \in SaleKeys : Onward(saleRow[key], saleRow'[key])

LEMMA SameGoesOn == ASSUME UNCHANGED saleRow PROVE RowsGoOn
BY DEF RowsGoOn, Onward

LEMMA RecordGoesOn ==
  ASSUME SaleFits, NEW task, task.key \in SaleKeys, RecordRetryable(task) PROVE RowsGoOn
<1>1. CASE UNCHANGED saleRow
  BY <1>1, SameGoesOn
<1>2. CASE Claimable(task.key) /\ RowBecomes(task.key, Recorded(task))
  BY <1>2 DEF RowBecomes, Recorded, RowsGoOn, Onward, Claimable, Status
<1> QED BY <1>1, <1>2, RecordIs

LEMMA ClaimGoesOn ==
  ASSUME SaleFits, NEW task, task.key \in SaleKeys, ClaimRow(task) PROVE RowsGoOn
<1>1. Claimable(task.key) /\ RowBecomes(task.key, ClaimedAs(task))
  BY ClaimIs
<1> QED BY <1>1 DEF RowBecomes, ClaimedAs, Recorded, RowsGoOn, Onward, Claimable, Status

LEMMA MarkGoesOn ==
  ASSUME SaleFits, NEW key \in SaleKeys, NEW status,
         \/ Status(key) = "pending" /\ status = "in_doubt"
         \/ Status(key) \in {"pending", "in_doubt"} /\ status \in {"applied", "blocked", "in_doubt"},
         saleRow' = [saleRow EXCEPT ![key].status = status]
  PROVE  RowsGoOn /\ RowBecomes(key, [saleRow[key] EXCEPT !.status = status])
<1>1. RowBecomes(key, [saleRow[key] EXCEPT !.status = status]) /\ RowFits(saleRow[key])
  BY DEF RowBecomes, SaleFits
<1> QED BY <1>1 DEF RowBecomes, RowsGoOn, Onward, Status, RowFits

LEMMA RowsAlwaysGoOn == ASSUME SaleInv, [SaleNext]_saleVars PROVE RowsGoOn
<1>0. /\ SaleFits /\ \A p \in SaleProcs : JobFits(saleJob[p]) /\ ClaimHeld(saleJob[p])
  BY DEF SaleInv, SaleFits, ClaimsHeld
<1>1. ASSUME NEW p \in SaleProcs, LockPosition(p) PROVE RowsGoOn
  <2>1. saleJob[p].task.key \in SaleKeys
    BY <1>0, <1>1 DEF LockPosition, JobAt, JobFits
  <2> QED BY <1>0, <1>1, <2>1, SameGoesOn, RecordGoesOn DEF LockPosition
<1>2. ASSUME NEW p \in SaleProcs, FindRow(p) PROVE RowsGoOn
  <2>1. saleJob[p].task.key \in SaleKeys
    BY <1>0, <1>2 DEF FindRow, JobAt, JobFits
  <2> QED BY <1>0, <1>2, <2>1, SameGoesOn, RecordGoesOn DEF FindRow
<1>3. ASSUME NEW p \in SaleProcs, ClaimSale(p) PROVE RowsGoOn
  <2>1. saleJob[p].task.key \in SaleKeys
    BY <1>0, <1>3 DEF ClaimSale, JobAt, JobFits
  <2> QED BY <1>0, <1>3, <2>1, SameGoesOn, ClaimGoesOn DEF ClaimSale
<1>4. ASSUME NEW p \in SaleProcs, MarkInterrupted(p) PROVE RowsGoOn
  <2>1. saleJob[p].task.key \in SaleKeys
    BY <1>0, <1>4 DEF MarkInterrupted, JobAt, JobFits
  <2> QED BY <1>0, <1>4, <2>1, SameGoesOn, MarkGoesOn DEF MarkInterrupted
<1>5. ASSUME NEW p \in SaleProcs, SettleRow(p) PROVE RowsGoOn
  <2>1. /\ saleJob[p].task.key \in SaleKeys /\ saleJob[p].answer \in {"applied", "blocked", "in_doubt"}
        /\ Status(saleJob[p].task.key) \in {"pending", "in_doubt"}
    BY <1>0, <1>5 DEF SettleRow, JobAt, JobFits, ClaimHeld
  <2> QED BY <1>0, <1>5, <2>1, SameGoesOn, MarkGoesOn DEF SettleRow
<1>6. ASSUME NEW p \in SaleProcs, NextReturn(p) PROVE RowsGoOn
  <2>1. PICK task \in saleJob[p].todo : ClaimRow(task) \/ RecordRetryable(task) \/ UNCHANGED saleRow
    BY <1>6, Zenon DEF NextReturn
  <2>2. task.key \in SaleKeys
    BY <1>0 DEF JobFits
  <2> QED BY <1>0, <2>1, <2>2, SameGoesOn, RecordGoesOn, ClaimGoesOn
<1>7. ASSUME UNCHANGED saleRow PROVE RowsGoOn
  BY <1>7, SameGoesOn
<1> QED BY <1>1, <1>2, <1>3, <1>4, <1>5, <1>6, <1>7
        DEF SaleNext, saleVars, StartSell, CallMaster, ConsumeHold, Reread, WriteMirror, UnlockPosition,
            StartRestore, StartEdit, ListReturns, ReturnsEnd, CrashSale, CancelOrder, SaleLockExpires

-----------------------------------------------------------------------------
(* What an execution is doing: a sale of a work, under the lock, or a return.   *)
AtSale == {"lock", "find", "winner", "claim", "interrupt", "hold", "replayHold", "unlock"}
AtReturn == {"list", "next"}
AtMaster == {"call", "settle", "mirror", "reread"}
SaleTask(task) ==
  \E w \in Routed : task.key = SaleKey(w) /\ task.work = w /\ task.qty \in 0..saleCase.qty[w]
JobKind(j) ==
  /\ j.kind \in {"none", "sell", "cancel", "edit"}
  /\ j.pc = "idle" <=> j.kind = "none"
  /\ j.kind = "sell" => j.pc \in AtSale \cup AtMaster /\ SaleTask(j.task)
  /\ j.kind \in {"cancel", "edit"} =>
       /\ j.pc \in AtReturn \cup AtMaster
       /\ j.pc \in AtMaster => j.task.key \in Returns /\ Status(j.task.key) # "none"
  /\ j.kind = "edit" => j.edit \in DOMAIN saleCase.edits
  /\ j.pc \in {"hold", "replayHold"} => Status(j.task.key) = "applied"
ReturnTasks(j) == \A task \in j.todo : task.key \in Returns
CutsAre == saleCut \in [Works -> Nat]
JobKinds == \A p \in SaleProcs : JobKind(saleJob[p]) /\ ReturnTasks(saleJob[p])

LEMMA RoutedAre ==
  ASSUME SaleFits
  PROVE  /\ Routed \subseteq Works /\ \A w \in Routed : saleCase.qty[w] \in Nat
         /\ DOMAIN saleCase.edits \subseteq Edits /\ \A e \in DOMAIN saleCase.edits : saleCase.edits[e] \in Nat
BY SaleAssumption DEF SaleFits, Routed

LEMMA KeysDiffer ==
  /\ \A w \in Works : SaleKey(w) \notin Returns
  /\ \A w \in Works : BackKey(w) \in Returns /\ Family(BackKey(w)) = <<"back">>
  /\ \A e \in Edits, w \in Works \cup {0} : EditKey(e, w) \in Returns /\ Family(EditKey(e, w)) = <<"edit", e>>
BY SaleKeysAre DEF Returns, SaleKey, BackKey, EditKey, Family

LEMMA CutsStep == ASSUME SaleFits, CutsAre, [SaleNext]_saleVars PROVE CutsAre'
<1>1. ASSUME NEW p \in SaleProcs, StartEdit(p) PROVE CutsAre'
  <2>1. PICK e \in DOMAIN saleCase.edits :
          \/ UNCHANGED saleCut
          \/ \E cut \in [Works -> 0..saleCase.edits[e]] : saleCut' = [w \in Works |-> saleCut[w] + cut[w]]
    BY <1>1 DEF StartEdit
  <2> QED BY <2>1, RoutedAre DEF CutsAre
<1>2. ASSUME UNCHANGED saleCut PROVE CutsAre'
  BY <1>2 DEF CutsAre
<1> QED BY <1>1, <1>2
        DEF SaleNext, saleVars, saleOrder, StartSell, LockPosition, FindRow, ClaimSale, MarkInterrupted,
        CallMaster, SettleRow, ConsumeHold, Reread, WriteMirror, UnlockPosition, StartRestore, ListReturns,
        NextReturn, ReturnsEnd, CrashSale, CancelOrder, SaleLockExpires

(* The order at hand is the same.                                              *)
LEMMA SameOrder == ASSUME [SaleNext]_saleVars PROVE UNCHANGED saleCase
BY DEF SaleNext, saleVars, saleOrder, StartSell, LockPosition, FindRow, ClaimSale, MarkInterrupted, CallMaster,
       SettleRow, ConsumeHold, Reread, WriteMirror, UnlockPosition, StartRestore, StartEdit, ListReturns,
       NextReturn, ReturnsEnd, CrashSale, CancelOrder, SaleLockExpires

(* The executions a step leaves alone are doing what they did.                 *)
LEMMA KindsKept ==
  ASSUME SaleFits, JobKinds, RowsGoOn, UNCHANGED saleCase, NEW p \in SaleProcs, Alone(p),
         JobKind(saleJob[p])', ReturnTasks(saleJob[p])'
  PROVE  JobKinds'
<1>1. ASSUME NEW q \in SaleProcs \ {p} PROVE JobKind(saleJob[q])' /\ ReturnTasks(saleJob[q])'
  <2>1. /\ JobKind(saleJob[q]) /\ JobFits(saleJob[q]) /\ ReturnTasks(saleJob[q]) /\ saleJob'[q] = saleJob[q]
        /\ Routed' = Routed
    BY DEF JobKinds, SaleFits, Alone, Routed
  <2> QED BY <2>1
          DEF JobKind, JobFits, ReturnTasks, SaleTask, RowsGoOn, Onward, Status, AtSale, AtReturn, AtMaster
<1> QED BY <1>1 DEF JobKinds

(* One that goes on in the same sale or return, to where that may go.          *)
LEMMA GoesKeepsKind ==
  ASSUME SaleFits, JobKinds, RowsGoOn, UNCHANGED saleCase, NEW p \in SaleProcs, NEW pc, Goes(p, pc),
         saleJob[p].pc # "idle",
         \/ pc = "idle"
         \/ /\ Selling(p) /\ pc \in AtSale \cup AtMaster
            /\ pc \in {"hold", "replayHold"} => saleRow'[saleJob[p].task.key].status = "applied"
         \/ ~Selling(p) /\ pc = "next"
         \/ ~Selling(p) /\ pc \in AtMaster /\ saleJob[p].pc \in AtMaster
  PROVE  JobKinds'
<1>1. JobKind(saleJob[p]) /\ ReturnTasks(saleJob[p]) /\ JobFits(saleJob[p]) /\ Routed' = Routed
  BY DEF JobKinds, SaleFits, Routed
<1>2. Alone(p) /\ saleJob'[p].pc = pc
  BY DEF Goes
<1>3. CASE pc = "idle"
  <2>1. saleJob'[p] = IdleJob
    BY <1>3 DEF Goes
  <2>2. JobKind(saleJob[p])' /\ ReturnTasks(saleJob[p])'
    BY <2>1 DEF IdleJob, JobKind, ReturnTasks, AtReturn, AtMaster
  <2> QED BY <1>2, <2>2, KindsKept
<1>4. CASE pc # "idle"
  <2>1. /\ saleJob'[p].kind = saleJob[p].kind /\ saleJob'[p].edit = saleJob[p].edit
        /\ saleJob'[p].todo = saleJob[p].todo
    BY <1>4 DEF Goes
  <2>2. pc # "next" => saleJob'[p].task = saleJob[p].task
    BY <1>4 DEF Goes
  <2>3. ReturnTasks(saleJob[p])'
    BY <1>1, <2>1 DEF ReturnTasks
  <2>4. JobKind(saleJob[p])'
    BY <1>1, <1>2, <1>4, <2>1, <2>2 DEF JobKind, JobFits, SaleTask, RowsGoOn, Onward, Status, AtSale, AtReturn,
       AtMaster, Selling
  <2> QED BY <1>2, <2>3, <2>4, KindsKept
<1> QED BY <1>3, <1>4

(* A line has its units left, and an edit of it returns what it cuts.           *)
LEMMA TasksAre ==
  ASSUME SaleFits
  PROVE  /\ CutsAre => \A w \in Routed : Owed(w) > 0 => Owed(w) \in 0..saleCase.qty[w]
         /\ \A task \in RestoreTasks : task.key \in Returns
         /\ \A e \in Edits : \A task \in EditTasks(e) : task.key \in Returns
<1>1. Sold \subseteq Works /\ Routed \subseteq Works
  BY RoutedAre DEF Sold
<1>2. CutsAre => \A w \in Routed : Owed(w) > 0 => Owed(w) \in 0..saleCase.qty[w]
  BY <1>1, RoutedAre DEF CutsAre, Owed
<1>3. \A task \in RestoreTasks : task.key \in Returns
  BY <1>1, KeysDiffer DEF RestoreTasks
<1>4. ASSUME NEW e \in Edits, NEW task \in EditTasks(e) PROVE task.key \in Returns
  <2> DEFINE first(w) == \A v \in Sold : w <= v
  <2>1. \E w \in Sold : \E units :
          task = [key |-> EditKey(e, IF first(w) THEN 0 ELSE w), work |-> w, qty |-> units]
    BY <1>4, Zenon DEF EditTasks
  <2> QED BY <1>1, <2>1, KeysDiffer
<1> QED BY <1>2, <1>3, <1>4

LEMMA SaleKindsStep ==
  ASSUME SaleInv, JobKinds, CutsAre, [SaleNext]_saleVars, NEW p \in SaleProcs,
         \/ StartSell(p) \/ LockPosition(p) \/ FindRow(p) \/ ClaimSale(p) \/ MarkInterrupted(p)
         \/ CallMaster(p) \/ SettleRow(p) \/ ConsumeHold(p) \/ Reread(p) \/ WriteMirror(p) \/ UnlockPosition(p)
  PROVE  JobKinds'
<1>0. /\ SaleFits /\ RowsGoOn /\ UNCHANGED saleCase /\ Routed' = Routed
      /\ JobKind(saleJob[p]) /\ JobFits(saleJob[p]) /\ JobShape(saleJob[p]) /\ ReturnTasks(saleJob[p])
  BY RowsAlwaysGoOn, SameOrder DEF SaleInv, SaleFits, JobKinds, Routed, JobFits
<1> USE DEF JobAt, JobEnds
<1>1. CASE StartSell(p)
  <2>1. PICK w \in Routed :
          /\ Owed(w) > 0
          /\ saleJob' = [saleJob EXCEPT ![p] = [IdleJob EXCEPT !.pc = "lock", !.kind = "sell",
                           !.task = [key |-> SaleKey(w), work |-> w, qty |-> Owed(w)]]]
    BY <1>1 DEF StartSell
  <2>2. /\ Alone(p) /\ saleJob'[p].pc = "lock" /\ saleJob'[p].kind = "sell" /\ saleJob'[p].todo = {}
        /\ saleJob'[p].task = [key |-> SaleKey(w), work |-> w, qty |-> Owed(w)]
    BY <1>0, <2>1 DEF Alone, SaleFits, IdleJob
  <2>3. JobKind(saleJob[p])' /\ ReturnTasks(saleJob[p])'
    BY <1>0, <2>1, <2>2, TasksAre DEF JobKind, ReturnTasks, SaleTask, AtSale
  <2> QED BY <1>0, <2>2, <2>3, KindsKept
<1>2. CASE LockPosition(p) \/ ClaimSale(p) \/ UnlockPosition(p)
  <2>1. saleJob[p].pc \in {"lock", "claim", "unlock"} /\ \E pc \in {"find", "idle", "call", "winner"} : Goto(p, pc)
    BY <1>2 DEF LockPosition, ClaimSale, UnlockPosition
  <2>2. Selling(p)
    BY <1>0, <2>1 DEF JobKind, AtReturn, AtMaster, Selling
  <2> QED BY <1>0, <2>1, <2>2, GotoGoes, GoesKeepsKind DEF AtSale, AtMaster
<1>3. CASE FindRow(p)
  <2>1. /\ saleJob[p].pc \in {"find", "winner"} /\ saleJob[p].task.key \in SaleKeys
        /\ \E pc \in {"replayHold", "interrupt", "claim", "unlock"} :
             Goto(p, pc) /\ (pc = "replayHold" => Status(saleJob[p].task.key) = "applied")
    BY <1>0, <1>3 DEF FindRow, AfterFind, JobFits
  <2>2. /\ Selling(p)
        /\ Status(saleJob[p].task.key) = "applied" => saleRow'[saleJob[p].task.key].status = "applied"
    BY <1>0, <2>1 DEF JobKind, AtReturn, AtMaster, Selling, RowsGoOn, Onward, Status
  <2> QED BY <1>0, <2>1, <2>2, GotoGoes, GoesKeepsKind DEF AtSale, AtMaster
<1>4. CASE MarkInterrupted(p)
  <2>1. saleJob[p].pc = "interrupt" /\ \E pc \in {"reread", "unlock"} : Goto(p, pc)
    BY <1>4 DEF MarkInterrupted
  <2>2. Selling(p)
    BY <1>0, <2>1 DEF JobKind, AtReturn, AtMaster, Selling
  <2> QED BY <1>0, <2>1, <2>2, GotoGoes, GoesKeepsKind DEF AtSale, AtMaster
<1>5. CASE CallMaster(p)
  <2>1. PICK answer : Answered(p, answer)
    BY <1>5 DEF CallMaster
  <2>2. /\ Alone(p) /\ saleJob[p].pc = "call" /\ saleJob'[p].pc = "settle" /\ saleJob'[p].kind = saleJob[p].kind
        /\ saleJob'[p].todo = saleJob[p].todo /\ saleJob'[p].task = saleJob[p].task /\ saleJob'[p].edit = saleJob[p].edit
    BY <1>0, <1>5, <2>1 DEF Answered, Alone, SaleFits, JobShape, CallMaster
  <2>3. JobKind(saleJob[p])' /\ ReturnTasks(saleJob[p])'
    BY <1>0, <2>2
    DEF JobKind, JobFits, ReturnTasks, SaleTask, AtSale, AtReturn, AtMaster, RowsGoOn, Onward, Status
  <2> QED BY <1>0, <2>2, <2>3, KindsKept
<1>6. CASE SettleRow(p)
  <2>1. /\ saleJob[p].pc = "settle" /\ saleJob[p].task.key \in SaleKeys
        /\ \E pc \in {"hold", "mirror", "reread", "unlock", "idle", "next"} :
             /\ Goto(p, pc)
             /\ pc \in {"hold", "unlock"} => Selling(p)
             /\ pc = "next" => ~Selling(p)
             /\ pc = "hold" => saleRow' = [saleRow EXCEPT ![saleJob[p].task.key].status = "applied"]
    BY <1>0, <1>6 DEF SettleRow, RowDone, JobFits
  <2>2. saleRow' = [saleRow EXCEPT ![saleJob[p].task.key].status = "applied"] =>
          saleRow'[saleJob[p].task.key].status = "applied"
    BY <1>0, <2>1 DEF SaleFits, RowFits
  <2> QED BY <1>0, <2>1, <2>2, GotoGoes, GoesKeepsKind DEF AtSale, AtMaster, Status
<1>7. CASE ConsumeHold(p)
  <2>1. saleJob[p].pc \in {"hold", "replayHold"} /\ (Goto(p, "mirror") \/ Goto(p, "unlock"))
    BY <1>7 DEF ConsumeHold
  <2>2. Selling(p)
    BY <1>0, <2>1 DEF JobKind, AtReturn, AtMaster, Selling
  <2> QED BY <1>0, <2>1, <2>2, GotoGoes, GoesKeepsKind DEF AtSale, AtMaster
<1>8. CASE Reread(p)
  <2>1. CASE saleJob' = [saleJob EXCEPT ![p].pc = "mirror", ![p].figure = saleStock]
    <3>1. /\ Alone(p) /\ saleJob[p].pc = "reread" /\ saleJob'[p].pc = "mirror" /\ saleJob'[p].kind = saleJob[p].kind
          /\ saleJob'[p].todo = saleJob[p].todo /\ saleJob'[p].task = saleJob[p].task /\ saleJob'[p].edit = saleJob[p].edit
      BY <1>0, <1>8, <2>1 DEF Alone, SaleFits, JobShape, Reread
    <3>2. JobKind(saleJob[p])' /\ ReturnTasks(saleJob[p])'
      BY <1>0, <3>1
      DEF JobKind, JobFits, ReturnTasks, SaleTask, AtSale, AtReturn, AtMaster, RowsGoOn, Onward, Status
    <3> QED BY <1>0, <3>1, <3>2, KindsKept
  <2>2. CASE Goto(p, RowDone(p))
    <3>1. saleJob[p].pc = "reread"
      BY <1>8 DEF Reread
    <3> QED BY <1>0, <2>2, <3>1, GotoGoes, GoesKeepsKind DEF RowDone, AtSale
  <2> QED BY <1>8, <2>1, <2>2 DEF Reread
<1>9. CASE WriteMirror(p)
  <2>1. saleJob[p].pc = "mirror" /\ Goto(p, RowDone(p))
    BY <1>9 DEF WriteMirror
  <2> QED BY <1>0, <2>1, GotoGoes, GoesKeepsKind DEF RowDone, AtSale
<1> QED BY <1>1, <1>2, <1>3, <1>4, <1>5, <1>6, <1>7, <1>8, <1>9

(* A return that goes on with its next row: the row is reported, claimed, or    *)
(* left retryable.                                                              *)
Reported(j, task, answer) ==
  IF j.kind = "edit" /\ answer # "applied" THEN IdleJob ELSE [j EXCEPT !.todo = @ \ {task}]
LEMMA NextReturnIs ==
  ASSUME SaleFits, NEW p \in SaleProcs, NextReturn(p)
  PROVE  /\ Alone(p) /\ saleJob[p].pc = "next"
         /\ \E task \in saleJob[p].todo :
              \/ /\ ~Claimable(task.key) /\ UNCHANGED <<saleRow, saleUnsure, saleFaults>>
                 /\ saleJob'[p] = Reported(saleJob[p], task, Status(task.key))
              \/ /\ ClaimRow(task) /\ UNCHANGED saleFaults
                 /\ saleJob'[p] = [[saleJob[p] EXCEPT !.todo = @ \ {task}] EXCEPT !.pc = "call", !.task = task]
              \/ /\ Claimable(task.key) /\ SaleFault /\ RecordRetryable(task) /\ UNCHANGED saleUnsure
                 /\ saleJob'[p] = Reported(saleJob[p], task, "retryable")
<1> DEFINE rest(task) == [saleJob[p] EXCEPT !.todo = @ \ {task}]
           report(task, answer) ==
             [saleJob EXCEPT ![p] = IF rest(task).kind = "edit" /\ answer # "applied" THEN IdleJob ELSE rest(task)]
<1>1. saleJob[p].pc = "next" /\ JobShape(saleJob[p]) /\ saleJob = [q \in SaleProcs |-> saleJob[q]]
  BY DEF NextReturn, JobAt, SaleFits, JobFits
<1>2. PICK task \in saleJob[p].todo :
        \/ /\ ~Claimable(task.key) /\ UNCHANGED <<saleRow, saleUnsure, saleFaults>>
           /\ saleJob' = report(task, Status(task.key))
        \/ /\ ClaimRow(task) /\ UNCHANGED saleFaults
           /\ saleJob' = [saleJob EXCEPT ![p] = [rest(task) EXCEPT !.pc = "call", !.task = task]]
        \/ /\ Claimable(task.key) /\ SaleFault /\ RecordRetryable(task) /\ UNCHANGED saleUnsure
           /\ saleJob' = report(task, "retryable")
  BY Zenon DEF NextReturn, NoSaleFault
<1>3. rest(task).kind = saleJob[p].kind
  BY <1>1 DEF JobShape
<1>4. /\ \A answer : report(task, answer)[p] = Reported(saleJob[p], task, answer)
      /\ \A answer : \A q \in SaleProcs \ {p} : report(task, answer)[q] = saleJob[q]
  BY <1>1, <1>3 DEF Reported
<1> HIDE DEF rest, report
<1>5. /\ Alone(p)
      /\ \/ /\ ~Claimable(task.key) /\ UNCHANGED <<saleRow, saleUnsure, saleFaults>>
            /\ saleJob'[p] = Reported(saleJob[p], task, Status(task.key))
         \/ /\ ClaimRow(task) /\ UNCHANGED saleFaults
            /\ saleJob'[p] = [rest(task) EXCEPT !.pc = "call", !.task = task]
         \/ /\ Claimable(task.key) /\ SaleFault /\ RecordRetryable(task) /\ UNCHANGED saleUnsure
            /\ saleJob'[p] = Reported(saleJob[p], task, "retryable")
  <2>1. CASE saleJob' = report(task, Status(task.key)) /\ ~Claimable(task.key) /\ UNCHANGED <<saleRow, saleUnsure, saleFaults>>
    BY <1>4, <2>1 DEF Alone
  <2>2. CASE saleJob' = report(task, "retryable") /\ Claimable(task.key) /\ SaleFault /\ RecordRetryable(task) /\ UNCHANGED saleUnsure
    BY <1>4, <2>2 DEF Alone
  <2>3. CASE ClaimRow(task) /\ UNCHANGED saleFaults /\ saleJob' = [saleJob EXCEPT ![p] = [rest(task) EXCEPT !.pc = "call", !.task = task]]
    BY <1>1, <2>3 DEF Alone
  <2> QED BY <1>2, <2>1, <2>2, <2>3
<1> QED BY <1>1, <1>5, Zenon DEF rest

LEMMA ListReturnsIs ==
  ASSUME SaleFits, NEW p \in SaleProcs, ListReturns(p)
  PROVE  /\ Alone(p) /\ saleJob[p].pc = "list" /\ saleJob'[p].pc = "next"
         /\ saleJob'[p].kind = saleJob[p].kind /\ saleJob'[p].edit = saleJob[p].edit
         /\ saleJob[p].kind = "cancel" => saleJob'[p].todo = RestoreTasks
         /\ saleJob[p].kind # "cancel" =>
              \/ saleJob'[p].todo = {}
              \/ /\ saleJob'[p].todo = EditTasks(saleJob[p].edit)
                 /\ \A key \in Returns : Family(key) = <<"edit", saleJob[p].edit>> => Status(key) = "none"
<1> DEFINE e == saleJob[p].edit
           replay == \E key \in Returns : Family(key) = <<"edit", e>> /\ Status(key) # "none"
           tasks == IF saleJob[p].kind = "cancel" THEN RestoreTasks ELSE IF replay THEN {} ELSE EditTasks(e)
<1>1. saleJob' = [saleJob EXCEPT ![p].todo = tasks, ![p].pc = "next"] /\ saleJob[p].pc = "list"
  BY Zenon DEF ListReturns, JobAt
<1>2. JobShape(saleJob[p]) /\ saleJob = [q \in SaleProcs |-> saleJob[q]]
  BY DEF SaleFits, JobFits
<1>3. saleJob[p].kind = "cancel" => tasks = RestoreTasks
  OBVIOUS
<1>4. saleJob[p].kind # "cancel" => tasks = {} \/ (~replay /\ tasks = EditTasks(e))
  OBVIOUS
<1> HIDE DEF tasks
<1>5. /\ Alone(p) /\ saleJob'[p].pc = "next" /\ saleJob'[p].todo = tasks
      /\ saleJob'[p].kind = saleJob[p].kind /\ saleJob'[p].edit = saleJob[p].edit
  BY <1>1, <1>2 DEF Alone, JobShape
<1> QED BY <1>1, <1>3, <1>4, <1>5

LEMMA StartReturnIs ==
  ASSUME SaleFits, NEW p \in SaleProcs, StartRestore(p) \/ StartEdit(p)
  PROVE  /\ Alone(p) /\ saleJob[p].pc = "idle" /\ saleJob'[p].pc = "list"
         /\ saleJob'[p].kind \in {"cancel", "edit"} /\ saleJob'[p].todo = {}
         /\ saleJob'[p].kind = "edit" => saleJob'[p].edit \in DOMAIN saleCase.edits
<1>1. saleJob = [q \in SaleProcs |-> saleJob[q]]
  BY DEF SaleFits
<1>2. CASE StartRestore(p)
  BY <1>1, <1>2 DEF StartRestore, Alone, IdleJob, JobAt
<1>3. CASE StartEdit(p)
  <2>1. PICK e \in DOMAIN saleCase.edits :
          saleJob' = [saleJob EXCEPT ![p] = [IdleJob EXCEPT !.pc = "list", !.kind = "edit", !.edit = e]]
    BY <1>3 DEF StartEdit
  <2> QED BY <1>1, <1>3, <2>1 DEF StartEdit, Alone, IdleJob, JobAt
<1> QED BY <1>2, <1>3

LEMMA ReturnKindsStep ==
  ASSUME SaleInv, JobKinds, [SaleNext]_saleVars, NEW p \in SaleProcs,
         \/ StartRestore(p) \/ StartEdit(p) \/ ListReturns(p) \/ NextReturn(p) \/ ReturnsEnd(p) \/ CrashSale(p)
  PROVE  JobKinds'
<1>0. /\ SaleFits /\ RowsGoOn /\ UNCHANGED saleCase /\ Routed' = Routed
      /\ JobKind(saleJob[p]) /\ JobFits(saleJob[p]) /\ JobShape(saleJob[p]) /\ ReturnTasks(saleJob[p])
  BY RowsAlwaysGoOn, SameOrder DEF SaleInv, SaleFits, JobKinds, Routed, JobFits
<1>1. CASE StartRestore(p) \/ StartEdit(p)
  <2>1. /\ Alone(p) /\ saleJob'[p].pc = "list" /\ saleJob'[p].kind \in {"cancel", "edit"} /\ saleJob'[p].todo = {}
        /\ saleJob'[p].kind = "edit" => saleJob'[p].edit \in DOMAIN saleCase.edits
    BY <1>0, <1>1, StartReturnIs
  <2>2. JobKind(saleJob[p])' /\ ReturnTasks(saleJob[p])'
    BY <1>0, <2>1 DEF JobKind, ReturnTasks, AtReturn, AtMaster
  <2> QED BY <1>0, <2>1, <2>2, KindsKept
<1>2. CASE ListReturns(p)
  <2>1. /\ Alone(p) /\ saleJob[p].pc = "list" /\ saleJob'[p].pc = "next" /\ saleJob'[p].kind = saleJob[p].kind
        /\ saleJob'[p].edit = saleJob[p].edit
        /\ saleJob'[p].todo \in {{}, RestoreTasks, EditTasks(saleJob[p].edit)}
        /\ saleJob'[p].todo = EditTasks(saleJob[p].edit) => saleJob[p].kind = "edit" \/ saleJob'[p].todo \in {{}, RestoreTasks}
    BY <1>0, <1>2, ListReturnsIs DEF JobFits
  <2>2. \A task \in saleJob'[p].todo : task.key \in Returns
    BY <1>0, <2>1, TasksAre DEF JobFits
  <2>3. JobKind(saleJob[p])' /\ ReturnTasks(saleJob[p])'
    BY <1>0, <2>1, <2>2 DEF JobKind, JobFits, ReturnTasks, AtReturn, AtMaster
  <2> QED BY <1>0, <2>1, <2>3, KindsKept
<1>3. CASE NextReturn(p)
  <2>1. Alone(p) /\ saleJob[p].pc = "next"
    BY <1>0, <1>3, NextReturnIs
  <2>2. PICK task \in saleJob[p].todo :
              \/ saleJob'[p] = IdleJob
              \/ saleJob'[p] = [saleJob[p] EXCEPT !.todo = @ \ {task}]
              \/ /\ ClaimRow(task)
                 /\ saleJob'[p] = [[saleJob[p] EXCEPT !.todo = @ \ {task}] EXCEPT !.pc = "call", !.task = task]
    BY <1>0, <1>3, NextReturnIs DEF Reported
  <2>3. CASE saleJob'[p] = IdleJob
    BY <1>0, <2>1, <2>3, KindsKept DEF IdleJob, JobKind, ReturnTasks, AtReturn, AtMaster
  <2>4. CASE saleJob'[p] = [saleJob[p] EXCEPT !.todo = @ \ {task}]
    <3>1. /\ saleJob'[p].pc = "next" /\ saleJob'[p].kind = saleJob[p].kind /\ saleJob'[p].edit = saleJob[p].edit
          /\ saleJob'[p].todo \subseteq saleJob[p].todo
      BY <1>0, <2>1, <2>4 DEF JobShape
    <3>2. JobKind(saleJob[p])' /\ ReturnTasks(saleJob[p])'
      BY <1>0, <2>1, <3>1 DEF JobKind, ReturnTasks, AtSale, AtReturn, AtMaster
    <3> QED BY <1>0, <2>1, <3>2, KindsKept
  <2>5. CASE /\ ClaimRow(task)
             /\ saleJob'[p] = [[saleJob[p] EXCEPT !.todo = @ \ {task}] EXCEPT !.pc = "call", !.task = task]
    <3>1. /\ saleJob'[p].pc = "call" /\ saleJob'[p].kind = saleJob[p].kind /\ saleJob'[p].todo \subseteq saleJob[p].todo
          /\ saleJob'[p].task = task /\ saleJob'[p].edit = saleJob[p].edit
      BY <1>0, <2>5 DEF JobShape
    <3>2. task.key \in SaleKeys /\ task.key \in Returns
      BY <1>0 DEF JobFits, ReturnTasks
    <3>3. saleRow'[task.key].status = "pending"
      BY <1>0, <2>5, <3>2, ClaimIs DEF RowBecomes, ClaimedAs, Recorded
    <3>4. JobKind(saleJob[p])' /\ ReturnTasks(saleJob[p])'
      BY <1>0, <2>1, <3>1, <3>2, <3>3 DEF JobKind, ReturnTasks, AtSale, AtReturn, AtMaster, Status
    <3> QED BY <1>0, <2>1, <3>4, KindsKept
  <2> QED BY <2>2, <2>3, <2>4, <2>5
<1>4. CASE ReturnsEnd(p) \/ CrashSale(p)
  <2>1. saleJob[p].pc # "idle" /\ Goto(p, "idle")
    BY <1>4 DEF ReturnsEnd, CrashSale, JobAt, JobEnds
  <2> QED BY <1>0, <2>1, GotoGoes, GoesKeepsKind
<1> QED BY <1>1, <1>2, <1>3, <1>4

LEMMA JobKindsStep == ASSUME SaleInv, JobKinds, CutsAre, [SaleNext]_saleVars PROVE JobKinds'
<1>1. CASE CancelOrder \/ SaleLockExpires \/ UNCHANGED saleVars
  <2>1. UNCHANGED <<saleCase, saleRow, saleJob>>
    BY <1>1 DEF CancelOrder, SaleLockExpires, saleVars, saleOrder
  <2> QED BY <2>1 DEF JobKinds, JobKind, ReturnTasks, SaleTask, Routed, Status
<1> QED BY <1>1, SaleKindsStep, ReturnKindsStep DEF SaleNext

-----------------------------------------------------------------------------
(* What the hold and the mirror rest on.  While nothing fails, a sale works     *)
(* under the position's lock, its request is answered with the master's figure, *)
(* and whoever learns of a change still has the hold and the mirror before it.  *)
FaultsAre == saleFaults \in Nat
HoldInv ==
  /\ saleHold = "consumed" => \E w \in Routed : saleSent[SaleKey(w)] = 1
  /\ saleFaults = 0 /\ saleHold = "held" /\ (\E w \in Routed : Status(SaleKey(w)) = "applied") =>
       \E p \in SaleProcs : JobAt(p, "hold")
LockInv == saleFaults = 0 => \A p \in SaleProcs : Selling(p) /\ ~JobAt(p, "lock") => saleLock = p
AnswersInv == saleFaults = 0 => \A p \in SaleProcs : JobAt(p, "settle") => saleJob[p].answer = "applied"
Shows(j) == j.kind = "sell" /\ j.pc \in {"settle", "hold", "mirror"}
MirrorInv ==
  saleFaults = 0 /\ (\A key \in Returns : Status(key) = "none") =>
    /\ \A p \in SaleProcs : Shows(saleJob[p]) => saleJob[p].figure = saleStock
    /\ saleMirror = saleStock \/ \E p \in SaleProcs : Shows(saleJob[p])

LEMMA FaultsCount ==
  ASSUME FaultsAre, [SaleNext]_saleVars
  PROVE  FaultsAre' /\ (saleFaults' = 0 => saleFaults = 0) /\ (SaleFault => saleFaults' # 0)
<1>1. SaleFault \/ UNCHANGED saleFaults
  <2>1. ASSUME NEW p \in SaleProcs,
               \/ StartSell(p) \/ LockPosition(p) \/ FindRow(p) \/ ClaimSale(p) \/ MarkInterrupted(p) \/ CallMaster(p)
        PROVE  SaleFault \/ UNCHANGED saleFaults
    BY <2>1 DEF NoSaleFault, StartSell, LockPosition, FindRow, ClaimSale, MarkInterrupted, CallMaster
  <2>2. ASSUME NEW p \in SaleProcs,
               SettleRow(p) \/ ConsumeHold(p) \/ Reread(p) \/ WriteMirror(p) \/ UnlockPosition(p) \/ StartRestore(p)
        PROVE  SaleFault \/ UNCHANGED saleFaults
    BY <2>2 DEF NoSaleFault, SettleRow, ConsumeHold, Reread, WriteMirror, UnlockPosition, StartRestore
  <2>3. ASSUME NEW p \in SaleProcs,
               StartEdit(p) \/ ListReturns(p) \/ NextReturn(p) \/ ReturnsEnd(p) \/ CrashSale(p)
        PROVE  SaleFault \/ UNCHANGED saleFaults
    BY <2>3 DEF NoSaleFault, StartEdit, ListReturns, NextReturn, ReturnsEnd, CrashSale
  <2>4. CancelOrder \/ SaleLockExpires \/ UNCHANGED saleVars => SaleFault \/ UNCHANGED saleFaults
    BY DEF NoSaleFault, CancelOrder, SaleLockExpires, saleVars
  <2> QED BY <2>1, <2>2, <2>3, <2>4 DEF SaleNext
<1> QED BY <1>1 DEF FaultsAre, SaleFault

(* Only a row that is settled is newly applied.                                 *)
NoneApplied == \A key \in SaleKeys : saleRow'[key].status = "applied" => Status(key) = "applied"
LEMMA RecordAppliesNone ==
  ASSUME SaleFits, NEW task, task.key \in SaleKeys, RecordRetryable(task) \/ ClaimRow(task) \/ UNCHANGED saleRow
  PROVE  NoneApplied
<1>1. CASE UNCHANGED saleRow
  BY <1>1 DEF NoneApplied, Status
<1>2. CASE RowBecomes(task.key, Recorded(task)) \/ RowBecomes(task.key, ClaimedAs(task))
  BY <1>2 DEF NoneApplied, RowBecomes, Recorded, ClaimedAs, Status
<1> QED BY <1>1, <1>2, RecordIs, ClaimIs

LEMMA OnlySettled ==
  ASSUME SaleInv, [SaleNext]_saleVars PROVE NoneApplied \/ \E p \in SaleProcs : SettleRow(p)
<1>0. SaleFits /\ \A p \in SaleProcs : JobFits(saleJob[p])
  BY DEF SaleInv, SaleFits
<1>1. ASSUME NEW p \in SaleProcs, LockPosition(p) \/ FindRow(p) \/ ClaimSale(p) PROVE NoneApplied
  <2>1. saleJob[p].task.key \in SaleKeys
    BY <1>0, <1>1 DEF LockPosition, FindRow, ClaimSale, JobAt, JobFits
  <2> QED BY <1>0, <1>1, <2>1, RecordAppliesNone DEF LockPosition, FindRow, ClaimSale
<1>2. ASSUME NEW p \in SaleProcs, MarkInterrupted(p) PROVE NoneApplied
  <2>1. saleJob[p].task.key \in SaleKeys
    BY <1>0, <1>2 DEF MarkInterrupted, JobAt, JobFits
  <2> QED BY <1>0, <1>2, <2>1 DEF MarkInterrupted, SaleFits, RowFits, Status, NoneApplied
<1>3. ASSUME NEW p \in SaleProcs, NextReturn(p) PROVE NoneApplied
  <2>1. PICK task \in saleJob[p].todo : ClaimRow(task) \/ RecordRetryable(task) \/ UNCHANGED saleRow
    BY <1>3, Zenon DEF NextReturn
  <2>2. task.key \in SaleKeys
    BY <1>0 DEF JobFits
  <2> QED BY <1>0, <2>1, <2>2, RecordAppliesNone
<1>4. ASSUME UNCHANGED saleRow PROVE NoneApplied
  BY <1>4 DEF NoneApplied, Status
<1> QED BY <1>1, <1>2, <1>3, <1>4
        DEF SaleNext, saleVars, StartSell, CallMaster, ConsumeHold, Reread, WriteMirror, UnlockPosition,
            StartRestore, StartEdit, ListReturns, ReturnsEnd, CrashSale, CancelOrder, SaleLockExpires

(* A request lands for its sender's key, once.                                  *)
LEMMA SentGrows ==
  ASSUME SaleInv, [SaleNext]_saleVars PROVE \A key \in SaleKeys : saleSent[key] <= saleSent'[key]
<1>1. ASSUME NEW p \in SaleProcs, Lands(p) PROVE \A key \in SaleKeys : saleSent[key] <= saleSent'[key]
  BY <1>1 DEF Lands, SaleInv, SaleFits
<1>2. ASSUME UNCHANGED saleSent PROVE \A key \in SaleKeys : saleSent[key] <= saleSent'[key]
  BY <1>2 DEF SaleInv, SaleFits
<1> QED BY <1>1, <1>2
        DEF SaleNext, saleVars, saleMaster, StartSell, LockPosition, FindRow, ClaimSale, MarkInterrupted,
        CallMaster, SettleRow, ConsumeHold, Reread, WriteMirror, UnlockPosition, StartRestore, StartEdit, ListReturns,
        NextReturn, ReturnsEnd, CrashSale, CancelOrder, SaleLockExpires

(* Nobody but the one whose step it is moves, and that one ends, begins, or     *)
(* goes on with what it was doing.                                              *)
SaleAct(p) ==
  \/ StartSell(p) \/ LockPosition(p) \/ FindRow(p) \/ ClaimSale(p) \/ MarkInterrupted(p) \/ CallMaster(p)
  \/ SettleRow(p) \/ ConsumeHold(p) \/ Reread(p) \/ WriteMirror(p) \/ UnlockPosition(p) \/ StartRestore(p)
  \/ StartEdit(p) \/ ListReturns(p) \/ NextReturn(p) \/ ReturnsEnd(p) \/ CrashSale(p)
LEMMA OneActs ==
  ASSUME SaleFits, NEW p \in SaleProcs, SaleAct(p)
  PROVE  /\ Alone(p)
         /\ \/ saleJob'[p] = IdleJob
            \/ saleJob[p].pc = "idle" /\ saleJob'[p].pc \in {"lock", "list"}
            \/ /\ saleJob[p].pc # "idle" /\ saleJob'[p].kind = saleJob[p].kind
               /\ saleJob'[p].edit = saleJob[p].edit
<1>1. JobFits(saleJob[p]) /\ JobShape(saleJob[p]) /\ saleJob = [q \in SaleProcs |-> saleJob[q]]
  BY DEF SaleFits, JobFits
<1>2. CASE (\E pc : Goto(p, pc)) /\ ~JobAt(p, "idle")
  BY <1>2, GotoGoes DEF Goes, JobAt
<1>3. CASE StartSell(p)
  <2>1. PICK w \in Routed :
          saleJob' = [saleJob EXCEPT ![p] = [IdleJob EXCEPT !.pc = "lock", !.kind = "sell",
                        !.task = [key |-> SaleKey(w), work |-> w, qty |-> Owed(w)]]]
    BY <1>3 DEF StartSell
  <2> QED BY <1>1, <1>3, <2>1 DEF StartSell, Alone, IdleJob, JobAt
<1>4. CASE StartRestore(p) \/ StartEdit(p)
  BY <1>4, StartReturnIs
<1>5. CASE ListReturns(p)
  BY <1>5, ListReturnsIs
<1>6. CASE NextReturn(p)
  <2>1. Alone(p) /\ saleJob[p].pc = "next"
    BY <1>6, NextReturnIs
  <2>2. PICK task \in saleJob[p].todo :
              \/ saleJob'[p] = IdleJob
              \/ saleJob'[p] = [saleJob[p] EXCEPT !.todo = @ \ {task}]
              \/ saleJob'[p] = [[saleJob[p] EXCEPT !.todo = @ \ {task}] EXCEPT !.pc = "call", !.task = task]
    BY <1>6, NextReturnIs DEF Reported
  <2> QED BY <1>1, <2>1, <2>2 DEF JobShape
<1>7. CASE CallMaster(p)
  <2>1. PICK answer : saleJob' = [saleJob EXCEPT ![p].pc = "settle", ![p].answer = answer, ![p].figure = saleStock']
    BY <1>7 DEF CallMaster, Answered
  <2> QED BY <1>1, <1>7, <2>1 DEF CallMaster, Alone, JobShape, JobAt
<1>8. CASE Reread(p) /\ saleJob' = [saleJob EXCEPT ![p].pc = "mirror", ![p].figure = saleStock]
  BY <1>1, <1>8 DEF Reread, Alone, JobShape, JobAt
<1> QED BY <1>2, <1>3, <1>4, <1>5, <1>6, <1>7, <1>8
        DEF SaleAct, LockPosition, FindRow, ClaimSale, MarkInterrupted,
        SettleRow, ConsumeHold, Reread, WriteMirror, UnlockPosition, ReturnsEnd, CrashSale, JobEnds, JobAt

(* The hold is consumed by whoever finds the decrement applied.                 *)
LEMMA HoldKept ==
  ASSUME HoldInv, SaleFits, SaleInv', FaultsAre, NoneApplied, [SaleNext]_saleVars,
         \A key \in SaleKeys : saleSent[key] <= saleSent'[key],
         NEW p \in SaleProcs, Alone(p), saleJob[p].pc # "hold" \/ saleFaults' # 0,
         UNCHANGED saleHold \/ saleHold' = "released"
  PROVE  HoldInv'
<1>1. Routed' = Routed /\ Routed \subseteq Works
  BY SameOrder, RoutedAre DEF Routed
<1>2. \A w \in Routed : SaleKey(w) \in SaleKeys
  BY <1>1, SaleKeysAre
<1>3. \A w \in Routed : saleSent[SaleKey(w)] = 1 => saleSent'[SaleKey(w)] = 1
  BY <1>2 DEF SaleInv, SaleSentOnce, SaleFits
<1>4. \A w \in Routed : saleRow'[SaleKey(w)].status = "applied" => Status(SaleKey(w)) = "applied"
  BY <1>2 DEF NoneApplied
<1>5. saleFaults' = 0 => saleFaults = 0 /\ \A q \in SaleProcs : JobAt(q, "hold") => JobAt(q, "hold")'
  BY FaultsCount DEF Alone, JobAt
<1> QED BY <1>1, <1>3, <1>4, <1>5 DEF HoldInv, Status

LEMMA HoldStep ==
  ASSUME SaleInv, SaleInv', JobKinds, FaultsAre, HoldInv, [SaleNext]_saleVars PROVE HoldInv'
<1>0. SaleFits /\ \A key \in SaleKeys : saleSent[key] <= saleSent'[key]
  BY SentGrows DEF SaleInv
<1>1. Routed' = Routed /\ Routed \subseteq Works
  BY <1>0, SameOrder, RoutedAre DEF Routed
<1>2. ASSUME NEW p \in SaleProcs, ConsumeHold(p) PROVE HoldInv'
  <2>1. /\ saleJob[p].pc \in {"hold", "replayHold"} /\ UNCHANGED <<saleRow, saleSent>>
        /\ Goto(p, "mirror") \/ Goto(p, "unlock")
        /\ \/ saleHold' = (IF saleHold = "held" THEN "consumed" ELSE saleHold)
           \/ SaleFault /\ UNCHANGED saleHold
    BY <1>2 DEF ConsumeHold, JobAt, saleMaster
  <2>2. JobKind(saleJob[p]) /\ NoneApplied
    BY <2>1 DEF JobKinds, NoneApplied, Status
  <2>3. PICK w \in Routed : saleJob[p].task.key = SaleKey(w) /\ Status(SaleKey(w)) = "applied"
    BY <2>1, <2>2 DEF JobKind, AtReturn, AtMaster, SaleTask
  <2>4. saleSent[SaleKey(w)] = 1
    BY <1>1, <2>3, SaleKeysAre DEF SaleInv, SaleSentOnce
  <2>5. CASE saleHold' = (IF saleHold = "held" THEN "consumed" ELSE saleHold)
    BY <1>1, <2>1, <2>4, <2>5 DEF HoldInv
  <2>6. CASE SaleFault /\ UNCHANGED saleHold
    <3>1. saleFaults' # 0
      BY <2>6, FaultsCount
    <3>2. Alone(p)
      BY <1>0, <2>1, GotoGoes DEF Goes
    <3> QED BY <1>0, <2>2, <2>6, <3>1, <3>2, HoldKept
  <2> QED BY <2>1, <2>5, <2>6
<1>3. ASSUME NEW p \in SaleProcs, SettleRow(p) PROVE HoldInv'
  <2>1. /\ saleJob[p].pc = "settle" /\ UNCHANGED <<saleHold, saleSent>> /\ saleJob[p].task.key \in SaleKeys
    BY <1>0, <1>3 DEF SettleRow, JobAt, saleMaster, SaleFits, JobFits
  <2>2. CASE SaleFault /\ UNCHANGED saleRow
    <3>1. Alone(p) /\ NoneApplied
      BY <1>0, <1>3, <2>2, GotoGoes DEF SettleRow, Goes, NoneApplied, Status
    <3> QED BY <1>0, <2>1, <2>2, <3>1, HoldKept
  <2>3. CASE saleRow' = [saleRow EXCEPT ![saleJob[p].task.key].status = saleJob[p].answer]
    <3>1. \A key \in SaleKeys : key # saleJob[p].task.key => saleRow'[key] = saleRow[key]
      BY <1>0, <2>3 DEF SaleFits
    <3>2. CASE saleJob[p].answer # "applied" \/ ~Selling(p)
      <4>1. \E pc : Goto(p, pc)
        BY <1>3 DEF SettleRow
      <4>2. saleJob[p].answer # "applied" => NoneApplied
        BY <1>0, <2>1, <2>3 DEF SaleFits, RowFits, NoneApplied, Status
      <4>3. CASE NoneApplied
        BY <1>0, <2>1, <4>1, <4>3, GotoGoes, HoldKept DEF Goes
      <4>4. CASE ~Selling(p)
        <5>1. saleJob[p].task.key \in Returns
          BY <2>1, <4>4 DEF JobKinds, JobKind, Selling, AtSale, AtReturn, AtMaster
        <5>2. \A w \in Routed : saleRow'[SaleKey(w)] = saleRow[SaleKey(w)]
          BY <1>1, <3>1, <5>1, KeysDiffer, SaleKeysAre
        <5>3. \A q \in SaleProcs : JobAt(q, "hold") => JobAt(q, "hold")'
          BY <1>0, <2>1, <4>1, GotoGoes DEF Goes, Alone, JobAt
        <5> QED BY <1>0, <1>1, <2>1, <5>2, <5>3, FaultsCount DEF HoldInv, Status
      <4> QED BY <3>2, <4>2, <4>3, <4>4
    <3>3. CASE saleJob[p].answer = "applied" /\ Selling(p)
      <4>1. (Goto(p, "hold") /\ NoSaleFault) \/ SaleFault
        BY <1>3, <3>3 DEF SettleRow
      <4>2. saleFaults' = 0 => JobAt(p, "hold")'
        BY <1>0, <4>1, GotoGoes, FaultsCount DEF Goes, JobAt
      <4>3. saleHold' = "consumed" => \E w \in Routed : saleSent'[SaleKey(w)] = 1
        BY <2>1 DEF HoldInv
      <4> QED BY <1>1, <4>2, <4>3 DEF HoldInv
    <3> QED BY <3>2, <3>3
  <2> QED BY <1>3, <2>2, <2>3 DEF SettleRow
<1>4. ASSUME NEW p \in SaleProcs, StartRestore(p) \/ StartEdit(p) PROVE HoldInv'
  <2>1. /\ saleJob[p].pc = "idle" /\ Alone(p) /\ UNCHANGED saleRow
        /\ UNCHANGED saleHold \/ saleHold' = "released"
    BY <1>0, <1>4, StartReturnIs DEF StartRestore, StartEdit
  <2> QED BY <1>0, <2>1, HoldKept DEF NoneApplied, Status
<1>5. ASSUME NEW p \in SaleProcs, UNCHANGED saleHold, NoneApplied,
             \/ StartSell(p) \/ LockPosition(p) \/ FindRow(p) \/ ClaimSale(p) \/ MarkInterrupted(p) \/ CallMaster(p)
             \/ Reread(p) \/ WriteMirror(p) \/ UnlockPosition(p) \/ ListReturns(p) \/ NextReturn(p)
             \/ ReturnsEnd(p) \/ CrashSale(p)
      PROVE  HoldInv'
  <2>1. saleJob[p].pc # "hold" \/ saleFaults' # 0
    BY <1>5, FaultsCount DEF JobAt, StartSell, LockPosition, FindRow, ClaimSale, MarkInterrupted, CallMaster,
       Reread, WriteMirror, UnlockPosition, ListReturns, NextReturn, ReturnsEnd, CrashSale
  <2>2. Alone(p)
    BY <1>0, <1>5, OneActs DEF SaleAct
  <2> QED BY <1>0, <1>5, <2>1, <2>2, HoldKept
<1>6. CASE CancelOrder \/ SaleLockExpires \/ UNCHANGED saleVars
  <2>1. UNCHANGED <<saleHold, saleRow, saleJob, saleSent>>
    BY <1>6 DEF CancelOrder, SaleLockExpires, saleVars, saleMaster
  <2> QED BY <1>1, <2>1, FaultsCount DEF HoldInv, Status, JobAt
<1>7. NoneApplied \/ \E p \in SaleProcs : SettleRow(p)
  BY OnlySettled
<1>8. ASSUME NEW p \in SaleProcs,
             \/ StartSell(p) \/ LockPosition(p) \/ FindRow(p) \/ ClaimSale(p) \/ MarkInterrupted(p) \/ CallMaster(p)
             \/ Reread(p) \/ WriteMirror(p) \/ UnlockPosition(p) \/ ListReturns(p) \/ NextReturn(p)
             \/ ReturnsEnd(p) \/ CrashSale(p)
      PROVE  HoldInv'
  <2>1. UNCHANGED saleHold
    BY <1>8 DEF StartSell, LockPosition, FindRow, ClaimSale, MarkInterrupted, CallMaster,
            Reread, WriteMirror, UnlockPosition, ListReturns, NextReturn, ReturnsEnd, CrashSale
  <2> QED BY <1>3, <1>5, <1>7, <1>8, <2>1
<1> QED BY <1>2, <1>3, <1>4, <1>6, <1>8 DEF SaleNext

(* While nothing fails, the position's lock keeps the sales apart.              *)
LEMMA LockKept ==
  ASSUME LockInv, UNCHANGED saleLock, saleFaults' = 0 => saleFaults = 0, NEW p \in SaleProcs, Alone(p),
         saleJob'[p].kind = "sell" /\ saleJob'[p].pc # "lock" => Selling(p) /\ saleJob[p].pc # "lock"
  PROVE  LockInv'
BY DEF LockInv, Alone, Selling, JobAt

LEMMA LockStep ==
  ASSUME SaleFits, JobKinds, JobKinds', FaultsAre, LockInv, [SaleNext]_saleVars PROVE LockInv'
<1>0. saleFaults' = 0 => saleFaults = 0
  BY FaultsCount
<1>1. ASSUME NEW p \in SaleProcs, LockPosition(p) PROVE LockInv'
  <2>1. saleJob[p].pc = "lock" /\ Alone(p)
    BY <1>1, OneActs DEF LockPosition, JobAt, SaleAct
  <2>2. CASE saleLock = NoSaleProc /\ saleLock' = p
    BY <1>0, <2>1, <2>2, SaleAssumption DEF LockInv, Alone, Selling, JobAt
  <2>3. CASE JobEnds(p) /\ UNCHANGED saleLock
    <3>1. saleJob'[p] = IdleJob
      BY <2>3, GotoGoes DEF JobEnds, Goes
    <3> QED BY <1>0, <2>1, <2>3, <3>1, LockKept DEF IdleJob
  <2> QED BY <1>1, <2>2, <2>3 DEF LockPosition, LockFree
<1>2. ASSUME NEW p \in SaleProcs, UnlockPosition(p) PROVE LockInv'
  <2>1. /\ Alone(p) /\ saleJob'[p] = IdleJob
        /\ saleLock' = IF saleLock = p THEN NoSaleProc ELSE saleLock
    BY <1>2, GotoGoes DEF UnlockPosition, JobEnds, Goes
  <2> QED BY <1>0, <2>1 DEF LockInv, Alone, Selling, JobAt, IdleJob
<1>3. CASE SaleLockExpires
  <2>1. UNCHANGED saleJob /\ (SaleFault \/ JobAt(saleLock, "idle") \/ ~Selling(saleLock))
    BY <1>3 DEF SaleLockExpires
  <2>2. \A p \in SaleProcs : Selling(p) => ~JobAt(p, "idle")
    BY DEF JobKinds, JobKind, Selling, JobAt
  <2> QED BY <1>0, <2>1, <2>2, FaultsCount DEF LockInv, Selling, JobAt
<1>4. ASSUME NEW p \in SaleProcs, SaleAct(p), ~LockPosition(p), ~UnlockPosition(p) PROVE LockInv'
  <2>1. UNCHANGED saleLock /\ (saleJob[p].pc = "lock" => SaleFault /\ JobEnds(p))
    BY <1>4
    DEF SaleAct, StartSell, FindRow, ClaimSale, MarkInterrupted, CallMaster, SettleRow, ConsumeHold, Reread,
       WriteMirror, StartRestore, StartEdit, ListReturns, NextReturn, ReturnsEnd, CrashSale, JobAt
  <2>2. saleJob[p].pc = "lock" => saleJob'[p] = IdleJob
    BY <2>1, GotoGoes DEF JobEnds, Goes
  <2>3. saleJob'[p].kind = "sell" /\ saleJob'[p].pc # "lock" => Selling(p) /\ saleJob[p].pc # "lock"
    <3>1. saleJob'[p].pc = "list" => saleJob'[p].kind # "sell"
      BY DEF JobKinds, JobKind, AtSale, AtMaster
    <3> QED BY <1>4, <2>2, <3>1, OneActs DEF IdleJob, Selling
  <2> QED BY <1>0, <1>4, <2>1, <2>3, OneActs, LockKept
<1>5. CASE CancelOrder \/ UNCHANGED saleVars
  BY <1>0, <1>5 DEF CancelOrder, saleVars, LockInv, Selling, JobAt
<1> QED BY <1>1, <1>2, <1>3, <1>4, <1>5 DEF SaleNext, SaleAct

LEMMA OnlyCallSettles ==
  ASSUME SaleFits, NEW p \in SaleProcs, SaleAct(p), ~CallMaster(p) PROVE saleJob'[p].pc # "settle"
<1>1. JobShape(saleJob[p]) /\ saleJob = [q \in SaleProcs |-> saleJob[q]]
  BY DEF SaleFits, JobFits
<1>2. CASE \E pc : Goto(p, pc) /\ pc # "settle"
  BY <1>2, GotoGoes DEF Goes
<1>3. CASE StartSell(p) \/ StartRestore(p) \/ StartEdit(p)
  BY <1>1, <1>3 DEF StartSell, StartRestore, StartEdit, IdleJob
<1>4. CASE ListReturns(p)
  BY <1>4, ListReturnsIs
<1>5. CASE NextReturn(p)
  <2>1. saleJob[p].pc = "next"
    BY <1>5, NextReturnIs
  <2>2. PICK task \in saleJob[p].todo :
              \/ saleJob'[p] = IdleJob
              \/ saleJob'[p] = [saleJob[p] EXCEPT !.todo = @ \ {task}]
              \/ saleJob'[p] = [[saleJob[p] EXCEPT !.todo = @ \ {task}] EXCEPT !.pc = "call", !.task = task]
    BY <1>5, NextReturnIs DEF Reported
  <2>3. saleJob'[p].pc \in {"idle", "next", "call"}
    <3>1. [saleJob[p] EXCEPT !.todo = @ \ {task}].pc = "next"
      BY <1>1, <2>1 DEF JobShape
    <3>2. [[saleJob[p] EXCEPT !.todo = @ \ {task}] EXCEPT !.pc = "call", !.task = task].pc = "call"
      BY <1>1 DEF JobShape
    <3>3. IdleJob.pc = "idle"
      BY DEF IdleJob
    <3> QED BY <2>2, <3>1, <3>2, <3>3, Zenon
  <2> QED BY <2>3
<1>6. CASE Reread(p) /\ saleJob' = [saleJob EXCEPT ![p].pc = "mirror", ![p].figure = saleStock]
  BY <1>1, <1>6 DEF JobShape
<1>7. CASE SettleRow(p) \/ FindRow(p) \/ (Reread(p) /\ Goto(p, RowDone(p))) \/ WriteMirror(p)
  <2>1. \E pc : Goto(p, pc) /\ pc # "settle"
    BY <1>7 DEF SettleRow, FindRow, AfterFind, WriteMirror, RowDone
  <2> QED BY <1>2, <2>1
<1> QED BY <1>2, <1>3, <1>4, <1>5, <1>6, <1>7 DEF SaleAct, LockPosition, ClaimSale, MarkInterrupted,
        ConsumeHold, Reread, UnlockPosition, ReturnsEnd, CrashSale, JobEnds

LEMMA AnswersStep ==
  ASSUME SaleFits, FaultsAre, AnswersInv, [SaleNext]_saleVars PROVE AnswersInv'
<1>1. ASSUME NEW p \in SaleProcs, SaleAct(p), saleFaults' = 0 PROVE JobAt(p, "settle")' => saleJob'[p].answer = "applied"
  <2>1. CASE CallMaster(p)
    <3>1. Answered(p, "applied")
      BY <1>1, <2>1, FaultsCount DEF CallMaster
    <3> QED BY <3>1 DEF Answered, SaleFits, JobFits, JobShape
  <2> QED BY <1>1, <2>1, OnlyCallSettles DEF JobAt
<1>2. ASSUME NEW p \in SaleProcs, SaleAct(p) PROVE AnswersInv'
  BY <1>1, <1>2, OneActs, FaultsCount DEF AnswersInv, Alone, JobAt
<1>3. CASE CancelOrder \/ SaleLockExpires \/ UNCHANGED saleVars
  <2>1. UNCHANGED saleJob
    BY <1>3 DEF CancelOrder, SaleLockExpires, saleVars
  <2> QED BY <2>1, FaultsCount DEF AnswersInv, JobAt
<1> QED BY <1>2, <1>3 DEF SaleNext, SaleAct

(* Whoever learns of a change of the stock writes it before the next one.       *)
LEMMA MirrorKept ==
  ASSUME MirrorInv, UNCHANGED <<saleStock, saleMirror>>, RowsGoOn, saleFaults' = 0 => saleFaults = 0,
         NEW p \in SaleProcs, Alone(p), Returns \subseteq SaleKeys,
         saleFaults' # 0 \/ ((Shows(saleJob[p]))' <=> Shows(saleJob[p])),
         saleFaults' # 0 \/ (Shows(saleJob[p]) => saleJob'[p].figure = saleJob[p].figure)
  PROVE  MirrorInv'
<1>1. SUFFICES ASSUME saleFaults' = 0, \A key \in Returns : saleRow'[key].status = "none"
               PROVE  /\ \A q \in SaleProcs : Shows(saleJob'[q]) => saleJob'[q].figure = saleStock
                      /\ saleMirror = saleStock \/ \E q \in SaleProcs : Shows(saleJob'[q])
  BY DEF MirrorInv, Status, Shows
<1>2. saleFaults = 0 /\ \A key \in Returns : Status(key) = "none"
  BY <1>1 DEF RowsGoOn, Onward, Status
<1>3. \A q \in SaleProcs : Shows(saleJob'[q]) <=> Shows(saleJob[q])
  BY <1>1 DEF Alone, Shows
<1>4. \A q \in SaleProcs : Shows(saleJob[q]) => saleJob'[q].figure = saleJob[q].figure
  BY <1>1 DEF Alone
<1> QED BY <1>2, <1>3, <1>4 DEF MirrorInv

LEMMA MirrorStep ==
  ASSUME SaleInv, JobKinds, FaultsAre, LockInv, AnswersInv, MirrorInv, [SaleNext]_saleVars PROVE MirrorInv'
<1>0. /\ SaleFits /\ RowsGoOn /\ Returns \subseteq SaleKeys /\ (saleFaults' = 0 => saleFaults = 0)
  BY RowsAlwaysGoOn, FaultsCount DEF SaleInv, Returns
<1>1. CASE CancelOrder \/ SaleLockExpires \/ UNCHANGED saleVars
  <2>1. UNCHANGED <<saleStock, saleMirror, saleJob, saleRow>>
    BY <1>1 DEF CancelOrder, SaleLockExpires, saleVars, saleMaster
  <2> QED BY <1>0, <2>1 DEF MirrorInv, Shows, Status
<1>2. ASSUME NEW p \in SaleProcs, SaleAct(p) PROVE MirrorInv'
  <2>0. /\ Alone(p) /\ JobKind(saleJob[p]) /\ JobFits(saleJob[p]) /\ JobShape(saleJob[p])
        /\ saleJob = [q \in SaleProcs |-> saleJob[q]]
    BY <1>0, <1>2, OneActs DEF JobKinds, SaleFits, JobFits
  <2>1. SUFFICES ASSUME saleFaults' = 0, \A key \in Returns : saleRow'[key].status = "none" PROVE MirrorInv'
    BY DEF MirrorInv, Status
  <2>2. saleFaults = 0 /\ (\A key \in Returns : Status(key) = "none") /\ ~SaleFault
    BY <1>0, <2>1, FaultsCount DEF RowsGoOn, Onward, Status
  <2>3. CASE CallMaster(p)
    <3>1. Answered(p, "applied") /\ saleJob[p].pc = "call" /\ UNCHANGED saleMirror
      BY <2>2, <2>3 DEF CallMaster, JobAt
    <3>2. Selling(p)
      BY <2>0, <2>2, <3>1 DEF JobKind, Selling, AtMaster
    <3>3. Shows(saleJob'[p]) /\ saleJob'[p].figure = saleStock'
      BY <2>0, <3>1, <3>2 DEF Answered, JobShape, Shows, Selling
    <3>4. \A q \in SaleProcs \ {p} : ~Shows(saleJob'[q])
      BY <2>0, <2>2, <3>1, <3>2 DEF LockInv, Selling, JobAt, Shows, Alone
    <3>5. Shows(saleJob[p])' /\ \A q \in SaleProcs : Shows(saleJob[q])' => q = p
      BY <3>3, <3>4 DEF Shows
    <3> QED BY <3>3, <3>5 DEF MirrorInv
  <2>4. CASE WriteMirror(p)
    <3>1. saleMirror' = saleJob[p].figure /\ saleJob[p].pc = "mirror" /\ UNCHANGED saleStock /\ Goto(p, RowDone(p))
      BY <2>2, <2>4 DEF WriteMirror, JobAt, saleMaster
    <3>2. Selling(p)
      BY <2>0, <2>2, <3>1 DEF JobKind, Selling, AtMaster
    <3>3. saleMirror' = saleStock'
      BY <2>2, <3>1, <3>2 DEF MirrorInv, Shows, Selling
    <3>4. ~Shows(saleJob'[p])
      BY <1>0, <3>1, GotoGoes DEF Goes, RowDone, Shows
    <3>5. \A q \in SaleProcs : Shows(saleJob'[q]) => saleJob'[q].figure = saleStock'
      BY <2>0, <2>2, <3>1, <3>4 DEF MirrorInv, Alone
    <3> QED BY <3>3, <3>5 DEF MirrorInv, Shows
  <2>5. CASE Reread(p)
    <3>1. saleJob' = [saleJob EXCEPT ![p].pc = "mirror", ![p].figure = saleStock] /\ UNCHANGED <<saleStock, saleMirror>>
          /\ saleJob[p].pc = "reread"
      BY <2>2, <2>5 DEF Reread, saleMaster, JobAt
    <3>2. Selling(p)
      BY <2>0, <2>2, <3>1 DEF JobKind, Selling, AtMaster
    <3>3. Shows(saleJob'[p]) /\ saleJob'[p].figure = saleStock
      BY <2>0, <3>1, <3>2 DEF JobShape, Shows, Selling
    <3>4. \A q \in SaleProcs : Shows(saleJob'[q]) => saleJob'[q].figure = saleStock
      BY <2>0, <2>2, <3>3 DEF MirrorInv, Alone
    <3> QED BY <3>1, <3>3, <3>4 DEF MirrorInv, Shows
  <2>6. CASE SettleRow(p) \/ ConsumeHold(p)
    <3>1. /\ UNCHANGED <<saleStock, saleMirror>> /\ saleJob[p].pc \in {"settle", "hold", "replayHold"}
          /\ saleJob[p].pc = "settle" => Goto(p, IF Selling(p) THEN "hold" ELSE "mirror")
          /\ saleJob[p].pc = "hold" => Goto(p, "mirror")
          /\ saleJob[p].pc = "replayHold" => Goto(p, "unlock")
      BY <2>2, <2>6 DEF SettleRow, ConsumeHold, saleMaster, JobAt, AnswersInv
    <3>2. Selling(p)
      BY <2>0, <2>2, <3>1 DEF JobKind, Selling, AtReturn, AtMaster
    <3>3. (Shows(saleJob'[p]) <=> Shows(saleJob[p])) /\ (Shows(saleJob[p]) => saleJob'[p].figure = saleJob[p].figure)
      BY <1>0, <3>1, <3>2, GotoGoes DEF Goes, Shows, Selling
    <3>4. Shows(saleJob[p])' <=> Shows(saleJob[p])
      BY <3>3 DEF Shows
    <3> QED BY <1>0, <2>0, <3>1, <3>3, <3>4, MirrorKept
  <2>7. CASE ~(CallMaster(p) \/ WriteMirror(p) \/ Reread(p) \/ SettleRow(p) \/ ConsumeHold(p))
    <3>1. UNCHANGED <<saleStock, saleMirror>> /\ ~Shows(saleJob[p])
      BY <1>2, <2>2, <2>7
      DEF SaleAct, StartSell, LockPosition, FindRow, ClaimSale, MarkInterrupted, UnlockPosition,
         StartRestore, StartEdit, ListReturns, NextReturn, ReturnsEnd, CrashSale, JobAt, saleMaster, Shows
    <3>2. ~Shows(saleJob'[p])
      <4>1. CASE \E pc : Goto(p, pc) /\ pc \notin {"settle", "hold", "mirror"}
        BY <1>0, <4>1, GotoGoes DEF Goes, Shows
      <4>2. CASE StartSell(p) \/ StartRestore(p) \/ StartEdit(p)
        BY <2>0, <4>2 DEF StartSell, StartRestore, StartEdit, IdleJob, Shows
      <4>3. CASE ListReturns(p) \/ NextReturn(p)
        <5>1. saleJob[p].kind # "sell" /\ saleJob[p].pc # "idle"
          BY <2>0, <4>3 DEF ListReturns, NextReturn, JobAt, JobKind, AtSale, AtMaster
        <5>2. saleJob'[p] = IdleJob \/ saleJob'[p].kind = saleJob[p].kind
          BY <1>0, <1>2, <5>1, OneActs
        <5> QED BY <5>1, <5>2 DEF IdleJob, Shows
      <4>4. CASE FindRow(p)
        <5>1. \E pc : Goto(p, pc) /\ pc \notin {"settle", "hold", "mirror"}
          BY <4>4 DEF FindRow, AfterFind
        <5> QED BY <4>1, <5>1
      <4> QED BY <1>2, <2>2, <2>7, <4>1, <4>2, <4>3, <4>4 DEF SaleAct, LockPosition, ClaimSale, MarkInterrupted,
              UnlockPosition, ReturnsEnd, CrashSale, JobEnds
    <3>3. Shows(saleJob[p])' <=> Shows(saleJob[p])
      BY <3>1, <3>2 DEF Shows
    <3> QED BY <1>0, <2>0, <3>1, <3>3, MirrorKept
  <2> QED BY <2>3, <2>4, <2>5, <2>6, <2>7
<1> QED BY <1>1, <1>2 DEF SaleNext, SaleAct

-----------------------------------------------------------------------------
(* What the returns rest on, for a line with one work.  What a request moved is *)
(* what its row asks for; the returns under way are all of one cancellation or  *)
(* one edit, which have one key; and while it is not used, what they ask for    *)
(* and what was given back are no more than what the sale took.                 *)
Landed == [key \in SaleKeys |-> IF saleSent[key] > 0 THEN saleRow[key].qty ELSE 0]
Given == Total(Landed, Returns)
IsReturning(j) == j.kind \in {"cancel", "edit"} /\ j.pc # "list"
FamilyOf(j) == IF j.kind = "edit" THEN <<"edit", j.edit>> ELSE <<"back">>
ReturnKey(j, w) == IF j.kind = "edit" THEN EditKey(j.edit, 0) ELSE BackKey(w)
TasksOf(j) == j.todo \cup (IF j.pc = "call" THEN {j.task} ELSE {})

OneFamily ==
  \A p, q \in SaleProcs :
    IsReturning(saleJob[p]) /\ IsReturning(saleJob[q]) => FamilyOf(saleJob[p]) = FamilyOf(saleJob[q])
FamilySure ==
  \A p \in SaleProcs, key \in Returns :
    IsReturning(saleJob[p]) /\ Family(key) # FamilyOf(saleJob[p]) => Status(key) \notin {"pending", "in_doubt"}
ReturnRows(w) ==
  \A key \in Returns : Status(key) # "none" =>
    /\ saleRow[key].work = w /\ saleRow[key].qty \in Nat
    /\ key = BackKey(w) \/ \E e \in Edits : key = EditKey(e, 0)
SaleRowFits(w) == Status(SaleKey(w)) # "none" => saleRow[SaleKey(w)].qty \in 0..MasterStock
ClaimsAsAsked ==
  \A p \in SaleProcs : saleJob[p].pc \in {"call", "settle"} =>
    saleRow[saleJob[p].task.key].qty = saleJob[p].task.qty
TaskCovered(task, w) ==
  /\ Status(SaleKey(w)) = "applied" /\ task.work = w /\ task.qty \in Nat
  /\ saleSent[task.key] = 0 => task.qty + Given <= saleRow[SaleKey(w)].qty
TasksCovered(w) ==
  \A p \in SaleProcs : IsReturning(saleJob[p]) =>
    \A task \in TasksOf(saleJob[p]) : task.key = ReturnKey(saleJob[p], w) /\ TaskCovered(task, w)
StockAgrees(w) == saleStock = MasterStock - Landed[SaleKey(w)] + Given /\ Given <= Landed[SaleKey(w)]
Cover(w) ==
  /\ OneFamily /\ FamilySure /\ ReturnRows(w) /\ SaleRowFits(w) /\ ClaimsAsAsked
  /\ TasksCovered(w) /\ StockAgrees(w)
CoverInv == \A w \in Works : Routed = {w} /\ ~saleUnsure => Cover(w)

LEMMA KeysFinite == IsFiniteSet(SaleKeys) /\ IsFiniteSet(Returns) /\ Returns \subseteq SaleKeys
<1> DEFINE sale == [w \in Works |-> SaleKey(w)]
           back == [w \in Works |-> BackKey(w)]
           pairs == Edits \X (Works \cup {0})
           edit == [ew \in pairs |-> EditKey(ew[1], ew[2])]
<1>1. IsFiniteSet(Works) /\ IsFiniteSet(pairs)
  BY SaleAssumption, FS_AddElement, FS_Product
<1>2. /\ DOMAIN sale = Works /\ sale = [w \in Works |-> sale[w]] /\ \A w \in Works : sale[w] = SaleKey(w)
      /\ DOMAIN back = Works /\ back = [w \in Works |-> back[w]] /\ \A w \in Works : back[w] = BackKey(w)
  OBVIOUS
<1>3. /\ DOMAIN edit = pairs /\ edit = [ew \in pairs |-> edit[ew]]
      /\ \A ew \in pairs : \E e \in Edits, w \in Works \cup {0} : edit[ew] = EditKey(e, w)
      /\ \A e \in Edits, w \in Works \cup {0} : <<e, w>> \in pairs /\ edit[<<e, w>>] = EditKey(e, w)
  OBVIOUS
<1> HIDE DEF sale, back, edit, pairs
<1>4. IsFiniteSet({sale[w] : w \in Works}) /\ IsFiniteSet({back[w] : w \in Works}) /\ IsFiniteSet({edit[ew] : ew \in pairs})
  BY <1>1, <1>2, <1>3, ImageIsFinite
<1>5. SaleKeys \subseteq ({sale[w] : w \in Works} \cup {back[w] : w \in Works}) \cup {edit[ew] : ew \in pairs}
  <2>1. \A w \in Works : SaleKey(w) \in {sale[v] : v \in Works} /\ BackKey(w) \in {back[v] : v \in Works}
    BY <1>2
  <2>2. \A e \in Edits, w \in Works \cup {0} : EditKey(e, w) \in {edit[ew] : ew \in pairs}
    BY <1>3
  <2> QED BY <2>1, <2>2 DEF SaleKeys
<1>6. IsFiniteSet(SaleKeys)
  BY <1>4, <1>5, FS_Union, FS_Subset
<1> QED BY <1>6, FS_Subset DEF Returns

(* A row whose request landed says so, and has a quantity.                      *)
LEMMA LandedAre ==
  ASSUME SaleInv, NEW w \in Works, ReturnRows(w), SaleRowFits(w)
  PROVE  /\ \A key \in SaleKeys : saleSent[key] > 0 => saleSent[key] = 1 /\ Status(key) \in {"pending", "applied", "in_doubt"}
         /\ \A key \in Returns : Landed[key] \in Nat
         /\ Landed[SaleKey(w)] \in 0..MasterStock
         /\ Given \in Nat
<1>1. \A key \in SaleKeys : saleSent[key] > 0 => saleSent[key] = 1 /\ Status(key) \in {"pending", "applied", "in_doubt"}
  BY DEF SaleInv, SaleFits, SaleSentOnce, RowFits, SaleStatuses, Status
<1>2. \A key \in Returns : Landed[key] \in Nat
  BY <1>1, KeysFinite DEF Landed, ReturnRows
<1>3. Landed[SaleKey(w)] \in 0..MasterStock
  BY <1>1, SaleKeysAre, SaleAssumption DEF Landed, SaleRowFits
<1>4. Given \in Nat
  BY <1>2, KeysFinite, TotalIsNat DEF Given
<1> QED BY <1>1, <1>2, <1>3, <1>4

(* What landed stays, and what lands is what the row asks for.                  *)
LEMMA LandedSame ==
  ASSUME SaleInv, RowsGoOn, NEW w \in Works, ReturnRows(w), SaleRowFits(w), UNCHANGED saleSent
  PROVE  Landed' = Landed /\ Given' = Given
<1>1. \A key \in SaleKeys : saleSent[key] > 0 => saleRow'[key].qty = saleRow[key].qty
  BY LandedAre DEF RowsGoOn, Onward, Status
<1>2. Landed' = Landed
  BY <1>1 DEF Landed
<1> QED BY <1>2 DEF Given

LEMMA LandedGrows ==
  ASSUME SaleInv, NEW w \in Works, ReturnRows(w), SaleRowFits(w), UNCHANGED saleRow,
         NEW key \in SaleKeys, saleSent[key] = 0, saleRow[key].qty \in Nat,
         saleSent' = [saleSent EXCEPT ![key] = @ + 1]
  PROVE  /\ Landed[key] = 0 /\ \A k \in SaleKeys : Landed'[k] = IF k = key THEN saleRow[key].qty ELSE Landed[k]
         /\ Given' = IF key \in Returns THEN Given + saleRow[key].qty ELSE Given
<1>1. \A k \in SaleKeys : saleSent'[k] = IF k = key THEN 1 ELSE saleSent[k]
  BY DEF SaleInv, SaleFits
<1>2. Landed[key] = 0 /\ \A k \in SaleKeys : Landed'[k] = IF k = key THEN saleRow[key].qty ELSE Landed[k]
  BY <1>1 DEF Landed
<1>3. /\ Given' = Total(Landed', Returns) /\ Given = Total(Landed, Returns) /\ IsFiniteSet(Returns) /\ Returns \subseteq SaleKeys
      /\ \A k \in Returns : Landed[k] \in Nat
  BY KeysFinite, LandedAre DEF Given
<1>4. CASE key \in Returns
  <2>1. Total(Landed', Returns) = Total(Landed, Returns) + Landed'[key] - Landed[key]
    BY <1>2, <1>3, <1>4, TotalChanges
  <2>2. Given \in Nat
    BY LandedAre
  <2> QED BY <1>2, <1>3, <1>4, <2>1, <2>2
<1>5. CASE key \notin Returns
  <2>1. Total(Landed', Returns) = Total(Landed, Returns)
    BY <1>2, <1>3, <1>5, TotalAgrees
  <2> QED BY <1>2, <1>3, <1>5, <2>1
<1> QED BY <1>2, <1>4, <1>5

(* A row is written for a task in hand: left retryable, or claimed by whoever   *)
(* calls the master next.  Otherwise no more than its status changes.           *)
InHand(j) == IF j.kind = "sell" THEN {j.task} ELSE IF j.pc = "next" THEN j.todo ELSE {}
RowStays(key) ==
  /\ saleRow'[key].work = saleRow[key].work /\ saleRow'[key].qty = saleRow[key].qty
  /\ saleRow'[key].status = "none" <=> Status(key) = "none"
  /\ saleRow'[key].status = "pending" => Status(key) = "pending"
RowWritten(key, p, task) ==
  /\ task.key = key /\ Claimable(key) /\ saleRow'[key].work = task.work
  /\ saleRow'[key].qty = IF Status(key) = "none" THEN task.qty ELSE saleRow[key].qty
  /\ \/ saleRow'[key].status = "retryable"
     \/ /\ saleRow'[key].status = "pending" /\ saleJob'[p].pc = "call" /\ saleJob'[p].task = task
        /\ saleUnsure' \/ saleRow'[key].qty = task.qty

LEMMA RecordWrites ==
  ASSUME SaleFits, NEW p, NEW task, task.key \in SaleKeys, NEW key \in SaleKeys,
         \/ RecordRetryable(task) \/ UNCHANGED saleRow
         \/ ClaimRow(task) /\ saleJob'[p].pc = "call" /\ saleJob'[p].task = task
  PROVE  RowStays(key) \/ RowWritten(key, p, task)
<1>1. CASE UNCHANGED saleRow
  BY <1>1 DEF RowStays, Status
<1>2. CASE Claimable(task.key) /\ RowBecomes(task.key, Recorded(task))
  BY <1>2 DEF RowBecomes, Recorded, RowStays, RowWritten, Status
<1>3. CASE ClaimRow(task) /\ saleJob'[p].pc = "call" /\ saleJob'[p].task = task
  <2>1. /\ Claimable(task.key) /\ RowBecomes(task.key, ClaimedAs(task))
        /\ saleUnsure' = (saleUnsure \/ (Status(task.key) = "retryable" /\ saleRow[task.key].qty # task.qty))
    BY <1>3, ClaimIs
  <2>2. /\ ClaimedAs(task).status = "pending" /\ ClaimedAs(task).work = task.work
        /\ ClaimedAs(task).qty = IF Status(task.key) = "none" THEN task.qty ELSE saleRow[task.key].qty
    BY DEF ClaimedAs, Recorded
  <2>3. CASE key # task.key
    <3>1. saleRow'[key] = saleRow[key]
      BY <2>1, <2>3 DEF RowBecomes
    <3> QED BY <3>1 DEF RowStays, Status
  <2>4. CASE key = task.key
    <3>1. saleRow'[key] = ClaimedAs(task)
      BY <2>1, <2>4 DEF RowBecomes
    <3>2. saleUnsure' \/ saleRow'[key].qty = task.qty
      BY <2>1, <2>2, <2>4, <3>1 DEF Claimable
    <3> QED BY <1>3, <2>1, <2>2, <2>4, <3>1, <3>2 DEF RowWritten
  <2> QED BY <2>3, <2>4
<1> QED BY <1>1, <1>2, <1>3, RecordIs

LEMMA RowWrites ==
  ASSUME SaleInv, JobKinds, NEW p \in SaleProcs, SaleAct(p), NEW key \in SaleKeys
  PROVE  RowStays(key) \/ \E task \in InHand(saleJob[p]) : RowWritten(key, p, task)
<1>0. /\ SaleFits /\ JobFits(saleJob[p]) /\ JobKind(saleJob[p]) /\ ClaimHeld(saleJob[p])
      /\ RowFits(saleRow[key])
  BY DEF SaleInv, SaleFits, JobKinds, ClaimsHeld
<1>1. CASE LockPosition(p) \/ FindRow(p) \/ ClaimSale(p)
  <2>1. saleJob[p].pc \in {"lock", "find", "winner", "claim"}
    BY <1>1 DEF LockPosition, FindRow, ClaimSale, JobAt
  <2>2. saleJob[p].task.key \in SaleKeys /\ InHand(saleJob[p]) = {saleJob[p].task}
    BY <1>0, <2>1 DEF JobFits, JobKind, AtReturn, AtMaster, InHand
  <2>3. \/ RecordRetryable(saleJob[p].task) \/ UNCHANGED saleRow
        \/ ClaimRow(saleJob[p].task) /\ Goto(p, "call")
    BY <1>1 DEF LockPosition, FindRow, ClaimSale
  <2>4. Goto(p, "call") => saleJob'[p].pc = "call" /\ saleJob'[p].task = saleJob[p].task
    BY <1>0, GotoGoes DEF Goes
  <2> QED BY <1>0, <2>2, <2>3, <2>4, RecordWrites
<1>2. CASE NextReturn(p)
  <2>1. saleJob[p].pc = "next" /\ JobShape(saleJob[p])
    BY <1>0, <1>2, NextReturnIs DEF JobFits
  <2>2. PICK task \in saleJob[p].todo :
          \/ RecordRetryable(task) \/ UNCHANGED saleRow
          \/ /\ ClaimRow(task)
             /\ saleJob'[p] = [[saleJob[p] EXCEPT !.todo = @ \ {task}] EXCEPT !.pc = "call", !.task = task]
    BY <1>0, <1>2, NextReturnIs
  <2>3. saleJob'[p] = [[saleJob[p] EXCEPT !.todo = @ \ {task}] EXCEPT !.pc = "call", !.task = task] =>
          saleJob'[p].pc = "call" /\ saleJob'[p].task = task
    BY <2>1 DEF JobShape
  <2>4. task.key \in SaleKeys /\ task \in InHand(saleJob[p])
    BY <1>0, <2>1 DEF JobFits, JobKind, AtSale, AtMaster, InHand
  <2> QED BY <1>0, <2>2, <2>3, <2>4, RecordWrites
<1>3. CASE MarkInterrupted(p)
  <2>1. \/ UNCHANGED saleRow
        \/ /\ Status(saleJob[p].task.key) = "pending"
           /\ saleRow' = [saleRow EXCEPT ![saleJob[p].task.key].status = "in_doubt"]
    BY <1>3 DEF MarkInterrupted
  <2>2. CASE UNCHANGED saleRow
    BY <2>2 DEF RowStays, Status
  <2>3. CASE ~UNCHANGED saleRow
    <3>1. saleJob[p].task.key \in SaleKeys
      BY <1>0, <1>3 DEF MarkInterrupted, JobAt, JobFits
    <3>2. RowBecomes(saleJob[p].task.key, [saleRow[saleJob[p].task.key] EXCEPT !.status = "in_doubt"])
      BY <1>0, <2>1, <2>3, <3>1, MarkGoesOn
    <3> QED BY <1>0, <2>1, <2>3, <3>2 DEF RowBecomes, RowFits, RowStays, Status
  <2> QED BY <2>2, <2>3
<1>4. CASE SettleRow(p)
  <2>1. /\ Status(saleJob[p].task.key) \in {"pending", "in_doubt"}
        /\ saleJob[p].answer \in {"applied", "blocked", "in_doubt"}
        /\ \/ UNCHANGED saleRow
           \/ saleRow' = [saleRow EXCEPT ![saleJob[p].task.key].status = saleJob[p].answer]
    BY <1>0, <1>4 DEF SettleRow, ClaimHeld, JobAt
  <2>2. CASE UNCHANGED saleRow
    BY <2>2 DEF RowStays, Status
  <2>3. CASE ~UNCHANGED saleRow
    <3>1. saleJob[p].task.key \in SaleKeys
      BY <1>0, <1>4 DEF SettleRow, JobAt, JobFits
    <3>2. RowBecomes(saleJob[p].task.key, [saleRow[saleJob[p].task.key] EXCEPT !.status = saleJob[p].answer])
      BY <1>0, <2>1, <2>3, <3>1, MarkGoesOn
    <3> QED BY <1>0, <2>1, <2>3, <3>2 DEF RowBecomes, RowFits, RowStays, Status
  <2> QED BY <2>2, <2>3
<1>5. CASE UNCHANGED saleRow
  BY <1>5 DEF RowStays, Status
<1> QED BY <1>1, <1>2, <1>3, <1>4, <1>5
        DEF SaleAct, StartSell, CallMaster, ConsumeHold, Reread, WriteMirror, UnlockPosition,
            StartRestore, StartEdit, ListReturns, ReturnsEnd, CrashSale

(* Who calls the master has just claimed its row.                               *)
LEMMA CallsClaim ==
  ASSUME SaleInv, JobKinds, NEW p \in SaleProcs, SaleAct(p), saleJob'[p].pc = "call"
  PROVE  /\ saleJob'[p].task \in InHand(saleJob[p]) /\ ClaimRow(saleJob'[p].task)
         /\ saleJob'[p].task.key \in SaleKeys /\ saleJob'[p].todo \subseteq saleJob[p].todo
<1>0. /\ SaleFits /\ JobFits(saleJob[p]) /\ JobShape(saleJob[p]) /\ JobKind(saleJob[p])
      /\ saleJob = [q \in SaleProcs |-> saleJob[q]]
  BY DEF SaleInv, SaleFits, JobKinds, JobFits
<1>1. CASE \E pc : Goto(p, pc) /\ pc # "call"
  BY <1>0, <1>1, GotoGoes DEF Goes
<1>2. CASE ClaimSale(p) /\ ~Goto(p, "winner")
  <2>1. /\ saleJob[p].pc = "claim" /\ ClaimRow(saleJob[p].task) /\ Goto(p, "call")
    BY <1>2 DEF ClaimSale, JobAt
  <2>2. /\ saleJob'[p].task = saleJob[p].task /\ saleJob'[p].todo = saleJob[p].todo
    BY <1>0, <2>1, GotoGoes DEF Goes
  <2> QED BY <1>0, <2>1, <2>2 DEF JobFits, JobKind, AtReturn, AtMaster, InHand
<1>3. CASE NextReturn(p)
  <2>1. saleJob[p].pc = "next"
    BY <1>0, <1>3, NextReturnIs
  <2>2. PICK task \in saleJob[p].todo :
          \/ saleJob'[p] = IdleJob
          \/ saleJob'[p] = [saleJob[p] EXCEPT !.todo = @ \ {task}]
          \/ /\ ClaimRow(task)
             /\ saleJob'[p] = [[saleJob[p] EXCEPT !.todo = @ \ {task}] EXCEPT !.pc = "call", !.task = task]
    BY <1>0, <1>3, NextReturnIs DEF Reported
  <2>3. saleJob'[p] # IdleJob /\ saleJob'[p] # [saleJob[p] EXCEPT !.todo = @ \ {task}]
    BY <1>0, <2>1 DEF JobShape, IdleJob
  <2>4. /\ ClaimRow(task)
        /\ saleJob'[p] = [[saleJob[p] EXCEPT !.todo = @ \ {task}] EXCEPT !.pc = "call", !.task = task]
    BY <2>2, <2>3, Zenon
  <2>5. saleJob'[p].task = task /\ saleJob'[p].todo \subseteq saleJob[p].todo
    BY <1>0, <2>4 DEF JobShape
  <2> QED BY <1>0, <2>1, <2>4, <2>5 DEF JobFits, JobKind, AtSale, AtMaster, InHand
<1>4. CASE StartSell(p) \/ StartRestore(p) \/ StartEdit(p)
  BY <1>0, <1>4 DEF StartSell, StartRestore, StartEdit, IdleJob
<1>5. CASE ListReturns(p)
  BY <1>0, <1>5, ListReturnsIs
<1>6. CASE Reread(p) /\ saleJob' = [saleJob EXCEPT ![p].pc = "mirror", ![p].figure = saleStock]
  BY <1>0, <1>6 DEF JobShape
<1>7. CASE CallMaster(p)
  BY <1>0, <1>7 DEF CallMaster, Answered, JobShape
<1>8. CASE SettleRow(p) \/ FindRow(p) \/ (Reread(p) /\ Goto(p, RowDone(p))) \/ WriteMirror(p)
  <2>1. \E pc : Goto(p, pc) /\ pc # "call"
    BY <1>8 DEF SettleRow, FindRow, AfterFind, WriteMirror, RowDone
  <2> QED BY <1>1, <2>1
<1> QED BY <1>1, <1>2, <1>3, <1>4, <1>5, <1>6, <1>7, <1>8 DEF SaleAct, LockPosition, MarkInterrupted,
        ConsumeHold, Reread, UnlockPosition, ReturnsEnd, CrashSale, JobEnds

(* A return goes on with what it has read, or reads now.                        *)
LEMMA ReturnsGo ==
  ASSUME SaleInv, JobKinds, JobKinds', NEW p \in SaleProcs, SaleAct(p), IsReturning(saleJob'[p]), ~ListReturns(p)
  PROVE  /\ IsReturning(saleJob[p]) /\ saleJob'[p].kind = saleJob[p].kind /\ saleJob'[p].edit = saleJob[p].edit
         /\ FamilyOf(saleJob'[p]) = FamilyOf(saleJob[p]) /\ TasksOf(saleJob'[p]) \subseteq TasksOf(saleJob[p])
<1>0. /\ SaleFits /\ JobFits(saleJob[p]) /\ JobShape(saleJob[p]) /\ JobKind(saleJob[p])
      /\ saleJob = [q \in SaleProcs |-> saleJob[q]]
  BY DEF SaleInv, SaleFits, JobKinds, JobFits
<1>1. saleJob'[p].pc # "idle" /\ ~StartSell(p) /\ ~StartRestore(p) /\ ~StartEdit(p) /\ saleJob'[p] # IdleJob
  <2>1. ~StartSell(p)
    BY <1>0 DEF StartSell, IsReturning, IdleJob
  <2>2. ~StartRestore(p) /\ ~StartEdit(p) /\ saleJob'[p] # IdleJob
    BY <1>0, StartReturnIs DEF IsReturning, IdleJob
  <2>3. saleJob'[p].pc # "idle"
    BY DEF JobKinds, JobKind, IsReturning
  <2> QED BY <2>1, <2>2, <2>3
<1>2. saleJob[p].pc # "idle"
  BY <1>1
  DEF SaleAct, LockPosition, FindRow, ClaimSale, MarkInterrupted, CallMaster, SettleRow, ConsumeHold, Reread,
     WriteMirror, UnlockPosition, ListReturns, NextReturn, ReturnsEnd, CrashSale, JobAt
<1>3. saleJob'[p].kind = saleJob[p].kind /\ saleJob'[p].edit = saleJob[p].edit
  BY <1>0, <1>1, <1>2, OneActs
<1>4. saleJob[p].pc # "list"
  <2>1. saleJob[p].pc = "list" => CrashSale(p)
    BY <1>1
    DEF SaleAct, LockPosition, FindRow, ClaimSale, MarkInterrupted, CallMaster, SettleRow, ConsumeHold, Reread,
       WriteMirror, UnlockPosition, ListReturns, NextReturn, ReturnsEnd, JobAt
  <2>2. ~CrashSale(p)
    BY <1>0, <1>1, GotoGoes DEF CrashSale, JobEnds, Goes
  <2> QED BY <2>1, <2>2
<1>5. saleJob'[p].todo \subseteq saleJob[p].todo
  <2>1. CASE \E pc : Goto(p, pc)
    BY <1>0, <1>1, <2>1, GotoGoes DEF Goes
  <2>2. CASE CallMaster(p) \/ (Reread(p) /\ saleJob' = [saleJob EXCEPT ![p].pc = "mirror", ![p].figure = saleStock])
    BY <1>0, <2>2 DEF CallMaster, Answered, JobShape
  <2>3. CASE NextReturn(p)
    <3>1. PICK task \in saleJob[p].todo :
          \/ saleJob'[p] = IdleJob
          \/ saleJob'[p] = [saleJob[p] EXCEPT !.todo = @ \ {task}]
          \/ saleJob'[p] = [[saleJob[p] EXCEPT !.todo = @ \ {task}] EXCEPT !.pc = "call", !.task = task]
      BY <1>0, <2>3, NextReturnIs DEF Reported
    <3> QED BY <1>0, <1>1, <3>1 DEF JobShape
  <2> QED BY <1>1, <2>1, <2>2, <2>3 DEF SaleAct, LockPosition, FindRow, ClaimSale, MarkInterrupted, SettleRow,
          ConsumeHold, Reread, WriteMirror, UnlockPosition, ReturnsEnd, CrashSale, JobEnds
<1>6. saleJob'[p].pc = "call" => saleJob'[p].task \in saleJob[p].todo
  BY <1>3, CallsClaim DEF InHand, IsReturning
<1> QED BY <1>3, <1>4, <1>5, <1>6 DEF IsReturning, FamilyOf, TasksOf

(* The rows and the claims of a line with one work.                             *)
LEMMA FamilyKeys ==
  ASSUME NEW j, JobFits(j), NEW w \in Works
  PROVE  ReturnKey(j, w) \in Returns /\ Family(ReturnKey(j, w)) = FamilyOf(j)
BY KeysDiffer DEF JobFits, ReturnKey, FamilyOf

LEMMA ReturnRowsStep ==
  ASSUME SaleInv, JobKinds, NEW w \in Works, Routed = {w}, Cover(w), RowsGoOn, NEW p \in SaleProcs, SaleAct(p)
  PROVE  ReturnRows(w)'
<1>1. ASSUME NEW key \in Returns, saleRow'[key].status # "none"
      PROVE  /\ saleRow'[key].work = w /\ saleRow'[key].qty \in Nat
             /\ key = BackKey(w) \/ \E e \in Edits : key = EditKey(e, 0)
  <2>0. key \in SaleKeys /\ JobKind(saleJob[p]) /\ JobFits(saleJob[p])
    BY KeysFinite DEF JobKinds, SaleInv, SaleFits
  <2>1. CASE RowStays(key)
    BY <1>1, <2>0, <2>1 DEF RowStays, Cover, ReturnRows
  <2>2. ASSUME NEW task \in InHand(saleJob[p]), RowWritten(key, p, task)
        PROVE  /\ saleRow'[key].work = w /\ saleRow'[key].qty \in Nat
               /\ key = BackKey(w) \/ \E e \in Edits : key = EditKey(e, 0)
    <3>1. saleJob[p].kind # "sell"
      <4>1. saleJob[p].kind = "sell" => \E v \in Routed : key = SaleKey(v)
        BY <2>0, <2>2 DEF InHand, JobKind, SaleTask, RowWritten
      <4> QED BY <4>1, KeysDiffer
    <3>2. task \in saleJob[p].todo /\ task.key = key
      BY <2>2, <3>1 DEF InHand, RowWritten
    <3>3. IsReturning(saleJob[p])
      BY <2>0, <2>2, <3>1 DEF InHand, JobKind, IsReturning
    <3>4. task.work = w /\ task.qty \in Nat /\ key = ReturnKey(saleJob[p], w)
      BY <3>2, <3>3 DEF Cover, TasksCovered, TasksOf, TaskCovered
    <3>5. key = BackKey(w) \/ \E e \in Edits : key = EditKey(e, 0)
      BY <2>0, <3>4 DEF ReturnKey, JobFits
    <3> QED BY <2>2, <3>4, <3>5 DEF RowWritten, Cover, ReturnRows
  <2> QED BY <2>0, <2>1, <2>2, RowWrites
<1> QED BY <1>1 DEF ReturnRows, Status

LEMMA SaleRowStep ==
  ASSUME SaleInv, JobKinds, NEW w \in Works, Routed = {w}, Cover(w), saleCase.qty[w] <= MasterStock,
         NEW p \in SaleProcs, SaleAct(p)
  PROVE  SaleRowFits(w)'
<1>0. /\ SaleKey(w) \in SaleKeys /\ JobKind(saleJob[p]) /\ JobFits(saleJob[p]) /\ ReturnTasks(saleJob[p])
      /\ saleCase.qty[w] \in Nat /\ MasterStock \in Nat
  BY SaleKeysAre, RoutedAre, SaleAssumption DEF JobKinds, SaleInv, SaleFits
<1>1. CASE RowStays(SaleKey(w))
  BY <1>1 DEF RowStays, Cover, SaleRowFits, Status
<1>2. ASSUME NEW task \in InHand(saleJob[p]), RowWritten(SaleKey(w), p, task) PROVE SaleRowFits(w)'
  <2>1. saleJob[p].kind = "sell"
    BY <1>0, <1>2, KeysDiffer DEF InHand, ReturnTasks, RowWritten
  <2>2. PICK v \in Routed : task.qty \in 0..saleCase.qty[v]
    BY <1>0, <1>2, <2>1 DEF InHand, JobKind, SaleTask
  <2>3. task.qty \in 0..MasterStock
    BY <1>0, <2>2
  <2> QED BY <1>2, <2>3 DEF RowWritten, Cover, SaleRowFits, Status
<1> QED BY <1>0, <1>1, <1>2, RowWrites

LEMMA SettlesAsCalled ==
  ASSUME SaleFits, NEW p \in SaleProcs, SaleAct(p), saleJob'[p].pc = "settle"
  PROVE  saleJob[p].pc = "call" /\ saleJob'[p].task = saleJob[p].task /\ UNCHANGED saleRow
<1>1. CallMaster(p)
  BY OnlyCallSettles
<1>2. PICK answer : saleJob' = [saleJob EXCEPT ![p].pc = "settle", ![p].answer = answer, ![p].figure = saleStock']
  BY <1>1 DEF CallMaster, Answered
<1> QED BY <1>1, <1>2 DEF CallMaster, JobAt, SaleFits, JobFits, JobShape

LEMMA AsAskedStep ==
  ASSUME SaleInv, JobKinds, NEW w \in Works, Cover(w), ~saleUnsure', RowsGoOn,
         NEW p \in SaleProcs, SaleAct(p)
  PROVE  ClaimsAsAsked'
<1>0. SaleFits /\ ClaimsAsAsked
  BY DEF SaleInv, Cover
<1>1. ASSUME NEW q \in SaleProcs \ {p}, saleJob'[q].pc \in {"call", "settle"}
      PROVE  saleRow'[saleJob'[q].task.key].qty = saleJob'[q].task.qty
  <2>1. saleJob'[q] = saleJob[q]
    BY <1>0, OneActs DEF Alone
  <2>2. /\ saleJob[q].task.key \in SaleKeys /\ Status(saleJob[q].task.key) \in {"pending", "in_doubt"}
        /\ saleRow[saleJob[q].task.key].qty = saleJob[q].task.qty
    BY <1>0, <1>1, <2>1 DEF SaleInv, SaleFits, JobFits, ClaimsHeld, ClaimHeld, ClaimsAsAsked
  <2> QED BY <2>1, <2>2 DEF RowsGoOn, Onward, Status
<1>2. CASE saleJob'[p].pc = "call"
  <2>1. ClaimRow(saleJob'[p].task) /\ saleJob'[p].task.key \in SaleKeys
    BY <1>2, CallsClaim
  <2>2. /\ RowBecomes(saleJob'[p].task.key, ClaimedAs(saleJob'[p].task))
        /\ Claimable(saleJob'[p].task.key)
        /\ saleUnsure' = (saleUnsure \/ (/\ Status(saleJob'[p].task.key) = "retryable"
                                         /\ saleRow[saleJob'[p].task.key].qty # saleJob'[p].task.qty))
    BY <1>0, <2>1, ClaimIs
  <2>3. saleRow'[saleJob'[p].task.key].qty = saleJob'[p].task.qty
    BY <2>1, <2>2 DEF RowBecomes, ClaimedAs, Recorded, Claimable
  <2> QED BY <1>1, <1>2, <2>3 DEF ClaimsAsAsked
<1>3. CASE saleJob'[p].pc = "settle"
  <2>1. saleRow'[saleJob'[p].task.key].qty = saleJob'[p].task.qty
    BY <1>0, <1>3, SettlesAsCalled DEF ClaimsAsAsked
  <2> QED BY <1>1, <1>3, <2>1 DEF ClaimsAsAsked
<1> QED BY <1>1, <1>2, <1>3 DEF ClaimsAsAsked

(* Who lists its returns finds no others under way.                             *)
LEMMA ListsAlone ==
  ASSUME SaleFits, NEW p \in SaleProcs, ListReturns(p), ~saleUnsure'
  PROVE  /\ UNCHANGED <<saleRow, saleSent, saleStock>> /\ FamilyOf(saleJob'[p]) = FamilyOf(saleJob[p])
         /\ saleJob'[p].pc = "next" /\ saleJob'[p].kind = saleJob[p].kind /\ saleJob'[p].edit = saleJob[p].edit
         /\ \A key \in Returns : Family(key) # FamilyOf(saleJob[p]) => Status(key) \notin {"pending", "in_doubt"}
         /\ \A q \in SaleProcs : q # p /\ IsReturning(saleJob[q]) => FamilyOf(saleJob[q]) = FamilyOf(saleJob[p])
<1>1. saleUnsure' = (saleUnsure \/ OtherReturns(p)) /\ UNCHANGED <<saleRow, saleSent, saleStock>>
  BY DEF ListReturns, saleMaster
<1>2. ~OtherReturns(p)
  BY <1>1
<1> QED BY <1>1, <1>2, ListReturnsIs DEF OtherReturns, OwnFamily, FamilyOf, IsReturning

LEMMA OneFamilyStep ==
  ASSUME SaleInv, JobKinds, JobKinds', OneFamily, ~saleUnsure', NEW p \in SaleProcs, SaleAct(p)
  PROVE  OneFamily'
<1>0. SaleFits /\ Alone(p)
  BY OneActs DEF SaleInv
<1>1. CASE ListReturns(p)
  <2>1. /\ FamilyOf(saleJob'[p]) = FamilyOf(saleJob[p])
        /\ \A q \in SaleProcs : q # p /\ IsReturning(saleJob[q]) => FamilyOf(saleJob[q]) = FamilyOf(saleJob[p])
    BY <1>0, <1>1, ListsAlone
  <2>2. \A q \in SaleProcs : IsReturning(saleJob'[q]) => FamilyOf(saleJob'[q]) = FamilyOf(saleJob[p])
    BY <1>0, <2>1 DEF Alone
  <2> QED BY <2>2 DEF OneFamily, IsReturning, FamilyOf
<1>2. CASE ~ListReturns(p)
  <2>1. \A q \in SaleProcs : IsReturning(saleJob'[q]) => IsReturning(saleJob[q]) /\ FamilyOf(saleJob'[q]) = FamilyOf(saleJob[q])
    BY <1>0, <1>2, ReturnsGo DEF Alone
  <2>2. \A q, r \in SaleProcs : IsReturning(saleJob'[q]) /\ IsReturning(saleJob'[r]) => FamilyOf(saleJob'[q]) = FamilyOf(saleJob'[r])
    BY <2>1 DEF OneFamily
  <2> QED BY <2>2 DEF OneFamily, IsReturning, FamilyOf
<1> QED BY <1>1, <1>2

LEMMA FamilySureStep ==
  ASSUME SaleInv, SaleInv', JobKinds, JobKinds', NEW w \in Works, Routed = {w}, Cover(w), ~saleUnsure', RowsGoOn,
         UNCHANGED saleCase, NEW p \in SaleProcs, SaleAct(p), OneFamily', TasksCovered(w)'
  PROVE  FamilySure'
<1>0. SaleFits /\ Alone(p) /\ Routed' = Routed
  BY OneActs DEF SaleInv, Routed
<1>1. ASSUME NEW q \in SaleProcs, NEW key \in Returns, IsReturning(saleJob'[q]), Family(key) # FamilyOf(saleJob'[q]),
             saleRow'[key].status \in {"pending", "in_doubt"}
      PROVE  FALSE
  <2>1. key \in SaleKeys
    BY KeysFinite
  <2>2. CASE Status(key) \in {"pending", "in_doubt"}
    <3>1. CASE ListReturns(p) /\ q = p
      BY <1>0, <1>1, <2>2, <3>1, ListsAlone
    <3>2. CASE ~(ListReturns(p) /\ q = p)
      <4>1. IsReturning(saleJob[q]) /\ FamilyOf(saleJob'[q]) = FamilyOf(saleJob[q])
        BY <1>0, <1>1, <3>2, ReturnsGo DEF Alone
      <4> QED BY <1>1, <2>2, <4>1 DEF Cover, FamilySure
    <3> QED BY <3>1, <3>2
  <2>3. CASE Status(key) \notin {"pending", "in_doubt"}
    <3>1. saleRow'[key].status = "pending"
      BY <1>1, <2>1, <2>3 DEF RowsGoOn, Onward, Status
    <3>2. PICK task \in InHand(saleJob[p]) : RowWritten(key, p, task)
      BY <2>1, <2>3, <3>1, RowWrites DEF RowStays
    <3>3. task.key = key /\ saleJob'[p].pc = "call" /\ saleJob'[p].task = task
      BY <3>1, <3>2 DEF RowWritten
    <3>4. IsReturning(saleJob'[p])
      <4>1. saleJob'[p].kind # "sell"
        BY <1>0, <3>3, KeysDiffer DEF JobKinds, JobKind, SaleTask
      <4>2. saleJob'[p].kind \in {"none", "sell", "cancel", "edit"} /\ saleJob'[p].kind # "none"
        BY <3>3 DEF JobKinds, JobKind
      <4> QED BY <3>3, <4>1, <4>2 DEF IsReturning
    <3>5. key = ReturnKey(saleJob'[p], w)
      BY <3>3, <3>4 DEF TasksCovered, TasksOf, IsReturning, ReturnKey
    <3>6. JobFits(saleJob'[p])
      BY DEF SaleInv, SaleFits
    <3>7. FamilyOf(saleJob'[p]) = FamilyOf(saleJob'[q])
      BY <1>1, <3>4 DEF OneFamily, IsReturning, FamilyOf
    <3> QED BY <1>1, <3>5, <3>6, <3>7, FamilyKeys
  <2> QED BY <2>2, <2>3
<1> QED BY <1>1 DEF FamilySure, IsReturning, FamilyOf, Status

(* The master's figure follows what landed: of a sale, which finds all of the   *)
(* stock, and of a return that the sale covers.                                 *)
LEMMA LandsOrNot ==
  ASSUME NEW p \in SaleProcs, SaleAct(p)
  PROVE  UNCHANGED <<saleSent, saleStock>> \/ (saleJob[p].pc = "call" /\ Lands(p) /\ UNCHANGED saleRow)
BY DEF SaleAct, saleMaster, JobAt, StartSell, LockPosition, FindRow, ClaimSale, MarkInterrupted, CallMaster,
   SettleRow,
       ConsumeHold, Reread, WriteMirror, UnlockPosition, StartRestore, StartEdit, ListReturns, NextReturn, ReturnsEnd,
       CrashSale

LEMMA Landing ==
  ASSUME SaleInv, JobKinds, NEW w \in Works, Routed = {w}, Cover(w), saleCase.qty[w] <= MasterStock,
         NEW p \in SaleProcs, saleJob[p].pc = "call", Lands(p), UNCHANGED saleRow
  PROVE  /\ StockAgrees(w)'
         /\ Given' = Given \/ (IsReturning(saleJob[p]) /\ saleSent'[ReturnKey(saleJob[p], w)] = 1)
<1> DEFINE task == saleJob[p].task
           key == task.key
<1>0. /\ SaleFits /\ JobFits(saleJob[p]) /\ JobKind(saleJob[p]) /\ ClaimHeld(saleJob[p])
      /\ SaleKey(w) \in SaleKeys /\ SaleKey(w) \notin Returns
      /\ saleCase.qty[w] \in Nat /\ MasterStock \in Nat
  BY SaleKeysAre, KeysDiffer, RoutedAre, SaleAssumption DEF SaleInv, SaleFits, JobKinds, ClaimsHeld
<1>1. /\ key \in SaleKeys /\ saleSent[key] = 0 /\ saleRow[key].qty = task.qty
      /\ saleSent' = [saleSent EXCEPT ![key] = @ + 1]
  BY <1>0 DEF JobFits, ClaimHeld, Cover, ClaimsAsAsked, Lands
<1>2. /\ Landed[SaleKey(w)] \in 0..MasterStock /\ Given \in Nat
      /\ saleStock = MasterStock - Landed[SaleKey(w)] + Given /\ Given <= Landed[SaleKey(w)]
  BY LandedAre DEF Cover, StockAgrees
<1>3. CASE Selling(p)
  <2>1. key = SaleKey(w) /\ task.qty \in 0..MasterStock
    <3>1. PICK v \in Routed : key = SaleKey(v) /\ task.qty \in 0..saleCase.qty[v]
      BY <1>0, <1>3 DEF JobKind, SaleTask, Selling
    <3> QED BY <1>0, <3>1
  <2>2. /\ Landed[key] = 0 /\ Landed'[key] = task.qty /\ Given' = Given
    <3>1. saleRow[key].qty \in Nat /\ key \notin Returns /\ ReturnRows(w) /\ SaleRowFits(w)
      BY <1>0, <1>1, <2>1 DEF Cover
    <3> HIDE DEF key
    <3> QED BY <1>1, <3>1, LandedGrows
  <2>3. Given = 0 /\ saleStock = MasterStock
    BY <1>0, <1>2, <2>1, <2>2
  <2>4. saleStock' = MasterStock - task.qty
    BY <1>0, <1>3, <2>1, <2>3 DEF Lands, LeastUnits
  <2> QED BY <1>0, <2>1, <2>2, <2>3, <2>4 DEF StockAgrees
<1>4. CASE ~Selling(p)
  <2>1. IsReturning(saleJob[p]) /\ task \in TasksOf(saleJob[p]) /\ key \in Returns
    BY <1>0, <1>4 DEF JobKind, Selling, IsReturning, TasksOf, AtMaster
  <2>2. /\ key = ReturnKey(saleJob[p], w) /\ Status(SaleKey(w)) = "applied" /\ task.qty \in Nat
        /\ task.qty + Given <= saleRow[SaleKey(w)].qty
    BY <1>1, <2>1 DEF Cover, TasksCovered, TaskCovered
  <2>3. Landed[SaleKey(w)] = saleRow[SaleKey(w)].qty
    BY <1>0, <2>2 DEF SaleInv, SaleSentOnce, Landed
  <2>4. /\ Landed'[SaleKey(w)] = Landed[SaleKey(w)] /\ Given' = Given + task.qty
    <3>1. /\ saleRow[key].qty = task.qty /\ saleRow[key].qty \in Nat /\ ReturnRows(w) /\ SaleRowFits(w)
          /\ key # SaleKey(w)
      BY <1>0, <1>1, <2>1, <2>2 DEF Cover
    <3> HIDE DEF key
    <3>2. /\ \A k \in SaleKeys : Landed'[k] = IF k = key THEN saleRow[key].qty ELSE Landed[k]
          /\ Given' = IF key \in Returns THEN Given + saleRow[key].qty ELSE Given
      BY <1>1, <3>1, LandedGrows
    <3> QED BY <1>0, <2>1, <3>1, <3>2
  <2>5. saleStock' = saleStock + task.qty
    BY <1>4 DEF Lands
  <2>6. saleSent'[key] = 1
    BY <1>0, <1>1 DEF SaleFits
  <2>7. StockAgrees(w)'
    BY <1>0, <1>2, <2>2, <2>3, <2>4, <2>5 DEF StockAgrees
  <2> QED BY <2>1, <2>2, <2>6, <2>7
<1> QED BY <1>3, <1>4

LEMMA StockStep ==
  ASSUME SaleInv, JobKinds, NEW w \in Works, Routed = {w}, Cover(w), saleCase.qty[w] <= MasterStock, RowsGoOn,
         NEW p \in SaleProcs, SaleAct(p)
  PROVE  StockAgrees(w)'
<1>1. CASE UNCHANGED <<saleSent, saleStock>>
  <2>1. Landed' = Landed /\ Given' = Given
    BY <1>1, LandedSame DEF Cover
  <2> QED BY <1>1, <2>1 DEF Cover, StockAgrees
<1>2. CASE saleJob[p].pc = "call" /\ Lands(p) /\ UNCHANGED saleRow
  BY <1>2, Landing
<1> QED BY <1>1, <1>2, LandsOrNot

(* A task stays covered: what is given back meanwhile is given for its key.     *)
LEMMA CoveredStays ==
  ASSUME SaleInv, SaleInv', JobKinds, NEW w \in Works, Routed = {w}, Cover(w), saleCase.qty[w] <= MasterStock, RowsGoOn,
         \A key \in SaleKeys : saleSent[key] <= saleSent'[key], NEW p \in SaleProcs, SaleAct(p),
         NEW q \in SaleProcs, IsReturning(saleJob[q]), NEW task \in TasksOf(saleJob[q])
  PROVE  TaskCovered(task, w)'
<1>0. /\ SaleFits /\ JobFits(saleJob[p]) /\ JobFits(saleJob[q]) /\ SaleKey(w) \in SaleKeys
  BY SaleKeysAre DEF SaleInv, SaleFits
<1>1. task.key = ReturnKey(saleJob[q], w) /\ TaskCovered(task, w)
  BY DEF Cover, TasksCovered
<1>2. task.key \in SaleKeys /\ saleSent[task.key] \in Nat
  BY <1>0, <1>1, FamilyKeys, KeysFinite DEF SaleFits
<1>3. saleRow'[SaleKey(w)].status = "applied" /\ saleRow'[SaleKey(w)].qty = saleRow[SaleKey(w)].qty
  BY <1>0, <1>1 DEF TaskCovered, RowsGoOn, Onward, Status
<1>4. saleSent'[task.key] = 0 => saleSent[task.key] = 0
  BY <1>2 DEF SaleInv, SaleFits
<1>5. saleSent'[task.key] = 0 => Given' = Given
  <2>1. CASE UNCHANGED <<saleSent, saleStock>>
    BY <2>1, LandedSame DEF Cover
  <2>2. CASE saleJob[p].pc = "call" /\ Lands(p) /\ UNCHANGED saleRow
    <3>1. Given' = Given \/ (IsReturning(saleJob[p]) /\ saleSent'[ReturnKey(saleJob[p], w)] = 1)
      BY <2>2, Landing
    <3>2. IsReturning(saleJob[p]) => ReturnKey(saleJob[p], w) = ReturnKey(saleJob[q], w)
      BY <1>0 DEF Cover, OneFamily, FamilyOf, ReturnKey, IsReturning
    <3> QED BY <1>1, <3>1, <3>2
  <2> QED BY <2>1, <2>2, LandsOrNot
<1> QED BY <1>1, <1>3, <1>4, <1>5 DEF TaskCovered, Status

(* What a return reads, in sums: the units of rows, and of the rows that landed.*)
LEMMA UnitsAre ==
  ASSUME NEW S, S \subseteq SaleKeys PROVE IsFiniteSet(S) /\ UnitsOf(S) = Total([key \in S |-> saleRow[key].qty], S)
<1>1. IsFiniteSet(S)
  BY KeysFinite, FS_Subset
<1> QED BY <1>1, SumOfRows DEF UnitsOf

LEMMA UnitsLanded ==
  ASSUME SaleInv, NEW w \in Works, ReturnRows(w), SaleRowFits(w), NEW S, S \subseteq Returns,
         \A key \in S : saleSent[key] > 0, \A key \in Returns \ S : ~(saleSent[key] > 0)
  PROVE  UnitsOf(S) = Given
<1> DEFINE f == [key \in S |-> saleRow[key].qty]
<1>1. IsFiniteSet(S) /\ UnitsOf(S) = Total(f, S) /\ IsFiniteSet(Returns) /\ Returns \subseteq SaleKeys
  BY KeysFinite, UnitsAre
<1>2. \A key \in S : f[key] = Landed[key]
  BY <1>1 DEF Landed
<1>3. \A key \in Returns \ S : Landed[key] = 0
  BY <1>1 DEF Landed
<1> HIDE DEF f
<1>4. Total(f, S) = Total(Landed, S)
  BY <1>1, <1>2, TotalAgrees
<1>5. \A key \in Returns : Landed[key] \in Int
  BY LandedAre
<1>6. Total(Landed, S) = Total(Landed, Returns)
  BY <1>1, <1>3, <1>5, TotalOfSome
<1> QED BY <1>1, <1>4, <1>6 DEF Given

(* A cancellation gives back what edits have left of the sale, ...              *)
LEMMA RestoreCovered ==
  ASSUME SaleInv, NEW w \in Works, Routed = {w}, Cover(w),
         \A key \in Returns : Family(key) # <<"back">> => Status(key) \notin {"pending", "in_doubt"},
         NEW task \in RestoreTasks
  PROVE  task.key = BackKey(w) /\ TaskCovered(task, w)
<1> DEFINE A == {key \in Applied(Returns) : key[1] = "edit" /\ saleRow[key].work = w}
<1>0. /\ SaleFits /\ ReturnRows(w) /\ SaleRowFits(w) /\ Returns \subseteq SaleKeys
      /\ A \subseteq Returns /\ \A key \in A : Status(key) = "applied"
  BY KeysFinite DEF SaleInv, Cover, Applied
<1>1. PICK v \in Sold : /\ task = [key |-> BackKey(v), work |-> v, qty |-> saleRow[SaleKey(v)].qty - EditReversed(v)]
                        /\ saleRow[SaleKey(v)].qty > EditReversed(v)
  BY DEF RestoreTasks
<1>2. v = w /\ Status(SaleKey(w)) = "applied" /\ EditReversed(w) = UnitsOf(A)
  BY <1>1 DEF Sold, EditReversed
<1>3. saleRow[SaleKey(w)].qty \in Nat
  BY <1>0, <1>2, SaleAssumption DEF SaleRowFits
<1>4. UnitsOf(A) \in Nat
  <2> DEFINE f == [key \in A |-> saleRow[key].qty]
  <2>1. IsFiniteSet(A) /\ UnitsOf(A) = Total(f, A)
    BY <1>0, UnitsAre
  <2>2. \A key \in A : f[key] \in Nat
    BY <1>0 DEF ReturnRows
  <2> HIDE DEF f, A
  <2> QED BY <2>1, <2>2, TotalIsNat
<1>5. task.key = BackKey(w) /\ task.work = w /\ task.qty \in Nat /\ task.qty = saleRow[SaleKey(w)].qty - UnitsOf(A)
  BY <1>1, <1>2, <1>3, <1>4
<1>6. ASSUME saleSent[BackKey(w)] = 0 PROVE UnitsOf(A) = Given
  <2>1. \A key \in A : saleSent[key] > 0
    BY <1>0 DEF SaleInv, SaleSentOnce
  <2>2. ASSUME NEW key \in Returns \ A, saleSent[key] > 0 PROVE FALSE
    <3>1. key \in SaleKeys /\ Status(key) \in {"pending", "applied", "in_doubt"}
      BY <1>0, <2>2, LandedAre
    <3>2. saleRow[key].work = w /\ (key = BackKey(w) \/ \E e \in Edits : key = EditKey(e, 0))
      BY <1>0, <2>2, <3>1 DEF ReturnRows
    <3>3. PICK e \in Edits : key = EditKey(e, 0)
      BY <1>6, <2>2, <3>2
    <3>4. key[1] = "edit" /\ Family(key) # <<"back">>
      BY <3>3 DEF EditKey, Family
    <3>5. Status(key) = "applied"
      BY <2>2, <3>1, <3>4
    <3> QED BY <2>2, <3>2, <3>4, <3>5 DEF Applied
  <2> HIDE DEF A
  <2> QED BY <1>0, <2>1, <2>2, UnitsLanded
<1> HIDE DEF A
<1> QED BY <1>2, <1>3, <1>4, <1>5, <1>6 DEF TaskCovered

(* ... and an edit no more than what is left of it.                             *)
LEMMA EditCovered ==
  ASSUME SaleInv, NEW w \in Works, Routed = {w}, Cover(w), NEW e \in DOMAIN saleCase.edits,
         \A key \in Returns : Family(key) # <<"edit", e>> => Status(key) \notin {"pending", "in_doubt"},
         \A key \in Returns : Family(key) = <<"edit", e>> => Status(key) = "none",
         NEW task \in EditTasks(e)
  PROVE  task.key = EditKey(e, 0) /\ TaskCovered(task, w)
<1> DEFINE before(v) == UnitsOf({SaleKey(u) : u \in {x \in Sold : x < v}})
           first(v) == \A u \in Sold : v <= u
           units(v) == LeastUnits(EditRemaining(e) - before(v), saleRow[SaleKey(v)].qty)
           qty == saleRow[SaleKey(w)].qty
<1>0. /\ SaleFits /\ ReturnRows(w) /\ SaleRowFits(w) /\ Returns \subseteq SaleKeys /\ SaleKey(w) \in SaleKeys
      /\ saleCase.edits[e] \in Nat /\ w \in Nat /\ MasterStock \in Nat
  BY KeysFinite, SaleKeysAre, RoutedAre, SaleAssumption DEF SaleInv, Cover
<1>1. PICK v \in Sold : /\ task = [key |-> EditKey(e, IF first(v) THEN 0 ELSE v), work |-> v, qty |-> units(v)]
                        /\ before(v) < EditRemaining(e)
  BY Zenon DEF EditTasks
<1>2. v = w /\ Status(SaleKey(w)) = "applied" /\ Sold = {w}
  BY <1>1 DEF Sold
<1>3. qty \in Nat
  BY <1>0, <1>2 DEF SaleRowFits
<1>4. before(w) = 0
  <2>1. {SaleKey(u) : u \in {x \in Sold : x < w}} = {}
    BY <1>0, <1>2
  <2>2. UnitsOf({}) = Total([key \in {} |-> saleRow[key].qty], {})
    BY UnitsAre
  <2> QED BY <2>1, <2>2, TotalOfNone
<1>5. UnitsOf({SaleKey(u) : u \in Sold}) = qty
  <2> DEFINE f == [key \in {SaleKey(w)} |-> saleRow[key].qty]
  <2>1. {SaleKey(u) : u \in Sold} = {SaleKey(w)}
    BY <1>2
  <2>2. IsFiniteSet({SaleKey(w)}) /\ UnitsOf({SaleKey(w)}) = Total(f, {SaleKey(w)})
    BY <1>0, UnitsAre
  <2>3. \A key \in {SaleKey(w)} : f[key] \in Int /\ f[SaleKey(w)] = qty
    BY <1>3
  <2> HIDE DEF f, qty
  <2>4. Total(f, {SaleKey(w)}) = f[SaleKey(w)] + Total(f, {SaleKey(w)} \ {SaleKey(w)})
    BY <2>2, <2>3, TotalSplits
  <2>5. {SaleKey(w)} \ {SaleKey(w)} = {} /\ Total(f, {}) = 0
    BY TotalOfNone
  <2>6. UnitsOf({SaleKey(w)}) = qty
    BY <1>3, <2>2, <2>3, <2>4, <2>5
  <2> QED BY <2>1, <2>6, Zenon
<1>6. UnitsOf(Applied(Returns)) = Given
  <2>1. \A key \in Applied(Returns) : saleSent[key] > 0
    BY <1>0 DEF SaleInv, SaleSentOnce, Applied
  <2>2. ASSUME NEW key \in Returns \ Applied(Returns), saleSent[key] > 0 PROVE FALSE
    <3>1. key \in SaleKeys /\ Status(key) \in {"pending", "in_doubt"}
      BY <1>0, <2>2, LandedAre DEF Applied
    <3> QED BY <2>2, <3>1
  <2>3. Applied(Returns) \subseteq Returns
    BY DEF Applied
  <2> QED BY <1>0, <2>1, <2>2, <2>3, UnitsLanded
<1>7. Given \in Nat
  BY <1>0, LandedAre
<1>8. EditRemaining(e) = IF qty <= Given THEN 0 ELSE LeastUnits(saleCase.edits[e], qty - Given)
  BY <1>5, <1>6, Zenon DEF EditRemaining
<1>9. EditRemaining(e) \in Nat /\ (EditRemaining(e) > 0 => EditRemaining(e) + Given <= qty)
  BY <1>0, <1>3, <1>7, <1>8 DEF LeastUnits
<1>10. first(w)
  BY <1>0, <1>2
<1>11. task.key = EditKey(e, 0) /\ task.work = w /\ task.qty = LeastUnits(EditRemaining(e) - before(w), qty)
  BY <1>1, <1>2, <1>10
<1>12. before(w) < EditRemaining(e)
  BY <1>1, <1>2
<1> HIDE DEF before, first, units, qty
<1>13. task.qty \in Nat /\ task.qty + Given <= qty
  BY <1>3, <1>4, <1>7, <1>9, <1>11, <1>12 DEF LeastUnits
<1> QED BY <1>2, <1>11, <1>13 DEF TaskCovered, qty

LEMMA ListedCovered ==
  ASSUME SaleInv, JobKinds, NEW w \in Works, Routed = {w}, Cover(w), ~saleUnsure', RowsGoOn,
         NEW p \in SaleProcs, ListReturns(p), NEW task \in TasksOf(saleJob'[p])
  PROVE  task.key = ReturnKey(saleJob'[p], w) /\ TaskCovered(task, w)'
<1>0. /\ SaleFits /\ JobKind(saleJob[p]) /\ JobFits(saleJob[p]) /\ saleJob[p].kind \in {"cancel", "edit"}
      /\ saleJob[p].pc = "list"
  BY ListReturnsIs DEF SaleInv, SaleFits, JobKinds, JobFits
<1>1. /\ UNCHANGED <<saleRow, saleSent>> /\ saleJob'[p].pc = "next"
      /\ saleJob'[p].kind = saleJob[p].kind /\ saleJob'[p].edit = saleJob[p].edit
      /\ \A key \in Returns : Family(key) # FamilyOf(saleJob[p]) => Status(key) \notin {"pending", "in_doubt"}
  BY <1>0, ListsAlone
<1>2. task \in saleJob'[p].todo
  BY <1>1 DEF TasksOf
<1>3. task.key = ReturnKey(saleJob[p], w) /\ TaskCovered(task, w)
  <2>1. CASE saleJob[p].kind = "cancel"
    <3>1. FamilyOf(saleJob[p]) = <<"back">> /\ ReturnKey(saleJob[p], w) = BackKey(w)
      BY <2>1 DEF FamilyOf, ReturnKey
    <3>2. task \in RestoreTasks
      BY <1>0, <1>2, <2>1, ListReturnsIs
    <3> QED BY <1>1, <3>1, <3>2, RestoreCovered
  <2>2. CASE saleJob[p].kind = "edit"
    <3> DEFINE e == saleJob[p].edit
    <3>1. /\ FamilyOf(saleJob[p]) = <<"edit", e>> /\ ReturnKey(saleJob[p], w) = EditKey(e, 0)
          /\ e \in DOMAIN saleCase.edits
      BY <1>0, <2>2 DEF FamilyOf, ReturnKey, JobKind
    <3>2. task \in EditTasks(e) /\ \A key \in Returns : Family(key) = <<"edit", e>> => Status(key) = "none"
      BY <1>0, <1>2, <2>2, ListReturnsIs
    <3> HIDE DEF e
    <3> QED BY <1>1, <3>1, <3>2, EditCovered
  <2> QED BY <1>0, <2>1, <2>2
<1>4. Given' = Given
  BY <1>1, LandedSame DEF Cover
<1> QED BY <1>1, <1>3, <1>4 DEF TaskCovered, ReturnKey, Status

LEMMA TasksCoveredStep ==
  ASSUME SaleInv, SaleInv', JobKinds, JobKinds', NEW w \in Works, Routed = {w}, Cover(w), ~saleUnsure',
         saleCase.qty[w] <= MasterStock, RowsGoOn,
         \A key \in SaleKeys : saleSent[key] <= saleSent'[key], NEW p \in SaleProcs, SaleAct(p)
  PROVE  TasksCovered(w)'
<1>0. Alone(p)
  BY OneActs DEF SaleInv
<1>1. ASSUME NEW q \in SaleProcs, IsReturning(saleJob'[q]), NEW task \in TasksOf(saleJob'[q])
      PROVE  task.key = ReturnKey(saleJob'[q], w) /\ TaskCovered(task, w)'
  <2>1. CASE q = p /\ ListReturns(p)
    BY <1>1, <2>1, ListedCovered
  <2>2. CASE ~(q = p /\ ListReturns(p))
    <3>1. /\ IsReturning(saleJob[q]) /\ task \in TasksOf(saleJob[q])
          /\ saleJob'[q].kind = saleJob[q].kind /\ saleJob'[q].edit = saleJob[q].edit
      BY <1>0, <1>1, <2>2, ReturnsGo DEF Alone
    <3>2. TaskCovered(task, w)'
      BY <3>1, CoveredStays
    <3>3. task.key = ReturnKey(saleJob[q], w)
      BY <3>1 DEF Cover, TasksCovered
    <3> QED BY <3>1, <3>2, <3>3 DEF ReturnKey
  <2> QED BY <2>1, <2>2
<1>2. \A q \in SaleProcs : IsReturning(saleJob'[q]) =>
        \A task \in TasksOf(saleJob'[q]) : task.key = ReturnKey(saleJob'[q], w) /\ TaskCovered(task, w)'
  BY <1>1
<1> QED BY <1>2 DEF TasksCovered, IsReturning, TasksOf, ReturnKey

EnoughStock == \A c \in SaleCases : \A w \in DOMAIN c.qty : c.qty[w] <= MasterStock

LEMMA UnsureStays == ASSUME [SaleNext]_saleVars, saleUnsure \in BOOLEAN PROVE saleUnsure' \in BOOLEAN /\ (saleUnsure => saleUnsure')
<1>1. ASSUME NEW p \in SaleProcs, ClaimSale(p) \/ NextReturn(p) PROVE saleUnsure' \in BOOLEAN /\ (saleUnsure => saleUnsure')
  <2>1. (\E task : ClaimRow(task)) \/ UNCHANGED saleUnsure
    BY <1>1 DEF ClaimSale, NextReturn
  <2> QED BY <2>1 DEF ClaimRow
<1>2. ASSUME NEW p \in SaleProcs, ListReturns(p) PROVE saleUnsure' \in BOOLEAN /\ (saleUnsure => saleUnsure')
  BY <1>2 DEF ListReturns
<1>3. CASE UNCHANGED saleUnsure
  BY <1>3
<1> QED BY <1>1, <1>2, <1>3
        DEF SaleNext, saleVars, StartSell, LockPosition, FindRow, MarkInterrupted, CallMaster, SettleRow,
        ConsumeHold, Reread, WriteMirror, UnlockPosition, StartRestore, StartEdit, ReturnsEnd, CrashSale, CancelOrder,
        SaleLockExpires

LEMMA CoverStep ==
  ASSUME EnoughStock, saleUnsure \in BOOLEAN, SaleInv, SaleInv', JobKinds, JobKinds', CoverInv, [SaleNext]_saleVars
  PROVE  CoverInv'
<1>0. UNCHANGED saleCase /\ Routed' = Routed /\ RowsGoOn /\ \A key \in SaleKeys : saleSent[key] <= saleSent'[key]
  BY SameOrder, RowsAlwaysGoOn, SentGrows DEF Routed
<1>1. ASSUME NEW w \in Works, Routed = {w}, ~saleUnsure' PROVE Cover(w)'
  <2>1. Cover(w) /\ saleCase.qty[w] <= MasterStock
    BY <1>1, UnsureStays DEF CoverInv, EnoughStock, SaleInv, SaleFits, Routed
  <2>2. ASSUME NEW p \in SaleProcs, SaleAct(p) PROVE Cover(w)'
    <3>1. OneFamily'
      BY <1>1, <2>1, <2>2, OneFamilyStep DEF Cover
    <3>2. TasksCovered(w)'
      BY <1>0, <1>1, <2>1, <2>2, TasksCoveredStep
    <3>3. FamilySure'
      BY <1>0, <1>1, <2>1, <2>2, <3>1, <3>2, FamilySureStep
    <3>4. ReturnRows(w)' /\ SaleRowFits(w)' /\ StockAgrees(w)' /\ ClaimsAsAsked'
      BY <1>0, <1>1, <2>1, <2>2, ReturnRowsStep, SaleRowStep, StockStep, AsAskedStep
    <3> QED BY <3>1, <3>2, <3>3, <3>4 DEF Cover
  <2>3. CASE CancelOrder \/ SaleLockExpires \/ UNCHANGED saleVars
    <3>1. UNCHANGED <<saleCase, saleRow, saleSent, saleStock, saleJob>>
      BY <2>3 DEF CancelOrder, SaleLockExpires, saleVars, saleOrder, saleMaster
    <3>2. Landed' = Landed
      BY <3>1 DEF Landed
    <3>3. Given' = Given
      BY <3>2 DEF Given
    <3> QED BY <2>1, <3>1, <3>2, <3>3 DEF Cover, OneFamily, FamilySure, ReturnRows, SaleRowFits, ClaimsAsAsked,
            TasksCovered, TaskCovered, StockAgrees, Status
  <2> QED BY <2>2, <2>3 DEF SaleNext, SaleAct
<1> QED BY <1>0, <1>1 DEF CoverInv

-----------------------------------------------------------------------------
BooksInv ==
  /\ SaleInv /\ JobKinds /\ CutsAre /\ FaultsAre /\ saleUnsure \in BOOLEAN
  /\ HoldInv /\ LockInv /\ AnswersInv /\ MirrorInv /\ CoverInv

LEMMA BooksInit == SaleInit => BooksInv
<1> SUFFICES ASSUME SaleInit PROVE BooksInv
  OBVIOUS
<1>0. SaleInv
  BY SaleInitInv
<1>1. \A p \in SaleProcs : saleJob[p] = IdleJob
  BY DEF SaleInit
<1>2. \A key \in SaleKeys : saleRow[key] = NoRow /\ Status(key) = "none" /\ saleSent[key] = 0
  BY DEF SaleInit, NoRow, Status
<1>3. JobKinds
  BY <1>1 DEF JobKinds, JobKind, IdleJob, ReturnTasks, AtReturn, AtMaster
<1>4. CutsAre /\ FaultsAre /\ saleUnsure \in BOOLEAN
  BY DEF SaleInit, CutsAre, FaultsAre
<1>5. \A w \in Routed : SaleKey(w) \in SaleKeys
  BY <1>0, RoutedAre, SaleKeysAre DEF SaleInv
<1>6. HoldInv
  BY <1>2, <1>5 DEF SaleInit, HoldInv
<1>7. LockInv /\ AnswersInv /\ MirrorInv
  BY <1>1 DEF SaleInit, IdleJob, LockInv, AnswersInv, MirrorInv, Selling, JobAt, Shows
<1>8. ASSUME NEW w \in Works PROVE Cover(w)
  <2>1. \A p \in SaleProcs : ~IsReturning(saleJob[p]) /\ saleJob[p].pc = "idle"
    BY <1>1 DEF IsReturning, IdleJob
  <2>2. \A key \in SaleKeys : Landed[key] = 0
    BY <1>2 DEF Landed
  <2>3. Given = 0
    <3>1. IsFiniteSet(Returns) /\ \A key \in Returns : Landed[key] \in Int /\ Landed[key] = 0
      BY <2>2, KeysFinite
    <3>2. Total(Landed, {}) = Total(Landed, Returns)
      BY <3>1, TotalOfSome
    <3> QED BY <3>2, TotalOfNone DEF Given
  <2>4. SaleKey(w) \in SaleKeys /\ Returns \subseteq SaleKeys
    BY SaleKeysAre, KeysFinite
  <2>5. OneFamily /\ FamilySure /\ ClaimsAsAsked /\ TasksCovered(w)
    BY <2>1 DEF OneFamily, FamilySure, ClaimsAsAsked, TasksCovered
  <2>6. ReturnRows(w) /\ SaleRowFits(w)
    BY <1>2, <2>4 DEF ReturnRows, SaleRowFits
  <2>7. StockAgrees(w)
    BY <2>2, <2>3, <2>4, SaleAssumption DEF StockAgrees, SaleInit
  <2> QED BY <2>5, <2>6, <2>7 DEF Cover
<1> QED BY <1>0, <1>3, <1>4, <1>6, <1>7, <1>8 DEF BooksInv, CoverInv

LEMMA BooksStep == EnoughStock /\ BooksInv /\ [SaleNext]_saleVars => BooksInv'
<1> SUFFICES ASSUME EnoughStock, BooksInv, [SaleNext]_saleVars PROVE BooksInv'
  OBVIOUS
<1>1. SaleInv' /\ SaleFits
  BY SaleStepInv DEF BooksInv, SaleInv
<1>2. JobKinds' /\ CutsAre' /\ FaultsAre' /\ (saleUnsure \in BOOLEAN)'
  BY <1>1, JobKindsStep, CutsStep, FaultsCount, UnsureStays DEF BooksInv
<1>3. HoldInv' /\ LockInv' /\ AnswersInv' /\ MirrorInv' /\ CoverInv'
  BY <1>1, <1>2, HoldStep, LockStep, AnswersStep, MirrorStep, CoverStep DEF BooksInv
<1> QED BY <1>1, <1>2, <1>3 DEF BooksInv

LEMMA BooksAgree == BooksInv => SaleBooksAgree
<1> SUFFICES ASSUME BooksInv PROVE SaleBooksAgree
  OBVIOUS
<1>1. SaleReturnsCovered
  <2> SUFFICES ASSUME OneWork, ~saleUnsure PROVE saleStock <= MasterStock
    BY DEF SaleReturnsCovered
  <2>1. Routed \subseteq Works /\ IsFiniteSet(Routed) /\ MasterStock \in Nat
    BY RoutedAre, SaleAssumption, FS_Subset DEF BooksInv, SaleInv
  <2>2. PICK w : Routed = {w}
    BY <2>1, FS_Singleton DEF OneWork
  <2>3. w \in Works /\ Cover(w)
    BY <2>1, <2>2 DEF BooksInv, CoverInv
  <2>4. Landed[SaleKey(w)] \in 0..MasterStock /\ Given \in Nat
    BY <2>3, LandedAre DEF BooksInv, Cover
  <2> QED BY <2>1, <2>3, <2>4 DEF Cover, StockAgrees
<1>2. SaleHoldMatches
  <2>1. Idle => \A p \in SaleProcs : ~JobAt(p, "hold")
    BY DEF Idle, JobAt
  <2> QED BY <2>1 DEF SaleHoldMatches, BooksInv, HoldInv
<1>3. SaleMirrorOrdered
  <2>1. Idle => \A p \in SaleProcs : ~Shows(saleJob[p])
    BY DEF Idle, JobAt, Shows
  <2> QED BY <2>1 DEF SaleMirrorOrdered, BooksInv, MirrorInv
<1> QED BY <1>1, <1>2, <1>3 DEF SaleBooksAgree

(* For any order the master has enough stock for, any edits, executions and     *)
(* faults, the books of the sale agree.  Edits and the cancellation of a line   *)
(* with one work give back no more than was taken, unless returns overlapped or *)
(* were in doubt; the hold is consumed only once the decrement landed, and a    *)
(* run in which nothing failed does not leave it; and without a failure or a    *)
(* return the mirror ends at the master's last figure.                          *)
THEOREM SaleBooksKept == ASSUME EnoughStock PROVE SaleSpec => []SaleBooksAgree
<1>0. EnoughStock
  OBVIOUS
<1>1. BooksInv /\ [SaleNext]_saleVars => BooksInv'
  BY <1>0, BooksStep
<1> QED BY <1>1, BooksInit, BooksAgree, PTL DEF SaleSpec
=============================================================================
