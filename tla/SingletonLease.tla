---------------------------- MODULE SingletonLease ----------------------------
(* The lease that lets one worker run the scheduler: SingletonRoleLease over  *)
(* the Redis lock of RedisSyncLockService, as SchedulerLeaseCoordinator uses  *)
(* it.  Every process ticks each third of the TTL; a tick acquires or extends,*)
(* and the owner starts the cron jobs when it wins and stops them when it     *)
(* learns that it lost.                                                       *)
(*                                                                            *)
(* Time is discrete and the same for Redis and the processes; only what the   *)
(* code compares is kept: the time the lock has left, the time since a hold   *)
(* was last confirmed, the time to the next tick.  A call takes at most       *)
(* Latency units and may fail, applied or not.  stop() runs beside a tick.    *)
EXTENDS Naturals

CONSTANTS
  Procs,
  TTL,         \* ttlMs, in the unit of time
  Latency,     \* a Redis call or the settings read takes at most this long
  Tokens,      \* bound: random tokens in play at a time
  MaxFaults,   \* bound: crashes and failing calls
  NoToken

ASSUME ConstantsAssumption ==
  /\ TTL \in Nat /\ TTL >= 3
  /\ Latency \in Nat
  /\ MaxFaults \in Nat
  /\ Tokens \cap {NoToken, "off", "no", "returned"} = {}

VARIABLES
  lock,     \* the Redis key: its token and the time it has left
  token,    \* per process: the token it believes to hold
  age,      \* time since the hold was last confirmed
  timer,    \* time to the next tick
  tick,     \* what the tick in flight awaits, and the token it took along
  wait,     \* how long it has been awaiting
  stop,     \* stop(): not called, awaiting the release, returned
  running,  \* the cron jobs are started
  vacant,   \* time for which no process held the lock while one competes
  faults

vars == <<lock, token, age, timer, tick, wait, stop, running, vacant, faults>>

Interval_WholeTTL == TTL
Interval == TTL \div 3
VacancyCap == 2 * TTL + 4 * Latency

NoLock == [by |-> NoToken, left |-> 0]
NoTick == [pc |-> "none", by |-> NoToken]
Up(p) == stop[p] # "off"
Stopped(p) == stop[p] # "no"
Holder(p) == token[p] # NoToken /\ lock.by = token[p]

(* A random token is one nobody has; of those in play any will do.            *)
Fresh ==
  LET spare == Tokens \ ({lock.by} \cup UNION {{token[p], tick[p].by, stop[p]} : p \in Procs})
  IN IF spare = {} THEN {} ELSE {CHOOSE t \in spare : TRUE}

Init ==
  /\ lock = NoLock
  /\ token = [p \in Procs |-> NoToken]
  /\ age = [p \in Procs |-> 0]
  /\ timer = [p \in Procs |-> 0]
  /\ tick = [p \in Procs |-> NoTick]
  /\ wait = [p \in Procs |-> 0]
  /\ stop = [p \in Procs |-> "off"]
  /\ running = [p \in Procs |-> FALSE]
  /\ vacant = 0
  /\ faults = 0

(* A fault, or a stop(), starts the count of the vacancy afresh.              *)
Fault == faults < MaxFaults /\ faults' = faults + 1 /\ vacant' = 0
NoFault == UNCHANGED <<faults, vacant>>

Awaits(p, pc, by) ==
  /\ tick' = [tick EXCEPT ![p] = [pc |-> pc, by |-> by]]
  /\ wait' = [wait EXCEPT ![p] = 0]
TickEnds(p) == Awaits(p, "none", NoToken)

(* The scripts of RedisSyncLockService: compare with the token, then act.     *)
DeleteIfHeld_Always(by) == lock' = NoLock
DeleteIfHeld(by) == lock' = IF lock.by = by THEN NoLock ELSE lock

-----------------------------------------------------------------------------
(* start(): compete at once.                                                  *)
Start(p) ==
  /\ ~Up(p)
  /\ stop' = [stop EXCEPT ![p] = "no"]
  /\ timer' = [timer EXCEPT ![p] = 0]
  /\ UNCHANGED <<lock, token, age, tick, wait, running, vacant, faults>>

(* The interval timer.  A tick that is still in flight absorbs the new one.   *)
Tick(p) ==
  /\ stop[p] = "no" /\ timer[p] = 0
  /\ timer' = [timer EXCEPT ![p] = Interval]
  /\ IF tick[p].pc # "none" THEN UNCHANGED <<tick, wait>>
     ELSE IF token[p] = NoToken
       THEN \E t \in Fresh : Awaits(p, "acquire", t)
       ELSE Awaits(p, "extend", token[p])
  /\ UNCHANGED <<lock, token, age, stop, running, vacant, faults>>

(* SET NX PX in Redis, then the reply.  A throwing acquire ends the tick: no  *)
(* hold is known, so nothing is demoted.                                      *)
SetNX(p) == lock' = IF lock = NoLock THEN [by |-> tick[p].by, left |-> TTL] ELSE lock
Acquire(p) ==
  /\ tick[p].pc = "acquire"
  /\ \/ /\ NoFault
        /\ SetNX(p)
        /\ IF lock = NoLock THEN Awaits(p, "acquired", tick[p].by) ELSE TickEnds(p)
     \/ /\ Fault
        /\ SetNX(p) \/ UNCHANGED lock
        /\ TickEnds(p)
  /\ UNCHANGED <<token, age, timer, stop, running>>

(* If stop() was called meanwhile the lock is given back, else the settings   *)
(* are read before the cron jobs are registered.                              *)
Acquired(p) ==
  /\ tick[p].pc = "acquired"
  /\ IF Stopped(p)
       THEN /\ Awaits(p, "release", tick[p].by)
            /\ UNCHANGED <<token, age>>
       ELSE /\ token' = [token EXCEPT ![p] = tick[p].by]
            /\ age' = [age EXCEPT ![p] = 0]
            /\ Awaits(p, "onAcquired", NoToken)
  /\ UNCHANGED <<lock, timer, stop, running, vacant, faults>>

(* onAcquired starts the scheduler, or throws: then the token of the moment   *)
(* is given up, released, and onLost runs.                                    *)
StartFails_KeepsToken(p) ==
  UNCHANGED token /\ running' = [running EXCEPT ![p] = FALSE]
StartFails(p) ==
  /\ token' = [token EXCEPT ![p] = NoToken]
  /\ running' = [running EXCEPT ![p] = FALSE]
OnAcquired(p) ==
  /\ tick[p].pc = "onAcquired"
  /\ \/ /\ NoFault
        /\ running' = [running EXCEPT ![p] = TRUE]
        /\ TickEnds(p)
        /\ UNCHANGED token
     \/ /\ Fault
        /\ StartFails(p)
        /\ IF token[p] = NoToken THEN TickEnds(p) ELSE Awaits(p, "undo", token[p])
  /\ UNCHANGED <<lock, age, timer, stop>>

(* The release of a lock that must not be kept; onLost follows when onAcquired*)
(* had failed.                                                                *)
ReleaseBack(p) ==
  /\ tick[p].pc \in {"release", "undo"}
  /\ \/ NoFault /\ DeleteIfHeld(tick[p].by)
     \/ Fault /\ (DeleteIfHeld(tick[p].by) \/ UNCHANGED lock)
  /\ TickEnds(p)
  /\ running' = [running EXCEPT ![p] = @ /\ tick[p].pc = "release"]
  /\ UNCHANGED <<token, age, timer, stop>>

(* Compare-and-PEXPIRE, then the reply.                                       *)
PExpire(p) ==
  lock' = IF lock.by = tick[p].by THEN [lock EXCEPT !.left = TTL] ELSE lock
Extend(p) ==
  /\ tick[p].pc = "extend"
  /\ \/ /\ NoFault
        /\ PExpire(p)
        /\ Awaits(p, IF lock.by = tick[p].by THEN "extended" ELSE "refused", NoToken)
     \/ /\ Fault
        /\ PExpire(p) \/ UNCHANGED lock
        /\ Awaits(p, "threw", NoToken)
  /\ UNCHANGED <<token, age, timer, stop, running>>

Demote(p) ==
  /\ token' = [token EXCEPT ![p] = NoToken]
  /\ running' = [running EXCEPT ![p] = FALSE]

Extended(p) ==
  /\ tick[p].pc = "extended"
  /\ age' = [age EXCEPT ![p] = 0]
  /\ TickEnds(p)
  /\ UNCHANGED <<lock, token, timer, stop, running, vacant, faults>>

Refused(p) ==
  /\ tick[p].pc = "refused"
  /\ Demote(p)
  /\ TickEnds(p)
  /\ UNCHANGED <<lock, age, timer, stop, vacant, faults>>

(* demoteIfHoldUnconfirmed, only reached when a tick throws.                  *)
Unconfirmed_Never(p) == FALSE
Unconfirmed(p) == token[p] # NoToken /\ age[p] >= TTL
Threw(p) ==
  /\ tick[p].pc = "threw"
  /\ IF Unconfirmed(p) THEN Demote(p) ELSE UNCHANGED <<token, running>>
  /\ TickEnds(p)
  /\ UNCHANGED <<lock, age, timer, stop, vacant, faults>>

(* stop(): the token is dropped at once; the release and onLost follow.       *)
CallStop(p) ==
  /\ stop[p] = "no"
  /\ stop' = [stop EXCEPT ![p] = IF token[p] = NoToken THEN "returned" ELSE token[p]]
  /\ token' = [token EXCEPT ![p] = NoToken]
  /\ vacant' = 0
  /\ UNCHANGED <<lock, age, timer, tick, wait, running, faults>>

ReleaseOnStop(p) ==
  /\ stop[p] \in Tokens
  /\ \/ NoFault /\ DeleteIfHeld(stop[p])
     \/ Fault /\ UNCHANGED lock
  /\ running' = [running EXCEPT ![p] = FALSE]
  /\ stop' = [stop EXCEPT ![p] = "returned"]
  /\ UNCHANGED <<token, age, timer, tick, wait>>

Die(p) ==
  /\ stop' = [stop EXCEPT ![p] = "off"]
  /\ token' = [token EXCEPT ![p] = NoToken]
  /\ tick' = [tick EXCEPT ![p] = NoTick]
  /\ wait' = [wait EXCEPT ![p] = 0]
  /\ running' = [running EXCEPT ![p] = FALSE]
  /\ age' = [age EXCEPT ![p] = 0]
  /\ timer' = [timer EXCEPT ![p] = 0]
  /\ UNCHANGED lock

(* The process exits once stop() has returned, or it crashes.                 *)
Exit(p) == stop[p] = "returned" /\ Die(p) /\ NoFault
Crash(p) == Up(p) /\ Die(p) /\ Fault

(* A unit of time passes when no timer is due and no call overdue; the release*)
(* of stop() may take for ever.                                               *)
InFlight(p) == tick[p].pc # "none"
TimePasses ==
  /\ \A p \in Procs :
       /\ stop[p] = "no" => timer[p] > 0
       /\ InFlight(p) => wait[p] < Latency
  /\ lock' = IF lock.left <= 1 THEN NoLock ELSE [lock EXCEPT !.left = @ - 1]
  /\ timer' = [p \in Procs |-> IF timer[p] > 0 THEN timer[p] - 1 ELSE 0]
  /\ age' = [p \in Procs |-> IF token[p] = NoToken THEN 0 ELSE age[p] + 1]
  /\ wait' = [p \in Procs |-> IF InFlight(p) THEN wait[p] + 1 ELSE 0]
  /\ vacant' = IF (\E p \in Procs : Holder(p)) \/ ~\E p \in Procs : stop[p] = "no"
                 THEN 0 ELSE IF vacant = VacancyCap THEN vacant ELSE vacant + 1
  /\ UNCHANGED <<token, tick, stop, running, faults>>

-----------------------------------------------------------------------------
Next ==
  \/ \E p \in Procs :
       \/ Start(p) \/ Tick(p) \/ Acquire(p) \/ Acquired(p) \/ OnAcquired(p)
       \/ ReleaseBack(p) \/ Extend(p) \/ Extended(p) \/ Refused(p) \/ Threw(p)
       \/ CallStop(p) \/ ReleaseOnStop(p) \/ Exit(p) \/ Crash(p)
  \/ TimePasses

Spec == Init /\ [][Next]_vars

-----------------------------------------------------------------------------
MaybeToken == Tokens \cup {NoToken}

TypeOK ==
  /\ lock \in [by : MaybeToken, left : 0..TTL]
  /\ token \in [Procs -> MaybeToken]
  /\ age \in [Procs -> Nat]
  /\ timer \in [Procs -> 0..TTL]
  /\ tick \in [Procs -> [pc : {"none", "acquire", "acquired", "onAcquired", "release",
                               "undo", "extend", "extended", "refused", "threw"},
                         by : MaybeToken]]
  /\ wait \in [Procs -> 0..Latency]
  /\ stop \in [Procs -> {"off", "no", "returned"} \cup Tokens]
  /\ running \in [Procs -> BOOLEAN]
  /\ vacant \in 0..VacancyCap
  /\ faults \in 0..MaxFaults

(* A process that was told less than a TTL ago that it holds the lock does    *)
(* hold it: nobody else's release, expiry or late call takes it away.         *)
ConfirmedHolds ==
  \A p \in Procs : token[p] # NoToken /\ age[p] + Latency < TTL => Holder(p)

(* A holder Redis stops answering gives up: it acts without confirmation for  *)
(* no longer than the TTL, a tick and the calls in between.                   *)
Overstay ==
  \A p \in Procs : token[p] # NoToken => age[p] <= TTL + Interval + 3 * Latency

(* A process that keeps the lease runs the scheduler: it is never the         *)
(* half-started holder that blocks every other one.                           *)
HolderRuns ==
  \A p \in Procs :
    token[p] # NoToken /\ stop[p] = "no" /\ tick[p].pc = "none" => running[p]

(* When the holder dies, and with calls that succeed, a competitor holds the  *)
(* lock within four thirds of the TTL.  This takes calls that are quick       *)
(* against the TTL: with slow ones an acquire that a stop() overtook keeps    *)
(* the lock for three calls, and a competitor needs one more tick.            *)
FailoverBound == vacant <= TTL + TTL \div 3 + 3 * Latency

(* The lease is for a responsibility that must run on at most one process; a  *)
(* holder cut off from Redis demotes itself rather than run alongside the     *)
(* process that took the lock.                                                *)
(* The code does not keep this: README, "What the code does not keep".        *)
AtMostOneRuns ==
  \A p, q \in Procs :
    running[p] /\ token[p] # NoToken /\ running[q] /\ token[q] # NoToken => p = q

(* A stop() that races an in-flight acquire never leaves a token or a started *)
(* responsibility behind.                                                     *)
(* The code does not keep this: README, "What the code does not keep".        *)
StopIsFinal ==
  \A p \in Procs : stop[p] = "returned" => token[p] = NoToken /\ ~running[p]
(* Who was told that it is the leader is, and does the leader's work.          *)
LeaderLeads == ConfirmedHolds /\ HolderRuns

(* The lease changes hands in time: the old holder stops and a new one starts. *)
LeaseIsTimely == Overstay /\ FailoverBound
=============================================================================
