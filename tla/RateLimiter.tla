----------------------------- MODULE RateLimiter -----------------------------
(* The limiter that paces calls to one partner for every process together:     *)
(* RedisRateLimiterAdapter.  A caller claims one of maxConcurrent slots in a   *)
(* sorted set of Redis, then asks the pace key whether it may go; without      *)
(* Redis it falls back to its process's own limiter (`insured`).  A partner's  *)
(* Retry-After is pushed into the pace key and kept locally.                   *)
(*                                                                             *)
(* A process sends its commands over one connection: Redis carries them out in *)
(* their order, perhaps long after the caller stopped waiting.  Time is counted*)
(* in ticks.  An adapter's call ends within MaxCall, less than the lifetime of *)
(* a slot.                                                                     *)
EXTENDS Naturals, Sequences, FiniteSets

CONSTANTS
  Callers,         \* calls of the partner in the making at a time
  Instances,       \* processes, each with its adapter
  Home,            \* the process of a caller
  Claims,          \* ids of claims: enough for those in use
  Policies,        \* [cap, interval]: maxConcurrent and 60000/requestsPerMinute, 0 if not set
  Lifetime,        \* MAX_CALL_LIFETIME_MS
  RedisTimeout,    \* redisCallTimeoutMs
  Grace,           \* unconfiguredPaceGraceMs
  MaxCall,         \* the longest call
  RetryAfters,     \* what a partner asks for
  MaxRetryAfters,  \* bound: answers with a Retry-After
  MaxLimitFaults,  \* bound: timeouts, dropped connections, crashes
  NoClaim, NoCaller

ASSUME LimiterAssumption ==
  /\ IsFiniteSet(Callers)
  /\ Home \in [Callers -> Instances]
  /\ NoClaim \notin Claims /\ NoCaller \notin Callers
  /\ \A p \in Policies : p.cap \in Nat /\ p.interval \in Nat
  /\ RetryAfters \subseteq Nat \ {0}
  /\ {Lifetime, RedisTimeout, Grace, MaxCall, MaxRetryAfters, MaxLimitFaults} \subseteq Nat
  /\ 2 * RedisTimeout + MaxCall < Lifetime

VARIABLES
  policy,        \* the connection's limits
  slots,         \* the in-flight set: claims
  slotAge,       \* per claim: ticks since its score
  paceLeft,      \* ticks until the pace key admits
  commands,      \* per process: sent to Redis and not carried out yet
  caller,        \* per caller: where it is, its claim, the answer on its way, ticks spent there
  paceOk,        \* per process: ticks for which localPaceOkUntil lies ahead
  ownPace,       \* per process: ticks until its own limiter admits
  backoff,       \* history: ticks left of the Retry-After Redis has been told
  backoffAge,    \* history: ticks since then
  slotsLost,     \* history: a connection was dropped or a process died
  retryAfters, limitFaults

limiterVars == <<policy, slots, slotAge, paceLeft, commands, caller, paceOk, ownPace, backoff,
                 backoffAge, slotsLost, retryAfters, limitFaults>>
redisVars == <<slots, slotAge, paceLeft, backoff, backoffAge>>
limiterEnd == <<slotsLost, retryAfters, limitFaults>>

IdleCaller == [pc |-> "idle", claim |-> NoClaim, answer |-> "none", spent |-> 0]

LimiterInit ==
  /\ policy \in Policies
  /\ slots = {} /\ slotAge = [m \in Claims |-> 0]
  /\ paceLeft = 0
  /\ commands = [i \in Instances |-> <<>>]
  /\ caller = [c \in Callers |-> IdleCaller]
  /\ paceOk = [i \in Instances |-> 0] /\ ownPace = [i \in Instances |-> 0]
  /\ backoff = 0 /\ backoffAge = 0
  /\ slotsLost = FALSE
  /\ retryAfters = 0 /\ limitFaults = 0

LimitFault == limitFaults < MaxLimitFaults /\ limitFaults' = limitFaults + 1
Of(i) == {c \in Callers : Home[c] = i}
Larger(m, n) == IF m > n THEN m ELSE n
Less(n) == IF n > 0 THEN n - 1 ELSE 0

Command(op, c, m, delay) == [op |-> op, from |-> c, claim |-> m, delay |-> delay]
Send(i, cmds) == commands' = [commands EXCEPT ![i] = @ \o cmds]

(* A caller awaits its answer; one that runs has a slot, or its process's leave*)
AwaitsRedis(c) == caller[c].pc \in {"claim", "pace", "rollback", "undo"}
Runs(c) == caller[c].pc \in {"call", "insuredCall"}
Move(c, pc, m) == caller' = [caller EXCEPT ![c] = [IdleCaller EXCEPT !.pc = pc, !.claim = m]]

(* A random id that nothing refers to.                                         *)
FreshId(m) ==
  /\ m \notin slots
  /\ \A c \in Callers : caller[c].claim # m
  /\ \A i \in Instances : \A n \in DOMAIN commands[i] : commands[i][n].claim # m
FreshClaim == CHOOSE m \in Claims : FreshId(m)

-----------------------------------------------------------------------------
(* checkPace: a connection without requestsPerMinute rides on its last answer  *)
(* for the grace window.                                                       *)
RidesOn(i) == policy.interval = 0 /\ paceOk[i] > 0
CheckPace(c, m) ==
  IF RidesOn(Home[c])
    THEN Move(c, "call", m) /\ UNCHANGED commands
    ELSE Move(c, "pace", m) /\ Send(Home[c], <<Command("pace", c, NoClaim, 0)>>)

(* acquire, or the next turn of its loop.                                      *)
AcquireSlot(c) ==
  /\ caller[c].pc = "idle"
  /\ IF policy.cap > 0
       THEN /\ \E m \in Claims : FreshId(m)
            /\ Move(c, "claim", FreshClaim)
            /\ Send(Home[c], <<Command("claim", c, FreshClaim, 0)>>)
       ELSE CheckPace(c, NoClaim)
  /\ UNCHANGED <<policy, redisVars, paceOk, ownPace, limiterEnd>>

(* CONCURRENCY_CLAIM_SCRIPT: evict, add with the highest score, look at the    *)
(* rank; a rejected claim is taken out again.                                  *)
Evicted == {m \in slots : slotAge[m] >= Lifetime}
AdmitsClaim_OneMore(others) == Cardinality(others) <= policy.cap
AdmitsClaim(others) == Cardinality(others) < policy.cap
Remaining(m) == slots \ (Evicted \cup {m})
KeepSlots(ms) == slots' = ms /\ slotAge' = [m \in Claims |-> IF m \in ms \cap slots THEN slotAge[m] ELSE 0]
ClaimSlot(m) == KeepSlots(IF AdmitsClaim(Remaining(m)) THEN Remaining(m) \cup {m} ELSE Remaining(m))

(* PACE_ADVANCE_SCRIPT: the later of the two.                                  *)
Advanced_Overwrite(left, delay) == delay
Advanced(left, delay) == Larger(left, delay)

(* Redis carries out the next command of a process; the answer goes to the     *)
(* caller if it still waits.                                                   *)
RedisExecutes(i) ==
  /\ commands[i] # <<>>
  /\ LET cmd == Head(commands[i])
         admitted == CASE cmd.op = "claim" -> AdmitsClaim(Remaining(cmd.claim))
                       [] cmd.op = "pace" -> paceLeft = 0
                       [] OTHER -> TRUE
     IN /\ CASE cmd.op = "claim" -> ClaimSlot(cmd.claim) /\ UNCHANGED <<paceLeft, backoff, backoffAge>>
             [] cmd.op = "remove" -> KeepSlots(slots \ {cmd.claim}) /\ UNCHANGED <<paceLeft, backoff, backoffAge>>
             [] cmd.op = "pace" -> paceLeft' = (IF admitted THEN policy.interval ELSE paceLeft)
                                   /\ UNCHANGED <<slots, slotAge, backoff, backoffAge>>
             [] cmd.op = "advance" -> /\ paceLeft' = Advanced(paceLeft, cmd.delay)
                                      /\ backoff' = Larger(backoff, cmd.delay)
                                      /\ backoffAge' = IF backoff = 0 THEN 0 ELSE backoffAge
                                      /\ UNCHANGED <<slots, slotAge>>
        /\ caller' = IF cmd.from = NoCaller THEN caller
                     ELSE [caller EXCEPT ![cmd.from].answer = IF admitted THEN "yes" ELSE "no"]
  /\ commands' = [commands EXCEPT ![i] = Tail(@)]
  /\ UNCHANGED <<policy, paceOk, ownPace, limiterEnd>>

(* The catch of acquire: the claim, had or attempted, is taken back, then the  *)
(* process's own limiter decides; an error of that removal is ignored.         *)
Fallback_NoUndo(c) == Move(c, "insured", NoClaim) /\ UNCHANGED commands
Fallback(c) ==
  IF caller[c].claim # NoClaim /\ caller[c].pc # "undo"
    THEN /\ Move(c, "undo", caller[c].claim)
         /\ Send(Home[c], <<Command("remove", c, caller[c].claim, 0)>>)
    ELSE Move(c, "insured", NoClaim) /\ UNCHANGED commands

(* An answer arrives.                                                          *)
ResumeCaller(c) ==
  /\ caller[c].answer # "none"
  /\ LET pc == caller[c].pc
         m == caller[c].claim
         answer == caller[c].answer
     IN \/ answer = "error" /\ Fallback(c) /\ UNCHANGED paceOk
        \/ pc = "undo" /\ answer # "error" /\ Fallback(c) /\ UNCHANGED paceOk
        \/ pc = "claim" /\ answer = "yes" /\ CheckPace(c, m) /\ UNCHANGED paceOk
        \/ pc = "claim" /\ answer = "no" /\ Move(c, "idle", NoClaim) /\ UNCHANGED <<commands, paceOk>>
        \/ /\ pc = "pace" /\ answer = "yes"
           /\ Move(c, "call", m)
           /\ paceOk' = IF policy.interval = 0 THEN [paceOk EXCEPT ![Home[c]] = Grace] ELSE paceOk
           /\ UNCHANGED commands
        \/ /\ pc = "pace" /\ answer = "no"
           /\ IF m = NoClaim THEN Move(c, "idle", NoClaim) /\ UNCHANGED commands
              ELSE Move(c, "rollback", m) /\ Send(Home[c], <<Command("remove", c, m, 0)>>)
           /\ UNCHANGED paceOk
        \/ pc = "rollback" /\ answer = "yes" /\ Move(c, "idle", NoClaim) /\ UNCHANGED <<commands, paceOk>>
  /\ UNCHANGED <<policy, redisVars, ownPace, limiterEnd>>

(* withTimeout: the command stays where it is, its answer is for nobody.       *)
Detached(c) ==
  [i \in Instances |-> [n \in DOMAIN commands[i] |->
     IF commands[i][n].from = c THEN [commands[i][n] EXCEPT !.from = NoCaller] ELSE commands[i][n]]]
TimeOut(c) ==
  /\ AwaitsRedis(c) /\ caller[c].answer # "error" /\ LimitFault
  /\ commands' = Detached(c)
  /\ caller' = [caller EXCEPT ![c].answer = "error"]
  /\ UNCHANGED <<policy, redisVars, paceOk, ownPace, slotsLost, retryAfters>>

(* The connection of a process drops: what was sent and not carried out is     *)
(* lost, and so are answers on their way; every await ends in an error.        *)
DropConnection(i) ==
  /\ LimitFault
  /\ commands' = [commands EXCEPT ![i] = <<>>]
  /\ caller' = [c \in Callers |-> IF c \in Of(i) /\ AwaitsRedis(c) THEN [caller[c] EXCEPT !.answer = "error"]
                                                              ELSE caller[c]]
  /\ slotsLost' = TRUE
  /\ UNCHANGED <<policy, redisVars, paceOk, ownPace, retryAfters>>

CrashLimiter(i) ==
  /\ LimitFault
  /\ commands' = [commands EXCEPT ![i] = <<>>]
  /\ caller' = [c \in Callers |-> IF c \in Of(i) THEN IdleCaller ELSE caller[c]]
  /\ paceOk' = [paceOk EXCEPT ![i] = 0] /\ ownPace' = [ownPace EXCEPT ![i] = 0]
  /\ slotsLost' = TRUE
  /\ UNCHANGED <<policy, redisVars, retryAfters>>

(* RateLimiter of the process: a slot of its own count, and its own pace.  Who *)
(* waits too long gives up.                                                    *)
InsuredRunning(i) == {c \in Of(i) : caller[c].pc = "insuredCall"}
Insured(c) ==
  /\ caller[c].pc = "insured"
  /\ \/ /\ policy.cap = 0 \/ Cardinality(InsuredRunning(Home[c])) < policy.cap
        /\ ownPace[Home[c]] = 0
        /\ ownPace' = [ownPace EXCEPT ![Home[c]] = policy.interval]
        /\ Move(c, "insuredCall", NoClaim)
     \/ Move(c, "idle", NoClaim) /\ UNCHANGED ownPace
  /\ UNCHANGED <<policy, redisVars, commands, paceOk, limiterEnd>>

(* The partner answers.  A Retry-After is noted, then the slot is given back.  *)
GiveBack(c) == IF caller[c].claim = NoClaim THEN <<>>
              ELSE <<Command("remove", NoCaller, caller[c].claim, 0)>>
Finish(c) ==
  /\ Runs(c)
  /\ \/ Send(Home[c], GiveBack(c)) /\ UNCHANGED <<paceOk, ownPace, retryAfters>>
     \/ /\ retryAfters < MaxRetryAfters /\ retryAfters' = retryAfters + 1
        /\ \E d \in RetryAfters :
             /\ Send(Home[c], <<Command("advance", NoCaller, NoClaim, d)>> \o GiveBack(c))
             /\ ownPace' = [ownPace EXCEPT ![Home[c]] = Larger(@, d)]
        /\ paceOk' = [paceOk EXCEPT ![Home[c]] = 0]
  /\ Move(c, "idle", NoClaim)
  /\ UNCHANGED <<policy, redisVars, slotsLost, limitFaults>>

(* A tick, for all clocks.  No await outlives its timeout, no call MaxCall.    *)
LimiterTick ==
  /\ \A c \in Callers : /\ AwaitsRedis(c) => caller[c].spent < RedisTimeout
                        /\ Runs(c) => caller[c].spent < MaxCall
  /\ caller' = [c \in Callers |-> IF AwaitsRedis(c) \/ Runs(c) THEN [caller[c] EXCEPT !.spent = @ + 1]
                                                          ELSE caller[c]]
  /\ slotAge' = [m \in Claims |-> IF m \in slots /\ slotAge[m] < Lifetime THEN slotAge[m] + 1 ELSE slotAge[m]]
  /\ paceLeft' = Less(paceLeft) /\ backoff' = Less(backoff)
  /\ backoffAge' = IF backoff' = 0 THEN 0 ELSE backoffAge + 1
  /\ paceOk' = [i \in Instances |-> Less(paceOk[i])]
  /\ ownPace' = [i \in Instances |-> Less(ownPace[i])]
  /\ UNCHANGED <<policy, slots, commands, limiterEnd>>

LimiterNext ==
  \/ \E c \in Callers : AcquireSlot(c) \/ ResumeCaller(c) \/ TimeOut(c) \/ Insured(c) \/ Finish(c)
  \/ \E i \in Instances : RedisExecutes(i) \/ DropConnection(i) \/ CrashLimiter(i)
  \/ LimiterTick

LimiterSpec == LimiterInit /\ [][LimiterNext]_limiterVars

-----------------------------------------------------------------------------
LimiterTypeOK ==
  /\ policy \in Policies
  /\ slots \subseteq Claims /\ slotAge \in [Claims -> 0..Lifetime]
  /\ caller \in [Callers -> [pc : {"idle", "claim", "pace", "rollback", "undo", "insured", "call", "insuredCall"},
                             claim : Claims \cup {NoClaim}, answer : {"none", "yes", "no", "error"},
                             spent : 0..Larger(MaxCall, RedisTimeout)]]
  /\ paceLeft \in Nat /\ backoff \in Nat /\ backoffAge \in Nat
  /\ paceOk \in [Instances -> 0..Grace] /\ ownPace \in [Instances -> Nat]
  /\ slotsLost \in BOOLEAN
  /\ retryAfters \in 0..MaxRetryAfters /\ limitFaults \in 0..MaxLimitFaults

(* The partner's load is bounded, whatever times out, is evicted or dropped:   *)
(* the calls Redis admitted hold a slot each, and there are no more of them    *)
(* than maxConcurrent; a process without Redis adds no more than that again.   *)
LoadBounded ==
  policy.cap > 0 =>
    /\ \A c \in Callers : caller[c].pc = "call" => caller[c].claim \in slots
    /\ Cardinality({c \in Callers : caller[c].pc = "call"}) <= policy.cap
    /\ \A i \in Instances : Cardinality(InsuredRunning(i)) <= policy.cap

(* No slot leaks: while no connection is dropped and no process dies, every    *)
(* slot belongs to a caller that will give it back, or its removal is on its   *)
(* way; in particular after a claim that timed out and was carried out later.  *)
Removing(m) ==
  \E i \in Instances : \E n \in DOMAIN commands[i] : commands[i][n].op = "remove" /\ commands[i][n].claim = m
SlotsReturn ==
  ~slotsLost => \A m \in slots : Removing(m) \/ \E c \in Callers : caller[c].claim = m

(* A Retry-After that Redis knows is kept by every process: once it has been   *)
(* there for as long as an answer takes, and a grace window where no pace is   *)
(* configured, Redis lets nobody go before it is over.                         *)
Starts(c) == caller[c].pc # "call" /\ caller'[c].pc = "call"
BackoffIsKept ==
  [][\A c \in Callers : Starts(c) /\ backoff > 0 =>
       backoffAge <= RedisTimeout + (IF policy.interval = 0 THEN Grace ELSE 0)]_limiterVars

(* "A same-process backoff is never delayed by the grace window."              *)
(* The code does not keep this: README, "What the code does not keep".         *)
OwnBackoffIsImmediate ==
  [][\A c \in Callers : Starts(c) /\ caller[c].pc # "pace" => ownPace[Home[c]] = 0]_limiterVars
(* Slots are neither exceeded nor leaked.                                      *)
SlotsBalance == LoadBounded /\ SlotsReturn
=============================================================================
