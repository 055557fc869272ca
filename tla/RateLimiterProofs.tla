-------------------------- MODULE RateLimiterProofs --------------------------
(* Theorems about RateLimiter, for any callers, processes, limits, delays and   *)
(* faults: slots are neither exceeded nor leaked, and a Retry-After that Redis  *)
(* was told is kept by every process.                                           *)
EXTENDS RateLimiter, FiniteSetTheorems, FunctionTheorems, SequenceTheorems, TLAPS

(* What SlotsBalance rests on.  A caller has a claim from the moment it sends  *)
(* it until it sends its removal or learns that there is nothing to remove;    *)
(* no two callers have the same.                                               *)
LimiterPcs == {"idle", "claim", "pace", "rollback", "undo", "insured", "call", "insuredCall"}
CallerRecord == [pc : LimiterPcs, claim : Claims \cup {NoClaim},
                 answer : {"none", "yes", "no", "error"}, spent : Nat]
CommandRecord == [op : {"claim", "remove", "pace", "advance"}, from : Callers \cup {NoCaller},
                  claim : Claims \cup {NoClaim}, delay : Nat]
LimiterFits ==
  /\ policy \in Policies
  /\ slots \subseteq Claims /\ slotAge \in [Claims -> Nat]
  /\ caller \in [Callers -> CallerRecord]
  /\ commands \in [Instances -> Seq(CommandRecord)]

CallerFits(r) ==
  /\ r.pc \in {"idle", "insured", "insuredCall"} => r.claim = NoClaim
  /\ r.pc \in {"claim", "rollback", "undo"} => r.claim \in Claims
  /\ r.pc \in {"pace", "call"} /\ policy.cap > 0 => r.claim \in Claims
  /\ r.pc \in {"claim", "pace", "rollback", "undo"} => r.spent <= RedisTimeout
  /\ r.pc \notin {"claim", "pace", "rollback", "undo"} => r.answer = "none"
  /\ r.pc = "call" => r.spent <= MaxCall
CallersFit == \A c \in Callers : CallerFits(caller[c])
OwnClaims ==
  \A c, d \in Callers : c # d /\ caller[c].claim # NoClaim => caller[c].claim # caller[d].claim

(* A command with a caller is the one it awaits.  One about a claim that is had*)
(* is in the queue of its owner's process; the claim itself only before it is  *)
(* answered or when it was given up, its removal only then, and behind it.     *)
CommandFits(i, cmd) ==
  /\ cmd.op \in {"claim", "remove"} => cmd.claim \in Claims
  /\ cmd.op \in {"pace", "advance"} => cmd.claim = NoClaim
  /\ cmd.from # NoCaller =>
       /\ Home[cmd.from] = i /\ caller[cmd.from].answer = "none"
       /\ \/ caller[cmd.from].pc = "claim" /\ cmd.op = "claim" /\ cmd.claim = caller[cmd.from].claim
          \/ caller[cmd.from].pc = "pace" /\ cmd.op = "pace"
          \/ caller[cmd.from].pc \in {"rollback", "undo"} /\ cmd.op = "remove"
  /\ \A c \in Callers : cmd.claim # NoClaim /\ caller[c].claim = cmd.claim =>
       /\ i = Home[c]
       /\ cmd.op = "remove" => caller[c].pc \in {"rollback", "undo"}
       /\ cmd.op = "claim" => \/ caller[c].pc = "claim" /\ caller[c].answer = "none" /\ cmd.from = c
                              \/ caller[c].pc = "claim" /\ caller[c].answer = "error"
                              \/ caller[c].pc \in {"rollback", "undo"}
CommandsFit == \A i \in Instances : \A n \in DOMAIN commands[i] : CommandFits(i, commands[i][n])
CommandsOrdered ==
  \A i, j \in Instances : \A n \in DOMAIN commands[i], k \in DOMAIN commands[j] :
    LET a == commands[i][n]
        b == commands[j][k]
    IN /\ a.from # NoCaller /\ a.from = b.from => i = j /\ n = k
       /\ a.claim # NoClaim /\ a.claim = b.claim => i = j
       /\ a.op = "remove" /\ b.op = "claim" /\ a.claim = b.claim => k < n

(* A claim that Redis granted is in its set, not older than its owner's waiting*)
(* and calling; one it rejected is not.                                        *)
SlotHeld(r) ==
  /\ r.pc = "claim" /\ r.answer = "yes" => r.claim \in slots
  /\ r.pc = "claim" /\ r.answer = "no" => r.claim \notin slots
  /\ r.pc \in {"pace", "call"} /\ r.claim # NoClaim => r.claim \in slots
  /\ r.claim \in slots =>
       /\ r.pc = "claim" => slotAge[r.claim] <= r.spent
       /\ r.pc = "pace" => slotAge[r.claim] <= RedisTimeout + r.spent
       /\ r.pc = "call" => slotAge[r.claim] <= 2 * RedisTimeout + r.spent
SlotsHeld == \A c \in Callers : SlotHeld(caller[c])

(* What is in the set, or will be, is had by a caller or will be removed.      *)
Claimed(m) ==
  \/ m \in slots
  \/ \E i \in Instances : \E n \in DOMAIN commands[i] : commands[i][n].op = "claim" /\ commands[i][n].claim = m
Has(c, m) == caller[c].claim = m /\ caller[c].pc \notin {"rollback", "undo"}
NoSlotLeaks == slotsLost \/ \A m \in Claims : Claimed(m) => Removing(m) \/ \E c \in Callers : Has(c, m)

SlotsCapped ==
  policy.cap > 0 =>
    /\ IsFiniteSet(slots) /\ Cardinality(slots) <= policy.cap
    /\ \A i \in Instances : Cardinality(InsuredRunning(i)) <= policy.cap

(* The pace key admits nobody before a Retry-After it was told is over; what it*)
(* admitted earlier is no older than the answer and the grace window.          *)
PaceHeld ==
  /\ paceLeft \in Nat /\ backoff \in Nat /\ backoffAge \in Nat /\ backoff <= paceLeft
  /\ paceOk \in [Instances -> 0..Grace]
  /\ backoff > 0 =>
       /\ \A c \in Callers : caller[c].pc = "pace" /\ caller[c].answer = "yes" => backoffAge <= caller[c].spent
       /\ \A i \in Instances : paceOk[i] > 0 => backoffAge + paceOk[i] <= RedisTimeout + Grace

LimiterInv ==
  /\ LimiterFits /\ CallersFit /\ OwnClaims /\ CommandsFit /\ CommandsOrdered
  /\ SlotsHeld /\ NoSlotLeaks /\ SlotsCapped

(* Where a step leaves a queue: nothing was sent, or the commands of S were, at*)
(* its end and each of them once.                                              *)
Grows(i, S) ==
  /\ commands' \in [Instances -> Seq(CommandRecord)]
  /\ \A j \in Instances \ {i} : commands'[j] = commands[j]
  /\ \A n \in DOMAIN commands[i] : n \in DOMAIN commands'[i] /\ commands'[i][n] = commands[i][n]
  /\ \A n \in DOMAIN commands'[i] :
       n \in DOMAIN commands[i] \/ (commands'[i][n] \in S /\ \A k \in DOMAIN commands[i] : k < n)
  /\ \A s \in S : \E n \in DOMAIN commands'[i] : commands'[i][n] = s
  /\ \A n, k \in DOMAIN commands'[i] \ DOMAIN commands[i] : commands'[i][n] = commands'[i][k] => n = k

LEMMA GrowsNot ==
  ASSUME LimiterFits, NEW i \in Instances, UNCHANGED commands \/ Send(i, <<>>)
  PROVE  Grows(i, {})
<1>1. commands[i] \in Seq(CommandRecord) /\ commands[i] \o <<>> = commands[i]
  BY DEF LimiterFits
<1>2. UNCHANGED commands
  BY <1>1 DEF Send, LimiterFits
<1> QED BY <1>2 DEF Grows, LimiterFits

LEMMA GrowsByOne ==
  ASSUME LimiterFits, NEW i \in Instances, NEW a \in CommandRecord, Send(i, <<a>>)
  PROVE  Grows(i, {a})
<1> DEFINE q == commands[i]
<1>1. q \in Seq(CommandRecord) /\ Len(q) \in Nat /\ DOMAIN q = 1..Len(q)
  BY DEF LimiterFits
<1> DEFINE s == q \o <<a>>
<1>2. s \in Seq(CommandRecord) /\ DOMAIN s = 1..(Len(q) + 1)
  BY <1>1
<1>3. (\A n \in 1..Len(q) : s[n] = q[n]) /\ s[Len(q) + 1] = a
  BY <1>1
<1>4. commands' \in [Instances -> Seq(CommandRecord)] /\ commands'[i] = s
      /\ \A j \in Instances \ {i} : commands'[j] = commands[j]
  BY <1>2 DEF Send, LimiterFits
<1> HIDE DEF s, q
<1>5. /\ \A n \in DOMAIN q : n \in DOMAIN s /\ s[n] = q[n]
      /\ \A n \in DOMAIN s : n \in DOMAIN q \/ (n = Len(q) + 1 /\ s[n] = a /\ \A k \in DOMAIN q : k < n)
      /\ Len(q) + 1 \in DOMAIN s
  BY <1>1, <1>2, <1>3
<1> QED BY <1>3, <1>4, <1>5 DEF Grows, q

LEMMA GrowsByTwo ==
  ASSUME LimiterFits, NEW i \in Instances, NEW a \in CommandRecord, NEW b \in CommandRecord, a # b,
         Send(i, <<a>> \o <<b>>)
  PROVE  Grows(i, {a, b})
<1> DEFINE q == commands[i]
<1>1. q \in Seq(CommandRecord) /\ Len(q) \in Nat /\ DOMAIN q = 1..Len(q)
  BY DEF LimiterFits
<1> DEFINE ab == <<a>> \o <<b>>
           s == q \o ab
<1>2. ab \in Seq(CommandRecord) /\ Len(ab) = 2 /\ ab[1] = a /\ ab[2] = b
  OBVIOUS
<1> HIDE DEF ab
<1> HIDE DEF q
<1>3. s \in Seq(CommandRecord) /\ DOMAIN s = 1..(Len(q) + 2)
  <2>1. s \in Seq(CommandRecord) /\ Len(s) = Len(q) + Len(ab)
    BY <1>1, <1>2, ConcatProperties
  <2> QED BY <1>1, <1>2, <2>1
<1>4. (\A n \in 1..Len(q) : s[n] = q[n]) /\ s[Len(q) + 1] = a /\ s[Len(q) + 2] = b
  BY <1>1, <1>2, ConcatProperties
<1>5. commands' \in [Instances -> Seq(CommandRecord)] /\ commands'[i] = s
      /\ \A j \in Instances \ {i} : commands'[j] = commands[j]
  BY <1>3 DEF Send, LimiterFits, ab, q
<1> HIDE DEF s, q
<1>6. /\ \A n \in DOMAIN q : n \in DOMAIN s /\ s[n] = q[n]
      /\ \A n \in DOMAIN s : \/ n \in DOMAIN q
                             \/ (n = Len(q) + 1 \/ n = Len(q) + 2) /\ \A k \in DOMAIN q : k < n
      /\ Len(q) + 1 \in DOMAIN s /\ Len(q) + 2 \in DOMAIN s
  BY <1>1, <1>3, <1>4
<1> QED BY <1>4, <1>5, <1>6 DEF Grows, q

(* Redis carries out the first command of a queue.                             *)
LEMMA QueueAdvances ==
  ASSUME LimiterFits, NEW i \in Instances, commands[i] # <<>>, commands' = [commands EXCEPT ![i] = Tail(@)]
  PROVE  /\ commands' \in [Instances -> Seq(CommandRecord)]
         /\ \A j \in Instances \ {i} : commands'[j] = commands[j]
         /\ 1 \in DOMAIN commands[i] /\ Head(commands[i]) = commands[i][1]
         /\ commands[i][1] \in CommandRecord
         /\ \A n \in DOMAIN commands'[i] :
              n \in Nat \ {0} /\ n + 1 \in DOMAIN commands[i] /\ commands'[i][n] = commands[i][n + 1]
         /\ \A n \in DOMAIN commands[i] :
              n # 1 => n - 1 \in DOMAIN commands'[i] /\ commands'[i][n - 1] = commands[i][n]
<1> DEFINE q == commands[i]
<1>1. q \in Seq(CommandRecord) /\ q # <<>> /\ Len(q) \in Nat \ {0} /\ DOMAIN q = 1..Len(q)
  BY DEF LimiterFits
<1>2. /\ Tail(q) \in Seq(CommandRecord) /\ DOMAIN Tail(q) = 1..(Len(q) - 1)
      /\ \A n \in 1..(Len(q) - 1) : Tail(q)[n] = q[n + 1]
  BY <1>1
<1>3. commands' \in [Instances -> Seq(CommandRecord)] /\ commands'[i] = Tail(q)
      /\ \A j \in Instances \ {i} : commands'[j] = commands[j]
  BY <1>2 DEF LimiterFits
<1>4. Head(q) = q[1] /\ q[1] \in CommandRecord
  BY <1>1
<1>5. /\ \A n \in DOMAIN Tail(q) : n \in Nat \ {0} /\ n + 1 \in DOMAIN q /\ Tail(q)[n] = q[n + 1]
      /\ \A n \in DOMAIN q : n # 1 => n - 1 \in DOMAIN Tail(q) /\ Tail(q)[n - 1] = q[n]
      /\ 1 \in DOMAIN q
  <2> HIDE DEF q
  <2>1. \A n \in 1..Len(q) : n # 1 => n - 1 \in 1..(Len(q) - 1) /\ (n - 1) + 1 = n
    BY <1>1
  <2> QED BY <1>1, <1>2, <2>1
<1> QED BY <1>3, <1>4, <1>5

(* A caller goes on: to pc, with the claim m, and what it sends is S.  It was  *)
(* answered, or awaited nothing; a claim it had is kept, or nothing is left of *)
(* it, or S takes it back; a claim it did not have is new, and S asks for it.  *)
Waiting == {"claim", "pace", "rollback", "undo"}
Moved(pc, m) == [IdleCaller EXCEPT !.pc = pc, !.claim = m]
KeepsClaim(c, pc) ==
  \/ pc \in {"rollback", "undo"} /\ caller[c].pc \in {"rollback", "undo"}
  \/ pc \in {"pace", "call"} /\ caller[c].pc \in {"claim", "pace"} /\ caller[c].answer = "yes"
TakesBack(c, S) == \E s \in S : s.op = "remove" /\ s.claim = caller[c].claim
Nothing(c) == caller[c].pc \in {"rollback", "undo"} \/ (caller[c].pc = "claim" /\ caller[c].answer = "no")
Asks(c, pc, m, S) == FreshId(m) /\ pc = "claim" /\ S = {Command("claim", c, m, 0)}
SendsRight(c, pc, m, S) ==
  /\ S \subseteq CommandRecord
  /\ \A s \in S :
       /\ s.from = c \/ s.from = NoCaller
       /\ s.op = "claim" => Asks(c, pc, m, S)
       /\ s.op = "remove" => /\ s.claim = caller[c].claim /\ s.claim # NoClaim
                             /\ (pc \in {"rollback", "undo"} /\ m = s.claim) \/ m = NoClaim
       /\ s.op \in {"pace", "advance"} => s.claim = NoClaim
       /\ s.from = c => \/ s.op = "claim"
                        \/ pc = "pace" /\ s.op = "pace"
                        \/ pc \in {"rollback", "undo"} /\ s.op = "remove"
  /\ \A s, t \in S : s.from = c /\ t.from = c => s = t
MoveOk(c, pc, m, S) ==
  /\ Move(c, pc, m) /\ Grows(Home[c], S)
  /\ UNCHANGED <<policy, slots, slotAge, slotsLost>>
  /\ caller[c].answer # "none" \/ caller[c].pc \notin Waiting
  /\ pc \in LimiterPcs /\ m \in Claims \cup {NoClaim}
  /\ CallerFits(Moved(pc, m)) /\ SlotHeld(Moved(pc, m))
  /\ SendsRight(c, pc, m, S)
  /\ \/ m = caller[c].claim /\ KeepsClaim(c, pc)
     \/ m = caller[c].claim /\ pc \in {"rollback", "undo"} /\ TakesBack(c, S)
     \/ m = NoClaim /\ (caller[c].claim = NoClaim \/ Nothing(c) \/ TakesBack(c, S))
     \/ caller[c].claim = NoClaim /\ Asks(c, pc, m, S)
  /\ policy.cap > 0 /\ pc = "insuredCall" => Cardinality(InsuredRunning(Home[c])) < policy.cap

LEMMA MovedIs ==
  ASSUME NEW c \in Callers, LimiterFits, NEW pc \in LimiterPcs, NEW m \in Claims \cup {NoClaim}, Move(c, pc, m)
  PROVE  /\ caller' \in [Callers -> CallerRecord] /\ caller'[c] = Moved(pc, m)
         /\ \A d \in Callers \ {c} : caller'[d] = caller[d]
         /\ Moved(pc, m).pc = pc /\ Moved(pc, m).claim = m /\ Moved(pc, m).answer = "none" /\ Moved(pc, m).spent = 0
<1>1. /\ Moved(pc, m) \in CallerRecord
      /\ Moved(pc, m).pc = pc /\ Moved(pc, m).claim = m /\ Moved(pc, m).answer = "none" /\ Moved(pc, m).spent = 0
  BY DEF Moved, IdleCaller, CallerRecord
<1>2. caller' = [caller EXCEPT ![c] = Moved(pc, m)]
  BY DEF Move, Moved
<1> QED BY <1>1, <1>2 DEF LimiterFits

(* What was sent before is in the queue still; what is new comes after it.     *)
LEMMA MoveSends ==
  ASSUME LimiterInv, NEW c \in Callers, NEW pc, NEW m, NEW S, MoveOk(c, pc, m, S),
         NEW i \in Instances, NEW n \in DOMAIN commands'[i]
  PROVE  \/ n \in DOMAIN commands[i] /\ commands'[i][n] = commands[i][n]
         \/ /\ n \notin DOMAIN commands[i] /\ i = Home[c] /\ commands'[i][n] \in S
            /\ \A k \in DOMAIN commands[i] : k < n
BY DEF MoveOk, Grows

(* No command of the caller is left in a queue.                                *)
LEMMA MoveAnswered ==
  ASSUME LimiterInv, NEW c \in Callers, caller[c].answer # "none" \/ caller[c].pc \notin Waiting,
         NEW i \in Instances, NEW n \in DOMAIN commands[i], NoCaller \notin Callers
  PROVE  commands[i][n].from # c
BY DEF LimiterInv, CommandsFit, CommandFits, Waiting

LEMMA MoveCommandsFit ==
  ASSUME LimiterInv, NEW c \in Callers, NEW pc, NEW m, NEW S, MoveOk(c, pc, m, S)
  PROVE  CommandsFit'
<1>1. /\ caller'[c] = Moved(pc, m) /\ \A d \in Callers \ {c} : caller'[d] = caller[d]
      /\ Moved(pc, m).pc = pc /\ Moved(pc, m).claim = m /\ Moved(pc, m).answer = "none"
  BY MovedIs DEF MoveOk, LimiterInv
<1>2. NoCaller \notin Callers /\ NoClaim \notin Claims /\ Home[c] \in Instances
  BY LimiterAssumption
<1>3. SUFFICES ASSUME NEW i \in Instances, NEW n \in DOMAIN commands'[i] PROVE CommandFits(i, commands[i][n])'
  BY DEF CommandsFit
<1> DEFINE cmd == commands'[i][n]
<1>4. CASE n \in DOMAIN commands[i] /\ cmd = commands[i][n]
  <2>1. CommandFits(i, commands[i][n]) /\ cmd.from # c
    BY <1>2, <1>4, MoveAnswered DEF LimiterInv, CommandsFit, MoveOk
  <2>2. cmd.from # NoCaller => cmd.from \in Callers \ {c}
    <3>1. commands[i][n] \in CommandRecord
      BY <1>4 DEF LimiterInv, LimiterFits
    <3> QED BY <1>4, <2>1, <3>1 DEF CommandRecord
  <2>3. ASSUME NEW d \in Callers, cmd.claim # NoClaim, caller'[d].claim = cmd.claim
        PROVE  /\ i = Home[d]
               /\ cmd.op = "remove" => caller'[d].pc \in {"rollback", "undo"}
               /\ cmd.op = "claim" => \/ caller'[d].pc = "claim" /\ caller'[d].answer = "none" /\ cmd.from = d
                                      \/ caller'[d].pc = "claim" /\ caller'[d].answer = "error"
                                      \/ caller'[d].pc \in {"rollback", "undo"}
    <3>1. CASE d # c
      BY <1>1, <1>4, <2>1, <2>3, <3>1 DEF CommandFits
    <3>2. CASE d = c
      <4>1. m = cmd.claim /\ ~FreshId(m)
        BY <1>1, <1>4, <2>3, <3>2 DEF FreshId
      <4>2. m = caller[c].claim /\ (KeepsClaim(c, pc) \/ pc \in {"rollback", "undo"})
        BY <2>3, <4>1 DEF MoveOk, Asks
      <4> QED BY <1>1, <1>4, <2>1, <2>3, <3>2, <4>1, <4>2 DEF CommandFits, KeepsClaim
    <3> QED BY <3>1, <3>2
  <2> QED BY <1>1, <1>4, <2>1, <2>2, <2>3 DEF CommandFits
<1>5. CASE n \notin DOMAIN commands[i] /\ i = Home[c] /\ cmd \in S
  <2>1. SendsRight(c, pc, m, S) /\ cmd \in CommandRecord
    BY <1>5 DEF MoveOk, SendsRight
  <2>2. /\ cmd.op \in {"claim", "remove"} => cmd.claim \in Claims
        /\ cmd.op \in {"pace", "advance"} => cmd.claim = NoClaim
    <3>1. cmd.op = "claim" => m \in Claims /\ cmd.claim = m
      <4>1. cmd.op = "claim" => pc = "claim" /\ cmd.claim = m
        BY <1>5, <2>1 DEF SendsRight, Asks, Command
      <4>2. CallerFits(Moved(pc, m))
        BY DEF MoveOk
      <4> QED BY <1>1, <4>1, <4>2 DEF CallerFits
    <3> QED BY <1>5, <2>1, <3>1 DEF SendsRight, CommandRecord
  <2>3. cmd.from # NoCaller =>
          /\ cmd.from = c
          /\ \/ caller'[c].pc = "claim" /\ cmd.op = "claim" /\ cmd.claim = caller'[c].claim
             \/ caller'[c].pc = "pace" /\ cmd.op = "pace"
             \/ caller'[c].pc \in {"rollback", "undo"} /\ cmd.op = "remove"
    BY <1>1, <1>5, <2>1 DEF SendsRight, Asks, Command
  <2>4. ASSUME NEW d \in Callers, cmd.claim # NoClaim, caller'[d].claim = cmd.claim
        PROVE  /\ d = c
               /\ cmd.op = "remove" => caller'[d].pc \in {"rollback", "undo"}
               /\ cmd.op = "claim" => caller'[d].pc = "claim" /\ caller'[d].answer = "none" /\ cmd.from = d
    <3>1. CASE cmd.op = "claim"
      <4>1. FreshId(m) /\ pc = "claim" /\ cmd = Command("claim", c, m, 0)
        BY <1>5, <2>1, <3>1 DEF SendsRight, Asks
      <4> QED BY <1>1, <2>4, <3>1, <4>1 DEF FreshId, Command
    <3>2. CASE cmd.op = "remove"
      <4>1. cmd.claim = caller[c].claim /\ (pc \in {"rollback", "undo"} \/ m = NoClaim)
        BY <1>5, <2>1, <3>2 DEF SendsRight
      <4> QED BY <1>1, <2>4, <3>2, <4>1 DEF LimiterInv, OwnClaims
    <3>3. CASE cmd.op \in {"pace", "advance"}
      BY <2>2, <2>4, <3>3
    <3> QED BY <2>1, <3>1, <3>2, <3>3 DEF CommandRecord
  <2> QED BY <1>1, <1>5, <2>2, <2>3, <2>4 DEF CommandFits
<1> QED BY <1>4, <1>5, MoveSends

LEMMA MoveCommandsOrdered ==
  ASSUME LimiterInv, NEW c \in Callers, NEW pc, NEW m, NEW S, MoveOk(c, pc, m, S)
  PROVE  CommandsOrdered'
<1>1. NoCaller \notin Callers /\ NoClaim \notin Claims /\ Home[c] \in Instances
  BY LimiterAssumption
<1>2. SendsRight(c, pc, m, S) /\ Grows(Home[c], S)
  BY DEF MoveOk
<1>3. \A i \in Instances : DOMAIN commands[i] \subseteq Nat /\ DOMAIN commands'[i] \subseteq Nat
  BY <1>2 DEF Grows, LimiterInv, LimiterFits
(* A new command and an old one have no caller in common, a claim only if it is*)
(* the caller's own, which the new one takes back.                             *)
<1>4. ASSUME NEW s \in S, NEW j \in Instances, NEW k \in DOMAIN commands[j]
      PROVE  /\ s.from # NoCaller => commands[j][k].from # s.from
             /\ s.claim # NoClaim /\ s.claim = commands[j][k].claim =>
                  s.op = "remove" /\ j = Home[c]
  <2>1. commands[j][k].from # c
    BY <1>1, MoveAnswered DEF MoveOk
  <2>2. s.op = "claim" => s.claim # commands[j][k].claim
    BY <1>2 DEF SendsRight, Asks, FreshId, Command
  <2>3. s.op = "remove" => s.claim = caller[c].claim
    BY <1>2 DEF SendsRight
  <2>4. s.claim # NoClaim => s.op \in {"claim", "remove"}
    BY <1>2 DEF SendsRight, CommandRecord
  <2>5. s.claim # NoClaim /\ s.claim = commands[j][k].claim /\ s.op = "remove" => j = Home[c]
    BY <2>3 DEF LimiterInv, CommandsFit, CommandFits
  <2> QED BY <1>2, <2>1, <2>2, <2>4, <2>5 DEF SendsRight
<1> DEFINE Ordered(a, b, i, j, n, k) ==
             /\ a.from # NoCaller /\ a.from = b.from => i = j /\ n = k
             /\ a.claim # NoClaim /\ a.claim = b.claim => i = j
             /\ a.op = "remove" /\ b.op = "claim" /\ a.claim = b.claim => k < n
<1>5. SUFFICES ASSUME NEW i \in Instances, NEW j \in Instances,
                      NEW n \in DOMAIN commands'[i], NEW k \in DOMAIN commands'[j]
               PROVE  Ordered(commands'[i][n], commands'[j][k], i, j, n, k)
  BY DEF CommandsOrdered
<1> DEFINE a == commands'[i][n]
           b == commands'[j][k]
<1>6. \/ n \in DOMAIN commands[i] /\ a = commands[i][n]
      \/ n \notin DOMAIN commands[i] /\ i = Home[c] /\ a \in S /\ \A l \in DOMAIN commands[i] : l < n
  BY MoveSends
<1>7. \/ k \in DOMAIN commands[j] /\ b = commands[j][k]
      \/ k \notin DOMAIN commands[j] /\ j = Home[c] /\ b \in S /\ \A l \in DOMAIN commands[j] : l < k
  BY MoveSends
<1> HIDE DEF a, b
<1>8. CASE n \in DOMAIN commands[i] /\ a = commands[i][n] /\ k \in DOMAIN commands[j] /\ b = commands[j][k]
  BY <1>8 DEF LimiterInv, CommandsOrdered, a, b
<1>9. CASE n \in DOMAIN commands[i] /\ a = commands[i][n] /\ k \notin DOMAIN commands[j] /\ j = Home[c] /\ b \in S
  <2>1. a.op \in {"claim", "remove"} => a.claim # NoClaim
    BY <1>1, <1>9 DEF LimiterInv, CommandsFit, CommandFits
  <2> QED BY <1>4, <1>9, <2>1 DEF a, b
<1>10. CASE /\ n \notin DOMAIN commands[i] /\ i = Home[c] /\ a \in S /\ \A l \in DOMAIN commands[i] : l < n
            /\ k \in DOMAIN commands[j] /\ b = commands[j][k]
  <2>1. b.op \in {"claim", "remove"} => b.claim # NoClaim
    BY <1>1, <1>10 DEF LimiterInv, CommandsFit, CommandFits
  <2> QED BY <1>4, <1>10, <2>1 DEF a, b
<1>11. CASE /\ n \notin DOMAIN commands[i] /\ i = Home[c] /\ a \in S
            /\ k \notin DOMAIN commands[j] /\ j = Home[c] /\ b \in S
  <2>1. a = b => n = k
    BY <1>2, <1>11 DEF Grows, a, b
  <2>2. a.from # NoCaller /\ a.from = b.from => a = b
    BY <1>2, <1>11 DEF SendsRight
  <2>3. b.op = "claim" => a.op # "remove"
    BY <1>2, <1>11 DEF SendsRight, Asks, Command
  <2> QED BY <1>11, <2>1, <2>2, <2>3 DEF a, b
<1> QED BY <1>6, <1>7, <1>8, <1>9, <1>10, <1>11

LEMMA MoveNoSlotLeaks ==
  ASSUME LimiterInv, NEW c \in Callers, NEW pc, NEW m, NEW S, MoveOk(c, pc, m, S)
  PROVE  NoSlotLeaks'
<1>1. /\ caller'[c] = Moved(pc, m) /\ \A d \in Callers \ {c} : caller'[d] = caller[d]
      /\ Moved(pc, m).pc = pc /\ Moved(pc, m).claim = m
  BY MovedIs DEF MoveOk, LimiterInv
<1>2. NoClaim \notin Claims /\ Home[c] \in Instances
  BY LimiterAssumption
<1>3. Grows(Home[c], S) /\ SendsRight(c, pc, m, S) /\ UNCHANGED <<slots, slotsLost>>
  BY DEF MoveOk
<1>4. SUFFICES ASSUME ~slotsLost, NEW x \in Claims, Claimed(x)'
               PROVE  Removing(x)' \/ \E d \in Callers : Has(d, x)'
  BY <1>3 DEF NoSlotLeaks
<1>5. Removing(x) => Removing(x)'
  BY <1>3 DEF Removing, Grows
<1>6. CASE \E s \in S : s.op = "claim" /\ s.claim = x
  <2>1. pc = "claim" /\ m = x
    BY <1>3, <1>6 DEF SendsRight, Asks, Command
  <2> QED BY <1>1, <2>1 DEF Has
<1>7. CASE ~\E s \in S : s.op = "claim" /\ s.claim = x
  <2>1. Claimed(x)
    <3>1. CASE x \in slots'
      BY <1>3, <3>1 DEF Claimed
    <3>2. CASE \E i \in Instances : \E n \in DOMAIN commands'[i] : commands'[i][n].op = "claim" /\ commands'[i][n].claim = x
      BY <1>7, <3>2, MoveSends DEF Claimed
    <3> QED BY <1>4, <3>1, <3>2 DEF Claimed
  <2>2. CASE Removing(x)
    BY <1>5, <2>2
  <2>3. CASE \E d \in Callers : Has(d, x)
    <3>1. PICK d \in Callers : Has(d, x)
      BY <2>3
    <3>2. CASE d # c
      BY <1>1, <3>1, <3>2 DEF Has
    <3>3. CASE d = c
      <4>1. caller[c].claim = x /\ caller[c].pc \notin {"rollback", "undo"}
        BY <3>1, <3>3 DEF Has
      <4>2. CASE TakesBack(c, S)
        <5>1. PICK s \in S : s.op = "remove" /\ s.claim = x
          BY <4>1, <4>2 DEF TakesBack
        <5> QED BY <1>2, <1>3, <5>1 DEF Removing, Grows
      <4>3. CASE m = caller[c].claim /\ KeepsClaim(c, pc)
        <5>1. pc \in {"pace", "call"} /\ m = x
          BY <4>1, <4>3 DEF KeepsClaim
        <5> QED BY <1>1, <5>1 DEF Has
      <4>4. CASE Nothing(c)
        <5>1. caller[c].pc = "claim" /\ caller[c].answer = "no"
          BY <4>1, <4>4 DEF Nothing
        <5>2. x \notin slots
          BY <4>1, <5>1 DEF LimiterInv, SlotsHeld, SlotHeld
        <5>3. ASSUME NEW i \in Instances, NEW n \in DOMAIN commands[i],
                     commands[i][n].op = "claim", commands[i][n].claim = x
              PROVE  FALSE
          BY <1>2, <4>1, <5>1, <5>3 DEF LimiterInv, CommandsFit, CommandFits
        <5> QED BY <2>1, <5>2, <5>3 DEF Claimed
      <4> QED BY <1>2, <4>1, <4>2, <4>3, <4>4 DEF MoveOk
    <3> QED BY <3>2, <3>3
  <2> QED BY <1>4, <2>1, <2>2, <2>3 DEF LimiterInv, NoSlotLeaks
<1> QED BY <1>6, <1>7

LEMMA MoveInv ==
  ASSUME LimiterInv, NEW c \in Callers, NEW pc, NEW m, NEW S, MoveOk(c, pc, m, S)
  PROVE  LimiterInv'
<1>1. /\ caller' \in [Callers -> CallerRecord]
      /\ caller'[c] = Moved(pc, m) /\ \A d \in Callers \ {c} : caller'[d] = caller[d]
      /\ Moved(pc, m).pc = pc /\ Moved(pc, m).claim = m
  BY MovedIs DEF MoveOk, LimiterInv
<1>2. UNCHANGED <<policy, slots, slotAge>>
  BY DEF MoveOk
<1>3. LimiterFits'
  BY <1>1, <1>2 DEF LimiterInv, LimiterFits, MoveOk, Grows
<1>4. CallersFit'
  <2>1. CallerFits(Moved(pc, m))'
    BY <1>2 DEF MoveOk, CallerFits
  <2>2. \A d \in Callers \ {c} : CallerFits(caller[d])'
    BY <1>1, <1>2 DEF LimiterInv, CallersFit, CallerFits
  <2> QED BY <1>1, <2>1, <2>2 DEF CallersFit
<1>5. SlotsHeld'
  <2>1. SlotHeld(caller[c])'
    BY <1>1, <1>2 DEF MoveOk, SlotHeld
  <2>2. \A d \in Callers \ {c} : SlotHeld(caller[d])'
    BY <1>1, <1>2 DEF LimiterInv, SlotsHeld, SlotHeld
  <2> QED BY <2>1, <2>2 DEF SlotsHeld
<1>6. OwnClaims'
  <2>1. m = NoClaim \/ m = caller[c].claim \/ FreshId(m)
    BY DEF MoveOk, Asks
  <2> QED BY <1>1, <2>1 DEF LimiterInv, OwnClaims, FreshId
<1>7. SlotsCapped'
  <2>1. ASSUME policy.cap > 0, NEW i \in Instances PROVE Cardinality(InsuredRunning(i)') <= policy.cap
    <3>1. IsFiniteSet(InsuredRunning(i)) /\ Cardinality(InsuredRunning(i)) <= policy.cap
      <4>1. InsuredRunning(i) \subseteq Callers
        BY DEF InsuredRunning, Of
      <4> QED BY <2>1, <4>1, LimiterAssumption, FS_Subset DEF LimiterInv, SlotsCapped
    <3>2. CASE pc = "insuredCall" /\ i = Home[c]
      <4>1. InsuredRunning(i)' = InsuredRunning(i) \cup {c}
        BY <1>1, <3>2 DEF InsuredRunning, Of
      <4>2. policy.cap \in Nat /\ Cardinality(InsuredRunning(i)) \in Nat /\ Cardinality(InsuredRunning(i)) < policy.cap
        BY <2>1, <3>1, <3>2, FS_CardinalityType, LimiterAssumption DEF MoveOk, LimiterInv, LimiterFits
      <4>3. Cardinality(InsuredRunning(i)') \in {Cardinality(InsuredRunning(i)), Cardinality(InsuredRunning(i)) + 1}
        BY <3>1, <4>1, FS_AddElement
      <4> QED BY <4>2, <4>3
    <3>3. CASE ~(pc = "insuredCall" /\ i = Home[c])
      <4>1. InsuredRunning(i)' \subseteq InsuredRunning(i)
        BY <1>1, <3>3 DEF InsuredRunning, Of
      <4>2. Cardinality(InsuredRunning(i)') <= Cardinality(InsuredRunning(i)) /\ IsFiniteSet(InsuredRunning(i)')
        BY <3>1, <4>1, FS_Subset
      <4>3. Cardinality(InsuredRunning(i)') \in Nat /\ Cardinality(InsuredRunning(i)) \in Nat /\ policy.cap \in Nat
        BY <3>1, <4>2, FS_CardinalityType, LimiterAssumption DEF LimiterInv, LimiterFits
      <4> QED BY <3>1, <4>2, <4>3
    <3> QED BY <3>2, <3>3
  <2> QED BY <1>2, <2>1 DEF LimiterInv, SlotsCapped
<1> QED BY <1>3, <1>4, <1>5, <1>6, <1>7, MoveCommandsFit, MoveCommandsOrdered, MoveNoSlotLeaks DEF LimiterInv

LEMMA CommandIs ==
  ASSUME NEW op \in {"claim", "remove", "pace", "advance"}, NEW c \in Callers \cup {NoCaller},
         NEW m \in Claims \cup {NoClaim}, NEW d \in Nat
  PROVE  /\ Command(op, c, m, d) \in CommandRecord
         /\ Command(op, c, m, d).op = op /\ Command(op, c, m, d).from = c /\ Command(op, c, m, d).claim = m
BY DEF Command, CommandRecord

LEMMA MovedFits ==
  ASSUME NEW pc \in LimiterPcs, NEW m \in Claims \cup {NoClaim},
         pc \in {"idle", "insured", "insuredCall"} => m = NoClaim,
         pc \in {"claim", "rollback", "undo"} => m \in Claims,
         pc \in {"pace", "call"} /\ policy.cap > 0 => m \in Claims,
         pc \in {"pace", "call"} /\ m # NoClaim => m \in slots,
         pc = "claim" => m \notin slots,
         pc = "pace" /\ m \in slots => slotAge[m] <= RedisTimeout,
         pc = "call" /\ m \in slots => slotAge[m] <= 2 * RedisTimeout,
         LimiterFits
  PROVE  CallerFits(Moved(pc, m)) /\ SlotHeld(Moved(pc, m))
<1>1. Moved(pc, m).pc = pc /\ Moved(pc, m).claim = m /\ Moved(pc, m).answer = "none" /\ Moved(pc, m).spent = 0
  BY DEF Moved, IdleCaller
<1>2. RedisTimeout \in Nat /\ MaxCall \in Nat /\ \A x \in Claims : slotAge[x] \in Nat
  BY LimiterAssumption DEF LimiterFits
<1> HIDE DEF Moved
<1>3. CallerFits(Moved(pc, m))
  BY <1>1, <1>2 DEF CallerFits
<1>4. m \in slots /\ pc = "pace" => slotAge[m] <= RedisTimeout + 0
  BY <1>2 DEF LimiterFits
<1>5. m \in slots /\ pc = "call" => slotAge[m] <= 2 * RedisTimeout + 0
  BY <1>2 DEF LimiterFits
<1> QED BY <1>1, <1>3, <1>4, <1>5 DEF SlotHeld

(* A caller that leaves without sending anything, ...                          *)
LEMMA MovesQuietly ==
  ASSUME LimiterInv, NEW c \in Callers, caller[c].answer # "none" \/ caller[c].pc \notin Waiting,
         NEW pc \in LimiterPcs \ {"claim", "pace", "rollback", "undo"}, NEW m \in Claims \cup {NoClaim}, Move(c, pc, m),
         UNCHANGED <<policy, slots, slotAge, slotsLost>>, UNCHANGED commands \/ Send(Home[c], <<>>),
         CallerFits(Moved(pc, m)), SlotHeld(Moved(pc, m)),
         \/ m = caller[c].claim /\ KeepsClaim(c, pc)
         \/ m = NoClaim /\ (caller[c].claim = NoClaim \/ Nothing(c)),
         policy.cap > 0 /\ pc = "insuredCall" => Cardinality(InsuredRunning(Home[c])) < policy.cap
  PROVE  LimiterInv'
<1>1. Grows(Home[c], {})
  BY GrowsNot, LimiterAssumption DEF LimiterInv
<1>2. SendsRight(c, pc, m, {})
  BY DEF SendsRight
<1>3. MoveOk(c, pc, m, {})
  BY <1>1, <1>2 DEF MoveOk
<1> QED BY <1>3, MoveInv

(* ... one that takes its claim back, ...                                      *)
LEMMA TakingBack ==
  ASSUME LimiterInv, NEW c \in Callers, caller[c].answer # "none", caller[c].claim # NoClaim,
         NEW pc \in {"rollback", "undo"}, Move(c, pc, caller[c].claim),
         Send(Home[c], <<Command("remove", c, caller[c].claim, 0)>>),
         UNCHANGED <<policy, slots, slotAge, slotsLost>>
  PROVE  LimiterInv'
<1> DEFINE m == caller[c].claim
           s == Command("remove", c, m, 0)
<1>1. m \in Claims
  BY DEF LimiterInv, LimiterFits, CallerRecord
<1>2. s \in CommandRecord /\ s.op = "remove" /\ s.from = c /\ s.claim = m
  BY <1>1, CommandIs
<1>3. CallerFits(Moved(pc, m)) /\ SlotHeld(Moved(pc, m))
  BY <1>1, MovedFits DEF LimiterInv, LimiterPcs
<1> HIDE DEF s
<1>4. Grows(Home[c], {s})
  BY <1>2, GrowsByOne, LimiterAssumption DEF LimiterInv, s
<1>5. SendsRight(c, pc, m, {s}) /\ TakesBack(c, {s})
  BY <1>1, <1>2 DEF SendsRight, TakesBack
<1>6. pc \in LimiterPcs
  BY DEF LimiterPcs
<1>7. MoveOk(c, pc, m, {s})
  BY <1>1, <1>3, <1>4, <1>5, <1>6 DEF MoveOk
<1> QED BY <1>7, MoveInv

LEMMA FallsBack ==
  ASSUME LimiterInv, NEW c \in Callers, caller[c].answer # "none", Fallback(c),
         caller[c].pc = "undo" \/ caller[c].answer = "error",
         UNCHANGED <<policy, slots, slotAge, slotsLost>>
  PROVE  LimiterInv'
<1>1. CASE caller[c].claim # NoClaim /\ caller[c].pc # "undo"
  BY <1>1, TakingBack DEF Fallback
<1>2. CASE ~(caller[c].claim # NoClaim /\ caller[c].pc # "undo")
  <2>1. Move(c, "insured", NoClaim) /\ UNCHANGED commands
    BY <1>2 DEF Fallback
  <2>2. CallerFits(Moved("insured", NoClaim)) /\ SlotHeld(Moved("insured", NoClaim))
    BY MovedFits DEF LimiterInv, LimiterPcs
  <2>3. caller[c].claim = NoClaim \/ Nothing(c)
    BY <1>2 DEF Nothing
  <2> QED BY <2>1, <2>2, <2>3, MovesQuietly DEF LimiterPcs
<1> QED BY <1>1, <1>2

(* ... one that asks the pace key, or rides on its last answer.                *)
LEMMA PaceChecked ==
  ASSUME LimiterInv, NEW c \in Callers, NEW m \in Claims \cup {NoClaim}, CheckPace(c, m),
         caller[c].answer # "none" \/ caller[c].pc \notin Waiting,
         UNCHANGED <<policy, slots, slotAge, slotsLost>>, m = caller[c].claim,
         \/ m = NoClaim /\ ~(policy.cap > 0)
         \/ m \in slots /\ slotAge[m] <= RedisTimeout /\ caller[c].pc = "claim" /\ caller[c].answer = "yes"
  PROVE  LimiterInv'
<1>1. NoClaim \notin Claims /\ RedisTimeout \in Nat /\ LimiterFits /\ slots \subseteq Claims /\ Home[c] \in Instances
  BY LimiterAssumption DEF LimiterInv, LimiterFits
<1>2. m \in slots => slotAge[m] <= 2 * RedisTimeout
  BY <1>1 DEF LimiterFits
<1>3. /\ CallerFits(Moved("pace", m)) /\ SlotHeld(Moved("pace", m))
      /\ CallerFits(Moved("call", m)) /\ SlotHeld(Moved("call", m))
  BY <1>1, <1>2, MovedFits DEF LimiterPcs
<1>4. CASE Move(c, "call", m) /\ UNCHANGED commands
  <2>1. \/ m = caller[c].claim /\ KeepsClaim(c, "call")
        \/ m = NoClaim /\ caller[c].claim = NoClaim
    BY DEF KeepsClaim
  <2> QED BY <1>3, <1>4, <2>1, MovesQuietly DEF LimiterPcs
<1>5. CASE Move(c, "pace", m) /\ Send(Home[c], <<Command("pace", c, NoClaim, 0)>>)
  <2> DEFINE s == Command("pace", c, NoClaim, 0)
  <2>1. s \in CommandRecord /\ s.op = "pace" /\ s.from = c /\ s.claim = NoClaim
    BY CommandIs
  <2> HIDE DEF s
  <2>2. Grows(Home[c], {s})
    BY <1>1, <1>5, <2>1, GrowsByOne DEF s
  <2>3. SendsRight(c, "pace", m, {s})
    BY <2>1 DEF SendsRight
  <2>4. \/ m = caller[c].claim /\ KeepsClaim(c, "pace")
        \/ m = NoClaim /\ caller[c].claim = NoClaim
    BY DEF KeepsClaim
  <2>5. MoveOk(c, "pace", m, {s})
    BY <1>3, <1>5, <2>2, <2>3, <2>4 DEF MoveOk, LimiterPcs
  <2> QED BY <2>5, MoveInv
<1> QED BY <1>4, <1>5 DEF CheckPace

LEMMA AcquireInv == ASSUME LimiterInv, NEW c \in Callers, AcquireSlot(c) PROVE LimiterInv'
<1>1. /\ caller[c].pc = "idle" /\ caller[c].claim = NoClaim /\ caller[c].pc \notin Waiting
      /\ UNCHANGED <<policy, slots, slotAge, slotsLost>>
  BY DEF AcquireSlot, LimiterInv, CallersFit, CallerFits, Waiting, redisVars, limiterEnd
<1>2. CASE policy.cap > 0
  <2> DEFINE m == FreshClaim
             s == Command("claim", c, m, 0)
  <2>1. m \in Claims /\ FreshId(m)
    BY <1>2 DEF AcquireSlot, FreshClaim
  <2> HIDE DEF m
  <2>2. s \in CommandRecord /\ s.op = "claim" /\ s.from = c /\ s.claim = m
    BY <2>1, CommandIs
  <2>3. Move(c, "claim", m) /\ Send(Home[c], <<s>>)
    BY <1>2 DEF AcquireSlot, m
  <2>4. CallerFits(Moved("claim", m)) /\ SlotHeld(Moved("claim", m))
    BY <2>1, MovedFits DEF LimiterInv, LimiterPcs, FreshId
  <2>5. Asks(c, "claim", m, {s})
    BY <2>1 DEF Asks
  <2> HIDE DEF s
  <2>6. Grows(Home[c], {s})
    BY <2>2, <2>3, GrowsByOne, LimiterAssumption DEF LimiterInv
  <2>7. SendsRight(c, "claim", m, {s})
    BY <2>2, <2>5 DEF SendsRight
  <2>8. MoveOk(c, "claim", m, {s})
    BY <1>1, <2>1, <2>3, <2>4, <2>5, <2>6, <2>7 DEF MoveOk, LimiterPcs
  <2> QED BY <2>8, MoveInv
<1>3. CASE ~(policy.cap > 0)
  <2>1. CheckPace(c, NoClaim)
    BY <1>3 DEF AcquireSlot
  <2> QED BY <1>1, <1>3, <2>1, PaceChecked
<1> QED BY <1>2, <1>3

LEMMA ResumeInv == ASSUME LimiterInv, NEW c \in Callers, ResumeCaller(c) PROVE LimiterInv'
<1> DEFINE m == caller[c].claim
<1>1. /\ caller[c].answer # "none" /\ caller[c] \in CallerRecord /\ CallerFits(caller[c]) /\ SlotHeld(caller[c])
      /\ UNCHANGED <<policy, slots, slotAge, slotsLost>>
  BY DEF ResumeCaller, LimiterInv, LimiterFits, CallersFit, SlotsHeld, redisVars, limiterEnd
<1>2. /\ NoClaim \notin Claims /\ RedisTimeout \in Nat /\ slots \subseteq Claims
      /\ m \in Claims \cup {NoClaim} /\ caller[c].spent \in Nat
      /\ \A x \in slots : slotAge[x] \in Nat
  BY <1>1, LimiterAssumption DEF LimiterInv, LimiterFits, CallerRecord
<1> HIDE DEF m
<1>3. CASE (caller[c].answer = "error" \/ caller[c].pc = "undo") /\ Fallback(c)
  BY <1>1, <1>3, FallsBack
<1>4. CASE caller[c].pc = "claim" /\ caller[c].answer = "yes" /\ CheckPace(c, m)
  <2>1. m \in slots /\ slotAge[m] <= RedisTimeout
    BY <1>1, <1>2, <1>4 DEF SlotHeld, CallerFits, m
  <2> QED BY <1>1, <1>2, <1>4, <2>1, PaceChecked DEF m
<1>5. CASE /\ \/ caller[c].pc = "claim" /\ caller[c].answer = "no"
              \/ caller[c].pc = "rollback" /\ caller[c].answer = "yes"
              \/ caller[c].pc = "pace" /\ caller[c].answer = "no" /\ m = NoClaim
           /\ Move(c, "idle", NoClaim) /\ UNCHANGED commands
  <2>1. CallerFits(Moved("idle", NoClaim)) /\ SlotHeld(Moved("idle", NoClaim))
    BY MovedFits DEF LimiterInv, LimiterPcs
  <2>2. caller[c].claim = NoClaim \/ Nothing(c)
    BY <1>5 DEF Nothing, m
  <2> QED BY <1>1, <1>5, <2>1, <2>2, MovesQuietly DEF LimiterPcs
<1>6. CASE caller[c].pc = "pace" /\ caller[c].answer = "yes" /\ Move(c, "call", m) /\ UNCHANGED commands
  <2>1. /\ policy.cap > 0 => m \in Claims
        /\ m # NoClaim => m \in slots /\ slotAge[m] <= 2 * RedisTimeout
    BY <1>1, <1>2, <1>6 DEF SlotHeld, CallerFits, m
  <2>2. CallerFits(Moved("call", m)) /\ SlotHeld(Moved("call", m))
    BY <1>2, <2>1, MovedFits DEF LimiterInv, LimiterPcs
  <2>3. m = caller[c].claim /\ KeepsClaim(c, "call")
    BY <1>6 DEF KeepsClaim, m
  <2> QED BY <1>1, <1>2, <1>6, <2>2, <2>3, MovesQuietly DEF LimiterPcs
<1>7. CASE m # NoClaim /\ Move(c, "rollback", m) /\ Send(Home[c], <<Command("remove", c, m, 0)>>)
  BY <1>1, <1>7, TakingBack DEF m
<1> QED BY <1>3, <1>4, <1>5, <1>6, <1>7 DEF ResumeCaller, m

LEMMA InsuredInv == ASSUME LimiterInv, NEW c \in Callers, Insured(c) PROVE LimiterInv'
<1>1. /\ caller[c].pc \notin Waiting /\ caller[c].claim = NoClaim
      /\ UNCHANGED <<policy, slots, slotAge, slotsLost, commands>>
  BY DEF Insured, LimiterInv, CallersFit, CallerFits, Waiting, redisVars, limiterEnd
<1>2. /\ CallerFits(Moved("idle", NoClaim)) /\ SlotHeld(Moved("idle", NoClaim))
      /\ CallerFits(Moved("insuredCall", NoClaim)) /\ SlotHeld(Moved("insuredCall", NoClaim))
  BY MovedFits DEF LimiterInv, LimiterPcs
<1>3. CASE Move(c, "idle", NoClaim)
  BY <1>1, <1>2, <1>3, MovesQuietly DEF LimiterPcs
<1>4. CASE Move(c, "insuredCall", NoClaim) /\ (policy.cap = 0 \/ Cardinality(InsuredRunning(Home[c])) < policy.cap)
  <2>1. policy.cap > 0 => Cardinality(InsuredRunning(Home[c])) < policy.cap
    BY <1>4
  <2> QED BY <1>1, <1>2, <1>4, <2>1, MovesQuietly DEF LimiterPcs
<1> QED BY <1>3, <1>4 DEF Insured

LEMMA FinishInv == ASSUME LimiterInv, NEW c \in Callers, Finish(c) PROVE LimiterInv'
<1> DEFINE m == caller[c].claim
           s == Command("remove", NoCaller, m, 0)
<1>1. /\ caller[c].pc \notin Waiting /\ Move(c, "idle", NoClaim)
      /\ UNCHANGED <<policy, slots, slotAge, slotsLost>>
  BY DEF Finish, Runs, Waiting, redisVars, limiterEnd
<1>2. m \in Claims \cup {NoClaim} /\ NoCaller \notin Callers
  BY LimiterAssumption DEF LimiterInv, LimiterFits, CallerRecord
<1>3. CallerFits(Moved("idle", NoClaim)) /\ SlotHeld(Moved("idle", NoClaim))
  BY MovedFits DEF LimiterInv, LimiterPcs
<1>4. s \in CommandRecord /\ s.op = "remove" /\ s.from = NoCaller /\ s.claim = m
  BY <1>2, CommandIs
<1> HIDE DEF s, m
<1>5. ASSUME NEW S, Grows(Home[c], S), S \subseteq CommandRecord, m # NoClaim => s \in S,
             \A a \in S : \/ a = s /\ m # NoClaim
                          \/ a.op = "advance" /\ a.from = NoCaller /\ a.claim = NoClaim
      PROVE  LimiterInv'
  <2>1. SendsRight(c, "idle", NoClaim, S)
    BY <1>2, <1>4, <1>5 DEF SendsRight, m
  <2>2. caller[c].claim = NoClaim \/ TakesBack(c, S)
    BY <1>4, <1>5 DEF TakesBack, m
  <2>3. MoveOk(c, "idle", NoClaim, S)
    BY <1>1, <1>3, <1>5, <2>1, <2>2 DEF MoveOk, LimiterPcs
  <2> QED BY <2>3, MoveInv
<1>6. LimiterFits /\ Home[c] \in Instances
  BY LimiterAssumption DEF LimiterInv
<1>7. CASE Send(Home[c], GiveBack(c))
  <2>1. CASE m = NoClaim
    <3>1. Grows(Home[c], {})
      BY <1>6, <1>7, <2>1, GrowsNot DEF GiveBack, m
    <3> QED BY <1>5, <2>1, <3>1
  <2>2. CASE m # NoClaim
    <3>1. Grows(Home[c], {s})
      BY <1>4, <1>6, <1>7, <2>2, GrowsByOne DEF GiveBack, m, s
    <3> QED BY <1>4, <1>5, <2>2, <3>1
  <2> QED BY <2>1, <2>2
<1>8. ASSUME NEW d \in RetryAfters, Send(Home[c], <<Command("advance", NoCaller, NoClaim, d)>> \o GiveBack(c))
      PROVE  LimiterInv'
  <2> DEFINE a == Command("advance", NoCaller, NoClaim, d)
  <2>1. d \in Nat
    BY LimiterAssumption
  <2>2. a \in CommandRecord /\ a.op = "advance" /\ a.from = NoCaller /\ a.claim = NoClaim
    BY <2>1 DEF Command, CommandRecord
  <2>3. Send(Home[c], <<a>> \o GiveBack(c))
    BY <1>8
  <2> HIDE DEF a
  <2>4. CASE m = NoClaim
    <3>1. <<a>> \o GiveBack(c) = <<a>>
      BY <2>4 DEF GiveBack, m
    <3>2. Grows(Home[c], {a})
      BY <1>6, <2>2, <2>3, <3>1, GrowsByOne
    <3> QED BY <1>5, <2>2, <2>4, <3>2
  <2>5. CASE m # NoClaim
    <3>1. GiveBack(c) = <<s>>
      BY <2>5 DEF GiveBack, m, s
    <3>2. Grows(Home[c], {a, s})
      BY <1>4, <1>6, <2>2, <2>3, <3>1, GrowsByTwo
    <3> QED BY <1>4, <1>5, <2>2, <2>5, <3>2
  <2> QED BY <2>4, <2>5
<1> QED BY <1>7, <1>8 DEF Finish

(* An answer that is given up stays for nobody; the command does not move.     *)
LEMMA TimeOutInv == ASSUME LimiterInv, NEW c \in Callers, TimeOut(c) PROVE LimiterInv'
<1>1. /\ caller[c].pc \in Waiting /\ commands' = Detached(c)
      /\ UNCHANGED <<policy, slots, slotAge, slotsLost>>
  BY DEF TimeOut, AwaitsRedis, Waiting, redisVars
<1> DEFINE r == [caller[c] EXCEPT !.answer = "error"]
<1>2. r \in CallerRecord /\ r.pc = caller[c].pc /\ r.claim = caller[c].claim /\ r.answer = "error" /\ r.spent = caller[c].spent
  BY DEF LimiterInv, LimiterFits, CallerRecord
<1>3. caller' = [caller EXCEPT ![c] = r]
  BY DEF TimeOut
<1> HIDE DEF r
<1>4. /\ caller' \in [Callers -> CallerRecord] /\ caller'[c] = r
      /\ \A d \in Callers \ {c} : caller'[d] = caller[d]
  BY <1>2, <1>3 DEF LimiterInv, LimiterFits
<1> DEFINE Loose(cmd) == IF cmd.from = c THEN [cmd EXCEPT !.from = NoCaller] ELSE cmd
<1>5. \A cmd \in CommandRecord :
        /\ Loose(cmd) \in CommandRecord /\ Loose(cmd).op = cmd.op /\ Loose(cmd).claim = cmd.claim
        /\ Loose(cmd).from = IF cmd.from = c THEN NoCaller ELSE cmd.from
  BY DEF CommandRecord
<1> HIDE DEF Loose
<1>6. commands' = [i \in Instances |-> [n \in DOMAIN commands[i] |-> Loose(commands[i][n])]]
  BY <1>1 DEF Detached, Loose
<1>7. \A i \in Instances : commands[i] \in Seq(CommandRecord) /\ DOMAIN commands[i] = 1..Len(commands[i])
                           /\ \A n \in DOMAIN commands[i] : commands[i][n] \in CommandRecord
  BY DEF LimiterInv, LimiterFits
<1>8. /\ \A i \in Instances : DOMAIN commands'[i] = DOMAIN commands[i]
      /\ \A i \in Instances : \A n \in DOMAIN commands[i] :
           /\ commands[i][n] \in CommandRecord /\ commands'[i][n] \in CommandRecord
           /\ commands'[i][n].op = commands[i][n].op /\ commands'[i][n].claim = commands[i][n].claim
           /\ commands'[i][n].from = IF commands[i][n].from = c THEN NoCaller ELSE commands[i][n].from
  BY <1>5, <1>6, <1>7
<1>9. commands' \in [Instances -> Seq(CommandRecord)]
  <2>1. ASSUME NEW i \in Instances PROVE [n \in DOMAIN commands[i] |-> Loose(commands[i][n])] \in Seq(CommandRecord)
    <3> DEFINE q == [n \in 1..Len(commands[i]) |-> Loose(commands[i][n])]
    <3>1. \A n \in 1..Len(commands[i]) : Loose(commands[i][n]) \in CommandRecord
      BY <1>5, <1>7
    <3>2. q \in Seq(CommandRecord)
      BY <1>7, <3>1, IsASeq
    <3> QED BY <1>7, <3>2
  <2> QED BY <1>6, <2>1
<1>10. NoCaller \notin Callers
  BY LimiterAssumption
<1>11. LimiterFits'
  BY <1>1, <1>4, <1>9 DEF LimiterInv, LimiterFits
<1>12. CallersFit'
  BY <1>1, <1>2, <1>4 DEF LimiterInv, CallersFit, CallerFits, Waiting
<1>13. OwnClaims'
  BY <1>2, <1>4 DEF LimiterInv, OwnClaims
<1>14. CommandsFit'
  <2>1. ASSUME NEW i \in Instances, NEW n \in DOMAIN commands[i] PROVE CommandFits(i, commands[i][n])'
    <3>1. CommandFits(i, commands[i][n])
      BY DEF LimiterInv, CommandsFit
    <3>2. commands[i][n].from \in Callers \cup {NoCaller}
      BY <1>8 DEF CommandRecord
    <3> QED BY <1>1, <1>2, <1>4, <1>8, <1>10, <3>1, <3>2 DEF CommandFits, Waiting
  <2> QED BY <1>8, <2>1 DEF CommandsFit
<1>15. CommandsOrdered'
  BY <1>8 DEF LimiterInv, CommandsOrdered
<1>16. SlotsHeld'
  <2>1. SlotHeld(caller[c])'
    BY <1>1, <1>2, <1>4 DEF LimiterInv, SlotsHeld, SlotHeld
  <2>2. \A d \in Callers \ {c} : SlotHeld(caller[d])'
    BY <1>1, <1>4 DEF LimiterInv, SlotsHeld, SlotHeld
  <2> QED BY <2>1, <2>2 DEF SlotsHeld
<1>17. NoSlotLeaks'
  <2>1. \A m \in Claims : (Claimed(m)' => Claimed(m)) /\ (Removing(m) => Removing(m)')
    BY <1>1, <1>8 DEF Claimed, Removing
  <2>2. \A m \in Claims : \A d \in Callers : Has(d, m) => Has(d, m)'
    BY <1>2, <1>4 DEF Has
  <2> QED BY <1>1, <2>1, <2>2 DEF LimiterInv, NoSlotLeaks
<1>18. SlotsCapped'
  <2>1. \A i \in Instances : InsuredRunning(i)' = InsuredRunning(i)
    BY <1>2, <1>4 DEF InsuredRunning, Of
  <2> QED BY <1>1, <2>1 DEF LimiterInv, SlotsCapped
<1> QED BY <1>11, <1>12, <1>13, <1>14, <1>15, <1>16, <1>17, <1>18 DEF LimiterInv

(* The queue of a process is lost, with answers on their way or with its       *)
(* callers.                                                                    *)
LEMMA QueueLost ==
  ASSUME LimiterInv, NEW i \in Instances, commands' = [commands EXCEPT ![i] = <<>>], slotsLost',
         UNCHANGED <<policy, slots, slotAge>>, caller' \in [Callers -> CallerRecord],
         \A c \in Callers :
           \/ caller'[c] = caller[c] /\ (Home[c] # i \/ caller[c].pc \notin Waiting)
           \/ caller'[c] = IdleCaller
           \/ /\ caller[c].pc \in Waiting /\ Home[c] = i
              /\ caller'[c].pc = caller[c].pc /\ caller'[c].claim = caller[c].claim
              /\ caller'[c].spent = caller[c].spent /\ caller'[c].answer = "error",
         \A c \in Callers : caller'[c] # caller[c] => Home[c] = i
  PROVE  LimiterInv'
<1>1. IdleCaller.pc = "idle" /\ IdleCaller.claim = NoClaim /\ IdleCaller.answer = "none"
  BY DEF IdleCaller
<1>2. NoClaim \notin Claims /\ RedisTimeout \in Nat /\ MaxCall \in Nat
  BY LimiterAssumption
<1>3. commands' \in [Instances -> Seq(CommandRecord)]
  BY DEF LimiterInv, LimiterFits
<1>4. LimiterFits'
  BY <1>3 DEF LimiterInv, LimiterFits
<1>5. CallersFit'
  <2>1. CallerFits(IdleCaller)'
    BY <1>1 DEF CallerFits
  <2>2. ASSUME NEW c \in Callers PROVE CallerFits(caller[c])'
    <3>1. CallerFits(caller[c])
      BY DEF LimiterInv, CallersFit
    <3>2. CASE caller'[c] = caller[c]
      BY <3>1, <3>2 DEF CallerFits
    <3>3. CASE caller'[c] = IdleCaller
      BY <1>1, <3>3 DEF CallerFits
    <3>4. CASE caller[c].pc \in Waiting /\ caller'[c].pc = caller[c].pc /\ caller'[c].claim = caller[c].claim
               /\ caller'[c].spent = caller[c].spent
      BY <3>1, <3>4 DEF CallerFits, Waiting
    <3> QED BY <3>2, <3>3, <3>4
  <2> QED BY <2>2 DEF CallersFit
<1>6. OwnClaims'
  <2>1. \A c \in Callers : caller'[c].claim \in {NoClaim, caller[c].claim}
    BY <1>1
  <2> QED BY <2>1 DEF LimiterInv, OwnClaims
<1>7. \A j \in Instances : \A n \in DOMAIN commands'[j] :
        j # i /\ n \in DOMAIN commands[j] /\ commands'[j][n] = commands[j][n]
  BY DEF LimiterInv, LimiterFits
<1>8. CommandsFit'
  <2>1. ASSUME NEW j \in Instances, NEW n \in DOMAIN commands'[j] PROVE CommandFits(j, commands[j][n])'
    <3> DEFINE cmd == commands[j][n]
    <3>1. CommandFits(j, cmd) /\ j # i /\ commands'[j][n] = cmd
      BY <1>7 DEF LimiterInv, CommandsFit
    <3>2. cmd.from # NoCaller => cmd.from \in Callers /\ caller'[cmd.from] = caller[cmd.from]
      <4>1. cmd \in CommandRecord
        BY <1>7 DEF LimiterInv, LimiterFits
      <4> QED BY <3>1, <4>1 DEF CommandFits, CommandRecord
    <3>3. \A c \in Callers : cmd.claim # NoClaim /\ caller'[c].claim = cmd.claim => caller'[c] = caller[c]
      <4>1. \A c \in Callers : caller'[c].claim \in {NoClaim, caller[c].claim}
        BY <1>1
      <4> QED BY <3>1, <4>1 DEF CommandFits
    <3> QED BY <3>1, <3>2, <3>3 DEF CommandFits
  <2> QED BY <2>1 DEF CommandsFit
<1>9. CommandsOrdered'
  BY <1>7 DEF LimiterInv, CommandsOrdered
<1>10. SlotsHeld'
  <2>1. ASSUME NEW c \in Callers PROVE SlotHeld(caller[c])'
    <3>1. SlotHeld(caller[c])
      BY DEF LimiterInv, SlotsHeld
    <3>2. CASE caller'[c] = caller[c]
      BY <3>1, <3>2 DEF SlotHeld
    <3>3. CASE caller'[c] = IdleCaller
      BY <1>1, <1>2, <3>3 DEF SlotHeld
    <3>4. CASE caller'[c].pc = caller[c].pc /\ caller'[c].claim = caller[c].claim
               /\ caller'[c].spent = caller[c].spent /\ caller'[c].answer = "error"
      BY <3>1, <3>4 DEF SlotHeld
    <3> QED BY <3>2, <3>3, <3>4
  <2> QED BY <2>1 DEF SlotsHeld
<1>11. NoSlotLeaks'
  BY DEF NoSlotLeaks
<1>12. SlotsCapped'
  <2>1. ASSUME policy.cap > 0, NEW j \in Instances PROVE Cardinality(InsuredRunning(j)') <= policy.cap
    <3>1. InsuredRunning(j)' \subseteq InsuredRunning(j) /\ IsFiniteSet(InsuredRunning(j))
      <4>1. InsuredRunning(j) \subseteq Callers
        BY DEF InsuredRunning, Of
      <4>2. InsuredRunning(j)' \subseteq InsuredRunning(j)
        BY <1>1 DEF InsuredRunning, Of, Waiting
      <4> QED BY <4>1, <4>2, LimiterAssumption, FS_Subset
    <3>2. Cardinality(InsuredRunning(j)') <= Cardinality(InsuredRunning(j)) /\ IsFiniteSet(InsuredRunning(j)')
      BY <3>1, FS_Subset
    <3>3. Cardinality(InsuredRunning(j)') \in Nat /\ Cardinality(InsuredRunning(j)) \in Nat /\ policy.cap \in Nat
      BY <3>1, <3>2, FS_CardinalityType, LimiterAssumption DEF LimiterInv, LimiterFits
    <3>4. Cardinality(InsuredRunning(j)) <= policy.cap
      BY <2>1 DEF LimiterInv, SlotsCapped
    <3> QED BY <3>2, <3>3, <3>4
  <2> QED BY <2>1 DEF LimiterInv, SlotsCapped
<1> QED BY <1>4, <1>5, <1>6, <1>8, <1>9, <1>10, <1>11, <1>12 DEF LimiterInv

LEMMA DropInv == ASSUME LimiterInv, NEW i \in Instances, DropConnection(i) \/ CrashLimiter(i) PROVE LimiterInv'
<1>1. /\ commands' = [commands EXCEPT ![i] = <<>>] /\ slotsLost' /\ UNCHANGED <<policy, slots, slotAge>>
  BY DEF DropConnection, CrashLimiter, redisVars
<1>2. IdleCaller \in CallerRecord
  BY DEF IdleCaller, CallerRecord, LimiterPcs
<1>3. CASE DropConnection(i)
  <2>1. \A c \in Callers :
          LET r == [caller[c] EXCEPT !.answer = "error"]
          IN r \in CallerRecord /\ r.pc = caller[c].pc /\ r.claim = caller[c].claim /\ r.spent = caller[c].spent
             /\ r.answer = "error"
    BY DEF LimiterInv, LimiterFits, CallerRecord
  <2>2. caller' = [c \in Callers |-> IF c \in Of(i) /\ AwaitsRedis(c) THEN [caller[c] EXCEPT !.answer = "error"]
                                                                   ELSE caller[c]]
    BY <1>3 DEF DropConnection
  <2>3. caller' \in [Callers -> CallerRecord]
    BY <2>1, <2>2 DEF LimiterInv, LimiterFits
  <2>4. ASSUME NEW c \in Callers
        PROVE  /\ \/ caller'[c] = caller[c] /\ (Home[c] # i \/ caller[c].pc \notin Waiting)
                  \/ /\ caller[c].pc \in Waiting /\ Home[c] = i
                     /\ caller'[c].pc = caller[c].pc /\ caller'[c].claim = caller[c].claim
                     /\ caller'[c].spent = caller[c].spent /\ caller'[c].answer = "error"
               /\ caller'[c] # caller[c] => Home[c] = i
    BY <2>1, <2>2 DEF Of, AwaitsRedis, Waiting
  <2> QED BY <1>1, <2>3, <2>4, QueueLost
<1>4. CASE CrashLimiter(i)
  <2>1. caller' = [c \in Callers |-> IF c \in Of(i) THEN IdleCaller ELSE caller[c]]
    BY <1>4 DEF CrashLimiter
  <2>2. caller' \in [Callers -> CallerRecord]
    BY <1>2, <2>1 DEF LimiterInv, LimiterFits
  <2>3. ASSUME NEW c \in Callers
        PROVE  /\ (caller'[c] = caller[c] /\ Home[c] # i) \/ caller'[c] = IdleCaller
               /\ caller'[c] # caller[c] => Home[c] = i
    BY <2>1 DEF Of
  <2> QED BY <1>1, <2>2, <2>3, QueueLost
<1> QED BY <1>3, <1>4

LEMMA QueuedFits ==
  ASSUME LimiterInv, NEW i \in Instances, NEW n \in DOMAIN commands[i]
  PROVE  /\ commands[i][n] \in CommandRecord /\ CommandFits(i, commands[i][n])
         /\ commands[i][n].from \in Callers \cup {NoCaller}
<1>1. commands[i] \in Seq(CommandRecord)
  BY DEF LimiterInv, LimiterFits
<1>2. commands[i][n] \in CommandRecord
  BY <1>1
<1> QED BY <1>2 DEF LimiterInv, CommandsFit, CommandRecord

(* A tick.  Who waits or calls grows older with its claim.                     *)
LEMMA TickInv == ASSUME LimiterInv, LimiterTick PROVE LimiterInv'
<1> DEFINE grown(r) == [r EXCEPT !.spent = @ + 1]
<1>1. /\ UNCHANGED <<policy, slots, commands, slotsLost>>
      /\ \A c \in Callers : /\ AwaitsRedis(c) => caller[c].spent < RedisTimeout
                            /\ Runs(c) => caller[c].spent < MaxCall
  BY DEF LimiterTick, limiterEnd
<1>2. \A r \in CallerRecord :
        /\ grown(r) \in CallerRecord /\ grown(r).pc = r.pc /\ grown(r).claim = r.claim
        /\ grown(r).answer = r.answer /\ grown(r).spent = r.spent + 1
  BY DEF CallerRecord
<1>3. caller' = [c \in Callers |-> IF AwaitsRedis(c) \/ Runs(c) THEN grown(caller[c]) ELSE caller[c]]
  BY DEF LimiterTick
<1> HIDE DEF grown
<1>4. /\ caller \in [Callers -> CallerRecord] /\ caller' \in [Callers -> CallerRecord]
      /\ \A c \in Callers :
           /\ caller'[c].pc = caller[c].pc /\ caller'[c].claim = caller[c].claim /\ caller'[c].answer = caller[c].answer
           /\ caller'[c].spent = IF AwaitsRedis(c) \/ Runs(c) THEN caller[c].spent + 1 ELSE caller[c].spent
  BY <1>2, <1>3 DEF LimiterInv, LimiterFits
<1>5. Lifetime \in Nat /\ RedisTimeout \in Nat /\ MaxCall \in Nat
  BY LimiterAssumption
<1>6. /\ slotAge' \in [Claims -> Nat]
      /\ \A m \in Claims : slotAge[m] \in Nat /\ slotAge'[m] <= slotAge[m] + 1
  BY <1>5 DEF LimiterTick, LimiterInv, LimiterFits
<1>7. LimiterFits'
  BY <1>1, <1>4, <1>6 DEF LimiterInv, LimiterFits
<1>8. CallersFit'
  <2>1. ASSUME NEW c \in Callers PROVE CallerFits(caller[c])'
    <3>1. CallerFits(caller[c]) /\ caller[c].spent \in Nat
      BY <1>4 DEF LimiterInv, CallersFit, CallerRecord
    <3>2. caller[c].pc \in {"claim", "pace", "rollback", "undo"} => caller'[c].spent <= RedisTimeout
      BY <1>1, <1>4, <1>5, <3>1 DEF AwaitsRedis, Runs
    <3>3. caller[c].pc = "call" => caller'[c].spent <= MaxCall
      BY <1>1, <1>4, <1>5, <3>1 DEF AwaitsRedis, Runs
    <3> QED BY <1>1, <1>4, <3>1, <3>2, <3>3 DEF CallerFits
  <2> QED BY <2>1 DEF CallersFit
<1>9. OwnClaims'
  BY <1>4 DEF LimiterInv, OwnClaims
<1>10. CommandsFit'
  <2>1. ASSUME NEW i \in Instances, NEW n \in DOMAIN commands[i] PROVE CommandFits(i, commands[i][n])'
    <3>1. CommandFits(i, commands[i][n]) /\ commands[i][n].from \in Callers \cup {NoCaller}
      BY QueuedFits
    <3> QED BY <1>1, <1>4, <3>1 DEF CommandFits
  <2> QED BY <1>1, <2>1 DEF CommandsFit
<1>11. CommandsOrdered'
  BY <1>1 DEF LimiterInv, CommandsOrdered
<1>12. SlotsHeld'
  <2>1. ASSUME NEW c \in Callers PROVE SlotHeld(caller[c])'
    <3>1. SlotHeld(caller[c]) /\ caller[c].spent \in Nat
      BY <1>4 DEF LimiterInv, SlotsHeld, CallerRecord
    <3>2. caller[c].pc \in {"claim", "pace", "call"} => caller'[c].spent = caller[c].spent + 1
      BY <1>4 DEF AwaitsRedis, Runs
    <3>3. caller[c].claim \in slots => slotAge[caller[c].claim] \in Nat /\ slotAge'[caller[c].claim] \in Nat
                                       /\ slotAge'[caller[c].claim] <= slotAge[caller[c].claim] + 1
      BY <1>6 DEF LimiterInv, LimiterFits
    <3>4. caller[c].claim \in slots =>
            /\ caller[c].pc = "claim" => slotAge'[caller[c].claim] <= caller'[c].spent
            /\ caller[c].pc = "pace" => slotAge'[caller[c].claim] <= RedisTimeout + caller'[c].spent
            /\ caller[c].pc = "call" => slotAge'[caller[c].claim] <= 2 * RedisTimeout + caller'[c].spent
      BY <1>5, <3>1, <3>2, <3>3 DEF SlotHeld
    <3> QED BY <1>1, <1>4, <3>1, <3>4 DEF SlotHeld
  <2> QED BY <2>1 DEF SlotsHeld
<1>13. NoSlotLeaks'
  BY <1>1, <1>4 DEF LimiterInv, NoSlotLeaks, Claimed, Removing, Has
<1>14. SlotsCapped'
  <2>1. \A i \in Instances : InsuredRunning(i)' = InsuredRunning(i)
    BY <1>4 DEF InsuredRunning, Of
  <2> QED BY <1>1, <2>1 DEF LimiterInv, SlotsCapped
<1> QED BY <1>7, <1>8, <1>9, <1>10, <1>11, <1>12, <1>13, <1>14 DEF LimiterInv

(* Redis carries out a command: it is gone from its queue, its caller, if it   *)
(* still waits, has an answer.                                                 *)
Executed(i, cmd, admitted) ==
  /\ commands[i] # <<>> /\ cmd = commands[i][1] /\ commands' = [commands EXCEPT ![i] = Tail(@)]
  /\ admitted \in BOOLEAN
  /\ caller' = IF cmd.from = NoCaller THEN caller
               ELSE [caller EXCEPT ![cmd.from].answer = IF admitted THEN "yes" ELSE "no"]
  /\ UNCHANGED <<policy, slotsLost>>

LEMMA ExecutedCaller ==
  ASSUME LimiterInv, NEW i \in Instances, NEW cmd, NEW admitted, Executed(i, cmd, admitted)
  PROVE  /\ caller' \in [Callers -> CallerRecord]
         /\ \A c \in Callers :
              /\ caller'[c].pc = caller[c].pc /\ caller'[c].claim = caller[c].claim
              /\ caller'[c].spent = caller[c].spent
              /\ c # cmd.from => caller'[c] = caller[c]
              /\ c = cmd.from => caller'[c].answer = IF admitted THEN "yes" ELSE "no"
         /\ 1 \in DOMAIN commands[i] /\ cmd = commands[i][1] /\ cmd \in CommandRecord /\ CommandFits(i, cmd)
         /\ UNCHANGED <<policy, slotsLost>>
<1>1. 1 \in DOMAIN commands[i] /\ cmd \in CommandRecord
  BY QueueAdvances DEF Executed, LimiterInv
<1>2. CommandFits(i, cmd)
  BY <1>1 DEF LimiterInv, CommandsFit, Executed
<1>3. NoCaller \notin Callers /\ caller \in [Callers -> CallerRecord]
  BY LimiterAssumption DEF LimiterInv, LimiterFits
<1>4. CASE cmd.from = NoCaller
  BY <1>1, <1>2, <1>3, <1>4 DEF Executed
<1>5. cmd = commands[i][1] /\ UNCHANGED <<policy, slotsLost>>
  BY DEF Executed
<1>6. CASE cmd.from \in Callers
  <2> DEFINE answer == IF admitted THEN "yes" ELSE "no"
             r == [caller[cmd.from] EXCEPT !.answer = answer]
  <2>1. /\ r \in CallerRecord /\ r.pc = caller[cmd.from].pc /\ r.claim = caller[cmd.from].claim
        /\ r.spent = caller[cmd.from].spent /\ r.answer = answer
    BY <1>3, <1>6 DEF CallerRecord
  <2>2. caller' = [caller EXCEPT ![cmd.from] = r]
    BY <1>3, <1>6 DEF Executed
  <2> HIDE DEF r
  <2>3. /\ caller' \in [Callers -> CallerRecord] /\ caller'[cmd.from] = r
        /\ \A c \in Callers \ {cmd.from} : caller'[c] = caller[c]
    BY <1>3, <1>6, <2>1, <2>2
  <2> QED BY <1>1, <1>2, <1>3, <1>5, <2>1, <2>3
<1> QED BY <1>1, <1>4, <1>6 DEF CommandRecord

(* What is left in the queues are commands that were there.                    *)
LEMMA Remains ==
  ASSUME LimiterInv, NEW i \in Instances, NEW cmd, NEW admitted, Executed(i, cmd, admitted),
         NEW j \in Instances, NEW n \in DOMAIN commands'[j]
  PROVE  \E k \in DOMAIN commands[j] :
           /\ commands'[j][n] = commands[j][k] /\ ~(j = i /\ k = 1)
           /\ k = IF j = i THEN n + 1 ELSE n
<1>1. CASE j # i
  BY <1>1, QueueAdvances DEF Executed, LimiterInv
<1>2. CASE j = i
  <2>1. n \in Nat \ {0} /\ n + 1 \in DOMAIN commands[i] /\ commands'[i][n] = commands[i][n + 1]
    BY <1>2, QueueAdvances DEF Executed, LimiterInv
  <2>2. n + 1 # 1
    BY <2>1
  <2> QED BY <1>2, <2>1, <2>2
<1> QED BY <1>1, <1>2

LEMMA ExecutedQueue ==
  ASSUME LimiterInv, NEW i \in Instances, NEW cmd, NEW admitted, Executed(i, cmd, admitted)
  PROVE  CommandsFit' /\ CommandsOrdered'
<1>1. NoCaller \notin Callers
  BY LimiterAssumption
<1>2. CommandsFit'
  <2>1. ASSUME NEW j \in Instances, NEW n \in DOMAIN commands'[j] PROVE CommandFits(j, commands[j][n])'
    <3>1. PICK k \in DOMAIN commands[j] : commands'[j][n] = commands[j][k] /\ ~(j = i /\ k = 1)
      BY Remains
    <3>2. CommandFits(j, commands[j][k]) /\ commands[j][k].from \in Callers \cup {NoCaller}
      BY QueuedFits
    <3>3. cmd.from # NoCaller => commands[j][k].from # cmd.from
      <4>1. cmd = commands[i][1] /\ 1 \in DOMAIN commands[i]
        BY ExecutedCaller
      <4>2. cmd.from # NoCaller /\ cmd.from = commands[j][k].from => i = j /\ 1 = k
        BY <4>1 DEF LimiterInv, CommandsOrdered
      <4> QED BY <3>1, <4>2
    <3>4. cmd.from # NoCaller => caller[cmd.from].answer = "none" /\ cmd.from \in Callers
      BY ExecutedCaller DEF CommandFits, CommandRecord
    <3>5. \A c \in Callers : /\ caller'[c].pc = caller[c].pc /\ caller'[c].claim = caller[c].claim
                             /\ c # cmd.from => caller'[c] = caller[c]
      BY ExecutedCaller
    <3> QED BY <1>1, <3>1, <3>2, <3>3, <3>4, <3>5 DEF CommandFits
  <2> QED BY <2>1 DEF CommandsFit
<1>3. CommandsOrdered'
  <2>1. ASSUME NEW j \in Instances, NEW l \in Instances, NEW n \in DOMAIN commands'[j], NEW k \in DOMAIN commands'[l]
        PROVE  LET a == commands'[j][n]
                   b == commands'[l][k]
               IN /\ a.from # NoCaller /\ a.from = b.from => j = l /\ n = k
                  /\ a.claim # NoClaim /\ a.claim = b.claim => j = l
                  /\ a.op = "remove" /\ b.op = "claim" /\ a.claim = b.claim => k < n
    <3>1. PICK x \in DOMAIN commands[j] : commands'[j][n] = commands[j][x] /\ x = IF j = i THEN n + 1 ELSE n
      BY Remains
    <3>2. PICK y \in DOMAIN commands[l] : commands'[l][k] = commands[l][y] /\ y = IF l = i THEN k + 1 ELSE k
      BY Remains
    <3>3. x \in Nat /\ y \in Nat /\ n \in Nat /\ k \in Nat
      BY QueueAdvances DEF LimiterInv, LimiterFits, Executed
    <3> DEFINE a == commands[j][x]
               b == commands[l][y]
    <3>4. /\ a.from # NoCaller /\ a.from = b.from => j = l /\ x = y
          /\ a.claim # NoClaim /\ a.claim = b.claim => j = l
          /\ a.op = "remove" /\ b.op = "claim" /\ a.claim = b.claim => y < x /\ j = l
      <4>1. b.op = "claim" => b.claim # NoClaim
        BY LimiterAssumption DEF LimiterInv, CommandsFit, CommandFits
      <4> QED BY <4>1 DEF LimiterInv, CommandsOrdered
    <3> HIDE DEF a, b
    <3>5. commands'[j][n] = a /\ commands'[l][k] = b
      BY <3>1, <3>2 DEF a, b
    <3> QED BY <3>1, <3>2, <3>3, <3>4, <3>5
  <2> QED BY <2>1 DEF CommandsOrdered
<1> QED BY <1>2, <1>3

(* A slot in use is not old enough to be evicted.                              *)
LEMMA InUseIsYoung ==
  ASSUME LimiterInv, NEW c \in Callers, caller[c].claim \in slots,
         caller[c].pc \in {"claim", "pace", "call"}
  PROVE  caller[c].claim \notin Evicted
<1>1. /\ Lifetime \in Nat /\ RedisTimeout \in Nat /\ MaxCall \in Nat /\ 2 * RedisTimeout + MaxCall < Lifetime
  BY LimiterAssumption
<1>2. /\ CallerFits(caller[c]) /\ SlotHeld(caller[c]) /\ caller[c].spent \in Nat
      /\ slotAge[caller[c].claim] \in Nat
  BY DEF LimiterInv, CallersFit, SlotsHeld, LimiterFits, CallerRecord
<1>3. slotAge[caller[c].claim] < Lifetime
  BY <1>1, <1>2 DEF CallerFits, SlotHeld
<1> QED BY <1>1, <1>2, <1>3 DEF Evicted

(* The set after a command: evicted claims and the one it is about may be gone,*)
(* that one may be new; no other is.                                           *)
LEMMA SlotsAfter ==
  ASSUME LimiterInv, NEW i \in Instances, NEW cmd, NEW admitted, Executed(i, cmd, admitted),
         slotAge' \in [Claims -> Nat],
         \A m \in slots' : slotAge'[m] = 0 \/ (m \in slots /\ slotAge'[m] = slotAge[m]),
         \A m \in Claims \ {cmd.claim} : m \in slots' => m \in slots,
         \A m \in slots : m \notin Evicted /\ m # cmd.claim => m \in slots',
         slots' \subseteq Claims,
         cmd.op # "claim" => cmd.claim \notin slots',
         cmd.op = "claim" => (cmd.claim \in slots' <=> admitted)
  PROVE  LimiterFits' /\ SlotsHeld' /\ NoSlotLeaks'
<1>1. /\ caller' \in [Callers -> CallerRecord]
      /\ \A c \in Callers :
           /\ caller'[c].pc = caller[c].pc /\ caller'[c].claim = caller[c].claim
           /\ caller'[c].spent = caller[c].spent
           /\ c # cmd.from => caller'[c] = caller[c]
           /\ c = cmd.from => caller'[c].answer = IF admitted THEN "yes" ELSE "no"
      /\ 1 \in DOMAIN commands[i] /\ cmd = commands[i][1] /\ cmd \in CommandRecord /\ CommandFits(i, cmd)
      /\ UNCHANGED <<policy, slotsLost>>
  BY ExecutedCaller
<1>2. NoClaim \notin Claims /\ RedisTimeout \in Nat
  BY LimiterAssumption
<1>3. LimiterFits'
  <2>1. commands' \in [Instances -> Seq(CommandRecord)]
    BY QueueAdvances DEF Executed, LimiterInv
  <2> QED BY <1>1, <2>1 DEF LimiterInv, LimiterFits, Executed
<1>4. SlotsHeld'
  <2>1. ASSUME NEW c \in Callers PROVE SlotHeld(caller[c])'
    <3> DEFINE m == caller[c].claim
    <3>1. /\ SlotHeld(caller[c]) /\ caller[c].spent \in Nat /\ caller[c].answer \in {"none", "yes", "no", "error"}
          /\ caller[c] \in CallerRecord /\ m \in Claims \cup {NoClaim}
      BY DEF LimiterInv, SlotsHeld, LimiterFits, CallerRecord
    <3> HIDE DEF m
    <3>2. m \in slots' => \/ slotAge'[m] = 0
                          \/ m \in slots /\ slotAge'[m] = slotAge[m] /\ slotAge[m] \in Nat
      <4>1. m \in slots => slotAge[m] \in Nat
        BY DEF LimiterInv, LimiterFits
      <4> QED BY <4>1
    <3> USE DEF m
    <3>3. CASE m # cmd.claim
      <4>1. m \in slots' => m \in slots
        BY <3>1, <3>3
      <4>2. m \in slots /\ caller[c].pc \in {"claim", "pace", "call"} => m \in slots'
        BY <3>3, InUseIsYoung
      <4>3. caller[c].pc = "claim" => caller'[c] = caller[c]
        BY <1>1, <3>3, LimiterAssumption DEF CommandFits
      <4>4. m \in slots' =>
              /\ caller[c].pc = "claim" => slotAge'[m] <= caller[c].spent
              /\ caller[c].pc = "pace" => slotAge'[m] <= RedisTimeout + caller[c].spent
              /\ caller[c].pc = "call" => slotAge'[m] <= 2 * RedisTimeout + caller[c].spent
        BY <1>2, <3>1, <3>2, <4>1 DEF SlotHeld
      <4>5. /\ caller[c].pc = "claim" /\ caller[c].answer = "yes" => m \in slots'
            /\ caller[c].pc = "claim" /\ caller[c].answer = "no" => m \notin slots'
            /\ caller[c].pc \in {"pace", "call"} /\ m # NoClaim => m \in slots'
        BY <3>1, <4>1, <4>2 DEF SlotHeld
      <4> HIDE DEF m
      <4>6. caller'[c].claim = m /\ caller'[c].pc = caller[c].pc /\ caller'[c].spent = caller[c].spent
        BY <1>1 DEF m
      <4>7. caller[c].pc = "claim" => caller'[c].answer = caller[c].answer
        BY <4>3
      <4> QED BY <4>4, <4>5, <4>6, <4>7 DEF SlotHeld
    <3>4. CASE m = cmd.claim /\ m = NoClaim
      <4>1. m \notin slots' /\ caller[c].pc # "claim"
        BY <1>2, <3>4 DEF LimiterInv, CallersFit, CallerFits
      <4> QED BY <1>1, <3>4, <4>1 DEF SlotHeld
    <3>5. CASE m = cmd.claim /\ m # NoClaim
      <4>1. /\ cmd.op = "claim" \/ cmd.op = "remove"
            /\ cmd.op = "remove" => caller[c].pc \in {"rollback", "undo"}
            /\ cmd.op = "claim" => \/ caller[c].pc = "claim" /\ caller[c].answer = "none" /\ cmd.from = c
                                   \/ caller[c].pc = "claim" /\ caller[c].answer = "error"
                                   \/ caller[c].pc \in {"rollback", "undo"}
        BY <1>1, <3>5 DEF CommandFits, CommandRecord
      <4>2. CASE caller[c].pc \in {"rollback", "undo"}
        BY <1>1, <4>2 DEF SlotHeld
      <4>3. CASE cmd.op = "claim" /\ caller[c].pc = "claim"
        <5>1. m \in slots' => slotAge'[m] <= caller[c].spent
          BY <3>1, <3>2, <4>3 DEF SlotHeld
        <5>2. \/ caller'[c].answer = "error"
              \/ caller'[c].answer = IF admitted THEN "yes" ELSE "no"
          BY <1>1, <4>1, <4>3
        <5>3. m \in slots' <=> admitted
          BY <3>5, <4>3
        <5> HIDE DEF m
        <5>4. caller'[c].pc = "claim" /\ caller'[c].claim = m /\ caller'[c].spent = caller[c].spent
          BY <1>1, <4>3 DEF m
        <5> QED BY <5>1, <5>2, <5>3, <5>4 DEF SlotHeld
      <4> QED BY <4>1, <4>2, <4>3
    <3> QED BY <3>3, <3>4, <3>5
  <2> QED BY <2>1 DEF SlotsHeld
<1>5. NoSlotLeaks'
  <2> SUFFICES ASSUME ~slotsLost, NEW m \in Claims, Claimed(m)'
               PROVE  Removing(m)' \/ \E c \in Callers : Has(c, m)'
    BY <1>1 DEF NoSlotLeaks
  <2>1. m \in slots' \/ \E j \in Instances : \E k \in DOMAIN commands[j] :
                           ~(j = i /\ k = 1) /\ commands[j][k].op = "claim" /\ commands[j][k].claim = m
    BY Remains DEF Claimed
  <2>2. ~(cmd.op = "remove" /\ cmd.claim = m)
    <3> SUFFICES ASSUME cmd.op = "remove", cmd.claim = m PROVE FALSE
      OBVIOUS
    <3>0. PICK j \in Instances : \E k \in DOMAIN commands[j] :
                 ~(j = i /\ k = 1) /\ commands[j][k].op = "claim" /\ commands[j][k].claim = m
      BY <2>1
    <3>1. PICK k \in DOMAIN commands[j] :
                 ~(j = i /\ k = 1) /\ commands[j][k].op = "claim" /\ commands[j][k].claim = m
      BY <3>0
    <3>2. i = j /\ k < 1
      BY <1>1, <1>2, <3>1 DEF LimiterInv, CommandsOrdered
    <3>3. k \in Nat \ {0}
      <4>1. commands[j] \in Seq(CommandRecord)
        BY DEF LimiterInv, LimiterFits
      <4> QED BY <4>1
    <3> QED BY <3>2, <3>3
  <2>3. Claimed(m)
    <3>1. m \in slots' => m \in slots \/ (cmd.op = "claim" /\ cmd.claim = m)
      OBVIOUS
    <3> QED BY <1>1, <2>1, <3>1 DEF Claimed
  <2>4. Removing(m) => Removing(m)'
    <3> SUFFICES ASSUME NEW j \in Instances, NEW k \in DOMAIN commands[j],
                        commands[j][k].op = "remove", commands[j][k].claim = m
                 PROVE  \E n \in DOMAIN commands'[j] : commands'[j][n] = commands[j][k]
      BY DEF Removing
    <3>1. ~(j = i /\ k = 1)
      BY <1>1, <2>2
    <3>2. CASE j # i
      BY <3>2, QueueAdvances DEF Executed, LimiterInv
    <3>3. CASE j = i
      <4>1. k # 1
        BY <3>1, <3>3
      <4>2. k - 1 \in DOMAIN commands'[i] /\ commands'[i][k - 1] = commands[i][k]
        BY <3>3, <4>1, QueueAdvances DEF Executed, LimiterInv
      <4> QED BY <3>3, <4>2
    <3> QED BY <3>2, <3>3
  <2>5. \A c \in Callers : Has(c, m) => Has(c, m)'
    BY <1>1 DEF Has
  <2> QED BY <2>3, <2>4, <2>5 DEF LimiterInv, NoSlotLeaks
<1> QED BY <1>3, <1>4, <1>5

(* The set with one claim carried out or removed holds no more than the cap.   *)
LEMMA ExecutedCapped ==
  ASSUME LimiterInv, NEW i \in Instances, NEW cmd, NEW admitted, Executed(i, cmd, admitted),
         policy.cap > 0 => IsFiniteSet(slots') /\ Cardinality(slots') <= policy.cap
  PROVE  SlotsCapped'
<1>1. \A j \in Instances : InsuredRunning(j)' = InsuredRunning(j)
  BY ExecutedCaller DEF InsuredRunning, Of
<1>2. UNCHANGED policy
  BY DEF Executed
<1> QED BY <1>1, <1>2 DEF LimiterInv, SlotsCapped

LEMMA FewerCapped ==
  ASSUME LimiterInv, policy.cap > 0, NEW S, S \subseteq slots
  PROVE  IsFiniteSet(S) /\ Cardinality(S) \in Nat /\ Cardinality(S) <= policy.cap
<1>1. IsFiniteSet(slots) /\ Cardinality(slots) <= policy.cap
  BY DEF LimiterInv, SlotsCapped
<1>2. IsFiniteSet(S) /\ Cardinality(S) <= Cardinality(slots)
  BY <1>1, FS_Subset
<1>3. Cardinality(S) \in Nat /\ Cardinality(slots) \in Nat /\ policy.cap \in Nat
  BY <1>1, <1>2, FS_CardinalityType, LimiterAssumption DEF LimiterInv, LimiterFits
<1> QED BY <1>1, <1>2, <1>3

LEMMA ExecutedInv ==
  ASSUME LimiterInv, NEW i \in Instances, NEW cmd, NEW admitted, Executed(i, cmd, admitted),
         LimiterFits', SlotsHeld', NoSlotLeaks', SlotsCapped'
  PROVE  LimiterInv'
<1>1. \A c \in Callers :
        /\ caller'[c].pc = caller[c].pc /\ caller'[c].claim = caller[c].claim
        /\ caller'[c].spent = caller[c].spent
        /\ c # cmd.from => caller'[c] = caller[c]
  BY ExecutedCaller
<1>2. UNCHANGED policy /\ CommandFits(i, cmd)
  BY ExecutedCaller
<1>3. CallersFit'
  <2>1. ASSUME NEW c \in Callers PROVE CallerFits(caller[c])'
    <3>1. CallerFits(caller[c])
      BY DEF LimiterInv, CallersFit
    <3>2. caller[c].pc \notin {"claim", "pace", "rollback", "undo"} => caller'[c].answer = "none"
      <4>1. CASE c # cmd.from
        BY <1>1, <3>1, <4>1 DEF CallerFits
      <4>2. CASE c = cmd.from
        BY <1>2, <4>2, LimiterAssumption DEF CommandFits
      <4> QED BY <4>1, <4>2
    <3> QED BY <1>1, <1>2, <3>1, <3>2 DEF CallerFits
  <2> QED BY <2>1 DEF CallersFit
<1>4. OwnClaims'
  BY <1>1 DEF LimiterInv, OwnClaims
<1> QED BY <1>3, <1>4, ExecutedQueue DEF LimiterInv

LEMMA ClaimExecuted ==
  ASSUME LimiterInv, NEW i \in Instances, NEW cmd, NEW admitted, Executed(i, cmd, admitted),
         cmd.op = "claim", admitted = AdmitsClaim(Remaining(cmd.claim)), ClaimSlot(cmd.claim)
  PROVE  LimiterInv'
<1> DEFINE m == cmd.claim
           others == Remaining(m)
<1>1. m \in Claims
  BY ExecutedCaller DEF CommandFits
<1>2. slots' = IF admitted THEN others \cup {m} ELSE others
  BY DEF ClaimSlot, KeepSlots
<1>3. /\ others \subseteq slots /\ m \notin others /\ slots \subseteq Claims
      /\ \A x \in slots : x \notin Evicted /\ x # m => x \in others
  BY DEF Remaining, LimiterInv, LimiterFits
<1>4. slotAge' = [x \in Claims |-> IF x \in slots' \cap slots THEN slotAge[x] ELSE 0]
  BY DEF ClaimSlot, KeepSlots
<1>5. slotAge \in [Claims -> Nat]
  BY DEF LimiterInv, LimiterFits
<1> HIDE DEF m, others
<1>6. slots' \subseteq Claims
  BY <1>1, <1>2, <1>3
<1>7. /\ slotAge' \in [Claims -> Nat]
      /\ \A x \in slots' : slotAge'[x] = 0 \/ (x \in slots /\ slotAge'[x] = slotAge[x])
  BY <1>4, <1>5, <1>6
<1>8. /\ \A x \in Claims \ {m} : x \in slots' => x \in slots
      /\ \A x \in slots : x \notin Evicted /\ x # m => x \in slots'
      /\ m \in slots' <=> admitted
  BY <1>2, <1>3 DEF Executed
<1>9. LimiterFits' /\ SlotsHeld' /\ NoSlotLeaks'
  <2>1. cmd.op # "claim" => cmd.claim \notin slots'
    OBVIOUS
  <2>2. /\ \A x \in Claims \ {cmd.claim} : x \in slots' => x \in slots
        /\ \A x \in slots : x \notin Evicted /\ x # cmd.claim => x \in slots'
        /\ cmd.op = "claim" => (cmd.claim \in slots' <=> admitted)
    BY <1>8 DEF m
  <2> QED BY <1>6, <1>7, <2>1, <2>2, SlotsAfter
<1>10. policy.cap > 0 => IsFiniteSet(slots') /\ Cardinality(slots') <= policy.cap
  <2> SUFFICES ASSUME policy.cap > 0 PROVE IsFiniteSet(slots') /\ Cardinality(slots') <= policy.cap
    OBVIOUS
  <2>1. IsFiniteSet(others) /\ Cardinality(others) \in Nat /\ Cardinality(others) <= policy.cap
    BY <1>3, FewerCapped
  <2>2. IsFiniteSet(others \cup {m}) /\ Cardinality(others \cup {m}) = Cardinality(others) + 1
    BY <1>3, <2>1, FS_AddElement
  <2>3. admitted => Cardinality(others) < policy.cap
    BY DEF AdmitsClaim, m, others
  <2>4. policy.cap \in Nat
    BY LimiterAssumption DEF LimiterInv, LimiterFits
  <2> QED BY <1>2, <2>1, <2>2, <2>3, <2>4
<1> QED BY <1>9, <1>10, ExecutedCapped, ExecutedInv

LEMMA RemovalExecuted ==
  ASSUME LimiterInv, NEW i \in Instances, NEW cmd, NEW admitted, Executed(i, cmd, admitted),
         cmd.op = "remove", KeepSlots(slots \ {cmd.claim})
  PROVE  LimiterInv'
<1>1. slots' = slots \ {cmd.claim} /\ slots \subseteq Claims /\ slotAge \in [Claims -> Nat]
  BY DEF KeepSlots, LimiterInv, LimiterFits
<1>2. slotAge' = [x \in Claims |-> IF x \in slots' \cap slots THEN slotAge[x] ELSE 0]
  BY DEF KeepSlots
<1>3. /\ slotAge' \in [Claims -> Nat] /\ slots' \subseteq Claims
      /\ \A x \in slots' : slotAge'[x] = 0 \/ (x \in slots /\ slotAge'[x] = slotAge[x])
  BY <1>1, <1>2
<1>4. /\ \A x \in Claims \ {cmd.claim} : x \in slots' => x \in slots
      /\ \A x \in slots : x \notin Evicted /\ x # cmd.claim => x \in slots'
      /\ cmd.op # "claim" => cmd.claim \notin slots'
      /\ cmd.op = "claim" => (cmd.claim \in slots' <=> admitted)
  BY <1>1
<1>5. LimiterFits' /\ SlotsHeld' /\ NoSlotLeaks'
  BY <1>3, <1>4, SlotsAfter
<1>6. policy.cap > 0 => IsFiniteSet(slots') /\ Cardinality(slots') <= policy.cap
  BY <1>1, FewerCapped
<1> QED BY <1>5, <1>6, ExecutedCapped, ExecutedInv

LEMMA PaceExecuted ==
  ASSUME LimiterInv, NEW i \in Instances, NEW cmd, NEW admitted, Executed(i, cmd, admitted),
         cmd.op \in {"pace", "advance"}, UNCHANGED <<slots, slotAge>>
  PROVE  LimiterInv'
<1>1. cmd.claim \notin slots
  BY ExecutedCaller, LimiterAssumption DEF CommandFits, LimiterInv, LimiterFits
<1>2. /\ slotAge' \in [Claims -> Nat] /\ slots' \subseteq Claims
      /\ \A x \in slots' : slotAge'[x] = 0 \/ (x \in slots /\ slotAge'[x] = slotAge[x])
  BY DEF LimiterInv, LimiterFits
<1>3. /\ \A x \in Claims \ {cmd.claim} : x \in slots' => x \in slots
      /\ \A x \in slots : x \notin Evicted /\ x # cmd.claim => x \in slots'
      /\ cmd.op # "claim" => cmd.claim \notin slots'
      /\ cmd.op = "claim" => (cmd.claim \in slots' <=> admitted)
  BY <1>1
<1>4. LimiterFits' /\ SlotsHeld' /\ NoSlotLeaks'
  BY <1>2, <1>3, SlotsAfter
<1>5. policy.cap > 0 => IsFiniteSet(slots') /\ Cardinality(slots') <= policy.cap
  BY FewerCapped
<1> QED BY <1>4, <1>5, ExecutedCapped, ExecutedInv

LEMMA ExecutesInv == ASSUME LimiterInv, NEW i \in Instances, RedisExecutes(i) PROVE LimiterInv'
<1> DEFINE cmd == Head(commands[i])
           admitted == CASE cmd.op = "claim" -> AdmitsClaim(Remaining(cmd.claim))
                         [] cmd.op = "pace" -> paceLeft = 0
                         [] OTHER -> TRUE
<1>1. commands[i] # <<>> /\ commands' = [commands EXCEPT ![i] = Tail(@)] /\ UNCHANGED <<policy, slotsLost>>
  BY DEF RedisExecutes, limiterEnd
<1>2. cmd = commands[i][1] /\ cmd \in CommandRecord
  BY <1>1, QueueAdvances DEF LimiterInv
<1>3. cmd.op \in {"claim", "remove", "pace", "advance"}
  BY <1>2 DEF CommandRecord
<1>4. admitted \in BOOLEAN
  <2>1. AdmitsClaim(Remaining(cmd.claim)) \in BOOLEAN
    BY DEF AdmitsClaim
  <2> QED BY <1>3, <2>1
<1>5. caller' = IF cmd.from = NoCaller THEN caller
                ELSE [caller EXCEPT ![cmd.from].answer = IF admitted THEN "yes" ELSE "no"]
  BY DEF RedisExecutes
<1>6. /\ cmd.op = "claim" => ClaimSlot(cmd.claim) /\ admitted = AdmitsClaim(Remaining(cmd.claim))
      /\ cmd.op = "remove" => KeepSlots(slots \ {cmd.claim})
      /\ cmd.op \in {"pace", "advance"} => UNCHANGED <<slots, slotAge>>
  BY <1>3 DEF RedisExecutes
<1> HIDE DEF cmd, admitted
<1>7. Executed(i, cmd, admitted)
  BY <1>1, <1>2, <1>4, <1>5 DEF Executed
<1>8. CASE cmd.op = "claim"
  BY <1>6, <1>7, <1>8, ClaimExecuted
<1>9. CASE cmd.op = "remove"
  BY <1>6, <1>7, <1>9, RemovalExecuted
<1>10. CASE cmd.op \in {"pace", "advance"}
  BY <1>6, <1>7, <1>10, PaceExecuted
<1> QED BY <1>3, <1>8, <1>9, <1>10

LEMMA LimiterInitInv == LimiterInit => LimiterInv
<1> SUFFICES ASSUME LimiterInit PROVE LimiterInv
  OBVIOUS
<1>1. IdleCaller \in CallerRecord /\ IdleCaller.pc = "idle" /\ IdleCaller.claim = NoClaim /\ IdleCaller.answer = "none"
  BY DEF IdleCaller, CallerRecord, LimiterPcs
<1>2. caller \in [Callers -> CallerRecord] /\ \A c \in Callers : caller[c] = IdleCaller
  BY <1>1 DEF LimiterInit
<1>3. commands \in [Instances -> Seq(CommandRecord)] /\ \A i \in Instances : DOMAIN commands[i] = {}
  BY DEF LimiterInit
<1>4. policy \in Policies /\ slots = {} /\ slotAge \in [Claims -> Nat]
  BY DEF LimiterInit
<1>5. LimiterFits
  BY <1>2, <1>3, <1>4 DEF LimiterFits
<1>6. CallersFit /\ OwnClaims
  BY <1>1, <1>2 DEF CallersFit, CallerFits, OwnClaims
<1>7. CommandsFit /\ CommandsOrdered
  BY <1>3 DEF CommandsFit, CommandsOrdered
<1>8. SlotsHeld
  BY <1>1, <1>2, <1>4 DEF SlotsHeld, SlotHeld
<1>9. NoSlotLeaks
  BY <1>3, <1>4 DEF NoSlotLeaks, Claimed
<1>10. SlotsCapped
  <2>1. \A i \in Instances : InsuredRunning(i) = {}
    BY <1>1, <1>2 DEF InsuredRunning, Of
  <2>2. IsFiniteSet({}) /\ Cardinality({}) = 0 /\ policy.cap \in Nat
    BY <1>4, FS_EmptySet, LimiterAssumption
  <2> QED BY <1>4, <2>1, <2>2 DEF SlotsCapped
<1> QED BY <1>5, <1>6, <1>7, <1>8, <1>9, <1>10 DEF LimiterInv

LEMMA LimiterStutterInv == ASSUME LimiterInv, UNCHANGED limiterVars PROVE LimiterInv'
<1>1. UNCHANGED <<policy, slots, slotAge, commands, caller, slotsLost>>
  BY DEF limiterVars
<1>2. \A i \in Instances : InsuredRunning(i)' = InsuredRunning(i)
  BY <1>1 DEF InsuredRunning, Of
<1>3. LimiterFits' /\ CallersFit' /\ OwnClaims' /\ CommandsOrdered' /\ SlotsHeld'
  BY <1>1 DEF LimiterInv, LimiterFits, CallersFit, CallerFits, OwnClaims, CommandsOrdered, SlotsHeld, SlotHeld
<1>4. CommandsFit'
  BY <1>1 DEF LimiterInv, CommandsFit, CommandFits
<1>5. NoSlotLeaks' /\ SlotsCapped'
  BY <1>1, <1>2 DEF LimiterInv, NoSlotLeaks, Claimed, Removing, Has, SlotsCapped
<1> QED BY <1>3, <1>4, <1>5 DEF LimiterInv

LEMMA LimiterStepInv == LimiterInv /\ [LimiterNext]_limiterVars => LimiterInv'
<1> SUFFICES ASSUME LimiterInv, [LimiterNext]_limiterVars PROVE LimiterInv'
  OBVIOUS
<1>1. ASSUME NEW c \in Callers, AcquireSlot(c) \/ ResumeCaller(c) \/ TimeOut(c) \/ Insured(c) \/ Finish(c)
      PROVE  LimiterInv'
  BY <1>1, AcquireInv, ResumeInv, TimeOutInv, InsuredInv, FinishInv
<1>2. ASSUME NEW i \in Instances, RedisExecutes(i) \/ DropConnection(i) \/ CrashLimiter(i)
      PROVE  LimiterInv'
  BY <1>2, ExecutesInv, DropInv
<1>3. CASE LimiterTick
  BY <1>3, TickInv
<1>4. CASE UNCHANGED limiterVars
  BY <1>4, LimiterStutterInv
<1> QED BY <1>1, <1>2, <1>3, <1>4 DEF LimiterNext

(* The calls Redis admitted have a slot each: they are no more than the slots. *)
LEMMA LoadIsBounded == ASSUME LimiterInv PROVE LoadBounded
<1> SUFFICES ASSUME policy.cap > 0
             PROVE  /\ \A c \in Callers : caller[c].pc = "call" => caller[c].claim \in slots
                    /\ Cardinality({c \in Callers : caller[c].pc = "call"}) <= policy.cap
                    /\ \A i \in Instances : Cardinality(InsuredRunning(i)) <= policy.cap
  BY DEF LoadBounded
<1> DEFINE calling == {c \in Callers : caller[c].pc = "call"}
           used == {caller[c].claim : c \in calling}
           slotOf == [c \in calling |-> caller[c].claim]
<1>1. \A c \in Callers : caller[c].pc = "call" => caller[c].claim \in slots /\ caller[c].claim # NoClaim
  BY LimiterAssumption DEF LimiterInv, CallersFit, CallerFits, SlotsHeld, SlotHeld
<1>2. IsFiniteSet(used) /\ Cardinality(used) \in Nat /\ Cardinality(used) <= policy.cap
  <2>1. used \subseteq slots
    BY <1>1
  <2> QED BY <2>1, FewerCapped
<1>3. slotOf \in Injection(calling, used)
  <2>1. slotOf \in [calling -> used]
    OBVIOUS
  <2>2. \A c, d \in calling : slotOf[c] = slotOf[d] => c = d
    BY <1>1 DEF LimiterInv, OwnClaims
  <2> QED BY <2>1, <2>2, Fun_IsInj
<1>4. IsFiniteSet(calling) /\ Cardinality(calling) \in Nat
  BY LimiterAssumption, FS_Subset, FS_CardinalityType
<1>5. Cardinality(calling) <= Cardinality(used)
  BY <1>2, <1>3, FS_Injection
<1>6. policy.cap \in Nat
  BY LimiterAssumption DEF LimiterInv, LimiterFits
<1>7. Cardinality(calling) <= policy.cap
  BY <1>2, <1>4, <1>5, <1>6
<1> QED BY <1>1, <1>7 DEF LimiterInv, SlotsCapped

(* SlotsBalance holds in every reachable state, for any number of callers,     *)
(* processes, faults and any times in which the slowest call ends before its   *)
(* slot does.                                                                  *)
THEOREM SlotsAreBalanced == LimiterSpec => []SlotsBalance
<1>1. LimiterInv => SlotsBalance
  <2> SUFFICES ASSUME LimiterInv PROVE SlotsBalance
    OBVIOUS
  <2>1. SlotsReturn
    BY DEF LimiterInv, NoSlotLeaks, Claimed, Has, SlotsReturn, LimiterFits
  <2> QED BY <2>1, LoadIsBounded DEF SlotsBalance
<1> QED BY <1>1, LimiterInitInv, LimiterStepInv, PTL DEF LimiterSpec

(* BackoffIsKept of a step.                                                    *)
KeepsBackoff ==
  \A c \in Callers : Starts(c) /\ backoff > 0 =>
    backoffAge <= RedisTimeout + (IF policy.interval = 0 THEN Grace ELSE 0)

LEMMA PaceKept ==
  ASSUME PaceHeld, UNCHANGED <<paceLeft, backoff, backoffAge>>,
         \A c \in Callers : caller'[c].pc = "pace" /\ caller'[c].answer = "yes" => caller'[c] = caller[c],
         paceOk' \in [Instances -> 0..Grace],
         \A i \in Instances : \/ paceOk'[i] = 0 \/ paceOk'[i] = paceOk[i]
                              \/ backoff > 0 => backoffAge + paceOk'[i] <= RedisTimeout + Grace
  PROVE  PaceHeld'
<1>1. /\ paceLeft \in Nat /\ backoff \in Nat /\ backoffAge \in Nat /\ backoff <= paceLeft
      /\ backoff > 0 =>
           /\ \A c \in Callers : caller[c].pc = "pace" /\ caller[c].answer = "yes" => backoffAge <= caller[c].spent
           /\ \A i \in Instances : paceOk[i] > 0 => backoffAge + paceOk[i] <= RedisTimeout + Grace
  BY DEF PaceHeld
<1>2. backoff > 0 =>
        \A c \in Callers : caller'[c].pc = "pace" /\ caller'[c].answer = "yes" => backoffAge <= caller'[c].spent
  BY <1>1
<1>3. backoff > 0 => \A i \in Instances : paceOk'[i] > 0 => backoffAge + paceOk'[i] <= RedisTimeout + Grace
  BY <1>1
<1> QED BY <1>1, <1>2, <1>3 DEF PaceHeld

(* A caller that goes on by itself: it starts a call only with an answer of the*)
(* pace key in its hand, or within the grace window of one.                    *)
LEMMA MoveKeepsBackoff ==
  ASSUME LimiterInv, PaceHeld, NEW c \in Callers, NEW pc, NEW m, Move(c, pc, m),
         UNCHANGED <<paceLeft, backoff, backoffAge>>, paceOk' \in [Instances -> 0..Grace],
         \A i \in Instances : \/ paceOk'[i] = 0 \/ paceOk'[i] = paceOk[i]
                              \/ backoff > 0 => backoffAge + paceOk'[i] <= RedisTimeout + Grace,
         pc = "call" => RidesOn(Home[c]) \/ (caller[c].pc = "pace" /\ caller[c].answer = "yes")
  PROVE  PaceHeld' /\ KeepsBackoff
<1> DEFINE r == [IdleCaller EXCEPT !.pc = pc, !.claim = m]
<1>1. r.pc = pc /\ r.answer = "none"
  BY DEF IdleCaller
<1>2. caller' = [caller EXCEPT ![c] = r]
  BY DEF Move
<1> HIDE DEF r
<1>3. caller'[c].pc = pc /\ caller'[c].answer = "none" /\ \A d \in Callers \ {c} : caller'[d] = caller[d]
  BY <1>1, <1>2 DEF LimiterInv, LimiterFits
<1>4. PaceHeld'
  BY <1>3, PaceKept
<1>5. Home[c] \in Instances /\ RedisTimeout \in Nat /\ Grace \in Nat /\ \A p \in Policies : p.interval \in Nat
  BY LimiterAssumption
<1>6. ASSUME pc = "call", backoff > 0
      PROVE  backoffAge <= RedisTimeout + (IF policy.interval = 0 THEN Grace ELSE 0)
  <2>1. backoffAge \in Nat /\ paceOk[Home[c]] \in 0..Grace
    BY <1>5 DEF PaceHeld
  <2>2. CASE RidesOn(Home[c])
    <3>1. policy.interval = 0 /\ paceOk[Home[c]] > 0 /\ backoffAge + paceOk[Home[c]] <= RedisTimeout + Grace
      BY <1>5, <1>6, <2>2 DEF RidesOn, PaceHeld
    <3> QED BY <1>5, <2>1, <3>1
  <2>3. CASE caller[c].pc = "pace" /\ caller[c].answer = "yes"
    <3>1. backoffAge <= caller[c].spent /\ caller[c].spent <= RedisTimeout /\ caller[c].spent \in Nat
      BY <1>6, <2>3 DEF PaceHeld, LimiterInv, CallersFit, CallerFits, LimiterFits, CallerRecord
    <3> QED BY <1>5, <2>1, <3>1
  <2> QED BY <1>6, <2>2, <2>3
<1>7. KeepsBackoff
  BY <1>3, <1>6 DEF KeepsBackoff, Starts
<1> QED BY <1>4, <1>7

(* A step that starts no call keeps every backoff.                             *)
LEMMA NoStart ==
  ASSUME \A c \in Callers : caller'[c].pc = "call" => caller[c].pc = "call"
  PROVE  KeepsBackoff
BY DEF KeepsBackoff, Starts

LEMMA CallerKeepsBackoff ==
  ASSUME LimiterInv, PaceHeld, NEW c \in Callers,
         AcquireSlot(c) \/ ResumeCaller(c) \/ TimeOut(c) \/ Insured(c) \/ Finish(c)
  PROVE  PaceHeld' /\ KeepsBackoff
<1>1. /\ Home \in [Callers -> Instances] /\ RedisTimeout \in Nat /\ Grace \in Nat
      /\ paceOk \in [Instances -> 0..Grace]
  BY LimiterAssumption DEF PaceHeld
<1>2. UNCHANGED <<paceLeft, backoff, backoffAge>>
  BY DEF AcquireSlot, ResumeCaller, TimeOut, Insured, Finish, redisVars
<1>3. ASSUME NEW m, CheckPace(c, m), UNCHANGED paceOk PROVE PaceHeld' /\ KeepsBackoff
  BY <1>1, <1>2, <1>3, MoveKeepsBackoff DEF CheckPace
<1>4. ASSUME NEW pc, NEW m, Move(c, pc, m), UNCHANGED paceOk, pc # "call" PROVE PaceHeld' /\ KeepsBackoff
  BY <1>1, <1>2, <1>4, MoveKeepsBackoff
<1>5. CASE AcquireSlot(c)
  BY <1>3, <1>4, <1>5 DEF AcquireSlot
<1>6. CASE ResumeCaller(c)
  <2>1. ASSUME Fallback(c), UNCHANGED paceOk PROVE PaceHeld' /\ KeepsBackoff
    BY <1>4, <2>1 DEF Fallback
  <2>2. ASSUME caller[c].pc = "pace", caller[c].answer = "yes", NEW m, Move(c, "call", m),
               paceOk' = IF policy.interval = 0 THEN [paceOk EXCEPT ![Home[c]] = Grace] ELSE paceOk
        PROVE  PaceHeld' /\ KeepsBackoff
    <3>1. backoff > 0 => backoffAge \in Nat /\ backoffAge <= RedisTimeout
      BY <1>1, <2>2 DEF PaceHeld, LimiterInv, CallersFit, CallerFits, LimiterFits, CallerRecord
    <3>2. backoff > 0 => backoffAge + Grace <= RedisTimeout + Grace
      BY <1>1, <3>1
    <3>3. /\ paceOk' \in [Instances -> 0..Grace]
          /\ \A i \in Instances : paceOk'[i] = Grace \/ paceOk'[i] = paceOk[i]
      BY <1>1, <2>2
    <3> QED BY <1>2, <2>2, <3>2, <3>3, MoveKeepsBackoff
  <2> QED BY <1>3, <1>4, <1>6, <2>1, <2>2 DEF ResumeCaller
<1>7. CASE TimeOut(c)
  <2> DEFINE r == [caller[c] EXCEPT !.answer = "error"]
  <2>1. r.pc = caller[c].pc /\ r.answer = "error" /\ caller' = [caller EXCEPT ![c] = r] /\ UNCHANGED paceOk
    BY <1>7 DEF TimeOut, LimiterInv, LimiterFits, CallerRecord
  <2> HIDE DEF r
  <2>2. /\ caller'[c].pc = caller[c].pc /\ caller'[c].answer = "error"
        /\ \A d \in Callers \ {c} : caller'[d] = caller[d]
    BY <2>1 DEF LimiterInv, LimiterFits
  <2> QED BY <1>1, <1>2, <2>1, <2>2, PaceKept, NoStart
<1>8. CASE Insured(c)
  BY <1>4, <1>8 DEF Insured
<1>9. CASE Finish(c)
  <2>1. /\ paceOk' \in [Instances -> 0..Grace]
        /\ \A i \in Instances : paceOk'[i] = 0 \/ paceOk'[i] = paceOk[i]
    BY <1>1, <1>9 DEF Finish
  <2>2. Move(c, "idle", NoClaim)
    BY <1>9 DEF Finish
  <2> QED BY <1>2, <2>1, <2>2, MoveKeepsBackoff
<1> QED BY <1>5, <1>6, <1>7, <1>8, <1>9

LEMMA DropKeepsBackoff ==
  ASSUME LimiterInv, PaceHeld, NEW i \in Instances, DropConnection(i) \/ CrashLimiter(i)
  PROVE  PaceHeld' /\ KeepsBackoff
<1>1. Grace \in Nat /\ paceOk \in [Instances -> 0..Grace]
  BY LimiterAssumption DEF PaceHeld
<1>2. /\ UNCHANGED <<paceLeft, backoff, backoffAge>> /\ paceOk' \in [Instances -> 0..Grace]
      /\ \A j \in Instances : paceOk'[j] = 0 \/ paceOk'[j] = paceOk[j]
  BY <1>1 DEF DropConnection, CrashLimiter, redisVars
<1>3. \A c \in Callers : \/ caller'[c] = caller[c] \/ caller'[c].pc = "idle"
                         \/ caller'[c].pc = caller[c].pc /\ caller'[c].answer = "error"
  <2>1. ASSUME NEW c \in Callers
        PROVE  LET r == [caller[c] EXCEPT !.answer = "error"] IN r.pc = caller[c].pc /\ r.answer = "error"
    BY DEF LimiterInv, LimiterFits, CallerRecord
  <2>2. CASE DropConnection(i)
    <3>1. caller' = [c \in Callers |-> IF c \in Of(i) /\ AwaitsRedis(c) THEN [caller[c] EXCEPT !.answer = "error"]
                                                                     ELSE caller[c]]
      BY <2>2 DEF DropConnection
    <3> QED BY <2>1, <3>1
  <2>3. CASE CrashLimiter(i)
    <3>1. caller' = [c \in Callers |-> IF c \in Of(i) THEN IdleCaller ELSE caller[c]] /\ IdleCaller.pc = "idle"
      BY <2>3 DEF CrashLimiter, IdleCaller
    <3> QED BY <3>1
  <2> QED BY <2>2, <2>3
<1> QED BY <1>2, <1>3, PaceKept, NoStart

LEMMA RedisKeepsBackoff ==
  ASSUME LimiterInv, PaceHeld, NEW i \in Instances, RedisExecutes(i)
  PROVE  PaceHeld' /\ KeepsBackoff
<1> DEFINE cmd == Head(commands[i])
           admitted == CASE cmd.op = "claim" -> AdmitsClaim(Remaining(cmd.claim))
                         [] cmd.op = "pace" -> paceLeft = 0
                         [] OTHER -> TRUE
<1>1. /\ paceLeft \in Nat /\ backoff \in Nat /\ backoffAge \in Nat /\ backoff <= paceLeft
      /\ paceOk \in [Instances -> 0..Grace] /\ UNCHANGED <<paceOk, policy>>
      /\ RedisTimeout \in Nat /\ Grace \in Nat
  BY LimiterAssumption DEF PaceHeld, RedisExecutes
<1>2. cmd = commands[i][1] /\ cmd \in CommandRecord /\ 1 \in DOMAIN commands[i]
  BY QueueAdvances DEF RedisExecutes, LimiterInv
<1>3. cmd.op \in {"claim", "remove", "pace", "advance"} /\ cmd.delay \in Nat /\ cmd.from \in Callers \cup {NoCaller}
  BY <1>2 DEF CommandRecord
<1>4. CommandFits(i, cmd)
  BY <1>2 DEF LimiterInv, CommandsFit
<1>5. /\ cmd.op \in {"claim", "remove"} => UNCHANGED <<paceLeft, backoff, backoffAge>>
      /\ cmd.op = "pace" => /\ paceLeft' = (IF paceLeft = 0 THEN policy.interval ELSE paceLeft)
                            /\ UNCHANGED <<backoff, backoffAge>>
      /\ cmd.op = "advance" => /\ paceLeft' = Larger(paceLeft, cmd.delay) /\ backoff' = Larger(backoff, cmd.delay)
                               /\ backoffAge' = IF backoff = 0 THEN 0 ELSE backoffAge
  BY <1>3 DEF RedisExecutes, Advanced
<1>6. caller' = IF cmd.from = NoCaller THEN caller
                ELSE [caller EXCEPT ![cmd.from].answer = IF admitted THEN "yes" ELSE "no"]
  BY DEF RedisExecutes
<1>7. cmd.op = "pace" => (admitted <=> paceLeft = 0)
  OBVIOUS
<1>8. policy.interval \in Nat
  BY LimiterAssumption DEF LimiterInv, LimiterFits
<1> HIDE DEF cmd, admitted
<1>9. \A c \in Callers :
        /\ caller'[c].pc = caller[c].pc /\ caller'[c].spent = caller[c].spent
        /\ c # cmd.from => caller'[c] = caller[c]
        /\ c = cmd.from => caller'[c].answer = IF admitted THEN "yes" ELSE "no"
  <2>1. CASE cmd.from = NoCaller
    BY <1>6, <2>1, LimiterAssumption
  <2>2. CASE cmd.from \in Callers
    <3> DEFINE r == [caller[cmd.from] EXCEPT !.answer = IF admitted THEN "yes" ELSE "no"]
    <3>1. /\ r.pc = caller[cmd.from].pc /\ r.spent = caller[cmd.from].spent
          /\ r.answer = IF admitted THEN "yes" ELSE "no"
      BY <2>2 DEF LimiterInv, LimiterFits, CallerRecord
    <3>2. caller' = [caller EXCEPT ![cmd.from] = r]
      BY <1>6, <2>2, LimiterAssumption
    <3> HIDE DEF r
    <3> QED BY <2>2, <3>1, <3>2 DEF LimiterInv, LimiterFits
  <2> QED BY <1>3, <2>1, <2>2
<1>10. KeepsBackoff
  BY <1>9, NoStart
(* An answer "yes" of the pace key means that no backoff is left.              *)
<1>11. \A c \in Callers : caller'[c].pc = "pace" /\ caller'[c].answer = "yes" => caller'[c] = caller[c] \/ backoff = 0
  <2>1. SUFFICES ASSUME NEW c \in Callers, c = cmd.from, caller'[c].pc = "pace", caller'[c].answer = "yes"
                 PROVE  backoff = 0
    BY <1>9
  <2>2. cmd.op = "pace"
    BY <1>4, <1>9, <2>1, LimiterAssumption DEF CommandFits
  <2> QED BY <1>1, <1>7, <1>9, <2>1, <2>2
<1>12. /\ paceLeft' \in Nat /\ backoff' \in Nat /\ backoffAge' \in Nat /\ backoff' <= paceLeft'
       /\ backoff > 0 => backoffAge' = backoffAge
       /\ backoff = 0 /\ backoff' > 0 => backoffAge' = 0
  BY <1>1, <1>3, <1>5, <1>8 DEF Larger
<1>13. backoff = 0 /\ backoff' > 0 => cmd.op = "advance"
  BY <1>1, <1>3, <1>5
<1>14. backoff' > 0 => \A c \in Callers : caller'[c].pc = "pace" /\ caller'[c].answer = "yes" => backoffAge' <= caller'[c].spent
  <2>1. SUFFICES ASSUME backoff' > 0, NEW c \in Callers, caller'[c].pc = "pace", caller'[c].answer = "yes"
                 PROVE  backoffAge' <= caller'[c].spent
    OBVIOUS
  <2>2. caller'[c].spent \in Nat
    BY <1>9 DEF LimiterInv, LimiterFits, CallerRecord
  <2>3. CASE backoff = 0
    BY <1>12, <2>1, <2>2, <2>3
  <2>4. CASE backoff > 0
    <3>1. caller'[c] = caller[c]
      BY <1>11, <2>1, <2>4
    <3> QED BY <1>12, <2>1, <2>4, <3>1 DEF PaceHeld
  <2> QED BY <1>1, <2>3, <2>4
<1>15. backoff' > 0 => \A j \in Instances : paceOk'[j] > 0 => backoffAge' + paceOk'[j] <= RedisTimeout + Grace
  <2>1. SUFFICES ASSUME backoff' > 0, NEW j \in Instances, paceOk'[j] > 0
                 PROVE  backoffAge' + paceOk'[j] <= RedisTimeout + Grace
    OBVIOUS
  <2>2. paceOk'[j] = paceOk[j] /\ paceOk[j] \in 0..Grace
    BY <1>1
  <2>3. CASE backoff = 0
    BY <1>1, <1>12, <2>1, <2>2, <2>3
  <2>4. CASE backoff > 0
    BY <1>12, <2>1, <2>2, <2>4 DEF PaceHeld
  <2> QED BY <1>1, <2>3, <2>4
<1>16. PaceHeld'
  BY <1>1, <1>12, <1>14, <1>15 DEF PaceHeld
<1> QED BY <1>10, <1>16

LEMMA TickKeepsBackoff == ASSUME LimiterInv, PaceHeld, LimiterTick PROVE PaceHeld' /\ KeepsBackoff
<1>1. /\ paceLeft \in Nat /\ backoff \in Nat /\ backoffAge \in Nat /\ backoff <= paceLeft
      /\ paceOk \in [Instances -> 0..Grace] /\ RedisTimeout \in Nat /\ Grace \in Nat
  BY LimiterAssumption DEF PaceHeld
<1>2. \A c \in Callers :
        /\ caller[c].spent \in Nat /\ caller'[c].pc = caller[c].pc /\ caller'[c].answer = caller[c].answer
        /\ caller[c].pc = "pace" => caller'[c].spent = caller[c].spent + 1
  <2>1. ASSUME NEW c \in Callers
        PROVE  LET r == [caller[c] EXCEPT !.spent = @ + 1]
               IN r.pc = caller[c].pc /\ r.answer = caller[c].answer /\ r.spent = caller[c].spent + 1
                  /\ caller[c].spent \in Nat
    BY DEF LimiterInv, LimiterFits, CallerRecord
  <2> QED BY <2>1 DEF LimiterTick, AwaitsRedis
<1>3. KeepsBackoff
  BY <1>2, NoStart
<1>4. /\ paceLeft' \in Nat /\ backoff' \in Nat /\ backoffAge' \in Nat /\ backoff' <= paceLeft'
      /\ backoff' > 0 => backoff > 0 /\ backoffAge' = backoffAge + 1
  BY <1>1 DEF LimiterTick, Less
<1>5. paceOk' = [i \in Instances |-> IF paceOk[i] > 0 THEN paceOk[i] - 1 ELSE 0]
  BY DEF LimiterTick, Less
<1>6. \A i \in Instances : paceOk'[i] \in 0..Grace /\ (paceOk'[i] > 0 => paceOk[i] = paceOk'[i] + 1)
  BY <1>1, <1>5
<1>7. paceOk' \in [Instances -> 0..Grace]
  BY <1>5, <1>6
<1>8. backoff' > 0 => \A c \in Callers : caller'[c].pc = "pace" /\ caller'[c].answer = "yes" => backoffAge' <= caller'[c].spent
  BY <1>1, <1>2, <1>4 DEF PaceHeld
<1>9. backoff' > 0 => \A i \in Instances : paceOk'[i] > 0 => backoffAge' + paceOk'[i] <= RedisTimeout + Grace
  <2>1. SUFFICES ASSUME backoff' > 0, NEW i \in Instances, paceOk'[i] > 0
                 PROVE  backoffAge' + paceOk'[i] <= RedisTimeout + Grace
    OBVIOUS
  <2>2. paceOk[i] > 0 /\ paceOk[i] = paceOk'[i] + 1 /\ paceOk'[i] \in 0..Grace
    BY <1>6, <2>1
  <2>3. backoffAge + paceOk[i] <= RedisTimeout + Grace
    BY <1>4, <2>1, <2>2 DEF PaceHeld
  <2> QED BY <1>1, <1>4, <2>1, <2>2, <2>3
<1> QED BY <1>3, <1>4, <1>7, <1>8, <1>9 DEF PaceHeld

LEMMA PaceInitHeld == LimiterInit => PaceHeld
<1> SUFFICES ASSUME LimiterInit PROVE PaceHeld
  OBVIOUS
<1>1. Grace \in Nat
  BY LimiterAssumption
<1> QED BY <1>1 DEF LimiterInit, PaceHeld

LEMMA StepKeepsBackoff == LimiterInv /\ PaceHeld /\ [LimiterNext]_limiterVars => PaceHeld' /\ [KeepsBackoff]_limiterVars
<1> SUFFICES ASSUME LimiterInv, PaceHeld, [LimiterNext]_limiterVars PROVE PaceHeld' /\ [KeepsBackoff]_limiterVars
  OBVIOUS
<1>1. ASSUME NEW c \in Callers, AcquireSlot(c) \/ ResumeCaller(c) \/ TimeOut(c) \/ Insured(c) \/ Finish(c)
      PROVE  PaceHeld' /\ KeepsBackoff
  BY <1>1, CallerKeepsBackoff
<1>2. ASSUME NEW i \in Instances, RedisExecutes(i) \/ DropConnection(i) \/ CrashLimiter(i)
      PROVE  PaceHeld' /\ KeepsBackoff
  BY <1>2, RedisKeepsBackoff, DropKeepsBackoff
<1>3. CASE LimiterTick
  BY <1>3, TickKeepsBackoff
<1>4. ASSUME UNCHANGED limiterVars PROVE PaceHeld'
  BY <1>4 DEF limiterVars, PaceHeld
<1> QED BY <1>1, <1>2, <1>3, <1>4 DEF LimiterNext

(* A Retry-After Redis was told is kept by every process, with the two delays  *)
(* BackoffIsKept allows: an answer that was on its way, and the grace window   *)
(* of one that came in.                                                        *)
THEOREM BackoffsAreKept == LimiterSpec => BackoffIsKept
<1>1. LimiterInit => LimiterInv /\ PaceHeld
  BY LimiterInitInv, PaceInitHeld
<1>2. LimiterInv /\ PaceHeld /\ [LimiterNext]_limiterVars => (LimiterInv /\ PaceHeld)' /\ [KeepsBackoff]_limiterVars
  BY LimiterStepInv, StepKeepsBackoff
<1>3. LimiterSpec => [][KeepsBackoff]_limiterVars
  BY <1>1, <1>2, PTL DEF LimiterSpec
<1> QED BY <1>3 DEF BackoffIsKept, KeepsBackoff
=============================================================================
