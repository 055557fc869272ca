---------------------------- MODULE JobIntakeProofs ----------------------------
(* What comes in is kept.                                                       *)
(* JobIntake, for any keys, producers, consumers, pages and faults: the proof   *)
(* follows an entry.  The group passes none without making it pending, an XACK  *)
(* takes only what is written (AcksFollowWrites), and retention takes only what *)
(* no live dedup key names (KeysNameEntries).                                   *)
(* WebhookGate, for any number of deliveries at a time and any number of jobs   *)
(* of the event.                                                                *)
(* CatalogSweep, for any list, settings and number of runs at a time: a batch   *)
(* is known by the rank of its first product, which nothing but a removal       *)
(* shifts, so that runs of a cycle agree on the keys of its children.           *)
EXTENDS JobIntake, WebhookGate, CatalogSweep, SetSums

-----------------------------------------------------------------------------
(* JobIntake.                                                                   *)
(* Whoever calls has a key, and holds the position XADD returned to it until    *)
(* the key names it, in the week it was added.                                  *)
CallsHaveKeys == \A p \in Producers : call[p].pc # "idle" => call[p].key \in Keys
NamesAreFresh ==
  \A p \in Producers : call[p].pc = "name" =>
    /\ call[p].id \in stream
    /\ entries[call[p].id].at = clock

(* A dedup key outlives the entry it names by no more than its own period.      *)
KeysNameEntries ==
  \A k \in Keys : dedup[k].id # 0 =>
    /\ dedup[k].id \in 1..Len(entries)
    /\ dedup[k].until <= entries[dedup[k].id].at + DedupTTL

(* The consumers and the group hold positions of entries there are, and what a  *)
(* page found trimmed is no longer in the stream.                               *)
Handling == {"persist", "kill", "ack", "forget", "count", "record", "bury", "clear"}
PositionsAreReal ==
  /\ group.last <= Len(entries)
  /\ \A i \in Ids : pel[i] # Nobody => i \in 1..Len(entries)
  /\ \A c \in Consumers :
       /\ cons[c].pc \in Handling => cons[c].id \in 1..Len(entries)
       /\ cons[c].batch \subseteq 1..Len(entries) /\ cons[c].claims \subseteq 1..Len(entries)
       /\ \A e \in cons[c].page : e[1] \in 1..Len(entries) /\ (e[2] => e[1] \notin stream)

(* A row that is not there is as it was at first.                               *)
RowsBeginAbsent == \A k \in Keys : row[k].status = "absent" => row[k] = NoRow

(* What an XACK is about to take from the pending list was written before, or   *)
(* has nothing to write.                                                        *)
Settled(i) == i \notin stream \/ Body(i) = "malformed" \/ row[KeyOf(i)].status # "absent"
AcksFollowWrites ==
  \A c \in Consumers :
    /\ At(c, "kill") => row[KeyOf(cons[c].id)].status # "absent"
    /\ At(c, "ack") => Settled(cons[c].id)
    /\ At(c, "bury") => cons[c].id \in letters

IntakeInv ==
  /\ TypeOK /\ CallsHaveKeys /\ NamesAreFresh /\ KeysNameEntries /\ PositionsAreReal
  /\ RowsBeginAbsent /\ AcksFollowWrites /\ NothingLost /\ TrimmedIsUnblocked
ConsType ==
  [pc : {"down", "loop", "page", "list", "claim", "next", "persist", "kill",
         "ack", "forget", "count", "record", "bury", "clear"},
   phase : {"drain", "retry", "reclaim", "batch"},
   batch : SUBSET Ids, page : SUBSET (Ids \X BOOLEAN), claims : SUBSET Ids,
   cursor : Positions, pages : 0..PagesPerTick, id : Positions,
   trimmed : BOOLEAN]
CallType ==
  [pc : {"idle", "existing", "add", "undo", "name"}, key : Keys \cup {NoKey},
   kind : BodyKinds, id : Positions]
RowType == [status : {"absent", "queued", "running", "dead"}, junk : BOOLEAN]

(* What the types say of a row, a producer and a consumer.                      *)
LEMMA TypesAre ==
  ASSUME TypeOK
  PROVE  /\ row \in [Keys -> RowType] /\ call \in [Producers -> CallType]
         /\ cons \in [Consumers -> ConsType]
         /\ \A k \in Keys : row[k] \in RowType
         /\ \A p \in Producers : call[p] \in CallType
         /\ \A c \in Consumers : cons[c] \in ConsType
BY DEF TypeOK, RowType, CallType, ConsType

(* An entry there is has a key, a body and a week.                              *)
LEMMA EntryIs ==
  ASSUME TypeOK, NEW i \in 1..Len(entries)
  PROVE  /\ entries[i] \in Entry /\ KeyOf(i) \in Keys /\ Body(i) \in BodyKinds /\ entries[i].at \in Nat
         /\ i \in Ids
<1>1. entries \in Seq(Entry) /\ Len(entries) \in Nat /\ Len(entries) <= MaxEntries
  BY DEF TypeOK
<1>2. entries[i] \in Entry
  BY <1>1
<1> QED BY <1>1, <1>2, ConstantsAssumption DEF Entry, KeyOf, Body, Ids

(* A set of numbers has a lowest one.                                           *)
LEMMA Least ==
  ASSUME NEW S, S \subseteq Nat, S # {}
  PROVE  \E i \in S : \A j \in S : i <= j
<1> DEFINE R == OpToRel(<, Nat)
<1>1. IsWellFoundedOn(R, Nat)
  BY NatLessThanWellFounded
<1>2. \A i, j \in Nat : i < j => <<i, j>> \in R
  BY DEF OpToRel
<1> HIDE DEF R
<1>3. PICK i \in S : \A j \in S : <<j, i>> \notin R
  BY <1>1, WFMin
<1>4. ASSUME NEW j \in S PROVE i <= j
  <2>1. i \in Nat /\ j \in Nat /\ ~(j < i)
    BY <1>2, <1>3
  <2> QED BY <2>1
<1> QED BY <1>4

(* And a highest one, if it is bounded: the lowest of its bounds.               *)
LEMMA Greatest ==
  ASSUME NEW n \in Nat, NEW S, S \subseteq 0..n, S # {}
  PROVE  \E i \in S : \A j \in S : j <= i
<1> DEFINE U == {b \in Nat : \A j \in S : j <= b}
<1>1. n \in U /\ U \subseteq Nat
  OBVIOUS
<1>2. PICK b \in U : \A d \in U : b <= d
  BY <1>1, Least
<1>3. b \in Nat /\ \A j \in S : j <= b /\ j \in Nat
  OBVIOUS
<1>4. ASSUME b \notin S PROVE FALSE
  <2>1. PICK x \in S : TRUE
    OBVIOUS
  <2>2. b - 1 \in Nat /\ \A j \in S : j <= b - 1
    BY <1>3, <1>4, <2>1
  <2>3. b - 1 \in U
    BY <2>2
  <2> QED BY <1>2, <1>3, <2>3
<1> QED BY <1>3, <1>4

(* So the consumers' LowestOf is one of the set.                                *)
LEMMA LowestIs ==
  ASSUME NEW S, S \subseteq Nat, S # {}
  PROVE  LowestOf(S) \in S
BY Least DEF LowestOf

(* And the first n of a set are before the others.                              *)
LEMMA FirstsBefore ==
  ASSUME NEW N \in Nat, NEW S, S \subseteq 1..N, NEW n \in Nat,
         NEW i \in S, NEW j \in FirstOf(S, n), i < j
  PROVE  i \in FirstOf(S, n)
<1>0. j \in S /\ Cardinality({k \in S : k < j}) < n
  BY DEF FirstOf
<1>1. IsFiniteSet(S)
  <2>1. IsFiniteSet(1..N)
    BY FS_Interval
  <2> QED BY <2>1, FS_Subset
<1>2. IsFiniteSet({k \in S : k < j})
  BY <1>1, FS_Subset
<1>3. {k \in S : k < i} \subseteq {k \in S : k < j}
  <2> SUFFICES ASSUME NEW k \in S, k < i PROVE k < j
    OBVIOUS
  <2>1. k \in Nat /\ i \in Nat /\ j \in Nat
    BY <1>0
  <2> QED BY <2>1
<1>4. /\ Cardinality({k \in S : k < i}) <= Cardinality({k \in S : k < j})
      /\ IsFiniteSet({k \in S : k < i})
  BY <1>2, <1>3, FS_Subset
<1>5. Cardinality({k \in S : k < i}) \in Nat /\ Cardinality({k \in S : k < j}) \in Nat
  BY <1>2, <1>4, FS_CardinalityType
<1> QED BY <1>0, <1>4, <1>5 DEF FirstOf

(* What a consumer holds fits what it is about to do, given the rows w and the  *)
(* letters l.                                                                   *)
Sound(r, w, l) ==
  /\ r.pc \in Handling => r.id \in 1..Len(entries)
  /\ r.batch \subseteq 1..Len(entries) /\ r.claims \subseteq 1..Len(entries)
  /\ \A e \in r.page : e[1] \in 1..Len(entries) /\ (e[2] => e[1] \notin stream)
  /\ r.pc = "kill" => w[KeyOf(r.id)].status # "absent"
  /\ r.pc = "ack" => r.id \notin stream \/ Body(r.id) = "malformed" \/ w[KeyOf(r.id)].status # "absent"
  /\ r.pc = "bury" => r.id \in l

(* Every consumer does.                                                         *)
LEMMA AllSound ==
  ASSUME IntakeInv, NEW c \in Consumers
  PROVE  Sound(cons[c], row, letters)
BY DEF IntakeInv, PositionsAreReal, AcksFollowWrites, Settled, Sound, At

(* Writes only add: rows and letters stay.                                      *)
Adds ==
  /\ row' \in [Keys -> RowType] /\ letters' \subseteq Ids /\ letters \subseteq letters'
  /\ \A k \in Keys : /\ row[k].status # "absent" => row'[k].status # "absent"
                     /\ row'[k].status = "absent" => row'[k] = NoRow

(* A consumer's step keeps the invariant if it adds, leaves the pending list or *)
(* takes from it what is settled, and is sound after it.                        *)
LEMMA ConsumerStep ==
  ASSUME IntakeInv, NEW c \in Consumers, NEW r \in ConsType, Moves(c, r),
         UNCHANGED <<clock, dedup, entries, stream, group, call, retries>>,
         faults' \in Nat, failures' \in [Ids -> Nat], idle' \subseteq Ids, Adds,
         pel' \in [Ids -> Consumers \cup {Nobody}],
         \A i \in Ids : /\ pel'[i] # Nobody => pel[i] # Nobody
                        /\ pel[i] # Nobody /\ pel'[i] = Nobody => Settled(i) \/ i \in letters,
         Sound(r, row', letters')
  PROVE  IntakeInv'
<1>0. /\ TypeOK /\ CallsHaveKeys /\ NamesAreFresh /\ KeysNameEntries /\ PositionsAreReal
      /\ RowsBeginAbsent /\ AcksFollowWrites /\ NothingLost /\ TrimmedIsUnblocked
  BY DEF IntakeInv
<1>1. cons' \in [Consumers -> ConsType] /\ cons'[c] = r /\ \A d \in Consumers : d # c => cons'[d] = cons[d]
  BY <1>0, TypesAre DEF Moves
<1>2. \A i \in 1..Len(entries) : KeyOf(i) \in Keys /\ i \in Ids /\ KeyOf(i)' = KeyOf(i) /\ Body(i)' = Body(i)
  BY <1>0, EntryIs DEF KeyOf, Body
<1>3. \A d \in Consumers : d # c => Sound(cons[d], row', letters')
  <2> SUFFICES ASSUME NEW d \in Consumers, d # c PROVE Sound(cons[d], row', letters')
    OBVIOUS
  <2>1. Sound(cons[d], row, letters)
    BY AllSound
  <2> QED BY <1>2, <2>1 DEF Sound, Adds, Handling
<1>4. \A d \in Consumers : Sound(cons'[d], row', letters')
  BY <1>1, <1>3
<1>5. TypeOK'
  BY <1>0, <1>1 DEF TypeOK, Adds, RowType, ConsType
<1>6. CallsHaveKeys' /\ NamesAreFresh' /\ KeysNameEntries' /\ TrimmedIsUnblocked'
  BY <1>0 DEF CallsHaveKeys, NamesAreFresh, KeysNameEntries, TrimmedIsUnblocked, DedupLive
<1>7. PositionsAreReal'
  BY <1>0, <1>4 DEF PositionsAreReal, Sound
<1>8. RowsBeginAbsent'
  BY DEF RowsBeginAbsent, Adds
<1>9. AcksFollowWrites'
  BY <1>1, <1>4 DEF AcksFollowWrites, Sound, Settled, At, KeyOf, Body
<1>10. NothingLost'
  <2> SUFFICES ASSUME NEW i \in stream, group.exists, i > group.start, Body(i) # "malformed" PROVE Accounted(i)'
    BY DEF NothingLost, Body
  <2>1. Accounted(i) /\ i \in 1..Len(entries)
    BY <1>0 DEF NothingLost, TypeOK
  <2> QED BY <1>2, <2>1 DEF Accounted, Settled, Adds
<1> QED BY <1>5, <1>6, <1>7, <1>8, <1>9, <1>10 DEF IntakeInv

(* A consumer that holds no more than before, and has nothing to write or take, *)
(* is sound.                                                                    *)
Lessens(r, e) ==
  /\ r \in ConsType
  /\ r.batch \subseteq e.batch /\ r.claims \subseteq e.claims /\ r.page \subseteq e.page
  /\ r.pc \in Handling => e.pc \in Handling /\ r.id = e.id

(* What it holds was sound before.                                              *)
LEMMA LessIsSound ==
  ASSUME IntakeInv, NEW c \in Consumers, NEW r, NEW w, NEW l,
         Lessens(r, cons[c]), r.pc \notin {"kill", "ack", "bury"}
  PROVE  Sound(r, w, l)
BY AllSound DEF Lessens, Sound, Handling

(* Nothing written is nothing lost.                                             *)
LEMMA QuietAdds ==
  ASSUME IntakeInv, UNCHANGED <<row, letters>>
  PROVE  Adds
BY TypesAre DEF IntakeInv, RowsBeginAbsent, Adds, TypeOK

(* A step that only moves the consumer keeps the invariant if it is sound       *)
(* then.                                                                        *)
LEMMA QuietStep ==
  ASSUME IntakeInv, NEW c \in Consumers, NEW r \in ConsType, Moves(c, r),
         UNCHANGED <<clock, redis, letters, row, call, retries>>, faults' \in Nat, Sound(r, row, letters)
  PROVE  IntakeInv'
<1>1. TypeOK /\ Adds /\ UNCHANGED <<clock, dedup, entries, stream, group, call, retries, pel, idle, failures>>
  BY QuietAdds DEF IntakeInv, redis
<1>2. pel' \in [Ids -> Consumers \cup {Nobody}] /\ failures' \in [Ids -> Nat] /\ idle' \subseteq Ids
  BY <1>1 DEF TypeOK
<1>3. Sound(r, row', letters')
  OBVIOUS
<1> QED BY <1>1, <1>2, <1>3, ConsumerStep

(* The bound on faults is counted.                                              *)
LEMMA FaultIs == ASSUME TypeOK, Fault \/ NoFault PROVE faults' \in Nat
BY DEF TypeOK, Fault, NoFault

(* The records a consumer moves to.                                             *)
LEMMA DownIs ==
  /\ Down \in ConsType /\ Down.pc = "down" /\ Down.phase = "drain" /\ Down.id = 0
  /\ Down.batch = {} /\ Down.page = {} /\ Down.claims = {} /\ Down.cursor = 0 /\ Down.pages = 0
BY ConstantsAssumption DEF Down, ConsType, Positions

(* Where the counters begin.                                                    *)
LEMMA ZerosAre == 0 \in Positions /\ 0 \in 0..PagesPerTick
<1>1. MaxEntries \in Nat /\ PagesPerTick \in Nat
  BY ConstantsAssumption
<1> QED BY <1>1 DEF Positions

(* A pass that ends keeps the batch only.                                       *)
LEMMA EndPassIs ==
  ASSUME TypeOK, NEW c \in Consumers, EndPass(c)
  PROVE  \E r : Moves(c, r) /\ Lessens(r, cons[c]) /\ r.pc \in {"loop", "next"}
<1> DEFINE r == [Down EXCEPT !.pc = IF cons[c].phase = "drain" THEN "loop" ELSE "next",
                             !.phase = "batch", !.batch = cons[c].batch]
<1>1. cons[c] \in ConsType /\ cons[c].batch \in SUBSET Ids
  BY TypesAre DEF ConsType
<1>2. r \in ConsType /\ r.batch = cons[c].batch /\ r.page = {} /\ r.claims = {} /\ r.pc \in {"loop", "next"}
  BY <1>1, DownIs DEF ConsType
<1>3. Moves(c, r)
  BY DEF EndPass
<1> HIDE DEF r
<1> QED BY <1>2, <1>3 DEF Lessens, Handling

(* The entry at hand is done with.                                              *)
LEMMA ToNextIs ==
  ASSUME TypeOK, NEW c \in Consumers, ToNext(c)
  PROVE  \E r : Moves(c, r) /\ Lessens(r, cons[c]) /\ r.pc = "next"
<1> DEFINE r == [cons[c] EXCEPT !.pc = "next", !.id = 0, !.trimmed = FALSE]
<1>1. cons[c] \in ConsType
  BY TypesAre
<1>2. /\ r \in ConsType /\ r.pc = "next"
      /\ r.batch = cons[c].batch /\ r.page = cons[c].page /\ r.claims = cons[c].claims
  BY <1>1, ZerosAre DEF ConsType
<1>3. Moves(c, r)
  BY DEF ToNext
<1> HIDE DEF r
<1> QED BY <1>2, <1>3 DEF Lessens, Handling

(* processMessage throws: the failure is counted, or the batch is dropped.      *)
LEMMA ThrowsIs ==
  ASSUME TypeOK, NEW c \in Consumers, cons[c].pc \in Handling, Throws(c)
  PROVE  \E r : Moves(c, r) /\ Lessens(r, cons[c]) /\ r.pc \in {"count", "loop"}
<1>1. cons[c] \in ConsType
  BY TypesAre
<1>2. CASE Moves(c, [cons[c] EXCEPT !.pc = "count"])
  <2> DEFINE r == [cons[c] EXCEPT !.pc = "count"]
  <2>1. /\ r \in ConsType /\ r.pc = "count" /\ r.id = cons[c].id
        /\ r.batch = cons[c].batch /\ r.page = cons[c].page /\ r.claims = cons[c].claims
    BY <1>1 DEF ConsType
  <2>2. Moves(c, r)
    BY <1>2
  <2> HIDE DEF r
  <2> QED BY <2>1, <2>2 DEF Lessens
<1>3. CASE Moves(c, [Down EXCEPT !.pc = "loop"])
  <2> DEFINE r == [Down EXCEPT !.pc = "loop"]
  <2>1. r \in ConsType /\ r.pc = "loop" /\ r.batch = {} /\ r.page = {} /\ r.claims = {}
    BY DownIs DEF ConsType
  <2>2. Moves(c, r)
    BY <1>3
  <2> HIDE DEF r
  <2> QED BY <2>1, <2>2 DEF Lessens, Handling
<1> QED BY <1>2, <1>3 DEF Throws

(* The entry at hand is kept.                                                   *)
LEMMA GoesOn ==
  ASSUME TypeOK, NEW c \in Consumers, cons[c].pc \in Handling,
         NEW pc \in Handling, Goes(c, pc)
  PROVE  \E r : Moves(c, r) /\ Lessens(r, cons[c]) /\ r.pc = pc /\ r.id = cons[c].id
<1> DEFINE r == [cons[c] EXCEPT !.pc = pc]
<1>1. cons[c] \in ConsType
  BY TypesAre
<1>2. /\ r \in ConsType /\ r.pc = pc /\ r.batch = cons[c].batch /\ r.page = cons[c].page
      /\ r.claims = cons[c].claims
      /\ r.id = cons[c].id
  BY <1>1 DEF ConsType, Handling
<1>3. Moves(c, r)
  BY DEF Goes
<1> HIDE DEF r
<1> QED BY <1>2, <1>3 DEF Lessens

(* The entry a consumer handles.                                                *)
LEMMA HandlesOne ==
  ASSUME IntakeInv, NEW c \in Consumers, cons[c].pc \in Handling
  PROVE  cons[c].id \in 1..Len(entries) /\ cons[c].id \in Ids /\ KeyOf(cons[c].id) \in Keys
BY EntryIs DEF IntakeInv, PositionsAreReal

-----------------------------------------------------------------------------
(* A pass goes to its next page, or ends.                                       *)
LEMMA PageStep ==
  ASSUME IntakeInv, NEW c \in Consumers, PageOf(c)
  PROVE  IntakeInv'
<1>0. TypeOK /\ cons[c] \in ConsType
  BY TypesAre DEF IntakeInv
<1>1. UNCHANGED <<clock, redis, letters, row, call, retries>> /\ cons[c].pc = "page"
  BY DEF PageOf, At
<1>2. faults' \in Nat
  BY <1>0, FaultIs DEF PageOf
<1>3. CASE EndPass(c)
  <2>1. PICK r : Moves(c, r) /\ Lessens(r, cons[c]) /\ r.pc \in {"loop", "next"}
    BY <1>0, <1>3, EndPassIs
  <2> QED BY <1>1, <1>2, <2>1, LessIsSound, QuietStep DEF Lessens
<1>4. CASE Moves(c, [cons[c] EXCEPT !.pc = "list", !.phase = "reclaim", !.cursor = 0, !.pages = 0])
  <2> DEFINE r == [cons[c] EXCEPT !.pc = "list", !.phase = "reclaim", !.cursor = 0, !.pages = 0]
  <2>1. /\ r \in ConsType /\ r.pc = "list" /\ r.batch = cons[c].batch /\ r.page = cons[c].page
        /\ r.claims = cons[c].claims
    BY <1>0, ZerosAre DEF ConsType
  <2>2. Moves(c, r)
    BY <1>4
  <2> HIDE DEF r
  <2> QED BY <1>1, <1>2, <2>1, <2>2, LessIsSound, QuietStep DEF Lessens, Handling
<1>5. ASSUME OwnPage(c) # {}, PagesLeft(c),
             Moves(c, [cons[c] EXCEPT
                       !.pc = "next",
                       !.page = {<<i, i \notin stream>> : i \in OwnPage(c)},
                       !.cursor = CHOOSE i \in OwnPage(c) : \A j \in OwnPage(c) : j <= i,
                       !.pages = IF cons[c].phase = "retry" THEN @ + 1 ELSE @])
      PROVE  IntakeInv'
  <2> DEFINE g == {<<i, i \notin stream>> : i \in OwnPage(c)}
             m == CHOOSE i \in OwnPage(c) : \A j \in OwnPage(c) : j <= i
             n == IF cons[c].phase = "retry" THEN cons[c].pages + 1 ELSE cons[c].pages
             r == [cons[c] EXCEPT !.pc = "next", !.page = g, !.cursor = m, !.pages = n]
  <2>1. /\ OwnPage(c) \subseteq Ids
        /\ \A i \in OwnPage(c) : i \in 1..Len(entries)
    BY ConstantsAssumption DEF OwnPage, OwnPending, FirstOf, IntakeInv, PositionsAreReal
  <2>2. m \in OwnPage(c)
    <3>1. MaxEntries \in Nat /\ OwnPage(c) \subseteq 0..MaxEntries
      BY <2>1, ConstantsAssumption DEF Ids
    <3> QED BY <1>5, <3>1, Greatest
  <2>3. m \in Positions
    BY <2>1, <2>2, ConstantsAssumption DEF Ids, Positions
  <2>4. n \in 0..PagesPerTick
    BY <1>0, <1>5, ConstantsAssumption DEF ConsType, PagesLeft
  <2>5. g \in SUBSET (Ids \X BOOLEAN) /\ \A e \in g : e[1] \in 1..Len(entries) /\ (e[2] => e[1] \notin stream)
    <3> SUFFICES ASSUME NEW e \in g
                 PROVE  e \in Ids \X BOOLEAN /\ e[1] \in 1..Len(entries) /\ (e[2] => e[1] \notin stream)
      OBVIOUS
    <3>1. PICK i \in OwnPage(c) : e = <<i, i \notin stream>>
      OBVIOUS
    <3> QED BY <2>1, <3>1
  <2> HIDE DEF g, m, n
  <2>6. r \in ConsType /\ r.pc = "next" /\ r.batch = cons[c].batch /\ r.page = g /\ r.claims = cons[c].claims
    BY <1>0, <2>3, <2>4, <2>5 DEF ConsType
  <2>7. Moves(c, r)
    BY <1>5 DEF g, m, n
  <2> HIDE DEF r
  <2>8. Sound(r, row, letters)
    BY <2>5, <2>6, AllSound DEF Sound, Handling
  <2> QED BY <1>1, <1>2, <2>6, <2>7, <2>8, QuietStep
<1> QED BY <1>3, <1>4, <1>5 DEF PageOf

(* The idle entries are listed.                                                 *)
LEMMA ListStep ==
  ASSUME IntakeInv, NEW c \in Consumers, ListIdle(c)
  PROVE  IntakeInv'
<1>0. TypeOK /\ cons[c] \in ConsType
  BY TypesAre DEF IntakeInv
<1>1. UNCHANGED <<clock, redis, letters, row, call, faults, retries>> /\ faults' \in Nat
  BY <1>0 DEF ListIdle, TypeOK
<1> DEFINE listed == FirstOf({i \in Ids : pel[i] # Nobody /\ i \in idle}, Count)
           s == {i \in listed : pel[i] # c}
           r == [cons[c] EXCEPT !.pc = "claim", !.claims = s]
<1>2. s \subseteq Ids /\ \A i \in s : i \in 1..Len(entries)
  BY DEF FirstOf, IntakeInv, PositionsAreReal
<1> HIDE DEF s
<1>3. r \in ConsType /\ r.pc = "claim" /\ r.batch = cons[c].batch /\ r.page = cons[c].page /\ r.claims = s
  BY <1>0, <1>2 DEF ConsType
<1>4. Moves(c, r)
  BY DEF ListIdle, s
<1> HIDE DEF r
<1>5. Sound(r, row, letters)
  BY <1>2, <1>3, AllSound DEF Sound, Handling
<1> QED BY <1>1, <1>3, <1>4, <1>5, QuietStep

(* One listed entry is claimed; one that retention has trimmed is gone from the *)
(* pending list.                                                                *)
LEMMA ClaimStep ==
  ASSUME IntakeInv, NEW c \in Consumers, ClaimOne(c)
  PROVE  IntakeInv'
<1>0. TypeOK /\ cons[c] \in ConsType /\ Sound(cons[c], row, letters)
  BY TypesAre, AllSound DEF IntakeInv
<1>1. /\ UNCHANGED <<clock, dedup, entries, stream, group, failures, letters, row, call, faults, retries>>
      /\ cons[c].pc = "claim"
      /\ faults' \in Nat /\ failures' \in [Ids -> Nat] /\ Adds
  BY <1>0, QuietAdds DEF ClaimOne, TypeOK, At
<1>2. CASE Moves(c, [cons[c] EXCEPT !.pc = "next"]) /\ UNCHANGED <<pel, idle>>
  <2> DEFINE r == [cons[c] EXCEPT !.pc = "next"]
  <2>1. /\ r \in ConsType /\ r.pc = "next" /\ r.batch = cons[c].batch /\ r.page = cons[c].page
        /\ r.claims = cons[c].claims
    BY <1>0 DEF ConsType
  <2>2. Moves(c, r) /\ UNCHANGED <<clock, redis, letters, row, call, retries>>
    BY <1>1, <1>2 DEF redis
  <2> HIDE DEF r
  <2> QED BY <1>1, <2>1, <2>2, LessIsSound, QuietStep DEF Lessens, Handling
<1>3. CASE cons[c].claims # {}
  <2> DEFINE i == LowestOf(cons[c].claims)
             free == pel[i] # Nobody /\ i \in idle
             gone == i \notin stream
             s == cons[c].claims \ {i}
             g == IF free \/ gone THEN cons[c].page \cup {<<i, gone>>} ELSE cons[c].page
             r == [cons[c] EXCEPT !.claims = s, !.page = g]
  <2>1. i \in cons[c].claims /\ i \in 1..Len(entries) /\ i \in Ids
    <3>1. cons[c].claims \subseteq Ids /\ cons[c].claims \subseteq Nat
      BY <1>0 DEF ConsType, Ids
    <3>2. i \in cons[c].claims
      BY <1>3, <3>1, LowestIs
    <3> QED BY <1>0, <3>1, <3>2 DEF Sound
  <2>2. /\ pel' = (IF free THEN [pel EXCEPT ![i] = IF gone THEN Nobody ELSE c] ELSE pel)
        /\ idle' = (IF free THEN idle \ {i} ELSE idle)
        /\ Moves(c, r)
    BY <1>3 DEF ClaimOne
  <2>3. /\ pel' \in [Ids -> Consumers \cup {Nobody}]
        /\ \A j \in Ids : /\ pel'[j] # Nobody => pel[j] # Nobody
                          /\ pel[j] # Nobody /\ pel'[j] = Nobody => Settled(j)
    <3>1. pel \in [Ids -> Consumers \cup {Nobody}]
      BY <1>0 DEF TypeOK
    <3> QED BY <2>1, <2>2, <3>1, ConstantsAssumption DEF Settled
  <2>4. idle' \subseteq Ids
    BY <1>0, <2>2 DEF TypeOK
  <2>5. s \in SUBSET Ids /\ s \subseteq 1..Len(entries) /\ g \in SUBSET (Ids \X BOOLEAN)
        /\ \A e \in g : e[1] \in 1..Len(entries) /\ (e[2] => e[1] \notin stream)
    <3>1. s \in SUBSET Ids /\ s \subseteq 1..Len(entries) /\ cons[c].page \in SUBSET (Ids \X BOOLEAN)
      BY <1>0 DEF ConsType, Sound
    <3>2. <<i, gone>> \in Ids \X BOOLEAN /\ <<i, gone>>[1] = i /\ (<<i, gone>>[2] <=> gone)
      BY <2>1
    <3>3. \A e \in cons[c].page : e[1] \in 1..Len(entries) /\ (e[2] => e[1] \notin stream)
      BY <1>0 DEF Sound
    <3> HIDE DEF i
    <3>4. ASSUME NEW e \in g PROVE e \in cons[c].page \/ e = <<i, gone>>
      OBVIOUS
    <3> QED BY <2>1, <3>1, <3>2, <3>3, <3>4
  <2> HIDE DEF s, g, i
  <2>6. r \in ConsType /\ r.pc = "claim" /\ r.batch = cons[c].batch /\ r.page = g /\ r.claims = s
    BY <1>0, <1>1, <2>5 DEF ConsType
  <2> HIDE DEF r
  <2>7. Sound(r, row', letters')
    BY <1>0, <2>5, <2>6 DEF Sound, Handling
  <2>8. Moves(c, r)
    BY <2>2
  <2> QED BY <1>1, <2>3, <2>4, <2>6, <2>7, <2>8, ConsumerStep
<1> QED BY <1>2, <1>3 DEF ClaimOne

(* The next entry is taken up, a pass goes on, or the loop.                     *)
LEMMA NextStep ==
  ASSUME IntakeInv, NEW c \in Consumers, NextEntry(c)
  PROVE  IntakeInv'
<1>0. TypeOK /\ cons[c] \in ConsType /\ Sound(cons[c], row, letters)
  BY TypesAre, AllSound DEF IntakeInv
<1>1. UNCHANGED <<clock, redis, letters, row, call, retries>> /\ faults' \in Nat /\ cons[c].pc = "next"
  BY <1>0 DEF NextEntry, TypeOK, At
<1>2. CASE EndPass(c)
  <2>1. PICK r : Moves(c, r) /\ Lessens(r, cons[c]) /\ r.pc \in {"loop", "next"}
    BY <1>0, <1>2, EndPassIs
  <2> QED BY <1>1, <2>1, LessIsSound, QuietStep DEF Lessens
<1>3. CASE Moves(c, [cons[c] EXCEPT !.pc = "page"])
  <2> DEFINE r == [cons[c] EXCEPT !.pc = "page"]
  <2>1. /\ r \in ConsType /\ r.pc = "page" /\ r.batch = cons[c].batch /\ r.page = cons[c].page
        /\ r.claims = cons[c].claims
    BY <1>0 DEF ConsType
  <2>2. Moves(c, r)
    BY <1>3
  <2> HIDE DEF r
  <2> QED BY <1>1, <2>1, <2>2, LessIsSound, QuietStep DEF Lessens, Handling
<1>4. CASE Moves(c, [Down EXCEPT !.pc = "loop"])
  <2> DEFINE r == [Down EXCEPT !.pc = "loop"]
  <2>1. r \in ConsType /\ r.pc = "loop" /\ r.batch = {} /\ r.page = {} /\ r.claims = {}
    BY DownIs DEF ConsType
  <2>2. Moves(c, r)
    BY <1>4
  <2> HIDE DEF r
  <2> QED BY <1>1, <2>1, <2>2, LessIsSound, QuietStep DEF Lessens, Handling
<1>5. CASE /\ cons[c].page # {}
           /\ LET i == LowestOf({e[1] : e \in cons[c].page})
                  e == CHOOSE x \in cons[c].page : x[1] = i IN
                Moves(c, [cons[c] EXCEPT !.pc = IF e[2] THEN "ack" ELSE "persist",
                                         !.page = @ \ {e}, !.id = i, !.trimmed = e[2]])
  <2> DEFINE i == LowestOf({e[1] : e \in cons[c].page})
             e == CHOOSE x \in cons[c].page : x[1] = i
             pc == IF e[2] THEN "ack" ELSE "persist"
             g == cons[c].page \ {e}
             gone == e[2]
             r == [cons[c] EXCEPT !.pc = pc, !.page = g, !.id = i, !.trimmed = gone]
  <2>1. cons[c].page \subseteq Ids \X BOOLEAN
    BY <1>0 DEF ConsType
  <2>2. {x[1] : x \in cons[c].page} \subseteq Nat /\ {x[1] : x \in cons[c].page} # {}
    BY <1>5, <2>1 DEF Ids
  <2>3. i \in {x[1] : x \in cons[c].page}
    BY <2>2, LowestIs
  <2>4. e \in cons[c].page /\ e[1] = i
    BY <2>3
  <2>5. i \in 1..Len(entries) /\ i \in Ids /\ (gone => i \notin stream) /\ gone \in BOOLEAN
    <3>1. e \in Ids \X BOOLEAN
      BY <2>1, <2>4
    <3> QED BY <1>0, <2>4, <3>1 DEF Sound
  <2>6. Moves(c, r)
    BY <1>5
  <2>7. pc \in {"ack", "persist"} /\ (pc = "ack" => gone) /\ g \subseteq cons[c].page
    OBVIOUS
  <2>8. i \in Positions /\ g \in SUBSET (Ids \X BOOLEAN)
    BY <2>1, <2>5, <2>7 DEF Ids, Positions
  <2> HIDE DEF i, e, pc, g, gone
  <2>9. /\ r \in ConsType /\ r.pc = pc /\ r.batch = cons[c].batch /\ r.page = g /\ r.claims = cons[c].claims
        /\ r.id = i
    BY <1>0, <2>5, <2>7, <2>8 DEF ConsType
  <2> HIDE DEF r
  <2>10. Sound(r, row, letters)
    BY <1>0, <2>5, <2>7, <2>9 DEF Sound
  <2> QED BY <1>1, <2>6, <2>9, <2>10, QuietStep
<1>6. CASE /\ cons[c].batch # {}
           /\ LET i == LowestOf(cons[c].batch) IN
                Moves(c, [cons[c] EXCEPT !.pc = "persist", !.batch = @ \ {i}, !.id = i, !.trimmed = FALSE])
  <2> DEFINE i == LowestOf(cons[c].batch)
             s == cons[c].batch \ {i}
             r == [cons[c] EXCEPT !.pc = "persist", !.batch = s, !.id = i, !.trimmed = FALSE]
  <2>1. cons[c].batch \subseteq Ids /\ cons[c].batch \subseteq Nat
    BY <1>0 DEF ConsType, Ids
  <2>2. i \in cons[c].batch
    BY <1>6, <2>1, LowestIs
  <2>3. i \in 1..Len(entries) /\ i \in Positions /\ s \in SUBSET Ids /\ s \subseteq cons[c].batch
    BY <1>0, <2>1, <2>2 DEF Sound, Ids, Positions
  <2>4. Moves(c, r)
    BY <1>6
  <2> HIDE DEF i, s
  <2>5. /\ r \in ConsType /\ r.pc = "persist" /\ r.batch = s /\ r.page = cons[c].page
        /\ r.claims = cons[c].claims /\ r.id = i
    BY <1>0, <2>3 DEF ConsType
  <2> HIDE DEF r
  <2>6. Sound(r, row, letters)
    BY <1>0, <2>3, <2>5 DEF Sound
  <2> QED BY <1>1, <2>4, <2>5, <2>6, QuietStep
<1> QED BY <1>2, <1>3, <1>4, <1>5, <1>6 DEF NextEntry

(* The job's row, or its placeholder's, is there when it goes on to the XACK.   *)
LEMMA PersistStep ==
  ASSUME IntakeInv, NEW c \in Consumers, Persist(c)
  PROVE  IntakeInv'
<1>0. TypeOK /\ cons[c] \in ConsType /\ Sound(cons[c], row, letters) /\ RowsBeginAbsent
  BY TypesAre, AllSound DEF IntakeInv
<1>1. UNCHANGED <<clock, redis, letters, call, retries>> /\ cons[c].pc \in Handling
  BY DEF Persist, At, Handling
<1>2. faults' \in Nat
  BY <1>0, FaultIs DEF Persist
<1>3. /\ UNCHANGED <<dedup, entries, stream, group, failures, pel, idle>>
      /\ pel' \in [Ids -> Consumers \cup {Nobody}] /\ failures' \in [Ids -> Nat] /\ idle' \subseteq Ids
  BY <1>0, <1>1 DEF redis, TypeOK
<1> DEFINE i == cons[c].id
           k == KeyOf(i)
<1>4. i \in 1..Len(entries) /\ k \in Keys
  BY <1>1, HandlesOne
<1>5. CASE UNCHANGED row /\ Throws(c)
  <2>1. PICK r : Moves(c, r) /\ Lessens(r, cons[c]) /\ r.pc \in {"count", "loop"}
    BY <1>0, <1>1, <1>5, ThrowsIs
  <2> QED BY <1>1, <1>2, <1>5, <2>1, LessIsSound, QuietStep DEF Lessens
<1>6. CASE UNCHANGED row /\ Body(i) = "malformed" /\ Goes(c, "ack")
  <2>1. PICK r : Moves(c, r) /\ Lessens(r, cons[c]) /\ r.pc = "ack" /\ r.id = i
    BY <1>0, <1>1, <1>6, GoesOn DEF Handling
  <2>2. Sound(r, row, letters)
    BY <1>0, <1>4, <1>6, <2>1 DEF Sound, Lessens
  <2> QED BY <1>1, <1>2, <1>6, <2>1, <2>2, QuietStep DEF Lessens
<1>7. ASSUME NEW junk \in BOOLEAN, Insert(k, junk), NEW pc \in {"kill", "ack"}, Goes(c, pc)
      PROVE  IntakeInv'
  <2>1. Adds /\ row'[k].status # "absent"
    <3>1. /\ row \in [Keys -> RowType] /\ [status |-> "queued", junk |-> junk] \in RowType
          /\ NoRow.status = "absent"
      BY <1>0, TypesAre DEF RowType, NoRow
    <3>2. letters' \subseteq Ids /\ letters' = letters
      BY <1>0, <1>1 DEF TypeOK
    <3> HIDE DEF k
    <3> QED BY <1>0, <1>4, <1>7, <3>1, <3>2 DEF Adds, Insert, RowsBeginAbsent
  <2>2. PICK r : Moves(c, r) /\ Lessens(r, cons[c]) /\ r.pc = pc /\ r.id = i
    BY <1>0, <1>1, <1>7, GoesOn DEF Handling
  <2>3. Sound(r, row', letters')
    BY <1>0, <1>4, <2>1, <2>2 DEF Sound, Lessens
  <2> QED BY <1>1, <1>2, <1>3, <2>1, <2>2, <2>3, ConsumerStep DEF Lessens
<1> QED
  <2>1. (~Known(c, i)) \in BOOLEAN
    OBVIOUS
  <2> QED BY <1>5, <1>6, <1>7, <2>1 DEF Persist

(* A placeholder's row is marked, whatever it says by now.                      *)
LEMMA KillStep ==
  ASSUME IntakeInv, NEW c \in Consumers, Kill(c)
  PROVE  IntakeInv'
<1>0. TypeOK /\ cons[c] \in ConsType /\ Sound(cons[c], row, letters) /\ RowsBeginAbsent
  BY TypesAre, AllSound DEF IntakeInv
<1>1. UNCHANGED <<clock, redis, letters, call, retries>> /\ cons[c].pc = "kill" /\ cons[c].pc \in Handling
  BY DEF Kill, At, Handling
<1>2. faults' \in Nat
  BY <1>0, FaultIs DEF Kill
<1>3. /\ UNCHANGED <<dedup, entries, stream, group, failures, pel, idle>>
      /\ pel' \in [Ids -> Consumers \cup {Nobody}] /\ failures' \in [Ids -> Nat] /\ idle' \subseteq Ids
  BY <1>0, <1>1 DEF redis, TypeOK
<1> DEFINE i == cons[c].id
           k == KeyOf(i)
<1>4. i \in 1..Len(entries) /\ k \in Keys
  BY <1>1, HandlesOne
<1>5. CASE UNCHANGED row /\ Throws(c)
  <2>1. PICK r : Moves(c, r) /\ Lessens(r, cons[c]) /\ r.pc \in {"count", "loop"}
    BY <1>0, <1>1, <1>5, ThrowsIs
  <2> QED BY <1>1, <1>2, <1>5, <2>1, LessIsSound, QuietStep DEF Lessens
<1>6. CASE UNCHANGED row /\ Body(i) = "malformed" /\ Goes(c, "ack")
  <2>1. PICK r : Moves(c, r) /\ Lessens(r, cons[c]) /\ r.pc = "ack" /\ r.id = i
    BY <1>0, <1>1, <1>6, GoesOn DEF Handling
  <2>2. Sound(r, row, letters)
    BY <1>0, <1>4, <1>6, <2>1 DEF Sound, Lessens
  <2> QED BY <1>1, <1>2, <1>6, <2>1, <2>2, QuietStep DEF Lessens
<1>7. CASE row' = [row EXCEPT ![k].status = "dead"] /\ Goes(c, "ack")
  <2>1. Adds /\ row'[k].status # "absent"
    <3>1. row \in [Keys -> RowType] /\ row[k] \in RowType
      BY <1>0, <1>4, TypesAre
    <3> DEFINE e == [row[k] EXCEPT !.status = "dead"]
    <3>2. e \in RowType /\ e.status = "dead"
      BY <3>1 DEF RowType
    <3> HIDE DEF k
    <3>3. row' = [row EXCEPT ![k] = e]
      BY <1>7
    <3>4. letters' \subseteq Ids /\ letters' = letters
      BY <1>0, <1>1 DEF TypeOK
    <3> HIDE DEF e
    <3> QED BY <1>0, <1>4, <3>1, <3>2, <3>3, <3>4 DEF Adds, RowsBeginAbsent
  <2>2. PICK r : Moves(c, r) /\ Lessens(r, cons[c]) /\ r.pc = "ack" /\ r.id = i
    BY <1>0, <1>1, <1>7, GoesOn DEF Handling
  <2>3. Sound(r, row', letters')
    BY <1>0, <1>4, <2>1, <2>2 DEF Sound, Lessens
  <2> QED BY <1>1, <1>2, <1>3, <2>1, <2>2, <2>3, ConsumerStep DEF Lessens
<1> QED BY <1>5, <1>6, <1>7 DEF Kill

(* What is taken from the pending list was settled, or is a dead letter.        *)
LEMMA XAckIs ==
  ASSUME TypeOK, NEW i \in Ids, XAck(i)
  PROVE  /\ pel' \in [Ids -> Consumers \cup {Nobody}] /\ idle' \subseteq Ids
         /\ \A j \in Ids : (j # i => pel'[j] = pel[j]) /\ pel'[i] = Nobody
BY DEF TypeOK, XAck

(* The XACK of a settled entry.                                                 *)
LEMMA AckStep ==
  ASSUME IntakeInv, NEW c \in Consumers, Ack(c)
  PROVE  IntakeInv'
<1>0. TypeOK /\ cons[c] \in ConsType /\ Sound(cons[c], row, letters)
  BY TypesAre, AllSound DEF IntakeInv
<1>1. /\ UNCHANGED <<clock, dedup, entries, stream, group, failures, letters, row, call, retries>>
      /\ cons[c].pc = "ack" /\ cons[c].pc \in Handling
  BY DEF Ack, At, Handling
<1>2. faults' \in Nat /\ failures' \in [Ids -> Nat] /\ Adds
  BY <1>0, <1>1, FaultIs, QuietAdds DEF Ack, TypeOK
<1>3. CASE Throws(c) /\ UNCHANGED <<pel, idle>>
  <2>1. PICK r : Moves(c, r) /\ Lessens(r, cons[c]) /\ r.pc \in {"count", "loop"}
    BY <1>0, <1>1, <1>3, ThrowsIs
  <2>2. UNCHANGED <<clock, redis, letters, row, call, retries>>
    BY <1>1, <1>3 DEF redis
  <2> QED BY <1>2, <2>1, <2>2, LessIsSound, QuietStep DEF Lessens
<1>4. ASSUME NEW r, XAck(cons[c].id), Moves(c, r), Lessens(r, cons[c]), r.pc \notin {"kill", "ack", "bury"}
      PROVE  IntakeInv'
  <2>1. /\ pel' \in [Ids -> Consumers \cup {Nobody}] /\ idle' \subseteq Ids
        /\ \A j \in Ids : /\ pel'[j] # Nobody => pel[j] # Nobody
                          /\ pel[j] # Nobody /\ pel'[j] = Nobody => Settled(j)
    BY <1>0, <1>1, <1>4, HandlesOne, XAckIs DEF Sound, Settled
  <2>2. Sound(r, row', letters') /\ r \in ConsType
    BY <1>4, LessIsSound DEF Lessens
  <2> QED BY <1>1, <1>2, <1>4, <2>1, <2>2, ConsumerStep
<1>5. CASE XAck(cons[c].id) /\ Goes(c, "forget")
  <2>1. \E r : Moves(c, r) /\ Lessens(r, cons[c]) /\ r.pc = "forget"
    BY <1>0, <1>1, <1>5, GoesOn DEF Handling
  <2> QED BY <1>4, <1>5, <2>1
<1>6. CASE XAck(cons[c].id) /\ ToNext(c)
  <2>1. \E r : Moves(c, r) /\ Lessens(r, cons[c]) /\ r.pc = "next"
    BY <1>0, <1>6, ToNextIs
  <2> QED BY <1>4, <1>6, <2>1
<1> QED BY <1>3, <1>5, <1>6 DEF Ack

(* The XACK of a dead letter.                                                   *)
LEMMA BuryStep ==
  ASSUME IntakeInv, NEW c \in Consumers, Bury(c)
  PROVE  IntakeInv'
<1>0. TypeOK /\ cons[c] \in ConsType /\ Sound(cons[c], row, letters)
  BY TypesAre, AllSound DEF IntakeInv
<1>1. /\ UNCHANGED <<clock, dedup, entries, stream, group, failures, letters, row, call, retries>>
      /\ cons[c].pc = "bury" /\ cons[c].pc \in Handling
  BY DEF Bury, At, Handling
<1>2. faults' \in Nat /\ failures' \in [Ids -> Nat] /\ Adds
  BY <1>0, <1>1, FaultIs, QuietAdds DEF Bury, TypeOK
<1>3. CASE ToNext(c) /\ UNCHANGED <<pel, idle>>
  <2>1. PICK r : Moves(c, r) /\ Lessens(r, cons[c]) /\ r.pc = "next"
    BY <1>0, <1>3, ToNextIs
  <2>2. UNCHANGED <<clock, redis, letters, row, call, retries>>
    BY <1>1, <1>3 DEF redis
  <2> QED BY <1>2, <2>1, <2>2, LessIsSound, QuietStep DEF Lessens
<1>4. CASE XAck(cons[c].id) /\ Goes(c, "clear")
  <2>1. PICK r : Moves(c, r) /\ Lessens(r, cons[c]) /\ r.pc = "clear"
    BY <1>0, <1>1, <1>4, GoesOn DEF Handling
  <2>2. /\ pel' \in [Ids -> Consumers \cup {Nobody}] /\ idle' \subseteq Ids
        /\ \A j \in Ids : /\ pel'[j] # Nobody => pel[j] # Nobody
                          /\ pel[j] # Nobody /\ pel'[j] = Nobody => j \in letters
    BY <1>0, <1>1, <1>4, HandlesOne, XAckIs DEF Sound
  <2>3. Sound(r, row', letters') /\ r \in ConsType
    BY <2>1, LessIsSound DEF Lessens
  <2> QED BY <1>1, <1>2, <2>1, <2>2, <2>3, ConsumerStep
<1> QED BY <1>3, <1>4 DEF Bury

(* The counters of failures and the letters decide nothing about the entry.     *)
LEMMA TallyStep ==
  ASSUME IntakeInv, NEW c \in Consumers, Forget(c) \/ CountFailure(c) \/ Record(c) \/ Clear(c)
  PROVE  IntakeInv'
<1>0. TypeOK /\ cons[c] \in ConsType
  BY TypesAre DEF IntakeInv
<1>1. /\ UNCHANGED <<clock, dedup, entries, stream, group, pel, idle, row, call, retries>>
      /\ cons[c].pc \in Handling
  BY DEF Forget, CountFailure, Record, Clear, At, Handling, redis
<1>2. faults' \in Nat
  BY <1>0, FaultIs DEF Forget, CountFailure, Record, Clear
<1>3. cons[c].id \in Ids
  BY <1>1, HandlesOne
<1>4. failures' \in [Ids -> Nat]
  <2>1. failures \in [Ids -> Nat] /\ 0 \in Nat /\ \A n \in Nat : Bumped(n) \in Nat
    BY <1>0 DEF TypeOK, Bumped
  <2>2. failures[cons[c].id] \in Nat
    BY <1>3, <2>1
  <2>3. \/ failures' = failures
        \/ failures' = [failures EXCEPT ![cons[c].id] = 0]
        \/ failures' = [failures EXCEPT ![cons[c].id] = Bumped(failures[cons[c].id])]
    BY DEF Forget, CountFailure, Record, Clear, redis
  <2>4. Bumped(failures[cons[c].id]) \in Nat
    BY <2>1, <2>2
  <2> QED BY <1>3, <2>1, <2>3, <2>4
<1>5. /\ letters' = letters \/ (letters' = letters \cup {cons[c].id})
      /\ letters \subseteq Ids
  BY <1>0 DEF Forget, CountFailure, Record, Clear, TypeOK
<1>6. Adds
  <2>1. Ids # {} /\ row \in [Keys -> RowType] /\ RowsBeginAbsent
    BY <1>0, <1>3, TypesAre DEF IntakeInv
  <2> QED BY <1>1, <1>3, <1>5, <2>1 DEF Adds, RowsBeginAbsent
<1>7. pel' \in [Ids -> Consumers \cup {Nobody}] /\ idle' \subseteq Ids
  BY <1>0, <1>1 DEF TypeOK
<1>8. ASSUME NEW r, Moves(c, r), Lessens(r, cons[c]), r.pc \notin {"kill", "ack"},
             r.pc = "bury" => r.id \in letters'
      PROVE  IntakeInv'
  <2>1. Sound(r, row', letters') /\ r \in ConsType
    BY <1>8, AllSound DEF Lessens, Sound, Handling
  <2> QED BY <1>1, <1>2, <1>4, <1>6, <1>7, <1>8, <2>1, ConsumerStep
<1>9. CASE ToNext(c)
  BY <1>0, <1>8, <1>9, ToNextIs
<1>10. CASE EndPass(c)
  BY <1>0, <1>8, <1>10, EndPassIs
<1>11. CASE Throws(c)
  BY <1>0, <1>1, <1>8, <1>11, ThrowsIs
<1>12. CASE Goes(c, "record")
  BY <1>0, <1>1, <1>8, <1>12, GoesOn DEF Handling
<1>13. CASE Goes(c, "bury") /\ letters' = letters \cup {cons[c].id}
  BY <1>0, <1>1, <1>8, <1>13, GoesOn DEF Handling
<1> QED BY <1>9, <1>10, <1>11, <1>12, <1>13 DEF Forget, CountFailure, Record, Clear

(* A consumer dies.                                                             *)
LEMMA CrashStep ==
  ASSUME IntakeInv, NEW c \in Consumers, CrashConsumer(c)
  PROVE  IntakeInv'
<1>1. TypeOK /\ Moves(c, Down) /\ UNCHANGED <<clock, redis, letters, row, call, retries>>
  BY DEF IntakeInv, CrashConsumer
<1>2. faults' \in Nat
  BY <1>1, FaultIs DEF CrashConsumer
<1>3. Lessens(Down, cons[c]) /\ Down.pc = "down"
  BY DownIs DEF Lessens, Handling
<1> QED BY <1>1, <1>2, <1>3, DownIs, LessIsSound, QuietStep

(* A consumer boots.  The first one makes the group, at the end of the stream.  *)
LEMMA BootStep ==
  ASSUME IntakeInv, NEW c \in Consumers, Boot(c)
  PROVE  IntakeInv'
<1>0. /\ TypeOK /\ CallsHaveKeys /\ NamesAreFresh /\ KeysNameEntries /\ PositionsAreReal
      /\ RowsBeginAbsent /\ AcksFollowWrites /\ NothingLost /\ TrimmedIsUnblocked
  BY DEF IntakeInv
<1>1. UNCHANGED <<clock, dedup, entries, stream, pel, idle, failures, letters, row, call, faults, retries>>
  BY DEF Boot
<1> DEFINE r == [Down EXCEPT !.pc = "page"]
<1>2. r \in ConsType /\ r.pc = "page" /\ r.batch = {} /\ r.page = {} /\ r.claims = {}
  BY DownIs DEF ConsType
<1>3. Moves(c, r)
  BY DEF Boot
<1> HIDE DEF r
<1>4. cons' \in [Consumers -> ConsType] /\ cons'[c] = r /\ \A d \in Consumers : d # c => cons'[d] = cons[d]
  BY <1>0, <1>2, <1>3, TypesAre DEF Moves
<1>5. CASE group' = group
  <2>1. UNCHANGED <<clock, redis, letters, row, call, retries>> /\ faults' \in Nat
    BY <1>0, <1>1, <1>5 DEF redis, TypeOK
  <2>2. Lessens(r, cons[c])
    BY <1>2 DEF Lessens, Handling
  <2> QED BY <1>2, <1>3, <2>1, <2>2, LessIsSound, QuietStep
<1>6. CASE group' = [exists |-> TRUE, start |-> Len(entries), last |-> Len(entries)]
  <2>1. Len(entries) \in Positions /\ Len(entries) \in Nat /\ stream \subseteq 1..Len(entries)
    BY <1>0 DEF TypeOK, Positions
  <2>2. group' \in [exists : BOOLEAN, start : Positions, last : Positions]
    BY <1>6, <2>1
  <2>3. TypeOK'
    BY <1>0, <1>1, <1>4, <2>2 DEF TypeOK, ConsType
  <2>4. CallsHaveKeys' /\ NamesAreFresh' /\ KeysNameEntries' /\ TrimmedIsUnblocked' /\ RowsBeginAbsent'
    BY <1>0, <1>1
    DEF CallsHaveKeys, NamesAreFresh, KeysNameEntries, TrimmedIsUnblocked, DedupLive, RowsBeginAbsent
  <2>5. PositionsAreReal'
    BY <1>0, <1>1, <1>2, <1>4, <1>6, <2>1 DEF PositionsAreReal, Handling
  <2>6. AcksFollowWrites'
    BY <1>0, <1>1, <1>2, <1>4 DEF AcksFollowWrites, Settled, At, KeyOf, Body
  <2>7. NothingLost'
    BY <1>1, <1>6, <2>1 DEF NothingLost
  <2> QED BY <2>3, <2>4, <2>5, <2>6, <2>7 DEF IntakeInv
<1> QED BY <1>5, <1>6 DEF Boot

(* A batch is read: the group passes no entry it does not make pending.         *)
LEMMA ReadStep ==
  ASSUME IntakeInv, NEW c \in Consumers, NEW recover \in BOOLEAN, Read(c, recover)
  PROVE  IntakeInv'
<1>0. /\ TypeOK /\ CallsHaveKeys /\ NamesAreFresh /\ KeysNameEntries /\ PositionsAreReal
      /\ RowsBeginAbsent /\ AcksFollowWrites /\ NothingLost /\ TrimmedIsUnblocked
  BY DEF IntakeInv
<1>1. UNCHANGED <<clock, dedup, entries, stream, idle, failures, letters, row, call, faults, retries>>
  BY DEF Read
<1> DEFINE S == {i \in stream : i > group.last}
           new == FirstOf(S, Count)
           m == CHOOSE i \in new : \A j \in new : j <= i
           r == [Down EXCEPT !.pc = IF recover THEN "page" ELSE "next",
                             !.phase = IF recover THEN "retry" ELSE "batch",
                             !.batch = new]
<1>2. /\ group' = (IF new = {} THEN group ELSE [group EXCEPT !.last = m])
      /\ pel' = [i \in Ids |-> IF i \in new THEN c ELSE pel[i]]
      /\ Moves(c, r)
  BY DEF Read
<1>3. /\ stream \subseteq 1..Len(entries) /\ Len(entries) \in Nat /\ Len(entries) <= MaxEntries
      /\ MaxEntries \in Nat /\ Count \in Nat /\ Nobody \notin Consumers
      /\ group \in [exists : BOOLEAN, start : Positions, last : Positions]
  BY <1>0, ConstantsAssumption DEF TypeOK
<1>4. S \subseteq 1..MaxEntries /\ new \subseteq S /\ new \subseteq Ids /\ new \subseteq 1..Len(entries)
  <2>1. S \subseteq stream /\ new \subseteq S
    BY DEF FirstOf
  <2> HIDE DEF S, new
  <2>2. \A i \in 1..Len(entries) : i \in 1..MaxEntries
    BY <1>3
  <2> QED BY <1>3, <2>1, <2>2 DEF Ids
<1>5. r \in ConsType /\ r.pc \notin Handling /\ r.batch = new /\ r.page = {} /\ r.claims = {}
  <2>1. new \in SUBSET Ids
    BY <1>4
  <2> HIDE DEF new
  <2> QED BY <2>1, DownIs DEF ConsType, Handling
<1>6. new # {} => m \in new /\ \A j \in new : j <= m
  <2>1. new \subseteq 0..MaxEntries
    BY <1>3, <1>4
  <2> HIDE DEF new
  <2> QED BY <1>3, <2>1, Greatest
<1>7. \A i \in S : new # {} /\ i < m => i \in new
  BY <1>3, <1>4, <1>6, FirstsBefore
<1>8. \A i \in new : i \in stream /\ i > group.last
  BY <1>4
<1>9. \A i \in stream : i > group.last => i \in S
  OBVIOUS
<1> HIDE DEF S, new, m, r
<1>10. cons' \in [Consumers -> ConsType] /\ cons'[c] = r /\ \A d \in Consumers : d # c => cons'[d] = cons[d]
  BY <1>0, <1>2, <1>5, TypesAre DEF Moves
<1>11. /\ group' \in [exists : BOOLEAN, start : Positions, last : Positions]
       /\ group'.exists = group.exists /\ group'.start = group.start
       /\ \/ group'.last = group.last
          \/ new # {} /\ group'.last = m
  <2>1. new # {} => m \in Positions
    <3>1. \A i \in Ids : i \in Positions
      BY <1>3 DEF Ids, Positions
    <3> QED BY <1>4, <1>6, <3>1
  <2> QED BY <1>2, <1>3, <2>1
<1>12. /\ pel' \in [Ids -> Consumers \cup {Nobody}]
       /\ \A i \in Ids : pel'[i] = IF i \in new THEN c ELSE pel[i]
  BY <1>0, <1>2 DEF TypeOK
<1>13. TypeOK'
  BY <1>0, <1>1, <1>10, <1>11, <1>12 DEF TypeOK, ConsType
<1>14. CallsHaveKeys' /\ NamesAreFresh' /\ KeysNameEntries' /\ TrimmedIsUnblocked' /\ RowsBeginAbsent'
  BY <1>0, <1>1
  DEF CallsHaveKeys, NamesAreFresh, KeysNameEntries, TrimmedIsUnblocked, DedupLive, RowsBeginAbsent
<1>15. PositionsAreReal'
  <2>1. group'.last <= Len(entries)
    BY <1>0, <1>3, <1>4, <1>6, <1>11 DEF PositionsAreReal
  <2>2. \A i \in Ids : pel'[i] # Nobody => i \in 1..Len(entries)
    BY <1>0, <1>4, <1>12 DEF PositionsAreReal
  <2>3. ASSUME NEW d \in Consumers
        PROVE  /\ cons'[d].pc \in Handling => cons'[d].id \in 1..Len(entries)
               /\ cons'[d].batch \subseteq 1..Len(entries) /\ cons'[d].claims \subseteq 1..Len(entries)
               /\ \A e \in cons'[d].page : e[1] \in 1..Len(entries) /\ (e[2] => e[1] \notin stream)
    BY <1>0, <1>4, <1>5, <1>10 DEF PositionsAreReal
  <2> QED BY <1>1, <2>1, <2>2, <2>3 DEF PositionsAreReal
<1>16. AcksFollowWrites'
  BY <1>0, <1>1, <1>5, <1>10 DEF AcksFollowWrites, Settled, At, KeyOf, Body, Handling
<1>17. NothingLost'
  <2> SUFFICES ASSUME NEW i \in stream, group.exists, i > group.start, Body(i) # "malformed" PROVE Accounted(i)'
    BY <1>1, <1>11 DEF NothingLost, Body
  <2>1. Accounted(i) /\ i \in Ids /\ i \in Nat /\ KeyOf(i)' = KeyOf(i)
    BY <1>0, <1>1, <1>3 DEF NothingLost, Ids, KeyOf
  <2>2. CASE i \in new
    BY <1>3, <1>12, <2>1, <2>2 DEF Accounted
  <2>3. CASE i \notin new /\ i > group.last
    <3>1. i > group'.last
      <4>1. i \in S
        BY <1>9, <2>3
      <4>2. ASSUME new # {}, group'.last = m PROVE i > m
        <5>1. m \in Nat /\ ~(i < m) /\ i # m
          <6>1. m \in new /\ m \in Ids
            BY <1>4, <1>6, <4>2
          <6>2. ~(i < m)
            BY <1>7, <2>3, <4>1, <4>2
          <6> QED BY <2>3, <6>1, <6>2 DEF Ids
        <5> QED BY <2>1, <5>1
      <4> QED BY <1>11, <2>3, <4>2
    <3> QED BY <3>1 DEF Accounted
  <2>4. CASE i \notin new /\ ~(i > group.last)
    BY <1>1, <1>12, <2>1, <2>4 DEF Accounted
  <2> QED BY <2>2, <2>3, <2>4
<1> QED BY <1>13, <1>14, <1>15, <1>16, <1>17 DEF IntakeInv

-----------------------------------------------------------------------------
(* Everything but the producers, their keys and the stream is as it was.        *)
LEMMA ProducerStep ==
  ASSUME IntakeInv, NEW p \in Producers, NEW x \in CallType, call' = [call EXCEPT ![p] = x],
         UNCHANGED <<clock, entries, stream, group, pel, idle, failures, letters, row, cons, retries>>,
         faults' \in Nat, x.pc # "idle" => x.key \in Keys, x.pc # "name",
         dedup' \in [Keys -> [until : Nat, id : Positions]],
         \A k \in Keys : \/ dedup'[k] = dedup[k] \/ dedup'[k].id = 0
                         \/ /\ dedup'[k].id \in stream
                            /\ dedup'[k].until <= entries[dedup'[k].id].at + DedupTTL
  PROVE  IntakeInv'
<1>0. /\ TypeOK /\ CallsHaveKeys /\ NamesAreFresh /\ KeysNameEntries /\ PositionsAreReal
      /\ RowsBeginAbsent /\ AcksFollowWrites /\ NothingLost /\ TrimmedIsUnblocked
  BY DEF IntakeInv
<1>1. call' \in [Producers -> CallType] /\ call'[p] = x /\ \A q \in Producers : q # p => call'[q] = call[q]
  BY <1>0, TypesAre
<1>2. TypeOK'
  BY <1>0, <1>1 DEF TypeOK, CallType
<1>3. CallsHaveKeys' /\ NamesAreFresh'
  BY <1>0, <1>1 DEF CallsHaveKeys, NamesAreFresh
<1>4. KeysNameEntries' /\ TrimmedIsUnblocked'
  BY <1>0 DEF KeysNameEntries, TrimmedIsUnblocked, DedupLive, TypeOK
<1>5. PositionsAreReal' /\ RowsBeginAbsent' /\ AcksFollowWrites' /\ NothingLost'
  BY <1>0
  DEF PositionsAreReal, RowsBeginAbsent, AcksFollowWrites, Settled, NothingLost, Accounted, At, KeyOf, Body
<1> QED BY <1>2, <1>3, <1>4, <1>5 DEF IntakeInv

(* The key is set, without an entry, or found.                                  *)
LEMMA EnqueueStep ==
  ASSUME IntakeInv, NEW p \in Producers, NEW k \in Keys, NEW kind \in Kinds, Enqueue(p, k, kind)
  PROVE  IntakeInv'
<1>0. TypeOK /\ 0 \in Positions
  BY ZerosAre DEF IntakeInv
<1>1. /\ UNCHANGED <<clock, entries, stream, group, pel, idle, failures, letters, row, cons, retries>>
      /\ faults' \in Nat
  BY <1>0 DEF Enqueue, TypeOK
<1> DEFINE pc == IF DedupLive(k) THEN "existing" ELSE "add"
           x == [pc |-> pc, key |-> k, kind |-> kind, id |-> 0]
<1>2. x \in CallType /\ x.pc \in {"existing", "add"} /\ x.key = k
  BY <1>0, ConstantsAssumption DEF CallType
<1>3. call' = [call EXCEPT ![p] = x]
  BY DEF Enqueue
<1> HIDE DEF x
<1>4. /\ dedup' \in [Keys -> [until : Nat, id : Positions]]
      /\ \A q \in Keys : dedup'[q] = dedup[q] \/ dedup'[q].id = 0
  <2>1. /\ dedup \in [Keys -> [until : Nat, id : Positions]]
        /\ [until |-> clock + DedupTTL, id |-> 0] \in [until : Nat, id : Positions]
    BY <1>0 DEF TypeOK, DedupTTL
  <2>2. dedup' = dedup \/ dedup' = [dedup EXCEPT ![k] = [until |-> clock + DedupTTL, id |-> 0]]
    BY DEF Enqueue, SetDedup
  <2> QED BY <2>1, <2>2
<1> QED BY <1>1, <1>2, <1>3, <1>4, ProducerStep

(* The call ends: the key is taken back, or names the entry, or stays.          *)
LEMMA CallEnds ==
  ASSUME IntakeInv, NEW p \in Producers, UndoDedup(p) \/ NameDedup(p) \/ ReturnExisting(p) \/ CrashProducer(p)
  PROVE  IntakeInv'
<1>0. TypeOK /\ 0 \in Positions /\ NamesAreFresh
  BY ZerosAre DEF IntakeInv
<1>1. /\ UNCHANGED <<clock, entries, stream, group, pel, idle, failures, letters, row, cons, retries>>
      /\ call' = [call EXCEPT ![p] = IdleCall]
  BY DEF UndoDedup, NameDedup, ReturnExisting, CrashProducer, redis
<1>2. faults' \in Nat
  BY <1>0, FaultIs DEF UndoDedup, NameDedup, ReturnExisting, CrashProducer, TypeOK
<1>3. IdleCall \in CallType /\ IdleCall.pc = "idle"
  BY <1>0 DEF IdleCall, CallType, BodyKinds
<1>4. /\ dedup' \in [Keys -> [until : Nat, id : Positions]]
      /\ \A k \in Keys : \/ dedup'[k] = dedup[k] \/ dedup'[k].id = 0
                         \/ /\ dedup'[k].id \in stream
                            /\ dedup'[k].until <= entries[dedup'[k].id].at + DedupTTL
  <2>1. dedup \in [Keys -> [until : Nat, id : Positions]] /\ clock \in Nat /\ call[p] \in CallType
    BY <1>0, TypesAre DEF TypeOK
  <2>2. CASE dedup' = dedup
    BY <2>1, <2>2
  <2>3. CASE dedup' = [dedup EXCEPT ![call[p].key] = [until |-> 0, id |-> 0]]
    <3>1. [until |-> 0, id |-> 0] \in [until : Nat, id : Positions]
      BY <1>0
    <3> QED BY <2>1, <2>3, <3>1
  <2>4. CASE call[p].pc = "name" /\ SetDedup(call[p].key, call[p].id)
    <3> DEFINE d == [until |-> clock + DedupTTL, id |-> call[p].id]
    <3>1. d \in [until : Nat, id : Positions] /\ d.until = clock + DedupTTL /\ d.id = call[p].id
      BY <2>1 DEF CallType, DedupTTL
    <3>2. dedup' = [dedup EXCEPT ![call[p].key] = d]
      BY <2>4 DEF SetDedup
    <3>3. call[p].id \in stream /\ clock + DedupTTL <= entries[call[p].id].at + DedupTTL
      BY <1>0, <2>1, <2>4 DEF NamesAreFresh, DedupTTL
    <3> HIDE DEF d
    <3> QED BY <2>1, <3>1, <3>2, <3>3
  <2> QED BY <2>2, <2>3, <2>4 DEF UndoDedup, NameDedup, ReturnExisting, CrashProducer, redis
<1> QED BY <1>1, <1>2, <1>3, <1>4, ProducerStep

(* XADD: the entry is new, and only expired ones go.                            *)
LEMMA AppendIs ==
  ASSUME TypeOK, NEW k \in Keys, NEW kind \in BodyKinds, Append1(k, kind)
  PROVE  /\ entries' \in Seq(Entry) /\ Len(entries)' = Len(entries) + 1 /\ Len(entries) + 1 <= MaxEntries
         /\ Len(entries) \in Nat
         /\ \A i \in 1..Len(entries) : entries'[i] = entries[i]
         /\ entries'[Len(entries) + 1].at = clock
         /\ stream' \subseteq stream \cup {Len(entries) + 1} /\ Len(entries) + 1 \in stream'
         /\ \A i \in stream : ~Expired(i) => i \in stream'
<1>1. /\ entries \in Seq(Entry) /\ clock \in Nat /\ Len(entries) \in Nat /\ MaxEntries \in Nat
      /\ Len(entries) < MaxEntries /\ stream \subseteq 1..Len(entries)
  BY ConstantsAssumption DEF TypeOK, Append1
<1> DEFINE e == [key |-> k, kind |-> kind, at |-> clock]
<1>2. e \in Entry /\ e.at = clock
  BY <1>1 DEF Entry
<1>3. entries' = Append(entries, e)
  BY DEF Append1
<1> HIDE DEF e
<1>4. /\ entries' \in Seq(Entry) /\ Len(entries') = Len(entries) + 1
      /\ \A i \in 1..Len(entries) : entries'[i] = entries[i]
      /\ entries'[Len(entries) + 1] = e
  BY <1>1, <1>2, <1>3
<1>5. PICK cut \in 0..Len(entries) : /\ \A i \in stream : i <= cut => Expired(i)
                                     /\ stream' = {i \in stream : i > cut} \cup {Len(entries) + 1}
  BY DEF Append1
<1>6. ASSUME NEW i \in stream, ~Expired(i) PROVE i \in stream'
  BY <1>1, <1>5, <1>6
<1> QED BY <1>1, <1>2, <1>4, <1>5, <1>6

(* A producer adds its entry, or fails to.                                      *)
LEMMA AddStep ==
  ASSUME IntakeInv, NEW p \in Producers, AddToStream(p)
  PROVE  IntakeInv'
<1>0. /\ TypeOK /\ CallsHaveKeys /\ NamesAreFresh /\ KeysNameEntries /\ PositionsAreReal
      /\ RowsBeginAbsent /\ AcksFollowWrites /\ NothingLost /\ TrimmedIsUnblocked
  BY DEF IntakeInv
<1>1. /\ UNCHANGED <<clock, dedup, group, pel, idle, failures, letters, row, cons, retries>>
      /\ call[p].pc = "add" /\ call[p] \in CallType /\ call[p].key \in Keys /\ call[p].kind \in BodyKinds
  BY <1>0, TypesAre DEF AddToStream, CallsHaveKeys, CallType
<1>2. faults' \in Nat
  BY <1>0, FaultIs DEF AddToStream
<1>3. /\ Len(entries) \in Nat /\ clock \in Nat /\ stream \subseteq 1..Len(entries) /\ MaxEntries \in Nat
      /\ \A i \in 1..Len(entries) : entries[i].at \in Nat
  BY <1>0, EntryIs, ConstantsAssumption DEF TypeOK
<1>4. CASE /\ call' = [call EXCEPT ![p].pc = "undo"] /\ UNCHANGED <<entries, stream>>
  <2> DEFINE x == [call[p] EXCEPT !.pc = "undo"]
  <2>1. x \in CallType /\ x.pc = "undo" /\ x.key = call[p].key
    BY <1>1 DEF CallType
  <2>2. call' = [call EXCEPT ![p] = x]
    BY <1>4
  <2> HIDE DEF x
  <2>3. dedup' \in [Keys -> [until : Nat, id : Positions]] /\ dedup' = dedup
    BY <1>0, <1>1 DEF TypeOK
  <2> QED BY <1>1, <1>2, <1>4, <2>1, <2>2, <2>3, ProducerStep
<1>5. ASSUME Append1(call[p].key, call[p].kind), NEW x \in CallType, call' = [call EXCEPT ![p] = x],
             x.key = call[p].key, x.pc = "undo" \/ (x.pc = "name" /\ x.id = Len(entries) + 1)
      PROVE  IntakeInv'
  <2> DEFINE n == Len(entries) + 1
  <2>1. /\ entries' \in Seq(Entry) /\ Len(entries)' = n /\ n <= MaxEntries
        /\ \A i \in 1..Len(entries) : entries'[i] = entries[i]
        /\ entries'[n].at = clock
        /\ stream' \subseteq stream \cup {n} /\ n \in stream'
        /\ \A i \in stream : ~Expired(i) => i \in stream'
    BY <1>0, <1>1, <1>5, AppendIs
  <2>2. call' \in [Producers -> CallType] /\ call'[p] = x /\ \A q \in Producers : q # p => call'[q] = call[q]
    BY <1>0, <1>5, TypesAre
  <2>3. \A i \in 1..Len(entries) : /\ i \in 1..n /\ i # n /\ i \in Ids
                                   /\ KeyOf(i)' = KeyOf(i) /\ Body(i)' = Body(i)
                                   /\ (i \notin stream => i \notin stream')
    BY <1>3, <2>1 DEF KeyOf, Body, Ids
  <2>4. n \in Nat /\ n \in Ids /\ stream' \subseteq 1..n
    BY <1>3, <2>1 DEF Ids
  <2> HIDE DEF n
  <2>5. TypeOK'
    BY <1>0, <1>1, <1>2, <2>1, <2>2, <2>4 DEF TypeOK, CallType
  <2>6. CallsHaveKeys'
    BY <1>0, <1>1, <1>5, <2>2 DEF CallsHaveKeys
  <2>7. \A i \in 1..Len(entries) : entries[i].at + DedupTTL > clock => ~Expired(i)
    BY <1>3 DEF Expired, Horizon, DedupTTL
  <2>8. NamesAreFresh'
    <3> SUFFICES ASSUME NEW q \in Producers, call'[q].pc = "name"
                 PROVE  call'[q].id \in stream' /\ entries'[call'[q].id].at = clock
      BY <1>1 DEF NamesAreFresh
    <3>1. CASE q = p
      BY <1>5, <2>1, <2>2, <3>1 DEF n
    <3>2. CASE q # p
      <4>1. call'[q] = call[q] /\ call[q].id \in stream /\ entries[call[q].id].at = clock
        BY <1>0, <2>2, <3>2 DEF NamesAreFresh
      <4>2. ~Expired(call[q].id) /\ call[q].id \in 1..Len(entries)
        <5>1. call[q].id \in 1..Len(entries)
          BY <1>3, <4>1
        <5>2. ~(clock + Horizon <= clock)
          BY <1>3 DEF Horizon
        <5> QED BY <4>1, <5>1, <5>2 DEF Expired
      <4> QED BY <2>1, <4>1, <4>2
    <3> QED BY <3>1, <3>2
  <2>9. KeysNameEntries'
    BY <1>0, <1>1, <2>1, <2>3 DEF KeysNameEntries
  <2>10. TrimmedIsUnblocked'
    <3> SUFFICES ASSUME NEW k \in Keys, dedup[k].until > clock, dedup[k].id # 0 PROVE dedup[k].id \in stream'
      BY <1>1 DEF TrimmedIsUnblocked, DedupLive
    <3>1. dedup[k].id \in stream
      BY <1>0 DEF TrimmedIsUnblocked, DedupLive
    <3>2. /\ dedup[k].id \in 1..Len(entries) /\ dedup[k].until <= entries[dedup[k].id].at + DedupTTL
          /\ dedup[k].until \in Nat
      BY <1>0 DEF KeysNameEntries, TypeOK
    <3>3. entries[dedup[k].id].at + DedupTTL > clock
      BY <1>3, <3>2 DEF DedupTTL
    <3> QED BY <2>1, <2>7, <3>1, <3>2, <3>3
  <2>11. PositionsAreReal'
    <3>1. group.last <= n
      BY <1>0, <1>3 DEF PositionsAreReal, TypeOK, Positions, n
    <3> QED BY <1>0, <1>1, <2>1, <2>3, <3>1 DEF PositionsAreReal
  <2>12. RowsBeginAbsent'
    BY <1>0, <1>1 DEF RowsBeginAbsent
  <2>13. AcksFollowWrites'
    BY <1>0, <1>1, <2>3 DEF AcksFollowWrites, Settled, At, PositionsAreReal, Handling
  <2>14. NothingLost'
    <3> SUFFICES ASSUME NEW i \in stream', group.exists, i > group.start, Body(i)' # "malformed"
                 PROVE  Accounted(i)'
      BY <1>1 DEF NothingLost
    <3>1. CASE i \in stream
      BY <1>0, <1>1, <1>3, <2>3, <3>1 DEF NothingLost, Accounted
    <3>2. CASE i = n
      <4>1. i > group.last
        BY <1>0, <1>3, <3>2 DEF PositionsAreReal, TypeOK, Positions, n
      <4> QED BY <1>1, <4>1 DEF Accounted
    <3> QED BY <2>1, <3>1, <3>2
  <2> QED BY <2>5, <2>6, <2>8, <2>9, <2>10, <2>11, <2>12, <2>13, <2>14 DEF IntakeInv
<1>6. ASSUME Append1(call[p].key, call[p].kind), call' = [call EXCEPT ![p].pc = "undo"] PROVE IntakeInv'
  <2> DEFINE x == [call[p] EXCEPT !.pc = "undo"]
  <2>1. x \in CallType /\ x.pc = "undo" /\ x.key = call[p].key
    BY <1>1 DEF CallType
  <2>2. call' = [call EXCEPT ![p] = x]
    BY <1>6
  <2> HIDE DEF x
  <2> QED BY <1>5, <1>6, <2>1, <2>2
<1>7. ASSUME Append1(call[p].key, call[p].kind),
             call' = [call EXCEPT ![p].pc = "name", ![p].id = Len(entries) + 1]
      PROVE  IntakeInv'
  <2> DEFINE x == [call[p] EXCEPT !.pc = "name", !.id = Len(entries) + 1]
  <2>1. Len(entries) + 1 \in Positions
    BY <1>3, <1>7 DEF Append1, Positions
  <2>2. x \in CallType /\ x.pc = "name" /\ x.key = call[p].key /\ x.id = Len(entries) + 1
    BY <1>1, <2>1 DEF CallType
  <2>3. call' = [call EXCEPT ![p] = x]
    <3>1. call \in [Producers -> CallType]
      BY <1>0, TypesAre
    <3> QED BY <1>7, <3>1 DEF CallType
  <2> HIDE DEF x
  <2> QED BY <1>5, <1>7, <2>2, <2>3
<1> QED BY <1>4, <1>6, <1>7 DEF AddToStream

-----------------------------------------------------------------------------
(* Idle entries, a week, the runner and the operator.                           *)
LEMMA AroundStep ==
  ASSUME IntakeInv,
         (\E i \in Ids : GoesIdle(i)) \/ (\E k \in Keys : RunnerStarts(k) \/ Revive(k)) \/ WeekPasses
  PROVE  IntakeInv'
<1>0. /\ TypeOK /\ CallsHaveKeys /\ NamesAreFresh /\ KeysNameEntries /\ PositionsAreReal
      /\ RowsBeginAbsent /\ AcksFollowWrites /\ NothingLost /\ TrimmedIsUnblocked
  BY DEF IntakeInv
<1>1. ASSUME NEW i \in Ids, GoesIdle(i) PROVE IntakeInv'
  <2>1. /\ UNCHANGED <<clock, dedup, entries, stream, group, pel, failures, letters, row, call, cons, faults, retries>>
        /\ idle' = idle \cup {i}
    BY <1>1 DEF GoesIdle
  <2> QED BY <1>0, <2>1 DEF IntakeInv, TypeOK, CallsHaveKeys, NamesAreFresh, KeysNameEntries, PositionsAreReal,
    RowsBeginAbsent, AcksFollowWrites, Settled, NothingLost, Accounted, TrimmedIsUnblocked, DedupLive,
    At, KeyOf, Body
<1>2. CASE WeekPasses
  <2>1. /\ UNCHANGED <<dedup, entries, stream, group, pel, idle, failures, letters, row, call, cons, faults, retries>>
        /\ clock' = clock + 1 /\ clock \in Nat /\ \A p \in Producers : call[p].pc = "idle"
    BY <1>0, <1>2 DEF WeekPasses, redis, TypeOK
  <2>2. TypeOK' /\ CallsHaveKeys' /\ KeysNameEntries' /\ PositionsAreReal' /\ RowsBeginAbsent'
    BY <1>0, <2>1 DEF TypeOK, CallsHaveKeys, KeysNameEntries, PositionsAreReal, RowsBeginAbsent
  <2>3. NamesAreFresh'
    BY <2>1 DEF NamesAreFresh
  <2>4. AcksFollowWrites' /\ NothingLost'
    BY <1>0, <2>1 DEF AcksFollowWrites, Settled, NothingLost, Accounted, At, KeyOf, Body
  <2>5. TrimmedIsUnblocked'
    <3>1. \A k \in Keys : dedup[k].until \in Nat
      BY <1>0 DEF TypeOK
    <3> QED BY <1>0, <2>1, <3>1 DEF TrimmedIsUnblocked, DedupLive
  <2> QED BY <2>2, <2>3, <2>4, <2>5 DEF IntakeInv
<1>3. ASSUME NEW k \in Keys, RunnerStarts(k) \/ Revive(k) PROVE IntakeInv'
  <2>1. PICK s \in {"running", "queued"} : row' = [row EXCEPT ![k].status = s]
    BY <1>3 DEF RunnerStarts, Revive
  <2>2. /\ UNCHANGED <<clock, dedup, entries, stream, group, pel, idle, failures, letters, call, cons, faults>>
        /\ row[k].status # "absent" /\ retries' \in Nat
    BY <1>0, <1>3 DEF RunnerStarts, Revive, redis, TypeOK
  <2> DEFINE e == [row[k] EXCEPT !.status = s]
  <2>3. e \in RowType /\ e.status = s
    BY <1>0, TypesAre DEF RowType
  <2>4. row' = [row EXCEPT ![k] = e]
    BY <2>1
  <2> HIDE DEF e
  <2>5. /\ row' \in [Keys -> RowType] /\ row'[k].status # "absent"
        /\ \A q \in Keys : q # k => row'[q] = row[q]
    BY <1>0, <2>3, <2>4, TypesAre
  <2>6. TypeOK'
    BY <1>0, <2>2, <2>5 DEF TypeOK, RowType
  <2>7. /\ CallsHaveKeys' /\ NamesAreFresh' /\ KeysNameEntries' /\ PositionsAreReal'
        /\ RowsBeginAbsent' /\ TrimmedIsUnblocked'
    BY <1>0, <2>2, <2>5 DEF CallsHaveKeys, NamesAreFresh, KeysNameEntries, PositionsAreReal, RowsBeginAbsent,
      TrimmedIsUnblocked, DedupLive
  <2>8. \A i \in 1..Len(entries) : KeyOf(i) \in Keys /\ KeyOf(i)' = KeyOf(i) /\ Body(i)' = Body(i)
    BY <1>0, <2>2, EntryIs DEF KeyOf, Body
  <2>9. \A q \in Keys : row[q].status # "absent" => row'[q].status # "absent"
    BY <2>5
  <2>10. AcksFollowWrites'
    BY <1>0, <2>2, <2>8, <2>9 DEF AcksFollowWrites, Settled, At, PositionsAreReal, Handling
  <2>11. NothingLost'
    BY <1>0, <2>2, <2>8, <2>9 DEF NothingLost, Accounted, TypeOK
  <2> QED BY <2>6, <2>7, <2>10, <2>11 DEF IntakeInv
<1> QED BY <1>1, <1>2, <1>3

-----------------------------------------------------------------------------
(* Nothing was asked for at first.                                              *)
LEMMA IntakeInit == Init => IntakeInv
<1> SUFFICES ASSUME Init PROVE IntakeInv
  OBVIOUS
<1>1. 0 \in Positions /\ 0 \in Nat /\ IdleCall \in CallType /\ NoRow \in RowType /\ NoRow.status = "absent"
  BY ZerosAre DEF IdleCall, CallType, BodyKinds, NoRow, RowType
<1>2. /\ \A k \in Keys : row[k] = NoRow /\ dedup[k].id = 0
      /\ \A p \in Producers : call[p] = IdleCall /\ call[p].pc = "idle"
      /\ \A c \in Consumers : cons[c] = Down
      /\ \A i \in Ids : pel[i] = Nobody
      /\ stream = {} /\ Len(entries) = 0 /\ group.last = 0
  BY DEF Init, IdleCall
<1>3. MaxEntries \in Nat /\ entries = <<>> /\ entries \in Seq(Entry)
  BY ConstantsAssumption DEF Init
<1>4. dedup \in [Keys -> [until : Nat, id : Positions]]
  BY <1>1 DEF Init
<1>5. group \in [exists : BOOLEAN, start : Positions, last : Positions]
  BY <1>1 DEF Init
<1>6. /\ row \in [Keys -> RowType] /\ call \in [Producers -> CallType] /\ cons \in [Consumers -> ConsType]
      /\ pel \in [Ids -> Consumers \cup {Nobody}] /\ failures \in [Ids -> Nat]
  BY <1>1, DownIs DEF Init
<1>7. TypeOK
  BY <1>2, <1>3, <1>4, <1>5, <1>6 DEF Init, TypeOK, RowType, CallType, ConsType
<1>8. CallsHaveKeys /\ NamesAreFresh /\ KeysNameEntries /\ RowsBeginAbsent
  BY <1>1, <1>2 DEF CallsHaveKeys, NamesAreFresh, KeysNameEntries, RowsBeginAbsent
<1>9. PositionsAreReal /\ AcksFollowWrites
  BY <1>2, DownIs DEF PositionsAreReal, AcksFollowWrites, At, Handling
<1>10. NothingLost /\ TrimmedIsUnblocked
  BY <1>2 DEF NothingLost, TrimmedIsUnblocked
<1> QED BY <1>7, <1>8, <1>9, <1>10 DEF IntakeInv

(* Every step keeps the invariant.                                              *)
LEMMA IntakeStep ==
  ASSUME IntakeInv, [Next]_vars
  PROVE  IntakeInv'
<1>1. CASE UNCHANGED vars
  BY <1>1 DEF vars, redis, IntakeInv, TypeOK, CallsHaveKeys, NamesAreFresh, KeysNameEntries, PositionsAreReal,
    RowsBeginAbsent, AcksFollowWrites, Settled, NothingLost, Accounted, TrimmedIsUnblocked, DedupLive,
    At, KeyOf, Body
<1>2. ASSUME NEW p \in Producers, NEW k \in Keys, NEW kind \in Kinds, Enqueue(p, k, kind) PROVE IntakeInv'
  BY <1>2, EnqueueStep
<1>3. ASSUME NEW p \in Producers,
             AddToStream(p) \/ UndoDedup(p) \/ NameDedup(p) \/ ReturnExisting(p) \/ CrashProducer(p)
      PROVE  IntakeInv'
  BY <1>3, AddStep, CallEnds
<1>4. ASSUME NEW c \in Consumers, Boot(c) \/ CrashConsumer(c) \/ Proceed(c) PROVE IntakeInv'
  BY <1>4, BootStep, CrashStep, PageStep, ListStep, ClaimStep, NextStep, PersistStep, KillStep, AckStep,
     TallyStep, BuryStep DEF Proceed
<1>5. ASSUME NEW c \in Consumers, NEW recover \in BOOLEAN, Read(c, recover) PROVE IntakeInv'
  BY <1>5, ReadStep
<1>6. CASE (\E i \in Ids : GoesIdle(i)) \/ (\E k \in Keys : RunnerStarts(k) \/ Revive(k)) \/ WeekPasses
  BY <1>6, AroundStep
<1> QED BY <1>1, <1>2, <1>3, <1>4, <1>5, <1>6 DEF Next

(* So it holds throughout.                                                      *)
LEMMA IntakeHolds == Spec => []IntakeInv
BY IntakeInit, IntakeStep, PTL DEF Spec

(* The variables have the types the module gives them, for any numbers of       *)
(* producers, consumers, keys and entries.                                      *)
THEOREM IntakeTypeCorrect == Spec => []TypeOK
BY IntakeHolds, PTL DEF IntakeInv

(* An entry the group can deliver is never dropped on the way to sync_jobs,     *)
(* whatever crashes, fails, is delivered again or is reclaimed: it waits, is    *)
(* pending, is a dead letter or has its row (JobIntakeConsumer).                *)
THEOREM NothingIsLost == Spec => []NothingLost
BY IntakeHolds, PTL DEF IntakeInv

(* And a request whose entry retention took can be made again: the dedup key of *)
(* enqueueJob never outlives the entry it names (stream-retention.ts).          *)
THEOREM RequestsAreKept == Spec => []RequestsKept
<1>1. IntakeInv => RequestsKept
  BY DEF IntakeInv, RequestsKept
<1> QED BY <1>1, IntakeHolds, PTL

-----------------------------------------------------------------------------
(* WebhookGate.                                                                 *)
Tx == [pc : {"idle", "job", "select", "row", "commit"}, jobs : {0, GateJobs}, next : 1..GateJobs + 1,
       wrote : SUBSET GateKeys, row : {"none", "deadlettered", "job_enqueued"}]

(* What DeliveryTellsTruth rests on.  A key is among the writes of one          *)
(* transaction at most, and one row is: that is what waiting for it is for.     *)
WritesApart ==
  \A i, o \in Ingests : i # o => ingest[i].wrote \cap ingest[o].wrote = {}
RowsApart ==
  \A i, o \in Ingests : i # o /\ ingest[i].row # "none" => ingest[o].row = "none"

(* What a transaction has got through: every job before the next one is in its  *)
(* writes or was written before, and it gets to the row after the last.         *)
Done(tx) == CASE tx.pc \in {"row", "commit"} -> 1..tx.jobs
              [] tx.pc \in {"job", "select"} -> 1..tx.next - 1
              [] OTHER -> {}
TxThrough(tx) ==
  /\ \A k \in Done(tx) : k \in tx.wrote \/ gateMade[k] > 0
  /\ tx.wrote \subseteq 1..tx.jobs
  /\ tx.pc \in {"job", "select"} => tx.jobs = GateJobs /\ tx.next \in GateKeys

(* A row that is about to be committed is the one the transaction's jobs call   *)
(* for, given the row that is there.                                            *)
TxRow(tx) ==
  /\ tx.row # "none" => tx.pc = "commit"
  /\ tx.pc = "commit" /\ tx.jobs > 0 =>
       tx.row = "job_enqueued" \/ (tx.row = "none" /\ delivery = "job_enqueued")
  /\ tx.pc = "commit" /\ tx.jobs = 0 =>
       tx.row = "deadlettered" \/ (tx.row = "none" /\ delivery # "none")
  /\ tx.row = "deadlettered" => delivery = "none"

TxOK(tx) == TxThrough(tx) /\ TxRow(tx)

(* A stored row was written.                                                    *)
StoredMade == \A k \in gateStored : gateMade[k] > 0

GInv ==
  /\ GateTypeOK
  /\ WritesApart /\ RowsApart
  /\ \A i \in Ingests : TxOK(ingest[i])
  /\ StoredMade
  /\ DeliveryTellsTruth

LEMMA NoIngestOK == NoIngest \in Tx /\ TxOK(NoIngest)
BY GateAssumption DEF NoIngest, Tx, TxOK, TxThrough, TxRow, Done, GateKeys

LEMMA GateInitInv == GateInit => GInv
<1> SUFFICES ASSUME GateInit PROVE GInv
  OBVIOUS
<1>1. GateTypeOK
  BY NoIngestOK DEF GateInit, GateTypeOK, Tx
<1>2. WritesApart /\ RowsApart
  BY DEF GateInit, WritesApart, RowsApart, NoIngest
<1>3. \A i \in Ingests : TxOK(ingest[i])
  BY NoIngestOK DEF GateInit
<1>4. StoredMade /\ DeliveryTellsTruth
  BY DEF GateInit, StoredMade, DeliveryTellsTruth
<1> QED BY <1>1, <1>2, <1>3, <1>4 DEF GInv

(* A statement that changes one transaction, and no committed row.              *)
LEMMA TxStep ==
  ASSUME GInv, NEW i \in Ingests, NEW tx \in Tx,
         ingest' = [ingest EXCEPT ![i] = tx],
         UNCHANGED <<gateStored, gateMade, delivery>>,
         gateRouted' \in BOOLEAN, gateFaults' \in Nat,
         TxOK(tx),
         \A o \in Others(i) : tx.wrote \cap ingest[o].wrote = {},
         tx.row # "none" => \A o \in Others(i) : ingest[o].row = "none"
  PROVE  GInv'
<1>1. GateTypeOK'
  BY DEF GInv, GateTypeOK, Tx
<1>2. \A o \in Ingests : ingest'[o] = IF o = i THEN tx ELSE ingest[o]
  BY DEF GInv, GateTypeOK
<1>3. WritesApart'
  BY <1>2 DEF GInv, WritesApart, Others
<1>4. RowsApart'
  <2> SUFFICES ASSUME NEW j \in Ingests, NEW o \in Ingests, j # o, ingest'[j].row # "none"
               PROVE  ingest'[o].row = "none"
    BY DEF RowsApart
  <2>1. CASE j = i
    BY <2>1, <1>2 DEF Others
  <2>2. CASE j # i /\ o = i
    BY <2>2, <1>2 DEF Others
  <2>3. CASE j # i /\ o # i
    BY <2>3, <1>2 DEF GInv, RowsApart
  <2> QED BY <2>1, <2>2, <2>3
<1>5. \A o \in Ingests : TxOK(ingest[o])'
  BY <1>2 DEF GInv, TxOK, TxThrough, TxRow, Done
<1>6. StoredMade' /\ DeliveryTellsTruth'
  BY DEF GInv, StoredMade, DeliveryTellsTruth
<1> QED BY <1>1, <1>3, <1>4, <1>5, <1>6 DEF GInv

(* The job at hand is written, or was: the transaction goes on.                 *)
TxGoesOn(tx, wrote) == [Onward(tx) EXCEPT !.wrote = wrote]

LEMMA GoesOnFields ==
  ASSUME NEW old \in Tx, NEW wrote, NEW tx, tx = TxGoesOn(old, wrote)
  PROVE  /\ tx = [pc |-> tx.pc, jobs |-> tx.jobs, next |-> tx.next, wrote |-> tx.wrote, row |-> tx.row]
         /\ tx.pc = IF old.next < old.jobs THEN "job" ELSE "row"
         /\ tx.jobs = old.jobs /\ tx.next = old.next + 1 /\ tx.wrote = wrote /\ tx.row = old.row
<1>1. tx = [pc |-> tx.pc, jobs |-> tx.jobs, next |-> tx.next, wrote |-> tx.wrote, row |-> tx.row]
  BY DEF TxGoesOn, Onward, Tx
<1>2. tx.pc = IF old.next < old.jobs THEN "job" ELSE "row"
  BY DEF TxGoesOn, Onward, Tx
<1>3. tx.jobs = old.jobs /\ tx.next = old.next + 1 /\ tx.wrote = wrote /\ tx.row = old.row
  BY DEF TxGoesOn, Onward, Tx
<1> QED BY <1>1, <1>2, <1>3

LEMMA OnwardOK ==
  ASSUME GInv, NEW i \in Ingests, ingest[i].pc \in {"job", "select"},
         NEW wrote \in SUBSET GateKeys,
         ingest[i].wrote \subseteq wrote,
         ingest[i].next \in wrote \/ gateMade[ingest[i].next] > 0
  PROVE  /\ TxGoesOn(ingest[i], wrote) \in Tx
         /\ TxOK(TxGoesOn(ingest[i], wrote))
         /\ TxGoesOn(ingest[i], wrote).row = "none"
         /\ TxGoesOn(ingest[i], wrote).wrote = wrote
<1> USE GateAssumption
<1> DEFINE tx == TxGoesOn(ingest[i], wrote)
<1>1. ingest[i] \in Tx /\ TxThrough(ingest[i]) /\ TxRow(ingest[i])
  BY DEF GInv, GateTypeOK, Tx, TxOK
<1>2. ingest[i].next \in GateKeys /\ ingest[i].jobs = GateJobs /\ ingest[i].row = "none"
  BY <1>1 DEF TxThrough, TxRow, Tx
<1>3. /\ tx = [pc |-> tx.pc, jobs |-> tx.jobs, next |-> tx.next, wrote |-> tx.wrote, row |-> tx.row]
      /\ tx.pc = IF ingest[i].next < GateJobs THEN "job" ELSE "row"
      /\ tx.jobs = GateJobs /\ tx.next = ingest[i].next + 1 /\ tx.wrote = wrote /\ tx.row = "none"
  <2> HIDE DEF tx
  <2>1. tx = TxGoesOn(ingest[i], wrote)
    BY DEF tx
  <2> QED BY <1>1, <1>2, <2>1, GoesOnFields
<1> HIDE DEF tx
<1>4. tx \in Tx /\ tx.row = "none" /\ tx.wrote = wrote
  BY <1>2, <1>3 DEF Tx, GateKeys
<1>5. Done(tx) = 1..ingest[i].next
  BY <1>2, <1>3 DEF Done, GateKeys
<1>6. \A k \in Done(tx) : k \in tx.wrote \/ gateMade[k] > 0
  BY <1>1, <1>2, <1>3, <1>5 DEF TxThrough, Done, GateKeys
<1>7. TxOK(tx)
  BY <1>2, <1>3, <1>6 DEF TxOK, TxThrough, TxRow, GateKeys
<1> QED BY <1>4, <1>7 DEF tx

LEMMA GateStepInv == GInv /\ [GateNext]_gateVars => GInv'
<1> SUFFICES ASSUME GInv, [GateNext]_gateVars PROVE GInv'
  OBVIOUS
<1> USE GateAssumption
<1>0. /\ \A i \in Ingests : ingest[i] \in Tx /\ TxThrough(ingest[i]) /\ TxRow(ingest[i])
      /\ gateRouted \in BOOLEAN /\ gateFaults \in Nat /\ ingest \in [Ingests -> Tx]
  BY DEF GInv, GateTypeOK, Tx, TxOK
<1>1. ASSUME NEW i \in Ingests, Receive(i) PROVE GInv'
  <2> DEFINE tx == IF gateRouted THEN [NoIngest EXCEPT !.pc = "job", !.jobs = GateJobs]
                                 ELSE [NoIngest EXCEPT !.pc = "row"]
  <2>1. tx \in Tx /\ tx.wrote = {} /\ tx.row = "none"
    <3>1. CASE gateRouted
      <4>1. tx = [pc |-> "job", jobs |-> GateJobs, next |-> 1, wrote |-> {}, row |-> "none"]
        BY <3>1 DEF NoIngest
      <4> HIDE DEF tx
      <4> QED BY <4>1 DEF Tx, GateKeys
    <3>2. CASE ~gateRouted
      <4>1. tx = [pc |-> "row", jobs |-> 0, next |-> 1, wrote |-> {}, row |-> "none"]
        BY <3>2 DEF NoIngest
      <4> HIDE DEF tx
      <4> QED BY <4>1 DEF Tx, GateKeys
    <3> QED BY <3>1, <3>2
  <2>2. TxOK(tx)
    BY <1>0 DEF TxOK, TxThrough, TxRow, Done, NoIngest, GateKeys
  <2>3. /\ ingest' = [ingest EXCEPT ![i] = tx]
        /\ UNCHANGED <<gateRouted, gateStored, gateMade, delivery, gateFaults>>
    BY <1>1 DEF Receive
  <2> HIDE DEF tx
  <2> QED BY <1>0, <2>1, <2>2, <2>3, TxStep
<1>2. ASSUME NEW i \in Ingests, InsertJob(i) PROVE GInv'
  <2> DEFINE k == ingest[i].next
  <2>1. /\ ingest[i].pc = "job" /\ k \in GateKeys
        /\ \A o \in Others(i) : k \notin ingest[o].wrote
        /\ UNCHANGED <<gateRouted, gateStored, gateMade, delivery, gateFaults>>
    BY <1>0, <1>2 DEF InsertJob, GateAt, TxThrough
  <2>2. CASE k \in gateStored
    <3> DEFINE tx == [ingest[i] EXCEPT !.pc = "select"]
    <3>1. ingest' = [ingest EXCEPT ![i] = tx]
      BY <1>0, <1>2, <2>2 DEF InsertJob
    <3>2. tx \in Tx /\ tx.wrote = ingest[i].wrote /\ tx.row = "none"
      BY <1>0, <2>1 DEF Tx, TxRow
    <3>3. TxOK(tx)
      BY <1>0, <2>1, <3>2 DEF TxOK, TxThrough, TxRow, Done, Tx
    <3>4. \A o \in Others(i) : tx.wrote \cap ingest[o].wrote = {}
      BY <3>2 DEF GInv, WritesApart, Others
    <3> HIDE DEF tx
    <3> QED BY <1>0, <2>1, <3>1, <3>2, <3>3, <3>4, TxStep
  <2>3. CASE k \notin gateStored
    <3> DEFINE wrote == ingest[i].wrote \cup {k}
               tx == TxGoesOn(ingest[i], wrote)
    <3>1. ingest' = [ingest EXCEPT ![i] = tx]
      BY <1>2, <2>3 DEF InsertJob, TxGoesOn
    <3>2. wrote \in SUBSET GateKeys /\ ingest[i].wrote \subseteq wrote /\ k \in wrote
      BY <1>0, <2>1 DEF Tx
    <3> HIDE DEF wrote
    <3>3. tx \in Tx /\ TxOK(tx) /\ tx.row = "none" /\ tx.wrote = wrote
      BY <2>1, <3>2, OnwardOK
    <3>4. \A o \in Others(i) : tx.wrote \cap ingest[o].wrote = {}
      BY <2>1, <3>3 DEF GInv, WritesApart, Others, wrote
    <3> HIDE DEF tx
    <3> QED BY <1>0, <2>1, <3>1, <3>3, <3>4, TxStep
  <2> QED BY <2>2, <2>3
<1>3. ASSUME NEW i \in Ingests, SelectJob(i) PROVE GInv'
  <2>1. /\ ingest[i].pc = "select" /\ ingest[i].row = "none"
        /\ UNCHANGED <<gateRouted, gateStored, gateMade, delivery, gateFaults>>
    BY <1>0, <1>3 DEF SelectJob, GateAt, TxRow
  <2>2. CASE ingest[i].next \in gateStored
    <3> DEFINE tx == TxGoesOn(ingest[i], ingest[i].wrote)
    <3>1. ingest' = [ingest EXCEPT ![i] = tx]
      <4>1. Onward(ingest[i]) = tx
        BY <1>0 DEF TxGoesOn, Onward, Tx
      <4> QED BY <1>3, <2>2, <4>1 DEF SelectJob
    <3>3. gateMade[ingest[i].next] > 0 /\ ingest[i].wrote \in SUBSET GateKeys
      BY <1>0, <2>2 DEF GInv, StoredMade, Tx
    <3>4. tx \in Tx /\ TxOK(tx) /\ tx.row = "none" /\ tx.wrote = ingest[i].wrote
      BY <2>1, <3>3, OnwardOK
    <3>5. \A o \in Others(i) : tx.wrote \cap ingest[o].wrote = {}
      BY <3>4 DEF GInv, WritesApart, Others
    <3> HIDE DEF tx
    <3> QED BY <1>0, <2>1, <3>1, <3>4, <3>5, TxStep
  <2>3. CASE ingest[i].next \notin gateStored
    <3>1. ingest' = [ingest EXCEPT ![i] = NoIngest]
      BY <1>3, <2>3 DEF SelectJob
    <3>2. NoIngest.wrote = {} /\ NoIngest.row = "none"
      BY DEF NoIngest
    <3> QED BY <1>0, <2>1, <3>1, <3>2, NoIngestOK, TxStep
  <2> QED BY <2>2, <2>3
<1>4. ASSUME NEW i \in Ingests, WriteRow(i) PROVE GInv'
  <2> DEFINE tx == [ingest[i] EXCEPT !.pc = "commit", !.row = RowAfter(ingest[i])]
  <2>1. /\ ingest[i].pc = "row" /\ \A o \in Others(i) : ingest[o].row = "none"
        /\ UNCHANGED <<gateRouted, gateStored, gateMade, delivery, gateFaults>>
    BY <1>4 DEF WriteRow, GateAt
  <2>2. ingest' = [ingest EXCEPT ![i] = tx]
    BY <1>0, <1>4 DEF WriteRow
  <2>3. tx \in Tx /\ tx.wrote = ingest[i].wrote /\ tx.jobs = ingest[i].jobs /\ tx.pc = "commit"
        /\ tx.row = RowAfter(ingest[i])
    BY <1>0 DEF Tx, RowAfter
  <2> HIDE DEF tx
  <2>4. TxThrough(tx)
    BY <1>0, <2>1, <2>3 DEF TxThrough, Done
  <2>5. TxRow(tx)
    <3>1. delivery \in {"none", "deadlettered", "job_enqueued"} /\ ingest[i].jobs \in Nat
      BY <1>0 DEF GInv, GateTypeOK, Tx
    <3> QED BY <2>3, <3>1 DEF TxRow, RowAfter
  <2>6. \A o \in Others(i) : tx.wrote \cap ingest[o].wrote = {}
    BY <2>3 DEF GInv, WritesApart, Others
  <2> QED BY <1>0, <2>1, <2>2, <2>3, <2>4, <2>5, <2>6, TxStep DEF TxOK
<1>5. ASSUME NEW i \in Ingests, CommitGate(i) PROVE GInv'
  <2> DEFINE tx == ingest[i]
  <2>1. /\ ingest' = [ingest EXCEPT ![i] = NoIngest] /\ UNCHANGED <<gateRouted, gateFaults>>
        /\ gateStored' = gateStored \cup tx.wrote
        /\ gateMade' = [k \in GateKeys |-> IF k \in tx.wrote THEN gateMade[k] + 1 ELSE gateMade[k]]
        /\ delivery' = IF tx.row = "none" THEN delivery ELSE tx.row
        /\ tx.pc = "commit"
    BY <1>5 DEF CommitGate, GateAt
  <2>2. \A o \in Ingests : ingest'[o] = IF o = i THEN NoIngest ELSE ingest[o]
    BY <1>0, <2>1
  <2>3. GateTypeOK'
    <3>1. ingest' \in [Ingests -> Tx] /\ tx.wrote \subseteq GateKeys
      BY <1>0, <2>1, NoIngestOK DEF Tx
    <3>2. gateMade' \in [GateKeys -> Nat] /\ gateStored' \subseteq GateKeys
      BY <2>1, <3>1 DEF GInv, GateTypeOK
    <3>3. delivery' \in {"none", "deadlettered", "job_enqueued"}
      BY <1>0, <2>1 DEF GInv, GateTypeOK, Tx
    <3> QED BY <1>0, <2>1, <3>1, <3>2, <3>3 DEF GateTypeOK, Tx
  <2>4. WritesApart' /\ RowsApart'
    BY <2>2 DEF GInv, WritesApart, RowsApart, NoIngest
  <2>5. \A k \in GateKeys : gateMade[k] \in Nat /\ gateMade'[k] \in Nat
           /\ (gateMade'[k] > 0 <=> k \in tx.wrote \/ gateMade[k] > 0)
    BY <2>1 DEF GInv, GateTypeOK
  <2>6. tx \in Tx /\ TxThrough(tx) /\ TxRow(tx)
    BY <1>0
  <2>7. StoredMade'
    BY <2>1, <2>5, <2>6 DEF GInv, StoredMade, GateTypeOK, Tx
  <2>8. DeliveryTellsTruth'
    <3>1. CASE tx.jobs > 0
      <4>1. delivery' = "job_enqueued"
        BY <2>1, <2>6, <3>1 DEF TxRow
      <4>2. \A k \in GateKeys : gateMade'[k] > 0
        BY <2>1, <2>5, <2>6, <3>1 DEF TxThrough, Done, GateKeys, Tx
      <4> QED BY <4>1, <4>2 DEF DeliveryTellsTruth
    <3>2. CASE tx.jobs = 0
      <4>1. delivery' = "job_enqueued" <=> delivery = "job_enqueued"
        BY <2>1, <2>6, <3>2 DEF TxRow
      <4>2. \A k \in GateKeys : gateMade'[k] > 0 <=> gateMade[k] > 0
        BY <2>5, <2>6, <3>2 DEF TxThrough
      <4> QED BY <4>1, <4>2 DEF GInv, DeliveryTellsTruth
    <3> QED BY <2>6, <3>1, <3>2 DEF Tx
  <2>9. \A o \in Ingests : TxOK(ingest[o])'
    <3> SUFFICES ASSUME NEW o \in Ingests PROVE TxOK(ingest[o])'
      OBVIOUS
    <3>1. CASE o = i
      BY <2>2, <3>1 DEF TxOK, TxThrough, TxRow, Done, NoIngest
    <3>2. CASE o # i
      <4>1. ingest'[o] = ingest[o] /\ ingest[o] \in Tx /\ TxThrough(ingest[o]) /\ TxRow(ingest[o])
        BY <1>0, <2>2, <3>2
      <4>2. TxThrough(ingest[o])'
        <5>1. Done(ingest[o]) \subseteq GateKeys
          BY <4>1 DEF Done, Tx, GateKeys, TxThrough
        <5>2. Done(ingest'[o]) = Done(ingest[o])
          BY <4>1 DEF Done
        <5> QED BY <2>5, <4>1, <5>1, <5>2 DEF TxThrough, Done
      <4>3. TxRow(ingest[o])'
        <5>1. tx.row # "none" => ingest[o].row = "none"
          BY <3>2 DEF GInv, RowsApart
        <5>2. delivery = "job_enqueued" => delivery' = "job_enqueued"
          BY <2>1, <2>6 DEF TxRow, Tx
        <5>3. delivery # "none" => delivery' # "none"
          BY <2>1, <2>6 DEF Tx
        <5> QED BY <2>1, <4>1, <5>1, <5>2, <5>3 DEF TxRow
      <4> QED BY <4>2, <4>3 DEF TxOK
    <3> QED BY <3>1, <3>2
  <2> QED BY <2>3, <2>4, <2>7, <2>8, <2>9 DEF GInv
<1>6. ASSUME NEW i \in Ingests, Rollback(i) PROVE GInv'
  <2>1. /\ ingest' = [ingest EXCEPT ![i] = NoIngest] /\ gateFaults' = gateFaults + 1
        /\ UNCHANGED <<gateRouted, gateStored, gateMade, delivery>>
    BY <1>6 DEF Rollback, GateFault
  <2>2. NoIngest.wrote = {} /\ NoIngest.row = "none" /\ gateFaults' \in Nat
    BY <1>0, <2>1 DEF NoIngest
  <2> QED BY <1>0, <2>1, <2>2, NoIngestOK, TxStep
<1>7. CASE EnableCapability \/ UNCHANGED gateVars
  <2>1. gateRouted' \in BOOLEAN /\ UNCHANGED <<gateStored, gateMade, delivery, ingest, gateFaults>>
    BY <1>0, <1>7 DEF EnableCapability, gateVars
  <2> QED BY <2>1 DEF GInv, GateTypeOK, WritesApart, RowsApart, TxOK, TxThrough, TxRow, Done,
                      StoredMade, DeliveryTellsTruth
<1>8. CASE PruneJob
  BY <1>8 DEF PruneJob, GateFault, GInv, GateTypeOK, WritesApart, RowsApart, TxOK, TxThrough,
              TxRow, Done, StoredMade, DeliveryTellsTruth
<1> QED BY <1>1, <1>2, <1>3, <1>4, <1>5, <1>6, <1>7, <1>8 DEF GateNext

(* The variables of the gate have their types, whatever is rolled back.        *)
THEOREM GateTypeCorrect == GateSpec => []GateTypeOK
<1>1. GInv => GateTypeOK
  BY DEF GInv
<1> QED BY <1>1, GateInitInv, GateStepInv, PTL DEF GateSpec

(* However often the event is delivered, at the same time or later, whatever is*)
(* rolled back or deleted: a delivery row that says `job_enqueued` had all its *)
(* jobs written, and without one none was.                                     *)
THEOREM DeliveryIsTrue == GateSpec => []DeliveryTellsTruth
<1>1. GInv => DeliveryTellsTruth
  BY DEF GInv
<1> QED BY <1>1, GateInitInv, GateStepInv, PTL DEF GateSpec

-----------------------------------------------------------------------------
(* CatalogSweep.                                                                *)
(* Ranks in a list of ids.                                                      *)
UpTo(p, list) == {q \in list : q <= p}

LEMMA RankIsNat ==
  ASSUME NEW L, L \subseteq Nat, IsFiniteSet(L), NEW p \in Nat
  PROVE  /\ Rank(p, L) \in Nat /\ Rank(p, L) <= Cardinality(L)
         /\ p \in L => Rank(p, L) >= 1
<1>1. UpTo(p, L) \in SUBSET L
  BY DEF UpTo
<1>2. IsFiniteSet(UpTo(p, L)) /\ Cardinality(UpTo(p, L)) <= Cardinality(L)
  BY <1>1, FS_Subset
<1>3. Cardinality(UpTo(p, L)) \in Nat /\ Cardinality(L) \in Nat
  BY <1>2, FS_CardinalityType
<1>4. ASSUME p \in L PROVE Cardinality(UpTo(p, L)) # 0
  <2>1. p \in UpTo(p, L)
    BY <1>4 DEF UpTo
  <2> QED BY <2>1, <1>2, FS_EmptySet
<1> QED BY <1>2, <1>3, <1>4 DEF Rank, UpTo

(* Ranks are in the order of the ids.                                           *)
LEMMA RankGrows ==
  ASSUME NEW L, L \subseteq Nat, IsFiniteSet(L), NEW p \in L, NEW q \in L
  PROVE  /\ p < q <=> Rank(p, L) < Rank(q, L)
         /\ p = q <=> Rank(p, L) = Rank(q, L)
         /\ p <= q <=> Rank(p, L) <= Rank(q, L)
<1>1. ASSUME NEW x \in L, NEW y \in L, x < y PROVE Rank(x, L) < Rank(y, L)
  <2>1. IsFiniteSet(UpTo(y, L))
    <3>1. UpTo(y, L) \in SUBSET L
      BY DEF UpTo
    <3> QED BY <3>1, FS_Subset
  <2>2. UpTo(x, L) \in SUBSET UpTo(y, L)
    <3>1. \A z \in L : z <= x => z <= y
      BY <1>1
    <3> QED BY <3>1 DEF UpTo
  <2>3. y \in UpTo(y, L) /\ y \notin UpTo(x, L)
    BY <1>1 DEF UpTo
  <2>4. Cardinality(UpTo(x, L)) <= Cardinality(UpTo(y, L)) /\ Cardinality(UpTo(y, L)) # Cardinality(UpTo(x, L))
    BY <2>1, <2>2, <2>3, FS_Subset
  <2>5. Rank(x, L) \in Nat /\ Rank(y, L) \in Nat
    BY RankIsNat
  <2> QED BY <2>4, <2>5 DEF Rank, UpTo
<1>2. p \in Nat /\ q \in Nat /\ Rank(p, L) \in Nat /\ Rank(q, L) \in Nat
  BY RankIsNat
<1>3. CASE p < q
  BY <1>1, <1>2, <1>3
<1>4. CASE q < p
  BY <1>1, <1>2, <1>4
<1>5. CASE p = q
  BY <1>2, <1>5
<1> QED BY <1>2, <1>3, <1>4, <1>5

(* The first k of a list are k.                                                 *)
FirstOnes(k, list) == {x \in list : Rank(x, list) <= k}

LEMMA FirstOnesAre ==
  ASSUME NEW L, L \subseteq Nat, IsFiniteSet(L), NEW k \in 0..Cardinality(L)
  PROVE  Cardinality(FirstOnes(k, L)) = k
<1> DEFINE G == {n \in Nat : n <= Cardinality(L) => Cardinality(FirstOnes(n, L)) = n}
<1>1. Cardinality(L) \in Nat
  BY FS_CardinalityType
<1>2. 0 \in G
  <2>1. ASSUME NEW x \in L PROVE ~(Rank(x, L) <= 0)
    <3>1. Rank(x, L) \in Nat /\ Rank(x, L) >= 1
      BY RankIsNat
    <3> QED BY <3>1
  <2>2. FirstOnes(0, L) = {}
    BY <2>1 DEF FirstOnes
  <2> QED BY <2>2, FS_EmptySet
<1>3. ASSUME NEW n \in Nat, n \in G PROVE n + 1 \in G
  <2> SUFFICES ASSUME n + 1 <= Cardinality(L) PROVE Cardinality(FirstOnes(n + 1, L)) = n + 1
    OBVIOUS
  <2> DEFINE D == FirstOnes(n, L)
  <2>1. Cardinality(D) = n
    BY <1>1, <1>3
  <2>2. D \in SUBSET L /\ IsFiniteSet(D)
    <3>1. D \in SUBSET L
      BY DEF FirstOnes
    <3> QED BY <3>1, FS_Subset
  <2>3. L \ D # {}
    <3> SUFFICES ASSUME L \ D = {} PROVE FALSE
      OBVIOUS
    <3>1. L = D
      BY <2>2
    <3> HIDE DEF D
    <3> QED BY <3>1, <2>1, <1>1
  <2>4. PICK m \in L \ D : \A x \in L \ D : m <= x
    <3>1. L \ D \subseteq Nat
      OBVIOUS
    <3> QED BY <3>1, <2>3, LeastNumber
  <2>5. m \in L /\ m \in Nat /\ Rank(m, L) \in Nat /\ ~(Rank(m, L) <= n)
    BY <2>4, RankIsNat DEF FirstOnes
  <2>6. ASSUME NEW x \in L PROVE x <= m <=> x \in D \cup {m}
    <3>1. x \in Nat /\ Rank(x, L) \in Nat
      BY RankIsNat
    <3>2. CASE x \in D
      <4>1. Rank(x, L) <= n
        BY <3>2 DEF FirstOnes
      <4>2. Rank(x, L) <= Rank(m, L)
        BY <4>1, <2>5, <3>1
      <4> QED BY <4>2, <3>2, <2>5, RankGrows
    <3>3. CASE x \notin D
      <4>1. m <= x
        BY <2>4, <3>3
      <4> QED BY <4>1, <3>1, <2>5, <3>3
    <3> QED BY <3>2, <3>3
  <2>7. UpTo(m, L) = D \cup {m}
    <3> HIDE DEF D
    <3> QED BY <2>2, <2>5, <2>6 DEF UpTo
  <2>8. Rank(m, L) = n + 1
    <3>1. Cardinality(D \cup {m}) = n + 1
      <4> HIDE DEF D
      <4> QED BY <2>1, <2>2, <2>4, FS_AddElement
    <3> QED BY <3>1, <2>7 DEF Rank, UpTo
  <2>9. ASSUME NEW x \in L PROVE Rank(x, L) <= n + 1 <=> x \in D \cup {m}
    <3>1. x \in Nat /\ Rank(x, L) \in Nat
      BY RankIsNat
    <3>2. Rank(x, L) <= n + 1 <=> Rank(x, L) <= Rank(m, L)
      BY <2>8
    <3> QED BY <3>2, <2>5, <2>6, RankGrows
  <2>10. FirstOnes(n + 1, L) = UpTo(m, L)
    <3>1. FirstOnes(n + 1, L) = D \cup {m}
      <4> HIDE DEF D
      <4> QED BY <2>2, <2>5, <2>9 DEF FirstOnes
    <3> QED BY <3>1, <2>7
  <2> QED BY <2>8, <2>10 DEF Rank, UpTo
<1> HIDE DEF G
<1>4. Nat \subseteq G
  BY <1>2, <1>3, EveryNumber
<1>5. k \in G
  BY <1>4
<1> QED BY <1>1, <1>5 DEF G

(* Every rank is somebody's.                                                    *)
LEMMA RankIsTaken ==
  ASSUME NEW L, L \subseteq Nat, IsFiniteSet(L), NEW k \in 1..Cardinality(L)
  PROVE  \E x \in L : Rank(x, L) = k
<1>1. Cardinality(L) \in Nat
  BY FS_CardinalityType
<1>2. Cardinality(FirstOnes(k, L)) = k /\ Cardinality(FirstOnes(k - 1, L)) = k - 1
  <2>1. k \in 0..Cardinality(L) /\ k - 1 \in 0..Cardinality(L)
    BY <1>1
  <2> QED BY <2>1, FirstOnesAre
<1>3. FirstOnes(k, L) # FirstOnes(k - 1, L)
  BY <1>1, <1>2
<1>4. \A x \in L : Rank(x, L) \in Nat
  BY RankIsNat
<1>5. ASSUME \A x \in L : Rank(x, L) # k PROVE FirstOnes(k, L) = FirstOnes(k - 1, L)
  <2>1. \A x \in L : Rank(x, L) <= k <=> Rank(x, L) <= k - 1
    BY <1>4, <1>5
  <2> QED BY <2>1 DEF FirstOnes
<1> QED BY <1>3, <1>5

(* Rows a+1 .. a+n of a list.                                                   *)
RowsOf(a, n, list) == {x \in list : Rank(x, list) \in a + 1 .. a + n}

LEMMA RowsCount ==
  ASSUME NEW L, L \subseteq Nat, IsFiniteSet(L), NEW a \in Nat, NEW n \in Nat,
         a + n <= Cardinality(L)
  PROVE  IsFiniteSet(RowsOf(a, n, L)) /\ Cardinality(RowsOf(a, n, L)) = n
<1>1. Cardinality(L) \in Nat
  BY FS_CardinalityType
<1>2. \A x \in L : Rank(x, L) \in Nat
  BY RankIsNat
<1>3. Cardinality(FirstOnes(a, L)) = a /\ Cardinality(FirstOnes(a + n, L)) = a + n
  <2>1. a \in 0..Cardinality(L) /\ a + n \in 0..Cardinality(L)
    BY <1>1
  <2> QED BY <2>1, FirstOnesAre
<1>4. FirstOnes(a + n, L) \in SUBSET L
  BY DEF FirstOnes
<1>5. IsFiniteSet(FirstOnes(a + n, L))
  BY <1>4, FS_Subset
<1>6. FirstOnes(a + n, L) \cap FirstOnes(a, L) = FirstOnes(a, L)
  <2>1. \A x \in L : Rank(x, L) <= a => Rank(x, L) <= a + n
    BY <1>2
  <2> QED BY <2>1 DEF FirstOnes
<1>7. FirstOnes(a + n, L) \ FirstOnes(a, L) = RowsOf(a, n, L)
  <2>1. \A x \in L : Rank(x, L) <= a + n /\ ~(Rank(x, L) <= a) <=> Rank(x, L) \in a + 1 .. a + n
    BY <1>2
  <2> QED BY <2>1 DEF FirstOnes, RowsOf
<1>8. IsFiniteSet(FirstOnes(a + n, L) \ FirstOnes(a, L))
      /\ Cardinality(FirstOnes(a + n, L) \ FirstOnes(a, L)) = a + n - a
  <2>1. Cardinality(FirstOnes(a + n, L) \ FirstOnes(a, L)) =
          Cardinality(FirstOnes(a + n, L)) - Cardinality(FirstOnes(a + n, L) \cap FirstOnes(a, L))
    BY <1>5, FS_Difference
  <2>2. Cardinality(FirstOnes(a + n, L) \cap FirstOnes(a, L)) = a
    BY <1>3, <1>6
  <2>3. IsFiniteSet(FirstOnes(a + n, L) \ FirstOnes(a, L))
    BY <1>5, FS_Difference
  <2> QED BY <1>3, <2>1, <2>2, <2>3
<1> QED BY <1>7, <1>8

(* A page: full, or all there is.                                               *)
LEMMA PageRead ==
  ASSUME NEW L, L \subseteq Nat, IsFiniteSet(L), NEW a \in Nat, NEW n \in Nat,
         NEW m, m = Cardinality(RowsOf(a, n, L))
  PROVE  /\ m \in 0..n
         /\ RowsOf(a, n, L) = RowsOf(a, m, L)
         /\ m > 0 \/ a <= Cardinality(L) => a + m <= Cardinality(L)
         /\ m < n => Cardinality(L) <= a + m
<1>1. Cardinality(L) \in Nat
  BY FS_CardinalityType
<1>2. \A x \in L : Rank(x, L) \in Nat /\ Rank(x, L) <= Cardinality(L)
  BY RankIsNat
<1>3. CASE a + n <= Cardinality(L)
  <2>1. m = n
    BY <1>3, RowsCount
  <2> QED BY <2>1, <1>1, <1>3
<1>4. CASE a <= Cardinality(L) /\ a + n > Cardinality(L)
  <2> DEFINE d == Cardinality(L) - a
  <2>1. d \in Nat /\ a + d <= Cardinality(L) /\ d < n
    BY <1>1, <1>4
  <2>2. RowsOf(a, n, L) = RowsOf(a, d, L)
    <3>1. \A x \in L : Rank(x, L) \in a + 1 .. a + n <=> Rank(x, L) \in a + 1 .. a + d
      BY <1>1, <1>2, <1>4
    <3> QED BY <3>1 DEF RowsOf
  <2>3. Cardinality(RowsOf(a, d, L)) = d
    BY <2>1, RowsCount
  <2>4. m = d
    BY <2>2, <2>3
  <2> QED BY <2>1, <2>2, <2>4, <1>1
<1>5. CASE a > Cardinality(L)
  <2>1. RowsOf(a, n, L) = {} /\ RowsOf(a, 0, L) = {}
    <3>1. \A x \in L : Rank(x, L) \notin a + 1 .. a + n /\ Rank(x, L) \notin a + 1 .. a + 0
      BY <1>1, <1>2, <1>5
    <3> QED BY <3>1 DEF RowsOf
  <2>2. m = 0
    BY <2>1, FS_EmptySet
  <2> QED BY <2>1, <2>2, <1>1, <1>5
<1> QED BY <1>1, <1>3, <1>4, <1>5

(* Places within the rows read.                                                 *)
LEMMA RankWithin ==
  ASSUME NEW L, L \subseteq Nat, IsFiniteSet(L), NEW a \in Nat, NEW n \in Nat,
         a + n <= Cardinality(L), NEW p \in RowsOf(a, n, L)
  PROVE  Rank(p, RowsOf(a, n, L)) = Rank(p, L) - a
<1>1. Cardinality(L) \in Nat
  BY FS_CardinalityType
<1>2. \A x \in L : Rank(x, L) \in Nat
  BY RankIsNat
<1>3. p \in L /\ Rank(p, L) - a \in Nat /\ Rank(p, L) - a <= n
  BY <1>2 DEF RowsOf
<1>4. \A q \in L : q <= p <=> Rank(q, L) <= Rank(p, L)
  BY <1>3, RankGrows
<1>5. UpTo(p, RowsOf(a, n, L)) = RowsOf(a, Rank(p, L) - a, L)
  <2>1. Rank(p, L) \in Nat
    BY <1>2, <1>3
  <2>2. \A q \in L : Rank(q, L) \in a + 1 .. a + n /\ Rank(q, L) <= Rank(p, L)
                      <=> Rank(q, L) \in a + 1 .. a + (Rank(p, L) - a)
    BY <1>2, <1>3, <2>1
  <2> QED BY <1>4, <2>2 DEF UpTo, RowsOf
<1>6. Cardinality(RowsOf(a, Rank(p, L) - a, L)) = Rank(p, L) - a
  <2>1. Rank(p, L) \in Nat
    BY <1>2, <1>3
  <2>2. a + (Rank(p, L) - a) <= Cardinality(L)
    BY <1>1, <1>3, <2>1
  <2> QED BY <1>1, <1>3, <2>2, RowsCount
<1> QED BY <1>5, <1>6 DEF Rank, UpTo

(* What is appended leaves the ranks.                                           *)
LEMMA RankStays ==
  ASSUME NEW M, NEW L, M \subseteq Nat, L \subseteq M,
         \A x \in M \ L, y \in L : y < x, NEW p \in L
  PROVE  Rank(p, M) = Rank(p, L)
<1>1. ASSUME NEW x \in M PROVE x <= p <=> x \in L /\ x <= p
  <2>1. CASE x \in L
    BY <2>1
  <2>2. CASE x \notin L
    <3>1. p < x /\ p \in Nat /\ x \in Nat
      BY <2>2
    <3> QED BY <3>1, <2>2
  <2> QED BY <2>1, <2>2
<1>2. UpTo(p, M) = UpTo(p, L)
  BY <1>1 DEF UpTo
<1> QED BY <1>2 DEF Rank, UpTo

LEMMA RankBeyond ==
  ASSUME NEW M, NEW L, M \subseteq Nat, IsFiniteSet(M), L \subseteq M,
         \A x \in M \ L, y \in L : y < x, NEW p \in M \ L
  PROVE  Rank(p, M) > Cardinality(L)
<1>1. UpTo(p, M) \in SUBSET M
  BY DEF UpTo
<1>2. IsFiniteSet(UpTo(p, M)) /\ IsFiniteSet(L)
  BY <1>1, FS_Subset
<1>3. L \in SUBSET UpTo(p, M)
  BY DEF UpTo
<1>4. p \in UpTo(p, M)
  BY DEF UpTo
<1>5. Cardinality(L) <= Cardinality(UpTo(p, M)) /\ Cardinality(L) # Cardinality(UpTo(p, M))
  BY <1>2, <1>3, <1>4, FS_Subset
<1>6. Cardinality(L) \in Nat /\ Cardinality(UpTo(p, M)) \in Nat
  BY <1>2, FS_CardinalityType
<1> QED BY <1>5, <1>6 DEF Rank, UpTo

-----------------------------------------------------------------------------
(* Where a run's pages are cut into batches.  A run that is not exhausted has   *)
(* read Window; a rank's batch begins behind Start, for every run that cuts the *)
(* list as the cycle's first one did.                                           *)
LEMMA Division ==
  ASSUME NEW a \in Nat, NEW b \in Nat \ {0}
  PROVE  /\ a \div b \in Nat /\ a % b \in 0..(b - 1)
         /\ a = b * (a \div b) + (a % b)
<1>1. a \div b \in Nat
  OBVIOUS
<1>2. a % b \in 0..(b - 1)
  OBVIOUS
<1>3. a = b * (a \div b) + (a % b)
  OBVIOUS
<1> QED BY <1>1, <1>2, <1>3

LEMMA ProductGrows ==
  ASSUME NEW b \in Nat, NEW x \in Nat, NEW y \in Nat, x <= y
  PROVE  b * x \in Nat /\ b * y \in Nat /\ b * x <= b * y /\ b * (x + y) = b * x + b * y
         /\ b * (y + 1) = b * y + b
<1>1. PICK d \in Nat : y = x + d
  <2>1. y - x \in Nat /\ y = x + (y - x)
    OBVIOUS
  <2> QED BY <2>1
<1>2. b * x \in Nat /\ b * y \in Nat /\ b * d \in Nat
  OBVIOUS
<1>3. b * y = b * x + b * d
  BY <1>1
<1>4. b * (x + y) = b * x + b * y /\ b * (y + 1) = b * y + b
  OBVIOUS
<1> QED BY <1>2, <1>3, <1>4

LEMMA QuotientIs ==
  ASSUME NEW b \in Nat \ {0}, NEW q \in Nat, NEW r \in 0..(b - 1)
  PROVE  b * q + r \in Nat /\ (b * q + r) \div b = q /\ (b * q + r) % b = r
<1> DEFINE a == b * q + r
           e == a \div b
           s == a % b
<1>1. a \in Nat
  <2>1. b * q \in Nat
    OBVIOUS
  <2> QED BY <2>1
<1>2. e \in Nat /\ s \in 0..(b - 1) /\ a = b * e + s
  <2> HIDE DEF a
  <2> QED BY <1>1, Division
<1>3. ASSUME NEW x \in Nat, NEW y \in Nat, NEW u \in 0..(b - 1), NEW v \in 0..(b - 1),
             x < y, b * x + u = b * y + v
      PROVE  FALSE
  <2>1. x + 1 \in Nat /\ x + 1 <= y
    BY <1>3
  <2>2. b * (x + 1) <= b * y /\ b * (x + 1) = b * x + b /\ b * x \in Nat /\ b * y \in Nat
    BY <2>1, ProductGrows
  <2> QED BY <1>3, <2>2
<1>4. e = q
  <2> HIDE DEF e, s
  <2>1. ~(e < q) /\ ~(q < e)
    BY <1>2, <1>3
  <2> QED BY <1>2, <2>1
<1>5. s = r
  <2>1. b * q \in Nat
    OBVIOUS
  <2> HIDE DEF e, s
  <2> QED BY <1>2, <1>4, <2>1
<1> QED BY <1>1, <1>4, <1>5

LEMMA QuotientGrows ==
  ASSUME NEW b \in Nat \ {0}, NEW x \in Nat, NEW y \in Nat, x <= y
  PROVE  x \div b <= y \div b
<1> DEFINE i == x \div b
           j == y \div b
           u == x % b
           v == y % b
<1>1. i \in Nat /\ j \in Nat /\ u \in 0..(b - 1) /\ v \in 0..(b - 1) /\ x = b * i + u /\ y = b * j + v
  BY Division
<1> HIDE DEF i, j, u, v
<1> SUFFICES ASSUME j < i PROVE FALSE
  BY <1>1 DEF i, j
<1>2. j + 1 \in Nat /\ j + 1 <= i
  BY <1>1
<1>3. b * (j + 1) <= b * i /\ b * (j + 1) = b * j + b /\ b * i \in Nat /\ b * j \in Nat
  BY <1>1, <1>2, ProductGrows
<1> QED BY <1>1, <1>3

Pages(z) == (z.budget + (PageSize - 1)) \div PageSize
Window(z) == PageSize * Pages(z)
CutsPages(z) == PageSize % z.batch = 0

Aligned(z, o) ==
  IF CutsPages(z) THEN \E j \in Nat : o = z.batch * j ELSE \E j \in Nat : o = Window(z) * j
Start(z, r) ==
  IF CutsPages(z) THEN z.batch * ((r - 1) \div z.batch)
  ELSE Window(z) * ((r - 1) \div Window(z)) + z.batch * (((r - 1) % Window(z)) \div z.batch)

SweepSettings == [budget : Budgets, batch : BatchSizes]

LEMMA SettingsAre ==
  ASSUME NEW z \in SweepSettings
  PROVE  /\ PageSize \in Nat \ {0} /\ z.budget \in Nat \ {0} /\ z.batch \in Nat \ {0}
         /\ Pages(z) \in Nat \ {0} /\ Window(z) \in Nat \ {0}
         /\ z.budget <= Window(z) /\ Window(z) < z.budget + PageSize
<1> DEFINE a == z.budget + (PageSize - 1)
           m == a % PageSize
<1>1. PageSize \in Nat \ {0} /\ z.budget \in Nat \ {0} /\ z.batch \in Nat \ {0}
  BY SweepAssumption DEF SweepSettings
<1>2. a \in Nat
  BY <1>1
<1>3. Pages(z) \in Nat /\ m \in 0..(PageSize - 1) /\ a = PageSize * Pages(z) + m
  <2> HIDE DEF a
  <2>1. a \div PageSize \in Nat /\ m \in 0..(PageSize - 1) /\ a = PageSize * (a \div PageSize) + m
    BY <1>1, <1>2, Division
  <2> QED BY <2>1 DEF Pages, a
<1>4. Window(z) \in Nat /\ a = Window(z) + m
  <2>1. PageSize * Pages(z) \in Nat
    BY <1>1, <1>3
  <2> HIDE DEF a, m
  <2> QED BY <1>3, <2>1 DEF Window
<1>5. z.budget <= Window(z) /\ Window(z) < z.budget + PageSize /\ Window(z) # 0
  <2> HIDE DEF m
  <2>1. m \in Nat /\ m <= PageSize - 1 /\ PageSize \in Nat /\ z.budget \in Nat
    BY <1>1, <1>3
  <2>2. z.budget + (PageSize - 1) = Window(z) + m
    BY <1>4
  <2>3. z.budget > 0
    BY <1>1
  <2> QED BY <1>4, <2>1, <2>2, <2>3
<1>6. Pages(z) # 0
  <2>1. PageSize * 0 = 0
    BY <1>1
  <2> QED BY <1>5, <2>1 DEF Window
<1> QED BY <1>1, <1>3, <1>4, <1>5, <1>6

(* Pages are read until the budget is spent, which is at the window's end.      *)
LEMMA PagesRead ==
  ASSUME NEW z \in SweepSettings, NEW k \in Nat, PageSize * k < z.budget
  PROVE  /\ PageSize * k + PageSize = PageSize * (k + 1)
         /\ PageSize * k + PageSize <= Window(z)
         /\ PageSize * k + PageSize >= z.budget => PageSize * k + PageSize = Window(z)
<1>1. /\ PageSize \in Nat \ {0} /\ z.budget \in Nat \ {0} /\ Pages(z) \in Nat \ {0}
      /\ Window(z) \in Nat \ {0} /\ z.budget <= Window(z) /\ Window(z) < z.budget + PageSize
  BY SettingsAre
<1>2. PageSize * k \in Nat /\ PageSize * k + PageSize = PageSize * (k + 1)
  BY <1>1
<1>3. k < Pages(z)
  <2> SUFFICES ASSUME Pages(z) <= k PROVE FALSE
    BY <1>1
  <2>1. Window(z) <= PageSize * k
    BY <1>1, ProductGrows DEF Window
  <2> QED BY <1>1, <1>2, <2>1
<1>4. PageSize * (k + 1) <= Window(z)
  <2>1. k + 1 \in Nat /\ k + 1 <= Pages(z)
    BY <1>1, <1>3
  <2> QED BY <1>1, <2>1, ProductGrows DEF Window
<1>5. ASSUME PageSize * k + PageSize >= z.budget PROVE k + 1 = Pages(z)
  <2> SUFFICES ASSUME k + 1 < Pages(z) PROVE FALSE
    BY <1>1, <1>3
  <2>1. k + 1 + 1 \in Nat /\ k + 1 + 1 <= Pages(z) /\ k + 1 \in Nat
    BY <1>1
  <2>2. PageSize * (k + 1 + 1) <= Window(z) /\ PageSize * (k + 1 + 1) = PageSize * (k + 1) + PageSize
    BY <1>1, <2>1, ProductGrows DEF Window
  <2> QED BY <1>1, <1>2, <1>5, <2>2
<1> QED BY <1>2, <1>4, <1>5 DEF Window

(* A window of a run is whole batches of the cycle.                             *)
LEMMA WindowsAlike ==
  ASSUME NEW x \in SweepSettings, NEW z \in SweepSettings, SameCut(x, z)
  PROVE  /\ x.batch = z.batch
         /\ CutsPages(z) => \E k \in Nat : Window(x) = z.batch * k
         /\ ~CutsPages(z) => Window(x) = Window(z)
<1>1. x.batch = z.batch /\ (CutsPages(z) \/ x.budget = z.budget)
  BY DEF SameCut, CutsPages
<1>2. PageSize \in Nat \ {0} /\ z.batch \in Nat \ {0} /\ Pages(x) \in Nat
  BY SettingsAre
<1>3. ASSUME CutsPages(z) PROVE \E k \in Nat : Window(x) = z.batch * k
  <2> DEFINE d == PageSize \div z.batch
  <2>1. d \in Nat /\ PageSize = z.batch * d
    <3>1. d \in Nat /\ PageSize = z.batch * d + (PageSize % z.batch) /\ z.batch * d \in Nat
      <4>1. PageSize \in Nat
        BY <1>2
      <4>2. d \in Nat /\ PageSize = z.batch * d + (PageSize % z.batch)
        BY <1>2, <4>1, Division
      <4> HIDE DEF d
      <4> QED BY <1>2, <4>2
    <3> HIDE DEF d
    <3> QED BY <1>2, <1>3, <3>1 DEF CutsPages
  <2> HIDE DEF d
  <2>2. d * Pages(x) \in Nat /\ (z.batch * d) * Pages(x) = z.batch * (d * Pages(x))
    BY <1>2, <2>1
  <2> QED BY <2>1, <2>2 DEF Window
<1>4. ASSUME ~CutsPages(z) PROVE Window(x) = Window(z)
  BY <1>1, <1>4 DEF Window, Pages
<1> QED BY <1>1, <1>3, <1>4

LEMMA AlignedAtFirst == ASSUME NEW z \in SweepSettings PROVE Aligned(z, 0)
<1>1. z.batch * 0 = 0 /\ Window(z) * 0 = 0
  BY SettingsAre
<1> QED BY <1>1 DEF Aligned

LEMMA AlignedNext ==
  ASSUME NEW x \in SweepSettings, NEW z \in SweepSettings, SameCut(x, z), NEW o, Aligned(z, o)
  PROVE  Aligned(z, o + Window(x))
<1>1. z.batch \in Nat \ {0} /\ Window(z) \in Nat \ {0}
  BY SettingsAre
<1>2. CASE CutsPages(z)
  <2>1. PICK j \in Nat : o = z.batch * j
    BY <1>2 DEF Aligned
  <2>2. PICK k \in Nat : Window(x) = z.batch * k
    BY <1>2, WindowsAlike
  <2>3. o + Window(x) = z.batch * (j + k) /\ j + k \in Nat
    BY <1>1, <2>1, <2>2
  <2> QED BY <1>2, <2>3 DEF Aligned
<1>3. CASE ~CutsPages(z)
  <2>1. PICK j \in Nat : o = Window(z) * j
    BY <1>3 DEF Aligned
  <2>2. Window(x) = Window(z)
    BY <1>3, WindowsAlike
  <2>3. o + Window(x) = Window(z) * (j + 1) /\ j + 1 \in Nat
    BY <1>1, <2>1, <2>2
  <2> QED BY <1>3, <2>3 DEF Aligned
<1> QED BY <1>2, <1>3

(* The batches of a run are those of the cycle.                                 *)
LEMMA StartWithin ==
  ASSUME NEW x \in SweepSettings, NEW z \in SweepSettings, SameCut(x, z),
         NEW o \in Nat, Aligned(z, o), NEW i \in 1..Window(x)
  PROVE  Start(z, o + i) = o + x.batch * ((i - 1) \div x.batch)
<1>1. z.batch \in Nat \ {0} /\ Window(z) \in Nat \ {0} /\ x.batch = z.batch /\ Window(x) \in Nat
  BY SettingsAre, WindowsAlike
<1> DEFINE b == z.batch
           q == (i - 1) \div b
           r == (i - 1) % b
<1>2. i - 1 \in Nat /\ o + i - 1 = o + (i - 1)
  BY <1>1
<1>3. q \in Nat /\ r \in 0..(b - 1) /\ i - 1 = b * q + r /\ b * q \in Nat
  <2>1. q \in Nat /\ r \in 0..(b - 1) /\ i - 1 = b * q + r
    BY <1>1, <1>2, Division
  <2> HIDE DEF q
  <2> QED BY <1>1, <2>1
<1>4. CASE CutsPages(z)
  <2>1. PICK j \in Nat : o = b * j
    BY <1>4 DEF Aligned
  <2> HIDE DEF q, r
  <2>2. j + q \in Nat /\ b * (j + q) = b * j + b * q /\ b * j \in Nat
    BY <1>1, <1>3, <2>1
  <2>3. o + i - 1 = b * (j + q) + r
    BY <1>2, <1>3, <2>1, <2>2
  <2>4. (o + i - 1) \div b = j + q
    <3>1. (b * (j + q) + r) \div b = j + q
      BY <1>1, <1>3, <2>2, QuotientIs
    <3> QED BY <2>3, <3>1
  <2>5. Start(z, o + i) = o + b * q
    BY <1>4, <2>1, <2>2, <2>4 DEF Start
  <2> QED BY <1>1, <2>5 DEF q
<1>5. CASE ~CutsPages(z)
  <2> DEFINE w == Window(z)
  <2>1. PICK j \in Nat : o = w * j
    BY <1>5 DEF Aligned
  <2>2. Window(x) = w /\ i - 1 \in 0..(w - 1)
    BY <1>1, <1>2, <1>5, WindowsAlike
  <2>3. o + i - 1 = w * j + (i - 1)
    BY <1>2, <2>1
  <2>4. (o + i - 1) \div w = j /\ (o + i - 1) % w = i - 1
    <3> HIDE DEF w
    <3>1. w \in Nat \ {0}
      BY <1>1 DEF w
    <3>2. (w * j + (i - 1)) \div w = j /\ (w * j + (i - 1)) % w = i - 1
      BY <2>2, <3>1, QuotientIs
    <3> QED BY <2>3, <3>2
  <2>5. Start(z, o + i) = o + b * q
    BY <1>5, <2>1, <2>4 DEF Start
  <2> QED BY <1>1, <2>5
<1> QED BY <1>4, <1>5

(* The first rank of a batch; no batch reaches over an aligned offset.          *)
LEMMA StartIs ==
  ASSUME NEW z \in SweepSettings, NEW r \in Nat \ {0}
  PROVE  /\ Start(z, r) \in Nat /\ Start(z, r) < r
         /\ \A o \in Nat : Aligned(z, o) /\ o < r => o <= Start(z, r)
<1>1. z.batch \in Nat \ {0} /\ Window(z) \in Nat \ {0} /\ r - 1 \in Nat
  BY SettingsAre
<1> DEFINE b == z.batch
           w == Window(z)
<1>2. CASE CutsPages(z)
  <2> DEFINE q == (r - 1) \div b
  <2>1. q \in Nat /\ r - 1 = b * q + ((r - 1) % b) /\ (r - 1) % b \in 0..(b - 1)
    BY <1>1, Division
  <2>2. Start(z, r) = b * q
    BY <1>2 DEF Start
  <2>3. b * q \in Nat
    <3> HIDE DEF q
    <3> QED BY <1>1, <2>1
  <2>4. b * q < r
    <3> DEFINE m == (r - 1) % b
    <3>1. m \in Nat /\ r - 1 = b * q + m
      BY <1>1, <2>1
    <3> HIDE DEF m, q, b
    <3> QED BY <2>3, <3>1
  <2>5. ASSUME NEW o \in Nat, Aligned(z, o), o < r PROVE o <= b * q
    <3>1. PICK j \in Nat : o = b * j
      BY <1>2, <2>5 DEF Aligned
    <3>2. (b * j + 0) \div b = j
      <4>1. 0 \in 0..(b - 1)
        BY <1>1
      <4> QED BY <1>1, <4>1, QuotientIs
    <3>3. b * j + 0 = o /\ o <= r - 1
      BY <2>5, <3>1
    <3>4. j <= q
      BY <1>1, <3>2, <3>3, QuotientGrows
    <3> HIDE DEF q
    <3> QED BY <1>1, <2>1, <3>1, <3>4, ProductGrows
  <2> QED BY <2>2, <2>3, <2>4, <2>5
<1>3. CASE ~CutsPages(z)
  <2> DEFINE q == (r - 1) \div w
             m == (r - 1) % w
             e == m \div b
  <2>1. q \in Nat /\ r - 1 = w * q + m /\ m \in 0..(w - 1)
    BY <1>1, Division
  <2>2. Start(z, r) = w * q + b * e
    BY <1>3 DEF Start
  <2>3. e \in Nat /\ m = b * e + (m % b) /\ m % b \in 0..(b - 1)
    <3>1. m \in Nat
      BY <1>1, <2>1
    <3> HIDE DEF m
    <3> QED BY <1>1, <3>1, Division
  <2>4. w * q \in Nat /\ b * e \in Nat /\ b * e <= m
    <3> DEFINE n == m % b
    <3>1. n \in Nat /\ m = b * e + n /\ m \in Nat
      BY <1>1, <2>1, <2>3
    <3> HIDE DEF n, q, m, e
    <3>2. w * q \in Nat /\ b * e \in Nat
      BY <1>1, <2>1, <2>3
    <3> QED BY <3>1, <3>2
  <2>5. w * q + b * e \in Nat /\ w * q + b * e < r
    <3> DEFINE s == w * q
               t == b * e
    <3>1. s \in Nat /\ t \in Nat /\ t <= m /\ m \in Nat /\ r - 1 = s + m
      BY <2>1, <2>4
    <3> HIDE DEF s, t, m
    <3>2. s + t \in Nat /\ s + t < r
      BY <3>1
    <3> QED BY <3>2 DEF s, t
  <2>6. ASSUME NEW o \in Nat, Aligned(z, o), o < r PROVE o <= w * q
    <3>1. PICK j \in Nat : o = w * j
      BY <1>3, <2>6 DEF Aligned
    <3>2. (w * j + 0) \div w = j
      <4>1. 0 \in 0..(w - 1)
        BY <1>1
      <4> QED BY <1>1, <4>1, QuotientIs
    <3>3. w * j + 0 = o /\ o <= r - 1
      BY <2>6, <3>1
    <3>4. j <= q
      BY <1>1, <3>2, <3>3, QuotientGrows
    <3> HIDE DEF q
    <3> QED BY <1>1, <2>1, <3>1, <3>4, ProductGrows
  <2>7. ASSUME NEW o \in Nat, Aligned(z, o), o < r PROVE o <= w * q + b * e
    <3> DEFINE s == w * q
               t == b * e
    <3>1. o <= s /\ s \in Nat /\ t \in Nat
      BY <2>4, <2>6, <2>7
    <3> HIDE DEF s, t
    <3>2. o <= s + t
      BY <3>1
    <3> QED BY <3>2 DEF s, t
  <2> QED BY <2>2, <2>5, <2>7
<1> QED BY <1>2, <1>3

-----------------------------------------------------------------------------
(* What the sweep keeps.  Its shape, ...                                        *)
SweepBatches == (SUBSET Products) \ {{}}
SweepRuns ==
  [pc : {"idle", "cursor", "page", "enqueue", "release"}, set : SweepSettings \cup {NoSettings}, at : Cursors,
   items : SUBSET Products, consumed : Nat, exhausted : BOOLEAN, todo : SUBSET SweepBatches,
   keyed : SUBSET SweepBatches, leant : SUBSET SweepBatches, failed : BOOLEAN]

RunShape(r) ==
  /\ r \in SweepRuns
  /\ r.pc \in {"idle", "cursor"} <=> r.at.cycle = 0
  /\ r.pc # "idle" => r.set \in SweepSettings
  /\ r.pc \in {"idle", "cursor"} => r.items = {} /\ r.consumed = 0
  /\ r.pc # "enqueue" => r.todo = {} /\ r.keyed = {}
  /\ UNION (r.todo \cup r.keyed) \subseteq r.items
  /\ r.at.offset + r.consumed <= MaxProducts
  /\ r.pc = "page" => r.consumed < r.set.budget /\ \E k \in Nat : r.consumed = PageSize * k

SweepShape ==
  /\ newest \in 0..MaxProducts /\ catalog \subseteq 1..newest
  /\ cursor \in Cursors
  /\ sweepLock \in Sweeps \cup {NoSweep}
  /\ sweep \in [Sweeps -> SweepRuns] /\ \A s \in Sweeps : RunShape(sweep[s])
  /\ childKeys \subseteq Products \X Cycles
  /\ visits \in [Cycles -> [Products -> Nat]]
  /\ present \in [Cycles -> SUBSET Products]
  /\ settings \in [Cycles -> SweepSettings \cup {NoSettings}]
  /\ \A c \in Cycles : InUse(c) => settings[c] \in SweepSettings
  /\ strained \subseteq Cycles
  /\ sweepFaults \in 0..MaxSweepFaults

(* ... and, of a cycle that somebody is in and nothing has strained: the list   *)
(* has grown behind what it held at first;                                      *)
Live == {c \in Cycles \ strained : InUse(c)}
RunsIn(c) == {s \in Sweeps : sweep[s].at.cycle = c}
Grown(c) == present[c] \subseteq catalog /\ \A p \in catalog \ present[c], q \in present[c] : q < p

(* a run has read its window, or the list to its end, from where it came in;    *)
WindowRead(c, r) ==
  /\ SameCut(r.set, settings[c]) /\ Aligned(settings[c], r.at.offset)
  /\ r.at.offset + r.consumed <= Cardinality(catalog) /\ r.consumed <= Window(r.set)
  /\ r.items = RowsOf(r.at.offset, r.consumed, catalog)
  /\ r.pc = "enqueue" => IF r.exhausted THEN Cardinality(present[c]) <= r.at.offset + r.consumed
                                        ELSE r.consumed = Window(r.set)
WindowsRead(c) == \A s \in RunsIn(c) : WindowRead(c, sweep[s])
CursorAligned(c) ==
  cursor.cycle = c => Aligned(settings[c], cursor.offset) /\ cursor.offset <= Cardinality(catalog)

(* its batches are those of the cycle, named by their first products;           *)
Heads(c, f, p) == Start(settings[c], Rank(p, catalog)) + 1 = Rank(f, catalog)
IsBatch(c, items, g) == First(g) \in g /\ g = {p \in items : Heads(c, First(g), p)}
BatchesCut(c) == \A s \in RunsIn(c) : \A g \in sweep[s].todo \cup sweep[s].keyed : IsBatch(c, sweep[s].items, g)

(* one run at a time adds the child of a key;                                   *)
KeysClaimed(c) ==
  /\ \A s \in RunsIn(c) : \A g \in sweep[s].keyed : <<First(g), c>> \in childKeys
  /\ \A s, t \in RunsIn(c) : \A g \in sweep[s].keyed, h \in sweep[t].keyed :
       First(g) = First(h) => s = t /\ g = h

(* what is visited has its key, and nobody is about to visit it again;          *)
VisitsKeyed(c) ==
  \A p \in Products : visits[c][p] > 0 =>
    p \in catalog /\ \E f \in catalog :
      /\ Heads(c, f, p) /\ <<f, c>> \in childKeys
      /\ \A s \in RunsIn(c) : \A g \in sweep[s].keyed : First(g) # f

(* a key stands for every product of its batch;                                 *)
KeysStand(c) ==
  \A f \in catalog, p \in present[c] : <<f, c>> \in childKeys /\ Heads(c, f, p) =>
    visits[c][p] > 0 \/ \E s \in RunsIn(c) : \E g \in sweep[s].keyed : First(g) = f /\ p \in g

(* and what is behind the cursor, or a run, is visited or about to be by one    *)
(* that somebody counts on.                                                     *)
Secured(c, p) == visits[c][p] > 0 \/ \E s \in RunsIn(c) : \E g \in sweep[s].keyed \cap sweep[s].leant : p \in g
BehindSecured(c, offset) == \A p \in present[c] : Rank(p, catalog) <= offset => Secured(c, p)
CursorBehind(c) == cursor.cycle = c => BehindSecured(c, cursor.offset)
RunsBehind(c) ==
  \A s \in RunsIn(c) :
    /\ BehindSecured(c, sweep[s].at.offset)
    /\ SweepAt(s, "enqueue") /\ ~sweep[s].failed =>
         \A p \in present[c] \cap sweep[s].items :
           Secured(c, p) \/ \E g \in sweep[s].todo \cup sweep[s].keyed : p \in g

CycleKept(c) ==
  /\ Grown(c) /\ WindowsRead(c) /\ CursorAligned(c) /\ BatchesCut(c) /\ KeysClaimed(c)
  /\ VisitsKeyed(c) /\ KeysStand(c) /\ CursorBehind(c) /\ RunsBehind(c)
SweepInv == SweepShape /\ SweepVisitsOnce /\ \A c \in Live : CycleKept(c)

-----------------------------------------------------------------------------
(* The list, and the batches cut of it.                                         *)
LEMMA CatalogIs ==
  ASSUME SweepShape
  PROVE  /\ catalog \subseteq Nat /\ catalog \subseteq Products /\ IsFiniteSet(catalog)
         /\ Cardinality(catalog) \in 0..MaxProducts /\ MaxProducts \in Nat
         /\ \A p \in catalog : Rank(p, catalog) \in 1..Cardinality(catalog)
<1>1. MaxProducts \in Nat /\ newest \in Nat /\ newest <= MaxProducts /\ catalog \subseteq 1..newest
  BY SweepAssumption DEF SweepShape
<1>2. catalog \subseteq Nat /\ catalog \in SUBSET Products
  BY <1>1 DEF Products
<1>3. IsFiniteSet(Products) /\ Cardinality(Products) = MaxProducts
  <2>1. 1 \in Int /\ MaxProducts \in Int
    BY <1>1
  <2>2. IsFiniteSet(1..MaxProducts) /\ Cardinality(1..MaxProducts) = IF 1 > MaxProducts THEN 0 ELSE MaxProducts - 1 + 1
    BY <2>1, FS_Interval
  <2> QED BY <1>1, <2>2 DEF Products
<1>4. IsFiniteSet(catalog) /\ Cardinality(catalog) <= MaxProducts /\ Cardinality(catalog) \in Nat
  BY <1>2, <1>3, FS_Subset, FS_CardinalityType
<1>5. ASSUME NEW p \in catalog PROVE Rank(p, catalog) \in 1..Cardinality(catalog)
  <2>1. p \in Nat
    BY <1>2
  <2>2. Rank(p, catalog) \in Nat /\ Rank(p, catalog) <= Cardinality(catalog) /\ Rank(p, catalog) >= 1
    BY <1>2, <1>4, <1>5, <2>1, RankIsNat
  <2> QED BY <1>4, <2>2
<1> QED BY <1>1, <1>2, <1>4, <1>5

LEMMA FirstIs ==
  ASSUME NEW g, g \subseteq Nat
  PROVE  /\ g # {} => First(g) \in g
         /\ \A f \in g : (\A q \in g : f <= q) => First(g) = f
<1>1. ASSUME g # {} PROVE First(g) \in g /\ \A q \in g : First(g) <= q
  <2>1. \E p \in g : \A q \in g : p <= q
    BY <1>1, LeastNumber
  <2> QED BY <2>1 DEF First
<1>2. ASSUME NEW f \in g, \A q \in g : f <= q PROVE First(g) = f
  <2>1. First(g) \in g /\ First(g) <= f /\ f <= First(g)
    BY <1>1, <1>2
  <2>2. First(g) \in Nat /\ f \in Nat
    BY <2>1
  <2> QED BY <2>1, <2>2
<1> QED BY <1>1, <1>2

LEMMA StartOfHead ==
  ASSUME NEW x \in SweepSettings, NEW z \in SweepSettings, SameCut(x, z),
         NEW o \in Nat, Aligned(z, o), NEW i \in 1..Window(x)
  PROVE  Start(z, Start(z, o + i) + 1) = Start(z, o + i)
<1> DEFINE b == x.batch
           q == (i - 1) \div b
<1>1. b \in Nat \ {0} /\ Window(x) \in Nat
  BY SettingsAre
<1>2. q \in Nat /\ b * q \in Nat /\ b * q <= i - 1
  <2>1. i - 1 \in Nat
    BY <1>1
  <2>2. q \in Nat /\ (i - 1) % b \in 0..(b - 1) /\ i - 1 = b * q + ((i - 1) % b)
    BY <1>1, <2>1, Division
  <2> DEFINE m == (i - 1) % b
  <2>3. m \in Nat /\ i - 1 = b * q + m
    BY <1>1, <2>2
  <2> HIDE DEF q, b, m
  <2>4. b * q \in Nat
    BY <1>1, <2>2
  <2> QED BY <2>1, <2>2, <2>3, <2>4
<1>3. Start(z, o + i) = o + b * q
  BY StartWithin
<1> HIDE DEF q
<1> DEFINE j == b * q + 1
<1>4. j \in 1..Window(x) /\ o + b * q + 1 = o + j /\ j - 1 = b * q + 0
  <2> DEFINE m == b * q
  <2>1. m \in Nat /\ m <= i - 1
    BY <1>2
  <2> HIDE DEF m
  <2>2. m + 1 \in 1..Window(x) /\ o + m + 1 = o + (m + 1) /\ m + 1 - 1 = m + 0
    BY <1>1, <2>1
  <2>3. m = b * q
    BY DEF m
  <2> QED BY <2>2, <2>3 DEF j
<1> HIDE DEF j
<1>5. Start(z, o + j) = o + b * ((j - 1) \div b)
  BY <1>4, StartWithin
<1>6. (b * q + 0) \div b = q
  <2>1. 0 \in 0..(b - 1)
    BY <1>1
  <2> QED BY <1>1, <1>2, <2>1, QuotientIs
<1>7. (j - 1) \div b = q
  BY <1>4, <1>6
<1> QED BY <1>3, <1>4, <1>5, <1>7

(* What the code cuts is what the invariant calls a batch.                      *)
LEMMA BatchesAre ==
  ASSUME SweepShape, NEW c \in Cycles, settings[c] \in SweepSettings, NEW x \in SweepSettings, SameCut(x, settings[c]),
         NEW o \in Nat, Aligned(settings[c], o), NEW n \in Nat, o + n <= Cardinality(catalog), n <= Window(x),
         NEW items, items = RowsOf(o, n, catalog), NEW g \in Batches(items, x.batch)
  PROVE  IsBatch(c, items, g)
<1> DEFINE z == settings[c]
           b == x.batch
           R(p) == Rank(p, catalog)
<1>1. b \in Nat \ {0} /\ Window(x) \in Nat
  BY SettingsAre
<1>2. /\ catalog \subseteq Nat /\ IsFiniteSet(catalog) /\ Cardinality(catalog) \in Nat
      /\ \A p \in catalog : R(p) \in 1..Cardinality(catalog)
  BY CatalogIs
<1>3. \A p \in items : p \in catalog /\ R(p) \in Nat /\ R(p) - o \in 1..n /\ o + (R(p) - o) = R(p)
  BY <1>2 DEF RowsOf
<1>4. \A p \in items : Rank(p, items) = R(p) - o
  BY <1>2, RankWithin
<1>5. ASSUME NEW p \in items
      PROVE  /\ Start(z, R(p)) = o + b * ((Rank(p, items) - 1) \div b)
             /\ Start(z, Start(z, R(p)) + 1) = Start(z, R(p))
             /\ Start(z, R(p)) \in Nat /\ o <= Start(z, R(p)) /\ Start(z, R(p)) < R(p)
  <2>1. R(p) - o \in 1..Window(x) /\ o + (R(p) - o) = R(p) /\ R(p) \in Nat \ {0} /\ o < R(p)
    BY <1>1, <1>3
  <2>2. Start(z, R(p)) = o + b * ((R(p) - o - 1) \div b) /\ Start(z, Start(z, R(p)) + 1) = Start(z, R(p))
    BY <2>1, StartWithin, StartOfHead
  <2>3. Start(z, R(p)) \in Nat /\ o <= Start(z, R(p)) /\ Start(z, R(p)) < R(p)
    BY <2>1, StartIs
  <2> QED BY <1>4, <2>2, <2>3
<1>6. PICK p \in items : g = {q \in items : (Rank(q, items) - 1) \div b = (Rank(p, items) - 1) \div b}
  BY DEF Batches
<1>7. g = {q \in items : Start(z, R(q)) = Start(z, R(p))}
  <2>1. ASSUME NEW q \in items
        PROVE  (Rank(q, items) - 1) \div b = (Rank(p, items) - 1) \div b <=> Start(z, R(q)) = Start(z, R(p))
    <3> DEFINE i == (Rank(q, items) - 1) \div b
               j == (Rank(p, items) - 1) \div b
    <3>1. Start(z, R(q)) = o + b * i /\ Start(z, R(p)) = o + b * j
      BY <1>5
    <3>2. i \in Nat /\ j \in Nat
      <4>1. Rank(q, items) - 1 \in Nat /\ Rank(p, items) - 1 \in Nat
        BY <1>3, <1>4
      <4> QED BY <1>1, <4>1, Division
    <3> HIDE DEF i, j
    <3>3. b * i \in Nat /\ b * j \in Nat
      BY <1>1, <3>2
    <3>4. ASSUME i < j PROVE b * i # b * j
      <4>1. i + 1 \in Nat /\ i + 1 <= j
        BY <3>2, <3>4
      <4>2. b * (i + 1) <= b * j /\ b * (i + 1) = b * i + b
        BY <1>1, <3>2, <4>1, ProductGrows
      <4> QED BY <1>1, <3>3, <4>2
    <3>5. ASSUME j < i PROVE b * i # b * j
      <4>1. j + 1 \in Nat /\ j + 1 <= i
        BY <3>2, <3>5
      <4>2. b * (j + 1) <= b * i /\ b * (j + 1) = b * j + b
        BY <1>1, <3>2, <4>1, ProductGrows
      <4> QED BY <1>1, <3>3, <4>2
    <3>6. i = j <=> b * i = b * j
      BY <3>2, <3>4, <3>5
    <3>7. i = j <=> o + b * i = o + b * j
      BY <3>3, <3>6
    <3> QED BY <3>1, <3>7 DEF i, j
  <2> QED BY <1>6, <2>1
<1> DEFINE k == Start(z, R(p))
<1>8. PICK f \in catalog : R(f) = k + 1
  <2>1. k + 1 \in 1..Cardinality(catalog)
    <3>1. k \in Nat /\ k < R(p) /\ R(p) \in 1..Cardinality(catalog)
      BY <1>2, <1>3, <1>5
    <3> HIDE DEF k
    <3> QED BY <1>2, <3>1
  <2> QED BY <1>2, <2>1, RankIsTaken
<1>9. f \in g
  <2>1. k + 1 \in o + 1 .. o + n
    <3>1. k \in Nat /\ o <= k /\ k < R(p) /\ R(p) - o \in 1..n /\ R(p) \in Nat
      BY <1>3, <1>5
    <3> HIDE DEF k
    <3> QED BY <3>1
  <2>2. f \in items
    BY <1>8, <2>1 DEF RowsOf
  <2>3. Start(z, R(f)) = k
    BY <1>5, <1>8
  <2> QED BY <1>7, <2>2, <2>3
<1>10. ASSUME NEW q \in g PROVE f <= q
  <2>1. q \in items /\ q \in catalog /\ R(q) \in Nat /\ Start(z, R(q)) = k /\ k \in Nat /\ k < R(q)
    BY <1>3, <1>5, <1>7
  <2>2. R(f) <= R(q)
    <3> HIDE DEF k
    <3> QED BY <1>8, <2>1
  <2> QED BY <1>2, <1>8, <2>1, <2>2, RankGrows
<1>11. First(g) = f
  <2>1. g \subseteq Nat
    BY <1>2, <1>3, <1>7
  <2> QED BY <1>9, <1>10, <2>1, FirstIs
<1>12. ASSUME NEW q \in items PROVE Heads(c, f, q) <=> Start(z, R(q)) = k
  <2>1. Start(z, R(q)) \in Nat /\ k \in Nat
    BY <1>5
  <2> HIDE DEF k
  <2>2. Start(z, R(q)) + 1 = k + 1 <=> Start(z, R(q)) = k
    BY <2>1
  <2> QED BY <1>8, <2>2 DEF Heads
<1> QED BY <1>7, <1>9, <1>11, <1>12 DEF IsBatch

(* A batch has every product of the cycle's list that its first one heads.      *)
LEMMA PresentRank ==
  ASSUME SweepShape, NEW c \in Cycles, Grown(c), NEW p \in present[c]
  PROVE  /\ p \in catalog /\ Rank(p, present[c]) = Rank(p, catalog)
         /\ Rank(p, catalog) <= Cardinality(present[c])
<1>1. present[c] \subseteq catalog /\ catalog \subseteq Nat /\ IsFiniteSet(catalog)
  BY CatalogIs DEF Grown
<1>2. Rank(p, present[c]) = Rank(p, catalog)
  BY <1>1, RankStays DEF Grown
<1>3. present[c] \in SUBSET catalog /\ present[c] \subseteq Nat /\ p \in Nat
  BY <1>1
<1>4. IsFiniteSet(present[c])
  BY <1>1, <1>3, FS_Subset
<1>5. Rank(p, present[c]) <= Cardinality(present[c])
  BY <1>3, <1>4, RankIsNat
<1> QED BY <1>1, <1>2, <1>5

LEMMA BatchIsWhole ==
  ASSUME SweepShape, NEW c \in Cycles, Grown(c), settings[c] \in SweepSettings,
         NEW r, RunShape(r), r.pc = "enqueue", WindowRead(c, r),
         NEW f \in r.items, NEW p \in present[c], Heads(c, f, p)
  PROVE  p \in r.items
<1> DEFINE o == r.at.offset
           n == r.consumed
           i == Rank(p, catalog)
           k == Start(settings[c], i)
<1>1. /\ o \in Nat /\ n \in Nat /\ r.set \in SweepSettings
      /\ r.items = RowsOf(o, n, catalog) /\ SameCut(r.set, settings[c]) /\ Aligned(settings[c], o)
  BY SweepAssumption DEF RunShape, SweepRuns, Cursors, Cleared, WindowRead
<1>2. p \in catalog /\ i \in Nat \ {0} /\ i <= Cardinality(present[c]) /\ Cardinality(present[c]) \in Nat
  <2>1. p \in catalog /\ i <= Cardinality(present[c]) /\ i \in Nat \ {0}
    BY PresentRank, CatalogIs
  <2>2. present[c] \in SUBSET catalog
    BY DEF Grown
  <2> QED BY <2>1, <2>2, CatalogIs, FS_Subset, FS_CardinalityType
<1>3. Rank(f, catalog) \in o + 1 .. o + n /\ k + 1 = Rank(f, catalog)
  BY <1>1 DEF RowsOf, Heads
<1>4. k \in Nat /\ k < i /\ \A a \in Nat : Aligned(settings[c], a) /\ a < i => a <= k
  BY <1>2, StartIs
<1>5. o < i
  <2> HIDE DEF k, i
  <2> QED BY <1>1, <1>2, <1>3, <1>4
<1>6. i <= o + n
  <2>1. CASE r.exhausted
    <3>1. Cardinality(present[c]) <= o + n
      BY <2>1 DEF WindowRead
    <3> HIDE DEF i
    <3> QED BY <1>1, <1>2, <3>1
  <2>2. CASE ~r.exhausted
    <3>1. n = Window(r.set)
      BY <2>2 DEF WindowRead
    <3>2. Aligned(settings[c], o + n) /\ o + n \in Nat
      BY <1>1, <3>1, AlignedNext
    <3> HIDE DEF k, i
    <3>3. ~(o + n < i)
      BY <1>1, <1>2, <1>3, <1>4, <3>2
    <3> QED BY <1>1, <1>2, <3>3
  <2> QED BY <2>1, <2>2
<1>7. i \in o + 1 .. o + n
  <2> HIDE DEF i
  <2> QED BY <1>1, <1>2, <1>5, <1>6
<1> QED BY <1>1, <1>2, <1>7 DEF RowsOf

LEMMA HeadIsOne ==
  ASSUME SweepShape, NEW c, NEW p, NEW e \in catalog, NEW f \in catalog, Heads(c, e, p), Heads(c, f, p)
  PROVE  e = f
<1>1. Rank(e, catalog) = Rank(f, catalog)
  BY DEF Heads
<1> QED BY <1>1, CatalogIs, RankGrows

-----------------------------------------------------------------------------
(* What a step leaves a cycle that it is not about.                             *)
RunStays(s) ==
  LET r == sweep[s]
      q == sweep'[s]
  IN /\ q.set = r.set /\ q.at = r.at /\ q.items = r.items /\ q.consumed = r.consumed /\ q.exhausted = r.exhausted
     /\ q.todo \subseteq r.todo /\ q.keyed = r.keyed /\ q.leant = r.leant
     /\ q.pc = "enqueue" => r.pc = "enqueue" /\ (~q.failed => ~r.failed /\ q.todo = r.todo)
RunLeaves(s) == sweep[s].keyed = {}
CursorMoves(c) ==
  /\ Aligned(settings[c], cursor'.offset) /\ cursor'.offset <= Cardinality(catalog)
  /\ BehindSecured(c, cursor'.offset)
ListStays(c) ==
  /\ catalog' = catalog /\ present'[c] = present[c] /\ settings'[c] = settings[c] /\ visits'[c] = visits[c]
  /\ \A f : <<f, c>> \in childKeys' <=> <<f, c>> \in childKeys
  /\ cursor' = cursor \/ cursor'.cycle # c \/ CursorMoves(c)

LEMMA CycleLeftAlone ==
  ASSUME NEW c \in Cycles, CycleKept(c), ListStays(c),
         \A s \in Sweeps : sweep'[s].at.cycle = c => sweep[s].at.cycle = c /\ RunStays(s),
         \A s \in Sweeps : sweep[s].at.cycle = c /\ sweep'[s].at.cycle # c => RunLeaves(s)
  PROVE  CycleKept(c)'
<1>1. /\ \A s \in RunsIn(c)' : s \in RunsIn(c) /\ RunStays(s)
      /\ \A s \in RunsIn(c) : s \in RunsIn(c)' \/ sweep[s].keyed = {}
  BY DEF RunsIn, RunLeaves
<1>2. catalog' = catalog /\ present'[c] = present[c] /\ settings'[c] = settings[c] /\ visits'[c] = visits[c]
  BY DEF ListStays
<1>3. \A f, p : Heads(c, f, p)' <=> Heads(c, f, p)
  BY <1>2 DEF Heads
<1>4. Grown(c)'
  BY <1>2 DEF CycleKept, Grown
<1>5. WindowsRead(c)'
  <2>1. ASSUME NEW s \in RunsIn(c)' PROVE WindowRead(c, sweep[s])'
    <3>1. WindowRead(c, sweep[s]) /\ RunStays(s)
      BY <1>1 DEF CycleKept, WindowsRead
    <3> QED BY <1>2, <3>1 DEF WindowRead, RunStays
  <2> QED BY <2>1 DEF WindowsRead
<1>6. CursorAligned(c)'
  BY <1>2 DEF CycleKept, CursorAligned, ListStays, CursorMoves
<1>7. BatchesCut(c)'
  <2>1. ASSUME NEW s \in RunsIn(c)', NEW g \in (sweep[s].todo \cup sweep[s].keyed)' PROVE IsBatch(c, sweep[s].items, g)'
    <3>1. IsBatch(c, sweep[s].items, g) /\ sweep'[s].items = sweep[s].items
      BY <1>1 DEF CycleKept, BatchesCut, RunStays
    <3> QED BY <1>3, <3>1 DEF IsBatch
  <2> QED BY <2>1 DEF BatchesCut
<1>8. KeysClaimed(c)'
  <2>1. \A s \in RunsIn(c)' : s \in RunsIn(c) /\ sweep'[s].keyed = sweep[s].keyed
    BY <1>1 DEF RunStays
  <2> QED BY <2>1 DEF CycleKept, KeysClaimed, ListStays
<1>9. \A s \in RunsIn(c)' : s \in RunsIn(c) /\ sweep'[s].keyed = sweep[s].keyed /\ sweep'[s].leant = sweep[s].leant
  BY <1>1 DEF RunStays
<1>10. VisitsKeyed(c)'
  <2>1. ASSUME NEW p \in Products, visits'[c][p] > 0
        PROVE  p \in catalog' /\ \E f \in catalog' :
                 /\ Heads(c, f, p)' /\ <<f, c>> \in childKeys'
                 /\ \A s \in RunsIn(c)' : \A g \in sweep'[s].keyed : First(g) # f
    <3>1. p \in catalog
      BY <1>2, <2>1 DEF CycleKept, VisitsKeyed
    <3>2. PICK f \in catalog : /\ Heads(c, f, p) /\ <<f, c>> \in childKeys
                               /\ \A s \in RunsIn(c) : \A g \in sweep[s].keyed : First(g) # f
      BY <1>2, <2>1 DEF CycleKept, VisitsKeyed
    <3> QED BY <1>2, <1>3, <1>9, <3>1, <3>2 DEF ListStays
  <2> QED BY <2>1 DEF VisitsKeyed
<1>11. KeysStand(c)'
  <2>1. ASSUME NEW f \in catalog', NEW p \in present'[c], <<f, c>> \in childKeys', Heads(c, f, p)'
        PROVE  visits'[c][p] > 0 \/ \E s \in RunsIn(c)' : \E g \in sweep'[s].keyed : First(g) = f /\ p \in g
    <3>1. visits[c][p] > 0 \/ \E s \in RunsIn(c) : \E g \in sweep[s].keyed : First(g) = f /\ p \in g
      BY <1>2, <1>3, <2>1 DEF CycleKept, KeysStand, ListStays
    <3> QED BY <1>1, <1>2, <1>9, <3>1
  <2> QED BY <2>1 DEF KeysStand
<1>12. \A p : Secured(c, p) => Secured(c, p)'
  <2>1. ASSUME NEW p, Secured(c, p) PROVE Secured(c, p)'
    <3>1. CASE visits[c][p] > 0
      BY <1>2, <3>1 DEF Secured
    <3>2. CASE \E s \in RunsIn(c) : \E g \in sweep[s].keyed \cap sweep[s].leant : p \in g
      <4>1. PICK s \in RunsIn(c) : \E g \in sweep[s].keyed \cap sweep[s].leant : p \in g
        BY <3>2
      <4>2. s \in RunsIn(c)' /\ sweep'[s].keyed = sweep[s].keyed /\ sweep'[s].leant = sweep[s].leant
        BY <1>1, <1>9, <4>1
      <4> QED BY <4>1, <4>2 DEF Secured
    <3> QED BY <2>1, <3>1, <3>2 DEF Secured
  <2> QED BY <2>1
<1>13. CursorBehind(c)'
  <2>1. cursor'.cycle = c => BehindSecured(c, cursor'.offset)
    BY DEF CycleKept, CursorBehind, ListStays, CursorMoves
  <2> QED BY <1>2, <1>12, <2>1 DEF CursorBehind, BehindSecured
<1>14. RunsBehind(c)'
  <2>1. ASSUME NEW s \in RunsIn(c)'
        PROVE  /\ BehindSecured(c, sweep[s].at.offset)'
               /\ SweepAt(s, "enqueue")' /\ ~sweep'[s].failed =>
                    \A p \in present'[c] \cap sweep'[s].items :
                      Secured(c, p)' \/ \E g \in sweep'[s].todo \cup sweep'[s].keyed : p \in g
    <3>1. s \in RunsIn(c) /\ RunStays(s)
      BY <1>1
    <3>2. BehindSecured(c, sweep[s].at.offset)'
      BY <1>2, <1>12, <3>1 DEF CycleKept, RunsBehind, BehindSecured, RunStays
    <3>3. ASSUME SweepAt(s, "enqueue")', ~sweep'[s].failed, NEW p \in present'[c] \cap sweep'[s].items
          PROVE  Secured(c, p)' \/ \E g \in sweep'[s].todo \cup sweep'[s].keyed : p \in g
      <4>1. /\ SweepAt(s, "enqueue") /\ ~sweep[s].failed /\ p \in present[c] \cap sweep[s].items
            /\ sweep'[s].todo = sweep[s].todo /\ sweep'[s].keyed = sweep[s].keyed
        BY <1>2, <3>1, <3>3 DEF RunStays, SweepAt
      <4> QED BY <1>12, <3>1, <4>1 DEF CycleKept, RunsBehind
    <3> QED BY <3>2, <3>3
  <2> QED BY <2>1 DEF RunsBehind
<1> QED BY <1>4, <1>5, <1>6, <1>7, <1>8, <1>10, <1>11, <1>13, <1>14 DEF CycleKept

-----------------------------------------------------------------------------
(* A run that enqueues: the list is what it was, its batches are among those it *)
(* had.                                                                         *)
Enqueues(c) ==
  /\ catalog' = catalog /\ present' = present /\ settings' = settings /\ cursor' = cursor
  /\ RunsIn(c)' = RunsIn(c)
  /\ \A t \in RunsIn(c) :
       /\ sweep'[t].pc = sweep[t].pc /\ sweep'[t].set = sweep[t].set /\ sweep'[t].at = sweep[t].at
       /\ sweep'[t].items = sweep[t].items /\ sweep'[t].consumed = sweep[t].consumed
       /\ sweep'[t].exhausted = sweep[t].exhausted
       /\ sweep'[t].todo \cup sweep'[t].keyed \subseteq sweep[t].todo \cup sweep[t].keyed
StillSecured(c) ==
  /\ \A p \in present[c] : Secured(c, p) => Secured(c, p)'
  /\ \A t \in RunsIn(c) : sweep[t].pc = "enqueue" /\ ~sweep'[t].failed =>
       /\ ~sweep[t].failed
       /\ \A p \in present[c], g \in sweep[t].todo \cup sweep[t].keyed : p \in g =>
            Secured(c, p)' \/ \E h \in sweep'[t].todo \cup sweep'[t].keyed : p \in h

LEMMA CycleEnqueues ==
  ASSUME NEW c \in Cycles, CycleKept(c), Enqueues(c), KeysClaimed(c)', VisitsKeyed(c)', KeysStand(c)', StillSecured(c)
  PROVE  CycleKept(c)'
<1>1. \A f, p : Heads(c, f, p)' <=> Heads(c, f, p)
  BY DEF Heads, Enqueues
<1>2. Grown(c)' /\ CursorAligned(c)'
  BY DEF CycleKept, Grown, CursorAligned, Enqueues
<1>3. WindowsRead(c)'
  <2>1. ASSUME NEW s \in RunsIn(c)' PROVE WindowRead(c, sweep[s])'
    BY DEF CycleKept, WindowsRead, Enqueues, WindowRead
  <2> QED BY <2>1 DEF WindowsRead
<1>4. BatchesCut(c)'
  <2>1. ASSUME NEW s \in RunsIn(c)', NEW g \in (sweep[s].todo \cup sweep[s].keyed)' PROVE IsBatch(c, sweep[s].items, g)'
    <3>1. IsBatch(c, sweep[s].items, g) /\ sweep'[s].items = sweep[s].items
      BY DEF CycleKept, BatchesCut, Enqueues
    <3> QED BY <1>1, <3>1 DEF IsBatch
  <2> QED BY <2>1 DEF BatchesCut
<1>5. CursorBehind(c)'
  BY DEF CycleKept, CursorBehind, BehindSecured, Enqueues, StillSecured
<1>6. RunsBehind(c)'
  <2>1. ASSUME NEW s \in RunsIn(c)'
        PROVE  /\ BehindSecured(c, sweep[s].at.offset)'
               /\ SweepAt(s, "enqueue")' /\ ~sweep'[s].failed =>
                    \A p \in present'[c] \cap sweep'[s].items :
                      Secured(c, p)' \/ \E g \in sweep'[s].todo \cup sweep'[s].keyed : p \in g
    <3>1. s \in RunsIn(c) /\ present' = present /\ catalog' = catalog /\ sweep'[s].at = sweep[s].at
      BY DEF Enqueues
    <3>2. BehindSecured(c, sweep[s].at.offset)'
      BY <3>1 DEF CycleKept, RunsBehind, BehindSecured, StillSecured
    <3>3. ASSUME SweepAt(s, "enqueue")', ~sweep'[s].failed, NEW p \in present'[c] \cap sweep'[s].items
          PROVE  Secured(c, p)' \/ \E g \in sweep'[s].todo \cup sweep'[s].keyed : p \in g
      <4>1. SweepAt(s, "enqueue") /\ ~sweep[s].failed /\ p \in present[c] \cap sweep[s].items
        BY <3>1, <3>3 DEF Enqueues, StillSecured, SweepAt
      <4>2. Secured(c, p) \/ \E g \in sweep[s].todo \cup sweep[s].keyed : p \in g
        BY <3>1, <4>1 DEF CycleKept, RunsBehind
      <4> QED BY <3>1, <3>3, <4>1, <4>2 DEF StillSecured, SweepAt
    <3> QED BY <3>2, <3>3
  <2> QED BY <2>1 DEF RunsBehind
<1> QED BY <1>2, <1>3, <1>4, <1>5, <1>6 DEF CycleKept

(* A run's batch, its first product and the products of the list it stands for. *)
LEMMA BatchStands ==
  ASSUME SweepShape, NEW c \in Cycles, CycleKept(c), settings[c] \in SweepSettings,
         NEW s \in RunsIn(c), NEW g \in sweep[s].todo \cup sweep[s].keyed
  PROVE  /\ First(g) \in g /\ g \subseteq catalog /\ First(g) \in catalog
         /\ \A p \in g : Heads(c, First(g), p)
         /\ \A p \in present[c] : Heads(c, First(g), p) => p \in g
         /\ sweep[s].pc = "enqueue" /\ RunShape(sweep[s])
<1>1. s \in Sweeps /\ RunShape(sweep[s]) /\ WindowRead(c, sweep[s]) /\ IsBatch(c, sweep[s].items, g) /\ Grown(c)
  BY DEF RunsIn, SweepShape, CycleKept, WindowsRead, BatchesCut
<1>2. sweep[s].pc = "enqueue"
  BY <1>1 DEF RunShape
<1>3. First(g) \in g /\ g = {p \in sweep[s].items : Heads(c, First(g), p)}
  BY <1>1 DEF IsBatch
<1>4. sweep[s].items \subseteq catalog
  BY <1>1 DEF WindowRead, RowsOf
<1>5. ASSUME NEW p \in present[c], Heads(c, First(g), p) PROVE p \in g
  <2>1. p \in sweep[s].items
    BY <1>1, <1>2, <1>3, <1>5, BatchIsWhole
  <2> QED BY <1>3, <1>5, <2>1
<1> QED BY <1>1, <1>2, <1>3, <1>4, <1>5

(* A key that is there already.                                                 *)
LEMMA KeyFound ==
  ASSUME SweepShape, NEW c \in Cycles, CycleKept(c), settings[c] \in SweepSettings, Enqueues(c),
         NEW s \in RunsIn(c), NEW g \in sweep[s].todo, <<First(g), c>> \in childKeys,
         UNCHANGED <<childKeys, visits>>,
         \A t \in RunsIn(c) :
           /\ sweep'[t].keyed = sweep[t].keyed /\ sweep'[t].failed = sweep[t].failed
           /\ sweep'[t].leant = sweep[t].leant \cup {h \in sweep[t].keyed : First(h) = First(g)}
           /\ sweep'[t].todo = IF t = s THEN sweep[t].todo \ {g} ELSE sweep[t].todo
  PROVE  CycleKept(c)'
<1>1. RunsIn(c)' = RunsIn(c) /\ catalog' = catalog /\ present' = present /\ settings' = settings
  BY DEF Enqueues
<1>2. \A f, p : Heads(c, f, p)' <=> Heads(c, f, p)
  BY <1>1 DEF Heads
<1>0. \A t \in RunsIn(c) : sweep'[t].keyed = sweep[t].keyed /\ sweep[t].leant \subseteq sweep'[t].leant
  OBVIOUS
<1>3. KeysClaimed(c)'
  BY <1>0, <1>1 DEF CycleKept, KeysClaimed
<1>4. VisitsKeyed(c)'
  BY <1>0, <1>1, <1>2 DEF CycleKept, VisitsKeyed
<1>5. KeysStand(c)'
  <2>1. ASSUME NEW f \in catalog', NEW p \in present'[c], <<f, c>> \in childKeys', Heads(c, f, p)'
        PROVE  visits'[c][p] > 0 \/ \E t \in RunsIn(c)' : \E h \in sweep'[t].keyed : First(h) = f /\ p \in h
    <3>1. visits[c][p] > 0 \/ \E t \in RunsIn(c) : \E h \in sweep[t].keyed : First(h) = f /\ p \in h
      BY <1>1, <1>2, <2>1 DEF CycleKept, KeysStand
    <3> QED BY <1>0, <1>1, <3>1
  <2> QED BY <2>1 DEF KeysStand
<1>6. ASSUME NEW p, Secured(c, p) PROVE Secured(c, p)'
  BY <1>0, <1>1, <1>6 DEF Secured
<1>7. ASSUME NEW p \in present[c], p \in g PROVE Secured(c, p)'
  <2>1. First(g) \in catalog /\ Heads(c, First(g), p)
    BY <1>7, BatchStands
  <2>2. visits[c][p] > 0 \/ \E t \in RunsIn(c) : \E h \in sweep[t].keyed : First(h) = First(g) /\ p \in h
    BY <1>7, <2>1 DEF CycleKept, KeysStand
  <2> QED BY <1>1, <2>2 DEF Secured
<1>8. StillSecured(c)
  <2>1. ASSUME NEW t \in RunsIn(c), NEW p \in present[c], NEW h \in sweep[t].todo \cup sweep[t].keyed, p \in h
        PROVE  Secured(c, p)' \/ \E k \in sweep'[t].todo \cup sweep'[t].keyed : p \in k
    <3>1. CASE h = g
      BY <1>7, <2>1, <3>1
    <3>2. CASE h # g
      BY <2>1, <3>2
    <3> QED BY <3>1, <3>2
  <2> QED BY <1>6, <2>1 DEF StillSecured
<1> QED BY <1>3, <1>4, <1>5, <1>8, CycleEnqueues

(* A key that this run sets.                                                    *)
LEMMA KeySet ==
  ASSUME SweepShape, NEW c \in Cycles, CycleKept(c), settings[c] \in SweepSettings, Enqueues(c),
         NEW s \in RunsIn(c), NEW g \in sweep[s].todo, <<First(g), c>> \notin childKeys,
         childKeys' = childKeys \cup {<<First(g), c>>}, UNCHANGED visits,
         \A t \in RunsIn(c) :
           /\ sweep'[t].leant = sweep[t].leant /\ sweep'[t].failed = sweep[t].failed
           /\ sweep'[t].todo = IF t = s THEN sweep[t].todo \ {g} ELSE sweep[t].todo
           /\ sweep'[t].keyed = IF t = s THEN sweep[t].keyed \cup {g} ELSE sweep[t].keyed
  PROVE  CycleKept(c)'
<1>1. RunsIn(c)' = RunsIn(c) /\ catalog' = catalog /\ present' = present /\ settings' = settings
  BY DEF Enqueues
<1>2. \A f, p : Heads(c, f, p)' <=> Heads(c, f, p)
  BY <1>1 DEF Heads
<1>3. \A t \in RunsIn(c) : \A h \in sweep[t].keyed : <<First(h), c>> \in childKeys /\ First(h) # First(g)
  BY DEF CycleKept, KeysClaimed
<1>0. \A t \in RunsIn(c) : \A h \in sweep'[t].keyed : (t = s /\ h = g) \/ h \in sweep[t].keyed
  OBVIOUS
<1>4. KeysClaimed(c)'
  <2>1. ASSUME NEW t \in RunsIn(c)', NEW h \in sweep'[t].keyed PROVE <<First(h), c>> \in childKeys'
    BY <1>0, <1>1, <1>3
  <2>2. ASSUME NEW t \in RunsIn(c)', NEW u \in RunsIn(c)', NEW h \in sweep'[t].keyed, NEW k \in sweep'[u].keyed,
               First(h) = First(k)
        PROVE  t = u /\ h = k
    <3>1. CASE (t = s /\ h = g) /\ (u = s /\ k = g)
      BY <3>1
    <3>2. CASE ~(t = s /\ h = g) /\ ~(u = s /\ k = g)
      <4>1. t \in RunsIn(c) /\ u \in RunsIn(c) /\ h \in sweep[t].keyed /\ k \in sweep[u].keyed
        BY <1>0, <1>1, <2>2, <3>2
      <4> QED BY <2>2, <4>1 DEF CycleKept, KeysClaimed
    <3>3. CASE (t = s /\ h = g) /\ ~(u = s /\ k = g)
      <4>1. u \in RunsIn(c) /\ k \in sweep[u].keyed
        BY <1>0, <1>1, <2>2, <3>3
      <4> QED BY <1>3, <2>2, <3>3, <4>1
    <3>4. CASE ~(t = s /\ h = g) /\ (u = s /\ k = g)
      <4>1. t \in RunsIn(c) /\ h \in sweep[t].keyed
        BY <1>0, <1>1, <2>2, <3>4
      <4> QED BY <1>3, <2>2, <3>4, <4>1
    <3> QED BY <3>1, <3>2, <3>3, <3>4
  <2> QED BY <2>1, <2>2 DEF KeysClaimed
<1>5. VisitsKeyed(c)'
  <2>1. ASSUME NEW p \in Products, visits'[c][p] > 0
        PROVE  p \in catalog' /\ \E f \in catalog' :
                 /\ Heads(c, f, p)' /\ <<f, c>> \in childKeys'
                 /\ \A t \in RunsIn(c)' : \A h \in sweep'[t].keyed : First(h) # f
    <3>1. p \in catalog
      BY <2>1 DEF CycleKept, VisitsKeyed
    <3>2. PICK f \in catalog : /\ Heads(c, f, p) /\ <<f, c>> \in childKeys
                               /\ \A t \in RunsIn(c) : \A h \in sweep[t].keyed : First(h) # f
      BY <2>1 DEF CycleKept, VisitsKeyed
    <3>3. First(g) # f
      BY <3>2
    <3>4. \A t \in RunsIn(c)' : \A h \in sweep'[t].keyed : First(h) # f
      BY <1>0, <1>1, <3>2, <3>3
    <3> QED BY <1>1, <1>2, <3>1, <3>2, <3>4
  <2> QED BY <2>1 DEF VisitsKeyed
<1>6. KeysStand(c)'
  <2>1. ASSUME NEW f \in catalog', NEW p \in present'[c], <<f, c>> \in childKeys', Heads(c, f, p)'
        PROVE  visits'[c][p] > 0 \/ \E t \in RunsIn(c)' : \E h \in sweep'[t].keyed : First(h) = f /\ p \in h
    <3>1. f \in catalog /\ p \in present[c] /\ Heads(c, f, p)
      BY <1>1, <1>2, <2>1
    <3>2. CASE f = First(g)
      <4>1. p \in g /\ s \in RunsIn(c)' /\ g \in sweep'[s].keyed
        BY <1>1, <3>1, <3>2, BatchStands
      <4> QED BY <3>2, <4>1
    <3>3. CASE f # First(g)
      <4>1. <<f, c>> \in childKeys
        BY <2>1, <3>3
      <4>2. visits[c][p] > 0 \/ \E t \in RunsIn(c) : \E h \in sweep[t].keyed : First(h) = f /\ p \in h
        BY <3>1, <4>1 DEF CycleKept, KeysStand
      <4>3. \A t \in RunsIn(c) : sweep[t].keyed \subseteq sweep'[t].keyed
        OBVIOUS
      <4> QED BY <1>1, <4>2, <4>3
    <3> QED BY <3>2, <3>3
  <2> QED BY <2>1 DEF KeysStand
<1>7. ASSUME NEW p, Secured(c, p) PROVE Secured(c, p)'
  <2>1. \A t \in RunsIn(c) : sweep[t].keyed \cap sweep[t].leant \subseteq sweep'[t].keyed \cap sweep'[t].leant
    OBVIOUS
  <2> QED BY <1>1, <1>7, <2>1 DEF Secured
<1>8. StillSecured(c)
  <2>1. \A t \in RunsIn(c) : sweep[t].todo \cup sweep[t].keyed \subseteq sweep'[t].todo \cup sweep'[t].keyed
    OBVIOUS
  <2> QED BY <1>7, <2>1 DEF StillSecured
<1> QED BY <1>4, <1>5, <1>6, <1>8, CycleEnqueues

(* The child of a key this run has set is added, ...                            *)
LEMMA ChildAdded ==
  ASSUME SweepShape, NEW c \in Cycles, CycleKept(c), settings[c] \in SweepSettings, Enqueues(c),
         NEW s \in RunsIn(c), NEW g \in sweep[s].keyed, UNCHANGED childKeys,
         visits'[c] = [p \in Products |-> IF p \in g THEN visits[c][p] + 1 ELSE visits[c][p]],
         \A t \in RunsIn(c) :
           /\ sweep'[t].todo = sweep[t].todo /\ (sweep[t].failed => sweep'[t].failed)
           /\ sweep'[t].keyed = IF t = s THEN sweep[t].keyed \ {g} ELSE sweep[t].keyed
           /\ sweep'[t].leant = IF t = s THEN sweep[t].leant \ {g} ELSE sweep[t].leant
  PROVE  CycleKept(c)' /\ \A p \in g : p \in Products /\ visits[c][p] = 0
<1>1. RunsIn(c)' = RunsIn(c) /\ catalog' = catalog /\ present' = present /\ settings' = settings
  BY DEF Enqueues
<1>2. \A f, p : Heads(c, f, p)' <=> Heads(c, f, p)
  BY <1>1 DEF Heads
<1>3. \A t \in RunsIn(c) : \A h \in sweep'[t].keyed : h \in sweep[t].keyed /\ ~(t = s /\ h = g)
  OBVIOUS
<1>4. \A t \in RunsIn(c) : \A h \in sweep[t].keyed :
        /\ (t = s /\ h = g) \/ h \in sweep'[t].keyed
        /\ h \in sweep[t].leant => (t = s /\ h = g) \/ h \in sweep'[t].leant
  OBVIOUS
<1>5. g \in sweep[s].todo \cup sweep[s].keyed /\ catalog \subseteq Products /\ \A p \in Products : visits[c][p] \in Nat
  BY CatalogIs DEF SweepShape
<1>6. First(g) \in catalog /\ g \subseteq catalog /\ \A p \in g : Heads(c, First(g), p)
  BY <1>5, BatchStands
<1>7. ASSUME NEW p \in g PROVE p \in Products /\ visits[c][p] = 0
  <2>1. p \in Products /\ visits[c][p] \in Nat
    BY <1>5, <1>6
  <2>2. ASSUME visits[c][p] > 0 PROVE FALSE
    <3>1. PICK f \in catalog : /\ Heads(c, f, p) /\ <<f, c>> \in childKeys
                               /\ \A t \in RunsIn(c) : \A h \in sweep[t].keyed : First(h) # f
      BY <2>1, <2>2 DEF CycleKept, VisitsKeyed
    <3>2. f = First(g)
      BY <1>6, <3>1, HeadIsOne
    <3> QED BY <3>1, <3>2
  <2> QED BY <2>1, <2>2
<1>8. \A p \in Products : visits'[c][p] = IF p \in g THEN visits[c][p] + 1 ELSE visits[c][p]
  OBVIOUS
<1>9. \A p \in Products : visits[c][p] > 0 \/ p \in g <=> visits'[c][p] > 0
  BY <1>5, <1>7, <1>8
<1>10. KeysClaimed(c)'
  BY <1>1, <1>3 DEF CycleKept, KeysClaimed
<1>11. VisitsKeyed(c)'
  <2>1. ASSUME NEW p \in Products, visits'[c][p] > 0
        PROVE  p \in catalog' /\ \E f \in catalog' :
                 /\ Heads(c, f, p)' /\ <<f, c>> \in childKeys'
                 /\ \A t \in RunsIn(c)' : \A h \in sweep'[t].keyed : First(h) # f
    <3>1. CASE p \in g
      <4>1. \A t \in RunsIn(c)' : \A h \in sweep'[t].keyed : First(h) # First(g)
        BY <1>1, <1>3 DEF CycleKept, KeysClaimed
      <4>2. <<First(g), c>> \in childKeys'
        BY DEF CycleKept, KeysClaimed
      <4> QED BY <1>1, <1>2, <1>6, <3>1, <4>1, <4>2
    <3>2. CASE p \notin g
      <4>1. p \in catalog
        BY <1>9, <2>1, <3>2 DEF CycleKept, VisitsKeyed
      <4>2. PICK f \in catalog : /\ Heads(c, f, p) /\ <<f, c>> \in childKeys
                                 /\ \A t \in RunsIn(c) : \A h \in sweep[t].keyed : First(h) # f
        BY <1>9, <2>1, <3>2 DEF CycleKept, VisitsKeyed
      <4>3. \A t \in RunsIn(c)' : \A h \in sweep'[t].keyed : First(h) # f
        BY <1>1, <1>3, <4>2
      <4> QED BY <1>1, <1>2, <4>1, <4>2, <4>3
    <3> QED BY <3>1, <3>2
  <2> QED BY <2>1 DEF VisitsKeyed
<1>12. \A p \in present[c] : p \in Products
  BY <1>5 DEF CycleKept, Grown
<1>13. KeysStand(c)'
  <2>1. ASSUME NEW f \in catalog', NEW p \in present'[c], <<f, c>> \in childKeys', Heads(c, f, p)'
        PROVE  visits'[c][p] > 0 \/ \E t \in RunsIn(c)' : \E h \in sweep'[t].keyed : First(h) = f /\ p \in h
    <3>1. visits[c][p] > 0 \/ \E t \in RunsIn(c) : \E h \in sweep[t].keyed : First(h) = f /\ p \in h
      BY <1>1, <1>2, <2>1 DEF CycleKept, KeysStand
    <3> QED BY <1>1, <1>4, <1>9, <1>12, <2>1, <3>1
  <2> QED BY <2>1 DEF KeysStand
<1>14. ASSUME NEW p \in present[c], Secured(c, p) PROVE Secured(c, p)'
  BY <1>1, <1>4, <1>9, <1>12, <1>14 DEF Secured
<1>15. StillSecured(c)
  <2>1. ASSUME NEW t \in RunsIn(c), NEW p \in present[c], NEW h \in sweep[t].todo \cup sweep[t].keyed, p \in h
        PROVE  Secured(c, p)' \/ \E k \in sweep'[t].todo \cup sweep'[t].keyed : p \in k
    <3>1. CASE h = g
      BY <1>9, <1>12, <2>1, <3>1 DEF Secured
    <3>2. CASE h # g
      <4>1. h \in sweep'[t].todo \cup sweep'[t].keyed
        BY <1>4, <2>1, <3>2
      <4> QED BY <2>1, <4>1
    <3> QED BY <3>1, <3>2
  <2>2. \A t \in RunsIn(c) : ~sweep'[t].failed => ~sweep[t].failed
    OBVIOUS
  <2> QED BY <1>14, <2>1, <2>2 DEF StillSecured
<1> QED BY <1>7, <1>10, <1>11, <1>13, <1>15, CycleEnqueues

(* ... or is not, and its key is deleted: the run has failed.                   *)
LEMMA ChildDropped ==
  ASSUME SweepShape, NEW c \in Cycles, CycleKept(c), settings[c] \in SweepSettings, Enqueues(c),
         NEW s \in RunsIn(c), NEW g \in sweep[s].keyed, g \notin sweep[s].leant,
         childKeys' = childKeys \ {<<First(g), c>>}, UNCHANGED visits, sweep'[s].failed,
         \A t \in RunsIn(c) :
           /\ sweep'[t].todo = sweep[t].todo /\ (sweep[t].failed => sweep'[t].failed)
           /\ sweep'[t].keyed = IF t = s THEN sweep[t].keyed \ {g} ELSE sweep[t].keyed
           /\ sweep'[t].leant = IF t = s THEN sweep[t].leant \ {g} ELSE sweep[t].leant
  PROVE  CycleKept(c)'
<1>1. RunsIn(c)' = RunsIn(c) /\ catalog' = catalog /\ present' = present /\ settings' = settings
  BY DEF Enqueues
<1>2. \A f, p : Heads(c, f, p)' <=> Heads(c, f, p)
  BY <1>1 DEF Heads
<1>3. \A t \in RunsIn(c) : \A h \in sweep'[t].keyed : h \in sweep[t].keyed /\ ~(t = s /\ h = g)
  OBVIOUS
<1>4. \A t \in RunsIn(c) : \A h \in sweep[t].keyed :
        /\ (t = s /\ h = g) \/ h \in sweep'[t].keyed
        /\ h \in sweep[t].leant => h \in sweep'[t].keyed /\ h \in sweep'[t].leant
  OBVIOUS
<1>5. \A t \in RunsIn(c) : \A h \in sweep'[t].keyed : First(h) # First(g)
  BY <1>3 DEF CycleKept, KeysClaimed
<1>6. KeysClaimed(c)'
  <2>1. ASSUME NEW t \in RunsIn(c)', NEW h \in sweep'[t].keyed PROVE <<First(h), c>> \in childKeys'
    <3>1. <<First(h), c>> \in childKeys
      BY <1>1, <1>3 DEF CycleKept, KeysClaimed
    <3> QED BY <1>1, <1>5, <3>1
  <2> QED BY <1>1, <1>3, <2>1 DEF CycleKept, KeysClaimed
<1>7. VisitsKeyed(c)'
  <2>1. ASSUME NEW p \in Products, visits'[c][p] > 0
        PROVE  p \in catalog' /\ \E f \in catalog' :
                 /\ Heads(c, f, p)' /\ <<f, c>> \in childKeys'
                 /\ \A t \in RunsIn(c)' : \A h \in sweep'[t].keyed : First(h) # f
    <3>1. p \in catalog
      BY <2>1 DEF CycleKept, VisitsKeyed
    <3>2. PICK f \in catalog : /\ Heads(c, f, p) /\ <<f, c>> \in childKeys
                               /\ \A t \in RunsIn(c) : \A h \in sweep[t].keyed : First(h) # f
      BY <2>1 DEF CycleKept, VisitsKeyed
    <3>3. f # First(g)
      BY <3>2
    <3>4. \A t \in RunsIn(c)' : \A h \in sweep'[t].keyed : First(h) # f
      BY <1>1, <1>3, <3>2
    <3> QED BY <1>1, <1>2, <3>1, <3>2, <3>3, <3>4
  <2> QED BY <2>1 DEF VisitsKeyed
<1>8. KeysStand(c)'
  <2>1. ASSUME NEW f \in catalog', NEW p \in present'[c], <<f, c>> \in childKeys', Heads(c, f, p)'
        PROVE  visits'[c][p] > 0 \/ \E t \in RunsIn(c)' : \E h \in sweep'[t].keyed : First(h) = f /\ p \in h
    <3>1. f # First(g) /\ <<f, c>> \in childKeys
      BY <2>1
    <3>2. visits[c][p] > 0 \/ \E t \in RunsIn(c) : \E h \in sweep[t].keyed : First(h) = f /\ p \in h
      BY <1>1, <1>2, <2>1, <3>1 DEF CycleKept, KeysStand
    <3> QED BY <1>1, <1>4, <3>1, <3>2
  <2> QED BY <2>1 DEF KeysStand
<1>9. ASSUME NEW p, Secured(c, p) PROVE Secured(c, p)'
  BY <1>1, <1>4, <1>9 DEF Secured
<1>10. StillSecured(c)
  <2>1. ASSUME NEW t \in RunsIn(c), ~sweep'[t].failed, NEW p \in present[c],
               NEW h \in sweep[t].todo \cup sweep[t].keyed, p \in h
        PROVE  \E k \in sweep'[t].todo \cup sweep'[t].keyed : p \in k
    <3>1. t # s
      BY <2>1
    <3>2. h \in sweep'[t].todo \cup sweep'[t].keyed
      BY <1>4, <2>1, <3>1
    <3> QED BY <2>1, <3>2
  <2>2. \A t \in RunsIn(c) : ~sweep'[t].failed => ~sweep[t].failed
    OBVIOUS
  <2> QED BY <1>9, <2>1, <2>2 DEF StillSecured
<1> QED BY <1>6, <1>7, <1>8, <1>10, CycleEnqueues

-----------------------------------------------------------------------------
(* A run that goes on where the cursor is; a run that begins a cycle.           *)
LEMMA CycleJoined ==
  ASSUME SweepShape, NEW c \in Cycles, CycleKept(c), settings[c] \in SweepSettings,
         NEW s \in Sweeps, s \notin RunsIn(c), cursor.cycle = c,
         UNCHANGED <<catalog, present, settings, visits, childKeys, cursor>>,
         \A t \in Sweeps \ {s} : sweep'[t] = sweep[t],
         sweep'[s].pc = "page", sweep'[s].at = cursor, SameCut(sweep'[s].set, settings[c]),
         sweep'[s].set \in SweepSettings, sweep'[s].items = {}, sweep'[s].consumed = 0,
         sweep'[s].todo = {}, sweep'[s].keyed = {}
  PROVE  CycleKept(c)'
<1>1. RunsIn(c)' = RunsIn(c) \cup {s} /\ \A t \in RunsIn(c) : t \in Sweeps /\ t # s /\ sweep'[t] = sweep[t]
  BY DEF RunsIn
<1>2. \A f, p : Heads(c, f, p)' <=> Heads(c, f, p)
  BY DEF Heads
<1>3. Grown(c)' /\ CursorAligned(c)'
  BY DEF CycleKept, Grown, CursorAligned
<1>4. WindowsRead(c)'
  <2>1. WindowRead(c, sweep[s])'
    <3>1. cursor.offset \in Nat
      BY SweepAssumption DEF SweepShape, Cursors, Cleared
    <3>2. cursor.offset <= Cardinality(catalog) /\ Aligned(settings[c], cursor.offset)
      BY DEF CycleKept, CursorAligned
    <3>3. RowsOf(cursor.offset, 0, catalog) = {}
      <4>1. cursor.offset + 1 .. cursor.offset + 0 = {}
        BY <3>1
      <4> QED BY <4>1 DEF RowsOf
    <3>4. cursor.offset + 0 <= Cardinality(catalog)
      BY <3>1, <3>2
    <3>5. 0 <= Window(sweep'[s].set)
      BY SettingsAre
    <3>6. RowsOf(cursor.offset, 0, catalog)' = {} /\ SameCut(sweep'[s].set, settings'[c])
          /\ Aligned(settings'[c], cursor.offset) /\ sweep'[s].at.offset = cursor.offset
      BY <3>2, <3>3 DEF RowsOf
    <3> QED BY <3>3, <3>4, <3>5, <3>6 DEF WindowRead
  <2>2. ASSUME NEW t \in RunsIn(c) PROVE WindowRead(c, sweep[t])'
    BY <1>1 DEF CycleKept, WindowsRead, WindowRead
  <2> QED BY <1>1, <2>1, <2>2 DEF WindowsRead
<1>5. BatchesCut(c)'
  <2>1. ASSUME NEW t \in RunsIn(c), NEW g \in sweep'[t].todo \cup sweep'[t].keyed PROVE IsBatch(c, sweep[t].items, g)'
    <3>1. IsBatch(c, sweep[t].items, g) /\ sweep'[t].items = sweep[t].items
      BY <1>1 DEF CycleKept, BatchesCut
    <3> QED BY <1>2, <3>1 DEF IsBatch
  <2> QED BY <1>1, <2>1 DEF BatchesCut
<1>6. /\ \A t \in RunsIn(c)' : \A g \in sweep'[t].keyed : t \in RunsIn(c) /\ g \in sweep[t].keyed
      /\ \A t \in RunsIn(c) : t \in RunsIn(c)' /\ sweep'[t] = sweep[t]
  BY <1>1
<1>7. KeysClaimed(c)'
  BY <1>6 DEF CycleKept, KeysClaimed
<1>8. VisitsKeyed(c)'
  BY <1>2, <1>6 DEF CycleKept, VisitsKeyed
<1>9. KeysStand(c)'
  BY <1>2, <1>6 DEF CycleKept, KeysStand
<1>10. ASSUME NEW p, Secured(c, p) PROVE Secured(c, p)'
  BY <1>6, <1>10 DEF Secured
<1>11. CursorBehind(c)'
  BY <1>10 DEF CycleKept, CursorBehind, BehindSecured
<1>12. RunsBehind(c)'
  <2>1. BehindSecured(c, sweep[s].at.offset)' /\ ~SweepAt(s, "enqueue")'
    BY <1>10 DEF CycleKept, CursorBehind, BehindSecured, SweepAt
  <2>2. ASSUME NEW t \in RunsIn(c)
        PROVE  /\ BehindSecured(c, sweep[t].at.offset)'
               /\ SweepAt(t, "enqueue")' /\ ~sweep'[t].failed =>
                    \A p \in present'[c] \cap sweep'[t].items :
                      Secured(c, p)' \/ \E g \in sweep'[t].todo \cup sweep'[t].keyed : p \in g
    <3>1. sweep'[t] = sweep[t]
      BY <1>1
    <3> QED BY <1>10, <3>1 DEF CycleKept, RunsBehind, BehindSecured, SweepAt
  <2> QED BY <1>1, <2>1, <2>2 DEF RunsBehind
<1> QED BY <1>3, <1>4, <1>5, <1>7, <1>8, <1>9, <1>11, <1>12 DEF CycleKept

LEMMA CycleBegun ==
  ASSUME SweepShape, NEW c \in Cycles, ~InUse(c), NEW s \in Sweeps, UNCHANGED <<catalog, cursor>>,
         present'[c] = catalog, settings'[c] = sweep'[s].set, \A p \in Products : visits'[c][p] = 0,
         \A f : <<f, c>> \notin childKeys',
         \A t \in Sweeps \ {s} : sweep'[t] = sweep[t],
         sweep'[s].pc = "page", sweep'[s].at = [cycle |-> c, offset |-> 0],
         sweep'[s].set \in SweepSettings, sweep'[s].items = {}, sweep'[s].consumed = 0,
         sweep'[s].todo = {}, sweep'[s].keyed = {}
  PROVE  CycleKept(c)'
<1>1. RunsIn(c)' = {s} /\ cursor'.cycle # c
  BY DEF RunsIn, InUse
<1>2. /\ catalog \subseteq Nat /\ catalog \subseteq Products /\ Cardinality(catalog) \in Nat
      /\ \A p \in catalog : Rank(p, catalog) \in Nat /\ ~(Rank(p, catalog) <= 0)
  BY CatalogIs
<1>3. Grown(c)' /\ CursorAligned(c)' /\ CursorBehind(c)'
  BY <1>1 DEF Grown, CursorAligned, CursorBehind
<1>4. WindowsRead(c)'
  <2>1. RowsOf(0, 0, catalog)' = {}
    <3>1. 0 + 1 .. 0 + 0 = {}
      OBVIOUS
    <3> QED BY <3>1 DEF RowsOf
  <2>2. Aligned(settings'[c], 0) /\ 0 <= Window(sweep'[s].set) /\ 0 + 0 <= Cardinality(catalog)
    BY <1>2, AlignedAtFirst, SettingsAre
  <2>3. SameCut(sweep'[s].set, settings'[c])
    BY DEF SameCut
  <2>4. WindowRead(c, sweep[s])'
    BY <2>1, <2>2, <2>3 DEF WindowRead
  <2> QED BY <1>1, <2>4 DEF WindowsRead
<1>5. BatchesCut(c)' /\ KeysClaimed(c)' /\ KeysStand(c)'
  BY <1>1 DEF BatchesCut, KeysClaimed, KeysStand
<1>6. VisitsKeyed(c)'
  BY DEF VisitsKeyed
<1>7. RunsBehind(c)'
  <2>1. BehindSecured(c, sweep[s].at.offset)'
    <3>1. sweep'[s].at.offset = 0 /\ present'[c] = catalog /\ catalog' = catalog
      OBVIOUS
    <3>2. \A p \in present'[c] : ~(Rank(p, catalog') <= sweep'[s].at.offset)
      BY <1>2, <3>1
    <3> QED BY <3>2 DEF BehindSecured
  <2> QED BY <1>1, <2>1 DEF RunsBehind, SweepAt
<1> QED BY <1>3, <1>4, <1>5, <1>6, <1>7 DEF CycleKept

(* A page is read; the last one is cut.                                         *)
LEMMA PageFetched ==
  ASSUME SweepShape, NEW c \in Cycles, CycleKept(c), settings[c] \in SweepSettings,
         NEW s \in RunsIn(c), sweep[s].pc = "page",
         UNCHANGED <<catalog, present, settings, visits, childKeys, cursor>>,
         \A t \in Sweeps \ {s} : sweep'[t] = sweep[t],
         NEW rows, rows = Rows(sweep[s].at.offset + sweep[s].consumed, PageSize),
         NEW last \in BOOLEAN,
         last <=> Cardinality(rows) < PageSize \/ sweep[s].consumed + Cardinality(rows) >= sweep[s].set.budget,
         sweep'[s].pc = IF last THEN "enqueue" ELSE "page", sweep'[s].at = sweep[s].at,
         sweep'[s].set = sweep[s].set, sweep'[s].items = sweep[s].items \cup rows,
         sweep'[s].consumed = sweep[s].consumed + Cardinality(rows),
         sweep'[s].exhausted = (Cardinality(rows) < PageSize), sweep'[s].keyed = sweep[s].keyed,
         sweep'[s].todo = IF last THEN Batches(sweep[s].items \cup rows, sweep[s].set.batch) ELSE {}
  PROVE  CycleKept(c)'
<1> DEFINE x == sweep[s].set
           o == sweep[s].at.offset
           n == sweep[s].consumed
           m == Cardinality(rows)
<1>1. /\ s \in Sweeps /\ x \in SweepSettings /\ o \in Nat /\ n \in Nat /\ sweep[s].keyed = {} /\ sweep[s].todo = {}
      /\ n < x.budget /\ \E k \in Nat : n = PageSize * k
  <2>1. s \in Sweeps /\ RunShape(sweep[s])
    BY DEF RunsIn, SweepShape
  <2>2. /\ x \in SweepSettings /\ sweep[s].at \in Cursors /\ n \in Nat /\ sweep[s].keyed = {} /\ sweep[s].todo = {}
        /\ n < x.budget /\ \E k \in Nat : n = PageSize * k
    BY <2>1 DEF RunShape, SweepRuns
  <2>3. o \in Nat
    BY <2>2, SweepAssumption DEF Cursors, Cleared
  <2> QED BY <2>1, <2>2, <2>3
<1>2. /\ SameCut(x, settings[c]) /\ Aligned(settings[c], o)
      /\ o + n <= Cardinality(catalog) /\ n <= Window(x) /\ sweep[s].items = RowsOf(o, n, catalog)
  BY DEF CycleKept, WindowsRead, WindowRead
<1>3. /\ catalog \subseteq Nat /\ IsFiniteSet(catalog) /\ Cardinality(catalog) \in Nat
      /\ \A p \in catalog : Rank(p, catalog) \in Nat
  BY CatalogIs
<1>4. PageSize \in Nat \ {0} /\ x.budget \in Nat /\ Window(x) \in Nat
  BY <1>1, SettingsAre
<1>5. /\ rows = RowsOf(o + n, PageSize, catalog) /\ m \in 0..PageSize /\ rows = RowsOf(o + n, m, catalog)
      /\ o + n + m <= Cardinality(catalog) /\ (m < PageSize => Cardinality(catalog) <= o + n + m)
  <2>1. rows = RowsOf(o + n, PageSize, catalog) /\ o + n \in Nat
    BY <1>1 DEF Rows, RowsOf
  <2>2. m = Cardinality(RowsOf(o + n, PageSize, catalog)) /\ PageSize \in Nat
    BY <1>4, <2>1
  <2> DEFINE a == o + n
  <2>3. a \in Nat /\ a <= Cardinality(catalog) /\ m = Cardinality(RowsOf(a, PageSize, catalog))
    BY <1>2, <2>1, <2>2
  <2> HIDE DEF a, m
  <2>4. catalog \subseteq Nat /\ IsFiniteSet(catalog) /\ PageSize \in Nat /\ a \in Nat
    BY <1>3, <2>2, <2>3
  <2>5. /\ m \in 0..PageSize /\ RowsOf(a, PageSize, catalog) = RowsOf(a, m, catalog)
        /\ m > 0 \/ a <= Cardinality(catalog) => a + m <= Cardinality(catalog)
        /\ m < PageSize => Cardinality(catalog) <= a + m
    <3>1. m = Cardinality(RowsOf(a, PageSize, catalog))
      BY <2>3
    <3> QED BY <2>4, <3>1, PageRead
  <2>6. a + m <= Cardinality(catalog)
    BY <2>3, <2>5
  <2> QED BY <2>1, <2>5, <2>6 DEF a, m
<1>6. m \in Nat /\ n + m \in Nat /\ o + (n + m) <= Cardinality(catalog) /\ o + n + m = o + (n + m)
  BY <1>1, <1>3, <1>4, <1>5
<1>7. sweep'[s].items = RowsOf(o, n + m, catalog)
  <2>1. \A p \in catalog : Rank(p, catalog) \in o + 1 .. o + n \/ Rank(p, catalog) \in (o + n) + 1 .. (o + n) + m
                             <=> Rank(p, catalog) \in o + 1 .. o + (n + m)
    BY <1>1, <1>3, <1>6
  <2>2. sweep'[s].items = RowsOf(o, n, catalog) \cup RowsOf(o + n, m, catalog)
    BY <1>2, <1>5
  <2> QED BY <2>1, <2>2 DEF RowsOf
<1>8. n + m <= Window(x) /\ (last /\ m = PageSize => n + m = Window(x))
  <2>1. PICK k \in Nat : n = PageSize * k
    BY <1>1
  <2>2. n + PageSize <= Window(x) /\ (n + PageSize >= x.budget => n + PageSize = Window(x))
    BY <1>1, <2>1, PagesRead
  <2> HIDE DEF n, m, x
  <2> QED BY <1>1, <1>4, <1>5, <1>6, <2>2 DEF n, m, x
<1>9. RunsIn(c)' = RunsIn(c) /\ \A t \in RunsIn(c) \ {s} : t \in Sweeps \ {s} /\ sweep'[t] = sweep[t]
  BY DEF RunsIn
<1>10. \A f, p : Heads(c, f, p)' <=> Heads(c, f, p)
  BY DEF Heads
<1>11. Grown(c)' /\ CursorAligned(c)'
  BY DEF CycleKept, Grown, CursorAligned
<1>12. WindowsRead(c)'
  <2>1. last => IF m < PageSize THEN Cardinality(present[c]) <= o + (n + m) ELSE n + m = Window(x)
    <3>1. CASE m < PageSize
      <4>1. present[c] \in SUBSET catalog
        BY DEF CycleKept, Grown
      <4>2. Cardinality(present[c]) <= Cardinality(catalog) /\ Cardinality(present[c]) \in Nat
        BY <1>3, <4>1, FS_Subset, FS_CardinalityType
      <4>3. Cardinality(catalog) <= o + (n + m) /\ o + (n + m) \in Nat
        BY <1>1, <1>5, <1>6, <3>1
      <4>4. Cardinality(present[c]) <= o + (n + m)
        BY <1>3, <4>2, <4>3
      <4> QED BY <3>1, <4>4
    <3>2. CASE ~(m < PageSize)
      <4>1. m = PageSize
        BY <1>4, <1>5, <3>2
      <4> QED BY <1>8, <3>2, <4>1
    <3> QED BY <3>1, <3>2
  <2>2. WindowRead(c, sweep[s])'
    <3>2. /\ SameCut(sweep'[s].set, settings'[c]) /\ Aligned(settings'[c], sweep'[s].at.offset)
          /\ sweep'[s].at.offset + sweep'[s].consumed <= Cardinality(catalog')
          /\ sweep'[s].consumed <= Window(sweep'[s].set)
      BY <1>2, <1>6, <1>8
    <3>3. sweep'[s].items = RowsOf(sweep'[s].at.offset, sweep'[s].consumed, catalog')
      BY <1>7 DEF RowsOf
    <3>4. sweep'[s].pc = "enqueue" =>
            IF sweep'[s].exhausted THEN Cardinality(present'[c]) <= sweep'[s].at.offset + sweep'[s].consumed
                                   ELSE sweep'[s].consumed = Window(sweep'[s].set)
      BY <2>1
    <3> QED BY <3>2, <3>3, <3>4 DEF WindowRead
  <2>3. ASSUME NEW t \in RunsIn(c) \ {s} PROVE WindowRead(c, sweep[t])'
    BY <1>9 DEF CycleKept, WindowsRead, WindowRead
  <2> QED BY <1>9, <2>2, <2>3 DEF WindowsRead
<1>13. BatchesCut(c)'
  <2>1. ASSUME NEW g \in sweep'[s].todo \cup sweep'[s].keyed PROVE IsBatch(c, sweep'[s].items, g)
    <3>1. g \in Batches(sweep'[s].items, x.batch)
      BY <1>1, <2>1
    <3> DEFINE q == n + m
               items == sweep'[s].items
    <3>2. q \in Nat /\ o + q <= Cardinality(catalog) /\ q <= Window(x) /\ items = RowsOf(o, q, catalog)
      BY <1>6, <1>7, <1>8
    <3>3. g \in Batches(items, x.batch)
      BY <3>1
    <3>4. /\ x \in SweepSettings /\ SameCut(x, settings[c]) /\ Aligned(settings[c], o) /\ o \in Nat
          /\ settings[c] \in SweepSettings
      BY <1>1, <1>2
    <3> HIDE DEF o, n, m, x, q, items
    <3>5. IsBatch(c, items, g)
      BY <3>2, <3>3, <3>4, BatchesAre
    <3> QED BY <3>5 DEF items
  <2>2. ASSUME NEW t \in RunsIn(c) \ {s}, NEW g \in sweep'[t].todo \cup sweep'[t].keyed
        PROVE  IsBatch(c, sweep'[t].items, g)
    BY <1>9, <2>2 DEF CycleKept, BatchesCut
  <2>3. \A t \in RunsIn(c) : \A g \in sweep'[t].todo \cup sweep'[t].keyed : IsBatch(c, sweep'[t].items, g)
    BY <2>1, <2>2
  <2> QED BY <1>9, <1>10, <2>3 DEF BatchesCut, IsBatch
<1>14. \A t \in RunsIn(c) :
         /\ sweep'[t].keyed = sweep[t].keyed
         /\ sweep[t].keyed \cap sweep'[t].leant = sweep[t].keyed \cap sweep[t].leant
  BY <1>1, <1>9
<1>15. KeysClaimed(c)'
  BY <1>9, <1>14 DEF CycleKept, KeysClaimed
<1>16. VisitsKeyed(c)'
  <2>1. ASSUME NEW p \in Products, visits'[c][p] > 0
        PROVE  p \in catalog' /\ \E f \in catalog' :
                 /\ Heads(c, f, p)' /\ <<f, c>> \in childKeys'
                 /\ \A t \in RunsIn(c)' : \A h \in sweep'[t].keyed : First(h) # f
    <3>1. p \in catalog
      BY <2>1 DEF CycleKept, VisitsKeyed
    <3>2. PICK f \in catalog : /\ Heads(c, f, p) /\ <<f, c>> \in childKeys
                               /\ \A t \in RunsIn(c) : \A h \in sweep[t].keyed : First(h) # f
      BY <2>1 DEF CycleKept, VisitsKeyed
    <3>3. \A t \in RunsIn(c)' : \A h \in sweep'[t].keyed : First(h) # f
      BY <1>9, <1>14, <3>2
    <3> QED BY <1>10, <3>1, <3>2, <3>3
  <2> QED BY <2>1 DEF VisitsKeyed
<1>17. KeysStand(c)'
  BY <1>9, <1>10, <1>14 DEF CycleKept, KeysStand
<1>18. ASSUME NEW p, Secured(c, p) PROVE Secured(c, p)'
  BY <1>9, <1>14, <1>18 DEF Secured
<1>19. CursorBehind(c)'
  BY <1>18 DEF CycleKept, CursorBehind, BehindSecured
<1>20. RunsBehind(c)'
  <2>1. BehindSecured(c, sweep[s].at.offset)'
    BY <1>18 DEF CycleKept, RunsBehind, BehindSecured
  <2>2. ASSUME sweep'[s].pc = "enqueue", NEW p \in sweep'[s].items
        PROVE  \E g \in sweep'[s].todo : p \in g
    <3> DEFINE I == sweep'[s].items
               size == x.batch
               g == {q \in I : (Rank(q, I) - 1) \div size = (Rank(p, I) - 1) \div size}
    <3>1. p \in g
      OBVIOUS
    <3>2. g \in Batches(I, size)
      BY DEF Batches
    <3>3. sweep'[s].todo = Batches(I, size)
      BY <2>2
    <3> HIDE DEF g
    <3> QED BY <3>1, <3>2, <3>3
  <2>3. ASSUME NEW t \in RunsIn(c) \ {s}
        PROVE  /\ BehindSecured(c, sweep[t].at.offset)'
               /\ SweepAt(t, "enqueue")' /\ ~sweep'[t].failed =>
                    \A p \in present'[c] \cap sweep'[t].items :
                      Secured(c, p)' \/ \E g \in sweep'[t].todo \cup sweep'[t].keyed : p \in g
    <3>1. sweep'[t] = sweep[t]
      BY <1>9
    <3> QED BY <1>18, <3>1 DEF CycleKept, RunsBehind, BehindSecured, SweepAt
  <2> QED BY <1>9, <2>1, <2>2, <2>3 DEF RunsBehind, SweepAt
<1> QED BY <1>11, <1>12, <1>13, <1>15, <1>16, <1>17, <1>19, <1>20 DEF CycleKept

(* A product is appended.                                                       *)
LEMMA ProductAdded ==
  ASSUME SweepShape, NEW c \in Cycles, CycleKept(c), settings[c] \in SweepSettings,
         newest + 1 \in Products, catalog' = catalog \cup {newest + 1},
         UNCHANGED <<present, settings, visits, childKeys, cursor, sweep>>
  PROVE  CycleKept(c)'
<1> DEFINE new == newest + 1
           N == Cardinality(catalog)
<1>1. /\ catalog \subseteq Nat /\ IsFiniteSet(catalog) /\ N \in Nat
      /\ \A p \in catalog : Rank(p, catalog) \in Nat /\ p < new
  BY CatalogIs, SweepAssumption DEF SweepShape
<1>2. new \in Nat /\ new \notin catalog
  BY <1>1, SweepAssumption DEF SweepShape
<1>3. IsFiniteSet(catalog') /\ Cardinality(catalog') = N + 1 /\ catalog' \subseteq Nat /\ catalog \subseteq catalog'
  <2> HIDE DEF new
  <2>1. catalog' = catalog \cup {new}
    BY DEF new
  <2>2. IsFiniteSet(catalog \cup {new}) /\ Cardinality(catalog \cup {new}) = Cardinality(catalog) + 1
    BY <1>1, <1>2, FS_AddElement
  <2>3. catalog \cup {new} \subseteq Nat
    BY <1>1, <1>2
  <2> QED BY <2>1, <2>2, <2>3
<1>4. \A x \in catalog' \ catalog, y \in catalog : y < x
  BY <1>1
<1>5. \A p \in catalog : Rank(p, catalog') = Rank(p, catalog)
  BY <1>3, <1>4, RankStays
<1>6. Rank(new, catalog') > N /\ Rank(new, catalog') \in Nat
  BY <1>2, <1>3, <1>4, RankBeyond, RankIsNat
<1>7. \A f \in catalog, p \in catalog : Heads(c, f, p)' <=> Heads(c, f, p)
  BY <1>5 DEF Heads
<1>8. present[c] \subseteq catalog
  BY DEF CycleKept, Grown
<1>9. Grown(c)'
  <2>1. ASSUME NEW p \in catalog' \ present[c], NEW q \in present[c] PROVE q < p
    <3>1. CASE p = new
      BY <1>1, <1>8, <3>1
    <3>2. CASE p # new
      BY <3>2 DEF CycleKept, Grown
    <3> QED BY <3>1, <3>2
  <2> QED BY <1>3, <1>8, <2>1 DEF Grown
<1>10. RunsIn(c)' = RunsIn(c)
  BY DEF RunsIn
<1>11. \A s \in RunsIn(c) : sweep[s].at.offset \in Nat /\ sweep[s].consumed \in Nat
  <2>1. ASSUME NEW s \in RunsIn(c) PROVE sweep[s].at.offset \in Nat /\ sweep[s].consumed \in Nat
    <3>1. sweep[s].at \in Cursors /\ sweep[s].consumed \in Nat
      BY DEF RunsIn, SweepShape, RunShape, SweepRuns
    <3> QED BY <3>1, SweepAssumption DEF Cursors, Cleared
  <2> QED BY <2>1
<1>12. WindowsRead(c)'
  <2>1. ASSUME NEW s \in RunsIn(c) PROVE WindowRead(c, sweep[s])'
    <3> DEFINE o == sweep[s].at.offset
               n == sweep[s].consumed
    <3>1. WindowRead(c, sweep[s])
      BY DEF CycleKept, WindowsRead
    <3>2. o + n <= N /\ o \in Nat /\ n \in Nat
      BY <1>11, <3>1 DEF WindowRead
    <3>3. \A p \in catalog' : p \in catalog \/ p = new
      OBVIOUS
    <3>4. Rank(new, catalog') \notin o + 1 .. o + n
      BY <1>1, <1>6, <3>2
    <3>5. \A p : p \in catalog' /\ Rank(p, catalog') \in o + 1 .. o + n
                   <=> p \in catalog /\ Rank(p, catalog) \in o + 1 .. o + n
      BY <1>3, <1>5, <3>3, <3>4
    <3>6. RowsOf(o, n, catalog') = RowsOf(o, n, catalog)
      BY <3>5 DEF RowsOf
    <3>7. o + n <= Cardinality(catalog')
      BY <1>1, <1>3, <3>2
    <3> QED BY <3>1, <3>6, <3>7 DEF WindowRead
  <2> QED BY <1>10, <2>1 DEF WindowsRead
<1>13. CursorAligned(c)'
  <2>1. cursor.offset \in Nat
    BY SweepAssumption DEF SweepShape, Cursors, Cleared
  <2> QED BY <1>1, <1>3, <2>1 DEF CycleKept, CursorAligned
<1>14. BatchesCut(c)'
  <2>1. ASSUME NEW s \in RunsIn(c), NEW g \in sweep[s].todo \cup sweep[s].keyed PROVE IsBatch(c, sweep[s].items, g)'
    <3>1. IsBatch(c, sweep[s].items, g) /\ sweep[s].items \subseteq catalog
      BY DEF CycleKept, BatchesCut, WindowsRead, WindowRead, RowsOf
    <3>2. First(g) \in catalog
      BY <3>1 DEF IsBatch
    <3>3. \A p \in sweep[s].items : Heads(c, First(g), p)' <=> Heads(c, First(g), p)
      BY <1>7, <3>1, <3>2
    <3> QED BY <3>1, <3>3 DEF IsBatch
  <2> QED BY <1>10, <2>1 DEF BatchesCut
<1>15. KeysClaimed(c)'
  BY <1>10 DEF CycleKept, KeysClaimed
<1>16. VisitsKeyed(c)'
  <2>1. ASSUME NEW p \in Products, visits'[c][p] > 0
        PROVE  p \in catalog' /\ \E f \in catalog' :
                 /\ Heads(c, f, p)' /\ <<f, c>> \in childKeys'
                 /\ \A t \in RunsIn(c)' : \A h \in sweep'[t].keyed : First(h) # f
    <3>1. p \in catalog
      BY <2>1 DEF CycleKept, VisitsKeyed
    <3>2. PICK f \in catalog : /\ Heads(c, f, p) /\ <<f, c>> \in childKeys
                               /\ \A t \in RunsIn(c) : \A h \in sweep[t].keyed : First(h) # f
      BY <2>1 DEF CycleKept, VisitsKeyed
    <3>3. Heads(c, f, p)'
      BY <1>7, <3>1, <3>2
    <3> QED BY <1>3, <1>10, <3>1, <3>2, <3>3
  <2> QED BY <2>1 DEF VisitsKeyed
<1>17. KeysStand(c)'
  <2>1. ASSUME NEW f \in catalog', NEW p \in present[c], <<f, c>> \in childKeys, Heads(c, f, p)'
        PROVE  visits[c][p] > 0 \/ \E t \in RunsIn(c) : \E h \in sweep[t].keyed : First(h) = f /\ p \in h
    <3>1. p \in catalog /\ Rank(p, catalog) \in 1..N
      BY <1>8, CatalogIs
    <3>2. CASE f = new
      <4>1. Rank(p, catalog) \in Nat \ {0} /\ Rank(p, catalog) <= N
        BY <1>1, <3>1
      <4>2. Start(settings[c], Rank(p, catalog)) \in Nat /\ Start(settings[c], Rank(p, catalog)) < Rank(p, catalog)
        BY <4>1, StartIs
      <4>3. Start(settings[c], Rank(p, catalog)) + 1 = Rank(new, catalog')
        BY <1>5, <2>1, <3>1, <3>2 DEF Heads
      <4> QED BY <1>1, <1>6, <4>1, <4>2, <4>3
    <3>3. CASE f # new
      <4>1. f \in catalog /\ Heads(c, f, p)
        BY <1>7, <2>1, <3>1, <3>3
      <4> QED BY <2>1, <4>1 DEF CycleKept, KeysStand
    <3> QED BY <3>2, <3>3
  <2> QED BY <1>10, <2>1 DEF KeysStand
<1>18. \A p : Secured(c, p)' <=> Secured(c, p)
  BY <1>10 DEF Secured
<1>19. CursorBehind(c)' /\ RunsBehind(c)'
  <2>1. CursorBehind(c)'
    BY <1>5, <1>8, <1>18 DEF CycleKept, CursorBehind, BehindSecured
  <2>2. RunsBehind(c)'
    BY <1>5, <1>8, <1>10, <1>18 DEF CycleKept, RunsBehind, BehindSecured, SweepAt
  <2> QED BY <2>1, <2>2
<1> QED BY <1>9, <1>12, <1>13, <1>14, <1>15, <1>16, <1>17, <1>19 DEF CycleKept

-----------------------------------------------------------------------------
(* There is a name for a cycle to begin: the other runs are fewer.              *)
LEMMA FreshCycle ==
  ASSUME SweepShape, NEW s \in Sweeps, SweepAt(s, "cursor"), cursor = Cleared
  PROVE  \E d \in Cycles : ~InUse(d)
<1> SUFFICES ASSUME \A d \in Cycles : InUse(d) PROVE FALSE
  OBVIOUS
<1> DEFINE S == {t \in Sweeps : sweep[t].at.cycle \in Cycles}
           f == [t \in S |-> sweep[t].at.cycle]
<1>1. 0 \notin Cycles /\ IsFiniteSet(Sweeps) /\ IsFiniteSet(Cycles) /\ Cardinality(Cycles) >= Cardinality(Sweeps)
  BY SweepAssumption
<1>2. s \notin S
  BY <1>1 DEF SweepShape, RunShape, SweepAt
<1>3. f \in Surjection(S, Cycles)
  <2>1. \A d \in Cycles : \E t \in S : f[t] = d
    BY <1>1 DEF InUse, Cleared
  <2> QED BY <2>1 DEF Surjection
<1>4. S \in SUBSET Sweeps /\ S # Sweeps
  BY <1>2
<1>5. IsFiniteSet(S) /\ Cardinality(S) <= Cardinality(Sweeps) /\ Cardinality(S) # Cardinality(Sweeps)
  <2> HIDE DEF S
  <2> QED BY <1>1, <1>4, FS_Subset
<1>6. Cardinality(Cycles) <= Cardinality(S)
  <2> HIDE DEF S, f
  <2> QED BY <1>3, <1>5, FS_Surjection
<1>7. Cardinality(S) \in Nat /\ Cardinality(Sweeps) \in Nat /\ Cardinality(Cycles) \in Nat
  BY <1>1, <1>5, FS_CardinalityType
<1> HIDE DEF S
<1> QED BY <1>1, <1>5, <1>6, <1>7

(* A step of one run.                                                           *)
LEMMA RunSteps ==
  ASSUME SweepShape, NEW s \in Sweeps, NEW r, RunShape(r), sweep' = [sweep EXCEPT ![s] = r]
  PROVE  /\ sweep' \in [Sweeps -> SweepRuns] /\ \A t \in Sweeps : RunShape(sweep'[t])
         /\ sweep'[s] = r /\ \A t \in Sweeps \ {s} : sweep'[t] = sweep[t]
<1>1. sweep \in [Sweeps -> SweepRuns] /\ \A t \in Sweeps : RunShape(sweep[t])
  BY DEF SweepShape
<1>2. r \in SweepRuns
  BY DEF RunShape
<1>3. sweep'[s] = r /\ \A t \in Sweeps \ {s} : sweep'[t] = sweep[t]
  BY <1>1
<1> QED BY <1>1, <1>2, <1>3

(* Of the actions that leave a cycle's list and children alone it is enough     *)
(* that they keep what is said of the cycles.                                   *)
LEMMA QuietSweep ==
  ASSUME SweepInv, SweepShape', visits' = visits, strained \subseteq strained',
         \A c \in Cycles : InUse(c)' => InUse(c),
         \A c \in Live : c \notin strained' /\ settings[c] \in SweepSettings => CycleKept(c)'
  PROVE  SweepInv'
<1>1. SweepVisitsOnce'
  BY DEF SweepInv, SweepVisitsOnce
<1>2. ASSUME NEW c \in Live' PROVE CycleKept(c)'
  <2>1. c \in Live /\ c \notin strained' /\ settings[c] \in SweepSettings
    BY DEF Live, SweepInv, SweepShape
  <2> QED BY <2>1
<1> QED BY <1>1, <1>2 DEF SweepInv

LEMMA StartSweepStep == ASSUME SweepInv, NEW s \in Sweeps, StartSweep(s) PROVE SweepInv'
<1>1. SweepShape /\ RunShape(sweep[s])
  BY DEF SweepInv, SweepShape
<1>2. PICK b \in Budgets, n \in BatchSizes :
        sweep' = [sweep EXCEPT ![s].pc = "cursor", ![s].set = [budget |-> b, batch |-> n]]
  BY DEF StartSweep
<1> DEFINE r == [sweep[s] EXCEPT !.pc = "cursor", !.set = [budget |-> b, batch |-> n]]
<1>3. sweep' = [sweep EXCEPT ![s] = r]
  BY <1>2
<1>4. [budget |-> b, batch |-> n] \in SweepSettings
  BY DEF SweepSettings
<1>5. sweep[s].pc = "idle" /\ sweep[s] \in SweepRuns /\ sweep[s].at.cycle = 0 /\ sweep[s].keyed = {} /\ sweep[s].todo = {}
  BY <1>1 DEF StartSweep, SweepAt, RunShape
<1>6. /\ r \in SweepRuns /\ r.pc = "cursor" /\ r.set \in SweepSettings /\ r.at = sweep[s].at /\ r.items = sweep[s].items
      /\ r.consumed = sweep[s].consumed /\ r.todo = {} /\ r.keyed = {}
  BY <1>4, <1>5 DEF SweepRuns
<1>7. RunShape(r)
  BY <1>1, <1>5, <1>6 DEF RunShape
<1> HIDE DEF r
<1>8. /\ sweep' \in [Sweeps -> SweepRuns] /\ \A t \in Sweeps : RunShape(sweep'[t])
      /\ sweep'[s] = r /\ \A t \in Sweeps \ {s} : sweep'[t] = sweep[t]
  BY <1>1, <1>3, <1>7, RunSteps
<1>9. 0 \notin Cycles
  BY SweepAssumption
<1>10. \A c \in Cycles : InUse(c)' => InUse(c)
  BY <1>5, <1>6, <1>8, <1>9 DEF InUse, StartSweep
<1>11. SweepShape'
  BY <1>1, <1>8, <1>10 DEF SweepShape, StartSweep
<1>12. ASSUME NEW c \in Live PROVE CycleKept(c)'
  <2>1. c \in Cycles /\ CycleKept(c)
    BY DEF Live, SweepInv
  <2>2. ListStays(c)
    BY DEF ListStays, StartSweep
  <2>3. \A t \in Sweeps : sweep'[t].at.cycle = c => sweep[t].at.cycle = c /\ sweep'[t] = sweep[t]
    BY <1>5, <1>6, <1>8, <1>9, <2>1
  <2>4. \A t \in Sweeps : sweep[t].at.cycle = c => sweep'[t].at.cycle = c
    BY <1>5, <1>8, <1>9, <2>1
  <2> QED BY <2>1, <2>2, <2>3, <2>4, CycleLeftAlone DEF RunStays
<1> QED BY <1>10, <1>11, <1>12, QuietSweep DEF StartSweep

LEMMA ReadCursorStep == ASSUME SweepInv, NEW s \in Sweeps, ReadCursor(s) PROVE SweepInv'
<1>1. SweepShape /\ RunShape(sweep[s])
  BY DEF SweepInv, SweepShape
<1>2. /\ sweep[s].pc = "cursor" /\ sweep[s] \in SweepRuns /\ sweep[s].at.cycle = 0 /\ sweep[s].set \in SweepSettings
      /\ sweep[s].keyed = {} /\ sweep[s].todo = {} /\ sweep[s].items = {} /\ sweep[s].consumed = 0
  BY <1>1 DEF ReadCursor, SweepAt, RunShape
<1>3. 0 \notin Cycles /\ Cycles \subseteq Nat \ {0} /\ cursor \in Cursors /\ MaxProducts \in Nat
  BY <1>1, SweepAssumption DEF SweepShape
<1>4. ASSUME NEW at \in [cycle : Cycles, offset : 0..MaxProducts],
             sweep' = [sweep EXCEPT ![s].pc = "page", ![s].at = at]
      PROVE  /\ sweep' \in [Sweeps -> SweepRuns] /\ \A t \in Sweeps : RunShape(sweep'[t])
             /\ \A t \in Sweeps \ {s} : sweep'[t] = sweep[t]
             /\ sweep'[s].pc = "page" /\ sweep'[s].at = at /\ sweep'[s].set = sweep[s].set
             /\ sweep'[s].items = {} /\ sweep'[s].consumed = 0 /\ sweep'[s].todo = {} /\ sweep'[s].keyed = {}
  <2> DEFINE r == [sweep[s] EXCEPT !.pc = "page", !.at = at]
  <2>1. sweep' = [sweep EXCEPT ![s] = r]
    BY <1>4
  <2>2. at \in Cursors
    BY DEF Cursors
  <2>3. /\ r \in SweepRuns /\ r.pc = "page" /\ r.at = at /\ r.set = sweep[s].set /\ r.items = {} /\ r.consumed = 0
        /\ r.todo = {} /\ r.keyed = {}
    BY <1>2, <2>2 DEF SweepRuns
  <2> HIDE DEF r
  <2>4. r.at.cycle # 0 /\ r.at.offset + r.consumed <= MaxProducts
    BY <1>3, <2>3
  <2>5. r.consumed < r.set.budget /\ \E k \in Nat : r.consumed = PageSize * k
    <3>1. r.set.budget \in Nat \ {0} /\ PageSize * 0 = 0
      BY <1>2, <2>3, SettingsAre
    <3> QED BY <2>3, <3>1
  <2>6. RunShape(r)
    BY <1>2, <2>3, <2>4, <2>5 DEF RunShape
  <2> QED BY <1>1, <2>1, <2>3, <2>6, RunSteps
<1>5. CASE cursor # Cleared
  <2> DEFINE d == cursor.cycle
  <2>1. cursor \in [cycle : Cycles, offset : 0..MaxProducts] /\ d \in Cycles
    BY <1>3, <1>5 DEF Cursors
  <2>2. sweep' = [sweep EXCEPT ![s].pc = "page", ![s].at = cursor] /\ UNCHANGED <<childKeys, visits, present, settings>>
    BY <1>5 DEF ReadCursor
  <2>3. /\ sweep' \in [Sweeps -> SweepRuns] /\ \A t \in Sweeps : RunShape(sweep'[t])
        /\ \A t \in Sweeps \ {s} : sweep'[t] = sweep[t]
        /\ sweep'[s].pc = "page" /\ sweep'[s].at = cursor /\ sweep'[s].set = sweep[s].set
        /\ sweep'[s].items = {} /\ sweep'[s].consumed = 0 /\ sweep'[s].todo = {} /\ sweep'[s].keyed = {}
    BY <1>4, <2>1, <2>2
  <2>4. strained' = strained \cup (IF SameCut(sweep[s].set, settings[d]) THEN {} ELSE {d})
    BY <1>5 DEF ReadCursor, Strain
  <2>5. strained \subseteq strained' /\ strained' \subseteq Cycles /\ (d \notin strained' => SameCut(sweep[s].set, settings[d]))
    BY <1>1, <2>1, <2>4 DEF SweepShape
  <2>6. \A c \in Cycles : InUse(c)' => InUse(c)
    BY <2>3 DEF InUse, ReadCursor
  <2>7. SweepShape'
    BY <1>1, <2>2, <2>3, <2>5, <2>6 DEF SweepShape, ReadCursor
  <2>8. ASSUME NEW c \in Live, c \notin strained', settings[c] \in SweepSettings PROVE CycleKept(c)'
    <3>1. c \in Cycles /\ CycleKept(c)
      BY DEF Live, SweepInv
    <3>2. CASE c = d
      <4>1. s \notin RunsIn(c)
        BY <1>2, <1>3, <3>1 DEF RunsIn
      <4> QED BY <1>1, <1>2, <2>2, <2>3, <2>5, <2>8, <3>1, <3>2, <4>1, CycleJoined DEF ReadCursor
    <3>3. CASE c # d
      <4>1. ListStays(c)
        BY <2>2 DEF ListStays, ReadCursor
      <4>2. \A t \in Sweeps : sweep'[t].at.cycle = c => sweep[t].at.cycle = c /\ sweep'[t] = sweep[t]
        BY <2>3, <3>3
      <4>3. \A t \in Sweeps : sweep[t].at.cycle = c => sweep'[t].at.cycle = c
        BY <1>2, <1>3, <2>3, <3>1
      <4> QED BY <3>1, <4>1, <4>2, <4>3, CycleLeftAlone DEF RunStays
    <3> QED BY <3>2, <3>3
  <2> QED BY <2>2, <2>5, <2>6, <2>7, <2>8, QuietSweep
<1>6. CASE cursor = Cleared
  <2> DEFINE d == CHOOSE e \in Cycles : ~InUse(e)
  <2>1. d \in Cycles /\ ~InUse(d)
    BY <1>1, <1>2, <1>6, FreshCycle DEF SweepAt
  <2>2. /\ sweep' = [sweep EXCEPT ![s].pc = "page", ![s].at = [cycle |-> d, offset |-> 0]]
        /\ present' = [present EXCEPT ![d] = catalog]
        /\ settings' = [settings EXCEPT ![d] = sweep[s].set]
        /\ childKeys' = {key \in childKeys : key[2] # d}
        /\ visits' = [visits EXCEPT ![d] = [p \in Products |-> 0]]
        /\ strained' = strained \ {d}
        /\ UNCHANGED <<catalog, newest, cursor, sweepLock, sweepFaults>>
    BY <1>6 DEF ReadCursor
  <2> HIDE DEF d
  <2>3. [cycle |-> d, offset |-> 0] \in [cycle : Cycles, offset : 0..MaxProducts]
    BY <1>3, <2>1
  <2>4. /\ sweep' \in [Sweeps -> SweepRuns] /\ \A t \in Sweeps : RunShape(sweep'[t])
        /\ \A t \in Sweeps \ {s} : sweep'[t] = sweep[t]
        /\ sweep'[s].pc = "page" /\ sweep'[s].at = [cycle |-> d, offset |-> 0] /\ sweep'[s].set = sweep[s].set
        /\ sweep'[s].items = {} /\ sweep'[s].consumed = 0 /\ sweep'[s].todo = {} /\ sweep'[s].keyed = {}
    BY <1>4, <2>2, <2>3
  <2>5. \A c \in Cycles : InUse(c)' => InUse(c) \/ c = d
    BY <2>2, <2>4 DEF InUse
  <2>6. /\ present' \in [Cycles -> SUBSET Products] /\ present'[d] = catalog
        /\ \A c \in Cycles \ {d} : present'[c] = present[c]
    BY <1>1, <2>1, <2>2, CatalogIs DEF SweepShape
  <2>7. /\ settings' \in [Cycles -> SweepSettings \cup {NoSettings}] /\ settings'[d] = sweep[s].set
        /\ \A c \in Cycles \ {d} : settings'[c] = settings[c]
    BY <1>1, <1>2, <2>1, <2>2 DEF SweepShape
  <2>8. /\ visits' \in [Cycles -> [Products -> Nat]] /\ \A p \in Products : visits'[d][p] = 0
        /\ \A c \in Cycles \ {d} : visits'[c] = visits[c]
    BY <1>1, <2>1, <2>2 DEF SweepShape
  <2>9. childKeys' \subseteq Products \X Cycles /\ strained' \subseteq Cycles
    BY <1>1, <2>2 DEF SweepShape
  <2>10. SweepShape'
    <3>1. \A c \in Cycles : InUse(c)' => settings'[c] \in SweepSettings
      BY <1>1, <1>2, <2>5, <2>7 DEF SweepShape
    <3> QED BY <1>1, <2>2, <2>4, <2>6, <2>7, <2>8, <2>9, <3>1 DEF SweepShape
  <2>11. SweepVisitsOnce'
    <3>1. ASSUME NEW c \in Cycles \ strained', NEW p \in Products PROVE visits'[c][p] <= 1
      BY <2>2, <2>8 DEF SweepInv, SweepVisitsOnce
    <3> QED BY <3>1 DEF SweepVisitsOnce
  <2>12. ASSUME NEW c \in Live' PROVE CycleKept(c)'
    <3>1. c \in Cycles /\ InUse(c)' /\ c \notin strained'
      BY DEF Live
    <3>2. CASE c = d
      <4>1. \A f : <<f, d>> \notin childKeys'
        BY <2>2
      <4> QED BY <1>1, <1>2, <2>1, <2>2, <2>4, <2>6, <2>7, <2>8, <3>2, <4>1, CycleBegun
    <3>3. CASE c # d
      <4>1. CycleKept(c)
        BY <2>2, <2>5, <3>1, <3>3 DEF SweepInv, Live
      <4>2. ListStays(c)
        BY <2>2, <2>6, <2>7, <2>8, <3>1, <3>3 DEF ListStays
      <4>3. \A t \in Sweeps : sweep'[t].at.cycle = c => sweep[t].at.cycle = c /\ sweep'[t] = sweep[t]
        BY <2>4, <3>3
      <4>4. \A t \in Sweeps : sweep[t].at.cycle = c => sweep'[t].at.cycle = c
        BY <1>2, <1>3, <2>4, <3>1
      <4> QED BY <3>1, <4>1, <4>2, <4>3, <4>4, CycleLeftAlone DEF RunStays
    <3> QED BY <3>2, <3>3
  <2> QED BY <2>10, <2>11, <2>12 DEF SweepInv
<1> QED BY <1>5, <1>6

LEMMA FaultCounts ==
  ASSUME SweepShape, SweepFault \/ UNCHANGED sweepFaults PROVE sweepFaults' \in 0..MaxSweepFaults
<1>1. sweepFaults \in 0..MaxSweepFaults /\ MaxSweepFaults \in Nat
  BY SweepAssumption DEF SweepShape
<1>2. CASE SweepFault
  BY <1>1, <1>2 DEF SweepFault
<1>3. CASE UNCHANGED sweepFaults
  BY <1>1, <1>3
<1> QED BY <1>2, <1>3

LEMMA BatchesShape ==
  ASSUME NEW items \in SUBSET Products, NEW size
  PROVE  Batches(items, size) \subseteq SweepBatches /\ UNION Batches(items, size) \subseteq items
<1>1. ASSUME NEW g \in Batches(items, size) PROVE g \subseteq items /\ g # {}
  <2>1. PICK p \in items : g = {q \in items : (Rank(q, items) - 1) \div size = (Rank(p, items) - 1) \div size}
    BY DEF Batches
  <2> QED BY <2>1
<1> QED BY <1>1 DEF SweepBatches

LEMMA FetchPageStep == ASSUME SweepInv, NEW s \in Sweeps, FetchPage(s) PROVE SweepInv'
<1> DEFINE x == sweep[s].set
           o == sweep[s].at.offset
           n == sweep[s].consumed
           rows == Rows(o + n, PageSize)
           m == Cardinality(rows)
           items == sweep[s].items \cup rows
           last == m < PageSize \/ n + m >= x.budget
<1>1. SweepShape /\ RunShape(sweep[s])
  BY DEF SweepInv, SweepShape
<1>2. /\ sweep[s].pc = "page" /\ sweep[s] \in SweepRuns /\ sweep[s].at \in Cursors /\ sweep[s].at.cycle # 0
      /\ x \in SweepSettings /\ n \in Nat /\ sweep[s].keyed = {} /\ sweep[s].todo = {}
      /\ o + n <= MaxProducts /\ n < x.budget /\ \E k \in Nat : n = PageSize * k
      /\ sweep[s].items \in SUBSET Products
  BY <1>1 DEF FetchPage, SweepAt, RunShape, SweepRuns
<1>3. o \in Nat /\ PageSize \in Nat \ {0} /\ x.budget \in Nat /\ MaxProducts \in Nat
  BY <1>2, SweepAssumption, SettingsAre DEF Cursors, Cleared
<1>4. /\ catalog \subseteq Nat /\ catalog \subseteq Products /\ IsFiniteSet(catalog) /\ Cardinality(catalog) \in Nat
      /\ Cardinality(catalog) <= MaxProducts
  BY <1>1, CatalogIs
<1>5. UNCHANGED <<catalog, newest, cursor, sweepLock, childKeys, visits, present, settings, strained>>
  BY DEF FetchPage
<1>6. CASE sweep' = [sweep EXCEPT ![s].items = items, ![s].consumed = @ + m, ![s].exhausted = (m < PageSize),
                                  ![s].pc = IF last THEN "enqueue" ELSE "page",
                                  ![s].todo = IF last THEN Batches(items, x.batch) ELSE {}]
           /\ UNCHANGED sweepFaults
  <2> DEFINE todo == IF last THEN Batches(items, x.batch) ELSE {}
             r == [sweep[s] EXCEPT !.items = items, !.consumed = n + m, !.exhausted = (m < PageSize),
                                   !.pc = IF last THEN "enqueue" ELSE "page", !.todo = todo]
  <2>1. sweep' = [sweep EXCEPT ![s] = r]
    BY <1>6
  <2>2. rows = RowsOf(o + n, PageSize, catalog) /\ o + n \in Nat
    BY <1>2, <1>3 DEF Rows, RowsOf
  <2>3. m \in 0..PageSize /\ (m > 0 => o + n + m <= Cardinality(catalog))
    <3> DEFINE a == o + n
    <3>1. a \in Nat /\ m = Cardinality(RowsOf(a, PageSize, catalog)) /\ PageSize \in Nat
      BY <1>3, <2>2
    <3> HIDE DEF a, m
    <3>2. m \in 0..PageSize /\ (m > 0 => a + m <= Cardinality(catalog))
      BY <1>4, <3>1, PageRead
    <3> QED BY <3>2 DEF a
  <2>4. rows \subseteq Products /\ items \in SUBSET Products
    BY <1>2, <1>4 DEF Rows
  <2>5. todo \subseteq SweepBatches /\ UNION todo \subseteq items
    <3> HIDE DEF items, last
    <3> QED BY <2>4, BatchesShape
  <2> HIDE DEF items, todo, last, m
  <2>6. n + m \in Nat
    BY <1>2, <1>3, <2>3
  <2>7. /\ r \in SweepRuns /\ r.pc = (IF last THEN "enqueue" ELSE "page") /\ r.set = x /\ r.at = sweep[s].at
        /\ r.items = items /\ r.consumed = n + m /\ r.exhausted = (m < PageSize) /\ r.todo = todo /\ r.keyed = {}
    <3> DEFINE short == m < PageSize
               sum == n + m
               pc == IF last THEN "enqueue" ELSE "page"
    <3>1. short \in BOOLEAN /\ sum \in Nat /\ pc \in {"page", "enqueue"} /\ todo \in SUBSET SweepBatches
      BY <2>5, <2>6
    <3>2. r = [sweep[s] EXCEPT !.items = items, !.consumed = sum, !.exhausted = short, !.pc = pc, !.todo = todo]
      OBVIOUS
    <3> HIDE DEF r, short, sum, pc, x
    <3>3. r \in SweepRuns /\ r.pc = pc /\ r.items = items /\ r.consumed = sum /\ r.exhausted = short /\ r.todo = todo
      BY <1>2, <2>4, <3>1, <3>2 DEF SweepRuns
    <3>4. r.set = sweep[s].set /\ r.at = sweep[s].at /\ r.keyed = {}
      BY <1>2, <3>2 DEF SweepRuns
    <3> QED BY <3>3, <3>4 DEF x, short, sum, pc
  <2>8. o + (n + m) <= MaxProducts
    <3>1. CASE m > 0
      BY <1>2, <1>3, <1>4, <2>3, <3>1
    <3>2. CASE ~(m > 0)
      <4>1. m = 0
        BY <1>3, <2>3, <3>2
      <4> QED BY <1>2, <1>3, <4>1
    <3> QED BY <3>1, <3>2
  <2>9. ASSUME ~last PROVE n + m < x.budget /\ \E k \in Nat : n + m = PageSize * k
    <3>1. m = PageSize /\ n + m < x.budget
      BY <1>2, <1>3, <2>3, <2>6, <2>9 DEF last
    <3>2. PICK k \in Nat : n = PageSize * k
      BY <1>2
    <3>3. PageSize * k + PageSize = PageSize * (k + 1) /\ k + 1 \in Nat
      BY <1>3
    <3> QED BY <3>1, <3>2, <3>3
  <2>10. RunShape(r)
    <3> HIDE DEF r
    <3>1. r.pc \notin {"idle", "cursor"} /\ r.at.cycle # 0 /\ r.set \in SweepSettings
      BY <1>2, <2>7
    <3>2. r.pc # "enqueue" => r.todo = {} /\ r.keyed = {}
      BY <2>7 DEF todo
    <3>3. UNION (r.todo \cup r.keyed) \subseteq r.items
      BY <2>5, <2>7
    <3>4. r.at.offset + r.consumed <= MaxProducts
      BY <2>7, <2>8
    <3>5. r.pc = "page" => r.consumed < r.set.budget /\ \E k \in Nat : r.consumed = PageSize * k
      BY <2>7, <2>9
    <3> QED BY <2>7, <3>1, <3>2, <3>3, <3>4, <3>5 DEF RunShape
  <2>11. /\ sweep' \in [Sweeps -> SweepRuns] /\ \A t \in Sweeps : RunShape(sweep'[t])
         /\ sweep'[s] = r /\ \A t \in Sweeps \ {s} : sweep'[t] = sweep[t]
    <3> HIDE DEF r
    <3> QED BY <1>1, <2>1, <2>10, RunSteps
  <2>12. \A c \in Cycles : InUse(c)' => InUse(c)
    <3> HIDE DEF r
    <3> QED BY <1>5, <2>7, <2>11 DEF InUse
  <2>13. SweepShape'
    <3> HIDE DEF r
    <3> QED BY <1>1, <1>5, <1>6, <2>11, <2>12 DEF SweepShape
  <2>14. ASSUME NEW c \in Live, settings[c] \in SweepSettings PROVE CycleKept(c)'
    <3>1. c \in Cycles /\ CycleKept(c)
      BY DEF Live, SweepInv
    <3>2. CASE c = sweep[s].at.cycle
      <4>1. s \in RunsIn(c)
        BY <3>2 DEF RunsIn
      <4>2. last \in BOOLEAN /\ (last <=> m < PageSize \/ n + m >= x.budget)
        BY DEF last
      <4>3. /\ sweep'[s].pc = (IF last THEN "enqueue" ELSE "page") /\ sweep'[s].set = x /\ sweep'[s].at = sweep[s].at
            /\ sweep'[s].items = items /\ sweep'[s].consumed = n + m /\ sweep'[s].exhausted = (m < PageSize)
            /\ sweep'[s].todo = todo /\ sweep'[s].keyed = sweep[s].keyed
        <5> HIDE DEF r
        <5> QED BY <1>2, <2>7, <2>11
      <4>4. rows = Rows(sweep[s].at.offset + sweep[s].consumed, PageSize) /\ items = sweep[s].items \cup rows
        BY DEF items
      <4>5. todo = IF last THEN Batches(sweep[s].items \cup rows, sweep[s].set.batch) ELSE {}
        BY DEF todo, items
      <4>6. UNCHANGED <<catalog, present, settings, visits, childKeys, cursor>>
        BY <1>5
      <4>7. \A t \in Sweeps \ {s} : sweep'[t] = sweep[t]
        BY <2>11
      <4>8. m = Cardinality(rows) /\ sweep[s].pc = "page"
        BY <1>2 DEF m
      <4> HIDE DEF r, rows
      <4> QED BY <1>1, <2>14, <3>1, <4>1, <4>2, <4>3, <4>4, <4>5, <4>6, <4>7, <4>8, PageFetched
    <3>3. CASE c # sweep[s].at.cycle
      <4>1. ListStays(c)
        BY <1>5 DEF ListStays
      <4> HIDE DEF r
      <4>2. \A t \in Sweeps : sweep'[t].at.cycle = c => sweep[t].at.cycle = c /\ sweep'[t] = sweep[t]
        BY <2>7, <2>11, <3>3
      <4>3. \A t \in Sweeps : sweep[t].at.cycle = c => sweep'[t].at.cycle = c
        BY <2>11, <3>3
      <4> QED BY <3>1, <4>1, <4>2, <4>3, CycleLeftAlone DEF RunStays
    <3> QED BY <3>2, <3>3
  <2> QED BY <1>5, <2>12, <2>13, <2>14, QuietSweep
<1>7. CASE SweepFault /\ sweep' = [sweep EXCEPT ![s].pc = "release"]
  <2> DEFINE r == [sweep[s] EXCEPT !.pc = "release"]
  <2>1. sweep' = [sweep EXCEPT ![s] = r]
    BY <1>7
  <2>2. /\ r \in SweepRuns /\ r.pc = "release" /\ r.set = x /\ r.at = sweep[s].at /\ r.items = sweep[s].items
        /\ r.consumed = n /\ r.exhausted = sweep[s].exhausted /\ r.todo = {} /\ r.keyed = {} /\ r.leant = sweep[s].leant
    BY <1>2 DEF SweepRuns
  <2> HIDE DEF r
  <2>3. RunShape(r)
    BY <1>2, <2>2 DEF RunShape
  <2>4. /\ sweep' \in [Sweeps -> SweepRuns] /\ \A t \in Sweeps : RunShape(sweep'[t])
        /\ sweep'[s] = r /\ \A t \in Sweeps \ {s} : sweep'[t] = sweep[t]
    BY <1>1, <2>1, <2>3, RunSteps
  <2>5. \A c \in Cycles : InUse(c)' => InUse(c)
    BY <1>5, <2>2, <2>4 DEF InUse
  <2>6. SweepShape'
    BY <1>1, <1>5, <1>7, <2>4, <2>5, FaultCounts DEF SweepShape
  <2>7. ASSUME NEW c \in Live PROVE CycleKept(c)'
    <3>1. c \in Cycles /\ CycleKept(c)
      BY DEF Live, SweepInv
    <3>2. ListStays(c)
      BY <1>5 DEF ListStays
    <3>3. RunStays(s) /\ \A t \in Sweeps \ {s} : RunStays(t)
      BY <1>2, <2>2, <2>4 DEF RunStays
    <3>4. \A t \in Sweeps : sweep'[t].at = sweep[t].at
      BY <2>2, <2>4
    <3> QED BY <3>1, <3>2, <3>3, <3>4, CycleLeftAlone
  <2> QED BY <1>5, <2>5, <2>6, <2>7, QuietSweep
<1> QED BY <1>6, <1>7 DEF FetchPage


(* A run that has batches, and the cycle it is in.                              *)
LEMMA RunEnqueues ==
  ASSUME SweepShape, NEW s \in Sweeps, NEW g \in sweep[s].todo \cup sweep[s].keyed
  PROVE  /\ sweep[s] \in SweepRuns /\ RunShape(sweep[s]) /\ sweep[s].pc = "enqueue"
         /\ sweep[s].at.cycle \in Cycles /\ s \in RunsIn(sweep[s].at.cycle)
         /\ g \in SweepBatches /\ g \subseteq Products /\ First(g) \in g /\ First(g) \in Products
<1>1. RunShape(sweep[s]) /\ sweep[s] \in SweepRuns
  BY DEF SweepShape, RunShape
<1>2. sweep[s].pc = "enqueue"
  BY <1>1 DEF RunShape
<1>3. sweep[s].at \in Cursors /\ sweep[s].at.cycle # 0
  BY <1>1, <1>2 DEF RunShape, SweepRuns
<1>4. g \in SweepBatches
  BY <1>1 DEF SweepRuns
<1>5. g \subseteq Products /\ g # {} /\ Products \subseteq Nat
  BY <1>4, SweepAssumption DEF SweepBatches, Products
<1>6. First(g) \in g
  <2>1. g \subseteq Nat /\ g # {}
    BY <1>5
  <2> QED BY <2>1, FirstIs
<1>7. sweep[s].at.cycle \in Cycles
  BY <1>3 DEF Cursors, Cleared
<1> QED BY <1>1, <1>2, <1>4, <1>5, <1>6, <1>7 DEF RunsIn

LEMMA SetChildKeyStep == ASSUME SweepInv, NEW s \in Sweeps, SetChildKey(s) PROVE SweepInv'
<1>1. SweepShape
  BY DEF SweepInv
<1> DEFINE k == sweep[s].at.cycle
<1>2. PICK g \in sweep[s].todo :
        \/ /\ ChildKey(s, g) \in childKeys
           /\ sweep' = [LeanOn(s, ChildKey(s, g)) EXCEPT ![s].todo = @ \ {g}]
           /\ UNCHANGED <<childKeys, strained, sweepFaults>>
        \/ /\ ChildKey(s, g) \notin childKeys
           /\ childKeys' = childKeys \cup {ChildKey(s, g)}
           /\ sweep' = [sweep EXCEPT ![s].todo = @ \ {g}, ![s].keyed = @ \cup {g}]
           /\ UNCHANGED <<strained, sweepFaults>>
        \/ /\ SweepFault
           /\ sweep' = [sweep EXCEPT ![s].todo = @ \ {g}, ![s].failed = TRUE]
           /\ \E applied \in BOOLEAN :
                /\ childKeys' = IF applied THEN childKeys \cup {ChildKey(s, g)} ELSE childKeys
                /\ Strain(IF applied /\ ChildKey(s, g) \notin childKeys THEN {sweep[s].at.cycle} ELSE {})
  BY DEF SetChildKey
<1>3. /\ sweep[s] \in SweepRuns /\ RunShape(sweep[s]) /\ sweep[s].pc = "enqueue" /\ k \in Cycles /\ s \in RunsIn(k)
      /\ g \in SweepBatches /\ First(g) \in Products
  BY <1>1, RunEnqueues
<1>4. UNCHANGED <<catalog, newest, cursor, sweepLock, visits, present, settings>>
  BY DEF SetChildKey
<1>5. ChildKey(s, g) = <<First(g), k>> /\ ChildKey(s, g) \in Products \X Cycles /\ k # 0 /\ sweep[s].todo # {}
  BY <1>3, SweepAssumption DEF ChildKey
<1>6. CASE ChildKey(s, g) \in childKeys /\ sweep' = [LeanOn(s, ChildKey(s, g)) EXCEPT ![s].todo = @ \ {g}]
           /\ UNCHANGED <<childKeys, strained, sweepFaults>>
  <2> DEFINE lean(t) == sweep[t].leant \cup {h \in sweep[t].keyed : ChildKey(t, h) = ChildKey(s, g)}
             todo(t) == IF t = s THEN sweep[t].todo \ {g} ELSE sweep[t].todo
             R(t) == [sweep[t] EXCEPT !.leant = lean(t), !.todo = todo(t)]
  <2>1. ASSUME NEW t \in Sweeps PROVE sweep'[t] = R(t) /\ R(t) \in SweepRuns /\ RunShape(R(t))
    <3>1. sweep[t] \in SweepRuns /\ RunShape(sweep[t]) /\ sweep \in [Sweeps -> SweepRuns]
      BY <1>1 DEF SweepShape
    <3>2. sweep'[t] = R(t)
      <4>1. CASE t = s
        BY <1>6, <3>1, <4>1 DEF LeanOn, SweepRuns
      <4>2. CASE t # s
        BY <1>6, <3>1, <4>2 DEF LeanOn, SweepRuns
      <4> QED BY <4>1, <4>2
    <3>3. lean(t) \in SUBSET SweepBatches /\ todo(t) \in SUBSET SweepBatches /\ todo(t) \subseteq sweep[t].todo
      BY <3>1 DEF SweepRuns
    <3>4. R(t) \in SweepRuns
      <4> HIDE DEF lean, todo
      <4> QED BY <3>1, <3>3 DEF SweepRuns
    <3>5. /\ R(t).pc = sweep[t].pc /\ R(t).at = sweep[t].at /\ R(t).set = sweep[t].set /\ R(t).items = sweep[t].items
          /\ R(t).consumed = sweep[t].consumed /\ R(t).keyed = sweep[t].keyed /\ R(t).todo = todo(t)
      <4> HIDE DEF lean, todo
      <4> QED BY <3>1 DEF SweepRuns
    <3>6. RunShape(R(t))
      <4> HIDE DEF lean, todo, R
      <4> QED BY <3>1, <3>3, <3>4, <3>5 DEF RunShape
    <3> QED BY <3>2, <3>4, <3>6
  <2>2. ASSUME NEW t \in Sweeps
        PROVE  /\ sweep'[t].pc = sweep[t].pc /\ sweep'[t].at = sweep[t].at /\ sweep'[t].set = sweep[t].set
               /\ sweep'[t].items = sweep[t].items /\ sweep'[t].consumed = sweep[t].consumed
               /\ sweep'[t].exhausted = sweep[t].exhausted /\ sweep'[t].failed = sweep[t].failed
               /\ sweep'[t].keyed = sweep[t].keyed /\ sweep'[t].todo = todo(t) /\ sweep'[t].leant = lean(t)
    <3>1. sweep[t] \in SweepRuns /\ sweep'[t] = R(t)
      BY <1>1, <2>1 DEF SweepShape
    <3> HIDE DEF lean, todo
    <3> QED BY <3>1 DEF SweepRuns
  <2>3. sweep' \in [Sweeps -> SweepRuns] /\ \A t \in Sweeps : RunShape(sweep'[t])
    <3>1. DOMAIN sweep' = Sweeps
      BY <1>6 DEF LeanOn
    <3>2. sweep' = [t \in Sweeps |-> sweep'[t]]
      <4>1. sweep' = [[t \in Sweeps |-> LeanOn(s, ChildKey(s, g))[t]] EXCEPT ![s].todo = @ \ {g}]
        BY <1>6 DEF LeanOn
      <4> QED BY <3>1, <4>1
    <3> HIDE DEF R
    <3> QED BY <2>1, <3>2
  <2> HIDE DEF R
  <2>4. \A c \in Cycles : InUse(c)' <=> InUse(c)
    BY <1>4, <2>2 DEF InUse
  <2>5. SweepShape'
    BY <1>1, <1>4, <1>6, <2>3, <2>4 DEF SweepShape
  <2>6. ASSUME NEW c \in Live, settings[c] \in SweepSettings PROVE CycleKept(c)'
    <3>1. c \in Cycles /\ CycleKept(c)
      BY DEF Live, SweepInv
    <3>2. CASE c = k
      <4>1. RunsIn(c)' = RunsIn(c)
        BY <2>2 DEF RunsIn
      <4>2. ASSUME NEW t \in RunsIn(c)
            PROVE /\ t \in Sweeps /\ lean(t) = sweep[t].leant \cup {h \in sweep[t].keyed : First(h) = First(g)}
                  /\ todo(t) \subseteq sweep[t].todo
        BY <1>5, <3>2 DEF RunsIn, ChildKey
      <4>3. \A t \in RunsIn(c) :
              /\ sweep'[t].keyed = sweep[t].keyed /\ sweep'[t].failed = sweep[t].failed
              /\ sweep'[t].leant = sweep[t].leant \cup {h \in sweep[t].keyed : First(h) = First(g)}
              /\ sweep'[t].todo = IF t = s THEN sweep[t].todo \ {g} ELSE sweep[t].todo
        BY <2>2, <4>2
      <4>4. Enqueues(c)
        <5> HIDE DEF todo, lean
        <5>1. \A t \in RunsIn(c) : sweep'[t].todo \cup sweep'[t].keyed \subseteq sweep[t].todo \cup sweep[t].keyed
          BY <4>2, <2>2
        <5> QED BY <1>4, <2>2, <4>1, <4>2, <5>1 DEF Enqueues
      <4>5. s \in RunsIn(c) /\ <<First(g), c>> \in childKeys /\ UNCHANGED <<childKeys, visits>>
        BY <1>3, <1>4, <1>5, <1>6, <3>2
      <4> HIDE DEF todo, lean
      <4> QED BY <1>1, <2>6, <3>1, <4>3, <4>4, <4>5, KeyFound
    <3>3. CASE c # k
      <4>1. ListStays(c)
        BY <1>4, <1>6 DEF ListStays
      <4>2. ASSUME NEW t \in Sweeps, sweep[t].at.cycle = c PROVE RunStays(t)
        <5>1. lean(t) = sweep[t].leant /\ todo(t) = sweep[t].todo
          BY <1>5, <3>3, <4>2 DEF ChildKey
        <5> HIDE DEF todo, lean
        <5> QED BY <2>2, <5>1 DEF RunStays
      <4>3. \A t \in Sweeps : sweep'[t].at = sweep[t].at
        BY <2>2
      <4> QED BY <3>1, <4>1, <4>2, <4>3, CycleLeftAlone
    <3> QED BY <3>2, <3>3
  <2> QED BY <1>4, <1>6, <2>4, <2>5, <2>6, QuietSweep
<1>7. CASE ChildKey(s, g) \notin childKeys /\ childKeys' = childKeys \cup {ChildKey(s, g)}
           /\ sweep' = [sweep EXCEPT ![s].todo = @ \ {g}, ![s].keyed = @ \cup {g}]
           /\ UNCHANGED <<strained, sweepFaults>>
  <2> DEFINE todo == sweep[s].todo \ {g}
             keyed == sweep[s].keyed \cup {g}
             r == [sweep[s] EXCEPT !.todo = todo, !.keyed = keyed]
  <2>1. sweep' = [sweep EXCEPT ![s] = r]
    BY <1>7
  <2>2. /\ todo \in SUBSET SweepBatches /\ keyed \in SUBSET SweepBatches
        /\ todo \cup keyed = sweep[s].todo \cup sweep[s].keyed
    BY <1>3 DEF SweepRuns
  <2> HIDE DEF todo, keyed
  <2>3. /\ r \in SweepRuns /\ r.pc = sweep[s].pc /\ r.at = sweep[s].at /\ r.set = sweep[s].set /\ r.items = sweep[s].items
        /\ r.consumed = sweep[s].consumed /\ r.exhausted = sweep[s].exhausted /\ r.failed = sweep[s].failed
        /\ r.keyed = keyed /\ r.todo = todo /\ r.leant = sweep[s].leant
    BY <1>3, <2>2 DEF SweepRuns
  <2> HIDE DEF r
  <2>4. RunShape(r)
    BY <1>3, <2>2, <2>3 DEF RunShape
  <2>5. /\ sweep' \in [Sweeps -> SweepRuns] /\ \A t \in Sweeps : RunShape(sweep'[t])
        /\ sweep'[s] = r /\ \A t \in Sweeps \ {s} : sweep'[t] = sweep[t]
    BY <1>1, <2>1, <2>4, RunSteps
  <2>6. \A c \in Cycles : InUse(c)' <=> InUse(c)
    BY <1>4, <2>3, <2>5 DEF InUse
  <2>7. SweepShape'
    <3>1. childKeys' \subseteq Products \X Cycles
      BY <1>1, <1>5, <1>7 DEF SweepShape
    <3> QED BY <1>1, <1>4, <1>7, <2>5, <2>6, <3>1 DEF SweepShape
  <2>8. ASSUME NEW c \in Live, settings[c] \in SweepSettings PROVE CycleKept(c)'
    <3>1. c \in Cycles /\ CycleKept(c)
      BY DEF Live, SweepInv
    <3>2. CASE c = k
      <4>1. RunsIn(c)' = RunsIn(c)
        BY <2>3, <2>5 DEF RunsIn
      <4>2. \A t \in RunsIn(c) : t \in Sweeps
        BY DEF RunsIn
      <4>3. \A t \in RunsIn(c) :
              /\ sweep'[t].leant = sweep[t].leant /\ sweep'[t].failed = sweep[t].failed
              /\ sweep'[t].todo = IF t = s THEN sweep[t].todo \ {g} ELSE sweep[t].todo
              /\ sweep'[t].keyed = IF t = s THEN sweep[t].keyed \cup {g} ELSE sweep[t].keyed
        BY <2>3, <2>5, <4>2 DEF todo, keyed
      <4>4. Enqueues(c)
        <5>1. \A t \in RunsIn(c) : sweep'[t].todo \cup sweep'[t].keyed \subseteq sweep[t].todo \cup sweep[t].keyed
          BY <2>2, <2>3, <2>5, <4>2
        <5> QED BY <1>4, <2>3, <2>5, <4>1, <4>2, <5>1 DEF Enqueues
      <4>5. /\ s \in RunsIn(c) /\ <<First(g), c>> \notin childKeys /\ childKeys' = childKeys \cup {<<First(g), c>>}
            /\ UNCHANGED visits
        BY <1>3, <1>4, <1>5, <1>7, <3>2
      <4> QED BY <1>1, <2>8, <3>1, <4>3, <4>4, <4>5, KeySet
    <3>3. CASE c # k
      <4>1. \A f : <<f, c>> \in childKeys' <=> <<f, c>> \in childKeys
        BY <1>5, <1>7, <3>3
      <4>2. ListStays(c)
        BY <1>4, <4>1 DEF ListStays
      <4>3. \A t \in Sweeps : sweep'[t].at.cycle = c => sweep[t].at.cycle = c /\ sweep'[t] = sweep[t]
        BY <2>3, <2>5, <3>3
      <4>4. \A t \in Sweeps : sweep[t].at.cycle = c => sweep'[t].at.cycle = c
        BY <2>5, <3>3
      <4> QED BY <3>1, <4>2, <4>3, <4>4, CycleLeftAlone DEF RunStays
    <3> QED BY <3>2, <3>3
  <2> QED BY <1>4, <1>7, <2>6, <2>7, <2>8, QuietSweep
<1>8. CASE SweepFault /\ sweep' = [sweep EXCEPT ![s].todo = @ \ {g}, ![s].failed = TRUE]
           /\ \E applied \in BOOLEAN :
                /\ childKeys' = IF applied THEN childKeys \cup {ChildKey(s, g)} ELSE childKeys
                /\ Strain(IF applied /\ ChildKey(s, g) \notin childKeys THEN {sweep[s].at.cycle} ELSE {})
  <2>1. PICK applied \in BOOLEAN :
          /\ childKeys' = IF applied THEN childKeys \cup {ChildKey(s, g)} ELSE childKeys
          /\ Strain(IF applied /\ ChildKey(s, g) \notin childKeys THEN {k} ELSE {})
    BY <1>8
  <2> DEFINE todo == sweep[s].todo \ {g}
             r == [sweep[s] EXCEPT !.todo = todo, !.failed = TRUE]
  <2>2. sweep' = [sweep EXCEPT ![s] = r] /\ todo \in SUBSET SweepBatches /\ todo \subseteq sweep[s].todo
    BY <1>3, <1>8 DEF SweepRuns
  <2> HIDE DEF todo
  <2>3. /\ r \in SweepRuns /\ r.pc = sweep[s].pc /\ r.at = sweep[s].at /\ r.set = sweep[s].set /\ r.items = sweep[s].items
        /\ r.consumed = sweep[s].consumed /\ r.exhausted = sweep[s].exhausted /\ r.failed = TRUE
        /\ r.keyed = sweep[s].keyed /\ r.todo = todo /\ r.leant = sweep[s].leant
    BY <1>3, <2>2 DEF SweepRuns
  <2> HIDE DEF r
  <2>4. RunShape(r)
    BY <1>3, <2>2, <2>3 DEF RunShape
  <2>5. /\ sweep' \in [Sweeps -> SweepRuns] /\ \A t \in Sweeps : RunShape(sweep'[t])
        /\ sweep'[s] = r /\ \A t \in Sweeps \ {s} : sweep'[t] = sweep[t]
    BY <1>1, <2>2, <2>4, RunSteps
  <2>6. \A c \in Cycles : InUse(c)' <=> InUse(c)
    BY <1>4, <2>3, <2>5 DEF InUse
  <2>7. SweepShape'
    <3>1. childKeys' \subseteq Products \X Cycles /\ strained' \subseteq Cycles
      BY <1>1, <1>3, <1>5, <2>1 DEF SweepShape, Strain
    <3> QED BY <1>1, <1>4, <1>8, <2>5, <2>6, <3>1, FaultCounts DEF SweepShape
  <2>8. ASSUME NEW c \in Live, c \notin strained' PROVE CycleKept(c)'
    <3>1. c \in Cycles /\ CycleKept(c)
      BY DEF Live, SweepInv
    <3>2. \A f : <<f, c>> \in childKeys' <=> <<f, c>> \in childKeys
      <4>1. CASE c = k
        <5>1. childKeys' = childKeys
          BY <2>1, <2>8, <4>1 DEF Strain
        <5> QED BY <5>1
      <4>2. CASE c # k
        BY <1>5, <2>1, <4>2
      <4> QED BY <4>1, <4>2
    <3>3. ListStays(c)
      BY <1>4, <3>2 DEF ListStays
    <3>4. RunStays(s) /\ \A t \in Sweeps \ {s} : RunStays(t)
      BY <1>3, <2>2, <2>3, <2>5 DEF RunStays
    <3>5. \A t \in Sweeps : sweep'[t].at = sweep[t].at
      BY <2>3, <2>5
    <3> QED BY <3>1, <3>3, <3>4, <3>5, CycleLeftAlone
  <2> QED BY <1>4, <2>1, <2>6, <2>7, <2>8, QuietSweep DEF Strain
<1> QED BY <1>2, <1>6, <1>7, <1>8



LEMMA AddChildStep == ASSUME SweepInv, NEW s \in Sweeps, AddChild(s) PROVE SweepInv'
<1>1. SweepShape
  BY DEF SweepInv
<1>2. PICK g \in sweep[s].keyed, added \in BOOLEAN, failing \in BOOLEAN, kept \in BOOLEAN :
        /\ IF failing THEN SweepFault ELSE added /\ kept /\ UNCHANGED sweepFaults
        /\ visits' = IF added THEN [visits EXCEPT ![sweep[s].at.cycle] =
                                      [p \in Products |-> IF p \in g THEN @[p] + 1 ELSE @[p]]]
                              ELSE visits
        /\ childKeys' = IF kept THEN childKeys ELSE childKeys \ {ChildKey(s, g)}
        /\ Strain(IF added # kept \/ (~added /\ g \in sweep[s].leant) THEN {sweep[s].at.cycle} ELSE {})
        /\ sweep' = [sweep EXCEPT ![s].keyed = @ \ {g}, ![s].leant = @ \ {g}, ![s].failed = @ \/ failing]
        /\ UNCHANGED <<catalog, newest, cursor, sweepLock, present, settings>>
  BY DEF AddChild
<1> DEFINE k == sweep[s].at.cycle
<1>3. /\ sweep[s] \in SweepRuns /\ RunShape(sweep[s]) /\ sweep[s].pc = "enqueue" /\ k \in Cycles /\ s \in RunsIn(k)
      /\ g \in SweepBatches /\ g \subseteq Products
  BY <1>1, RunEnqueues
<1>4. UNCHANGED <<catalog, newest, cursor, sweepLock, present, settings>>
  BY DEF AddChild
<1>5. ChildKey(s, g) = <<First(g), k>> /\ k # 0 /\ visits \in [Cycles -> [Products -> Nat]]
  BY <1>1, <1>3, SweepAssumption DEF ChildKey, SweepShape
<1>6. SweepFault \/ UNCHANGED sweepFaults
  BY <1>2
<1>7. strained \subseteq strained' /\ strained' \subseteq Cycles
  BY <1>1, <1>2, <1>3 DEF Strain, SweepShape
<1> DEFINE keyed == sweep[s].keyed \ {g}
           leant == sweep[s].leant \ {g}
           failed == sweep[s].failed \/ failing
           r == [sweep[s] EXCEPT !.keyed = keyed, !.leant = leant, !.failed = failed]
<1>8. sweep' = [sweep EXCEPT ![s] = r]
  BY <1>2
<1>9. keyed \in SUBSET SweepBatches /\ leant \in SUBSET SweepBatches /\ failed \in BOOLEAN /\ keyed \subseteq sweep[s].keyed
  BY <1>3 DEF SweepRuns
<1>10. (sweep[s].failed => failed) /\ (failing => failed)
  OBVIOUS
<1> HIDE DEF keyed, leant, failed
<1>11. /\ r \in SweepRuns /\ r.pc = sweep[s].pc /\ r.at = sweep[s].at /\ r.set = sweep[s].set /\ r.items = sweep[s].items
       /\ r.consumed = sweep[s].consumed /\ r.exhausted = sweep[s].exhausted /\ r.failed = failed
       /\ r.keyed = keyed /\ r.todo = sweep[s].todo /\ r.leant = leant
  BY <1>3, <1>9 DEF SweepRuns
<1> HIDE DEF r
<1>12. RunShape(r)
  BY <1>3, <1>9, <1>11 DEF RunShape
<1>13. /\ sweep' \in [Sweeps -> SweepRuns] /\ \A t \in Sweeps : RunShape(sweep'[t])
       /\ sweep'[s] = r /\ \A t \in Sweeps \ {s} : sweep'[t] = sweep[t]
  BY <1>1, <1>8, <1>12, RunSteps
<1>14. \A c \in Cycles : InUse(c)' <=> InUse(c)
  BY <1>4, <1>11, <1>13 DEF InUse
<1>15. /\ added => visits'[k] = [p \in Products |-> IF p \in g THEN visits[k][p] + 1 ELSE visits[k][p]]
       /\ ~added => visits' = visits
       /\ \A c \in Cycles \ {k} : visits'[c] = visits[c]
       /\ visits' \in [Cycles -> [Products -> Nat]]
  <2>1. CASE added
    <3> DEFINE w == [p \in Products |-> IF p \in g THEN visits[k][p] + 1 ELSE visits[k][p]]
    <3>1. visits' = [visits EXCEPT ![k] = w]
      BY <1>2, <2>1
    <3>2. w \in [Products -> Nat]
      BY <1>3, <1>5
    <3> HIDE DEF w
    <3>3. visits'[k] = w /\ (\A c \in Cycles \ {k} : visits'[c] = visits[c]) /\ visits' \in [Cycles -> [Products -> Nat]]
      BY <1>3, <1>5, <3>1, <3>2
    <3> QED BY <2>1, <3>3 DEF w
  <2>2. CASE ~added
    BY <1>2, <1>5, <2>2
  <2> QED BY <2>1, <2>2
<1>16. SweepShape'
  <2>1. childKeys' \subseteq Products \X Cycles
    BY <1>1, <1>2 DEF SweepShape
  <2>2. sweepFaults' \in 0..MaxSweepFaults
    BY <1>1, <1>6, FaultCounts
  <2> QED BY <1>1, <1>4, <1>7, <1>13, <1>14, <1>15, <2>1, <2>2 DEF SweepShape
<1>17. ASSUME NEW c \in Live, c \notin strained' PROVE CycleKept(c)' /\ \A p \in Products : visits'[c][p] <= 1
  <2>1. c \in Cycles /\ CycleKept(c) /\ settings[c] \in SweepSettings /\ \A p \in Products : visits[c][p] <= 1
    BY <1>1 DEF Live, SweepInv, SweepShape, SweepVisitsOnce
  <2>2. CASE c = k
    <3>1. added = kept /\ (added \/ g \notin sweep[s].leant)
      BY <1>2, <1>17, <2>2 DEF Strain
    <3>2. RunsIn(c)' = RunsIn(c) /\ \A t \in RunsIn(c) : t \in Sweeps
      BY <1>11, <1>13 DEF RunsIn
    <3>3. \A t \in RunsIn(c) :
            /\ sweep'[t].todo = sweep[t].todo /\ (sweep[t].failed => sweep'[t].failed)
            /\ sweep'[t].keyed = IF t = s THEN sweep[t].keyed \ {g} ELSE sweep[t].keyed
            /\ sweep'[t].leant = IF t = s THEN sweep[t].leant \ {g} ELSE sweep[t].leant
      BY <1>10, <1>11, <1>13, <3>2 DEF keyed, leant
    <3>4. Enqueues(c)
      <4>1. \A t \in RunsIn(c) : sweep'[t].todo \cup sweep'[t].keyed \subseteq sweep[t].todo \cup sweep[t].keyed
        BY <3>3
      <4> QED BY <1>4, <1>11, <1>13, <3>2, <4>1 DEF Enqueues
    <3>5. CASE added
      <4>1. childKeys' = childKeys /\ visits'[c] = [p \in Products |-> IF p \in g THEN visits[c][p] + 1 ELSE visits[c][p]]
        BY <1>2, <1>15, <2>2, <3>1, <3>5
      <4>2. s \in RunsIn(c)
        BY <1>3, <2>2
      <4>3. CycleKept(c)' /\ \A p \in g : p \in Products /\ visits[c][p] = 0
        BY <1>1, <2>1, <3>3, <3>4, <4>1, <4>2, ChildAdded
      <4>4. ASSUME NEW p \in Products PROVE visits'[c][p] <= 1
        <5>1. CASE p \in g
          BY <4>1, <4>3, <5>1
        <5>2. CASE p \notin g
          BY <2>1, <4>1, <5>2
        <5> QED BY <5>1, <5>2
      <4> QED BY <4>3, <4>4
    <3>6. CASE ~added
      <4>1. failing
        BY <1>2, <3>6
      <4>2. sweep'[s].failed /\ s \in RunsIn(c) /\ g \notin sweep[s].leant
        BY <1>3, <1>10, <1>11, <1>13, <2>2, <3>1, <3>6, <4>1
      <4>3. childKeys' = childKeys \ {<<First(g), c>>} /\ visits' = visits
        BY <1>2, <1>5, <1>15, <2>2, <3>1, <3>6
      <4>4. CycleKept(c)'
        BY <1>1, <2>1, <3>3, <3>4, <4>2, <4>3, ChildDropped
      <4> QED BY <2>1, <4>3, <4>4
    <3> QED BY <3>5, <3>6
  <2>3. CASE c # k
    <3>1. (\A f : <<f, c>> \in childKeys' <=> <<f, c>> \in childKeys) /\ visits'[c] = visits[c]
      BY <1>2, <1>5, <1>15, <2>1, <2>3
    <3>2. ListStays(c)
      BY <1>4, <3>1 DEF ListStays
    <3>3. \A t \in Sweeps : sweep'[t].at.cycle = c => sweep[t].at.cycle = c /\ sweep'[t] = sweep[t]
      BY <1>11, <1>13, <2>3
    <3>4. \A t \in Sweeps : sweep[t].at.cycle = c => sweep'[t].at.cycle = c
      BY <1>13, <2>3
    <3>5. CycleKept(c)'
      BY <2>1, <3>2, <3>3, <3>4, CycleLeftAlone DEF RunStays
    <3> QED BY <2>1, <3>1, <3>5
  <2> QED BY <2>2, <2>3
<1>18. SweepVisitsOnce'
  <2>1. ASSUME NEW c \in Cycles \ strained', NEW p \in Products PROVE visits'[c][p] <= 1
    <3>1. CASE c = k
      <4>1. c \in Live
        BY <1>3, <1>7, <3>1 DEF Live, InUse
      <4> QED BY <1>17, <4>1
    <3>2. CASE c # k
      BY <1>7, <1>15, <3>2 DEF SweepInv, SweepVisitsOnce
    <3> QED BY <3>1, <3>2
  <2> QED BY <2>1 DEF SweepVisitsOnce
<1>19. \A c \in Live' : c \in Live /\ c \notin strained'
  BY <1>7, <1>14 DEF Live
<1> QED BY <1>16, <1>17, <1>18, <1>19 DEF SweepInv

(* A run whose children are all enqueued, none of them failed, has covered what *)
(* it read and all before that.                                                 *)
LEMMA SettledCovers ==
  ASSUME SweepShape, NEW c \in Cycles, CycleKept(c), NEW s \in RunsIn(c), AllSettled(sweep[s]), ~sweep[s].failed
  PROVE  BehindSecured(c, sweep[s].at.offset + sweep[s].consumed)
<1> DEFINE o == sweep[s].at.offset
           n == sweep[s].consumed
<1>1. s \in Sweeps /\ sweep[s] \in SweepRuns /\ WindowRead(c, sweep[s]) /\ Grown(c)
  BY DEF RunsIn, SweepShape, CycleKept, WindowsRead
<1>2. o \in Nat /\ n \in Nat /\ sweep[s].items = RowsOf(o, n, catalog)
  BY <1>1, SweepAssumption DEF SweepRuns, Cursors, Cleared, WindowRead
<1>3. ASSUME NEW p \in present[c], Rank(p, catalog) <= o + n PROVE Secured(c, p)
  <2>1. p \in catalog
    BY <1>1 DEF Grown
  <2>2. Rank(p, catalog) \in Nat
    BY <2>1, CatalogIs
  <2>3. CASE Rank(p, catalog) <= o
    BY <2>3 DEF CycleKept, RunsBehind, BehindSecured
  <2>4. CASE ~(Rank(p, catalog) <= o)
    <3>1. p \in sweep[s].items
      BY <1>2, <1>3, <2>1, <2>2, <2>4 DEF RowsOf
    <3>2. SweepAt(s, "enqueue") /\ sweep[s].todo = {} /\ sweep[s].keyed = {}
      BY DEF AllSettled, SweepAt
    <3> QED BY <1>3, <3>1, <3>2 DEF CycleKept, RunsBehind
  <2> QED BY <2>3, <2>4
<1> QED BY <1>3 DEF BehindSecured

LEMMA AdvanceCursorStep == ASSUME SweepInv, NEW s \in Sweeps, AdvanceCursor(s) PROVE SweepInv'
<1>1. SweepShape /\ RunShape(sweep[s])
  BY DEF SweepInv, SweepShape
<1> DEFINE o == sweep[s].at.offset
           n == sweep[s].consumed
           k == sweep[s].at.cycle
           next == NextCursor(sweep[s])
           r == [sweep[s] EXCEPT !.pc = "release"]
<1>2. /\ sweep[s].pc = "enqueue" /\ sweep[s].todo = {} /\ sweep[s].keyed = {} /\ sweep[s] \in SweepRuns
      /\ sweep[s].at \in Cursors /\ k # 0 /\ n \in Nat /\ o + n <= MaxProducts /\ sweep[s].set \in SweepSettings
  BY <1>1 DEF AdvanceCursor, AllSettled, RunShape, SweepRuns
<1>3. k \in Cycles /\ o \in Nat /\ MaxProducts \in Nat /\ 0 \notin Cycles
  BY <1>2, SweepAssumption DEF Cursors, Cleared
<1>4. UNCHANGED <<catalog, newest, sweepLock, childKeys, visits, present, settings, strained>>
  BY DEF AdvanceCursor
<1>5. cursor' \in {cursor, next} /\ (SweepFault \/ UNCHANGED sweepFaults) /\ sweep' = [sweep EXCEPT ![s] = r]
  BY DEF AdvanceCursor
<1>6. /\ next = sweep[s].at \/ next = Cleared \/ next = [cycle |-> k, offset |-> o + n]
      /\ next \in Cursors /\ next.cycle \in {0, k}
  <2>1. [cycle |-> k, offset |-> o + n] \in Cursors
    BY <1>2, <1>3 DEF Cursors
  <2>2. next = sweep[s].at \/ next = Cleared \/ next = [cycle |-> k, offset |-> o + n]
    BY DEF NextCursor
  <2>3. Cleared \in Cursors /\ Cleared.cycle = 0
    BY DEF Cursors, Cleared
  <2> QED BY <1>2, <2>1, <2>2, <2>3
<1>7. /\ r \in SweepRuns /\ r.pc = "release" /\ r.set = sweep[s].set /\ r.at = sweep[s].at /\ r.items = sweep[s].items
      /\ r.consumed = n /\ r.exhausted = sweep[s].exhausted /\ r.todo = {} /\ r.keyed = {} /\ r.leant = sweep[s].leant
  BY <1>2 DEF SweepRuns
<1> HIDE DEF r, next
<1>8. RunShape(r)
  BY <1>2, <1>7 DEF RunShape
<1>9. /\ sweep' \in [Sweeps -> SweepRuns] /\ \A t \in Sweeps : RunShape(sweep'[t])
      /\ sweep'[s] = r /\ \A t \in Sweeps \ {s} : sweep'[t] = sweep[t]
  BY <1>1, <1>5, <1>8, RunSteps
<1>10. \A t \in Sweeps : sweep'[t].at = sweep[t].at
  BY <1>7, <1>9
<1>11. \A c \in Cycles : InUse(c)' => InUse(c)
  BY <1>3, <1>5, <1>6, <1>10 DEF InUse
<1>12. SweepShape'
  <2>1. cursor' \in Cursors
    BY <1>1, <1>5, <1>6 DEF SweepShape
  <2> QED BY <1>1, <1>4, <1>5, <1>9, <1>11, <2>1, FaultCounts DEF SweepShape
<1>13. ASSUME NEW c \in Live PROVE CycleKept(c)'
  <2>1. c \in Cycles /\ CycleKept(c)
    BY DEF Live, SweepInv
  <2>2. ASSUME cursor' # cursor, cursor'.cycle = c PROVE CursorMoves(c)
    <3>1. c = k /\ cursor' = next
      BY <1>3, <1>5, <1>6, <2>1, <2>2
    <3>2. s \in RunsIn(c) /\ WindowRead(c, sweep[s])
      BY <2>1, <3>1 DEF RunsIn, CycleKept, WindowsRead
    <3>3. CASE sweep[s].failed
      <4>1. next = sweep[s].at
        BY <3>3 DEF next, NextCursor
      <4>2. Cardinality(catalog) \in Nat /\ o + n <= Cardinality(catalog) /\ Aligned(settings[c], o)
        BY <1>1, <3>2, CatalogIs DEF WindowRead
      <4>3. BehindSecured(c, o)
        BY <2>1, <3>2 DEF CycleKept, RunsBehind
      <4> QED BY <1>2, <1>3, <3>1, <4>1, <4>2, <4>3 DEF CursorMoves
    <3>4. CASE ~sweep[s].failed
      <4>1. ~sweep[s].exhausted /\ next = [cycle |-> k, offset |-> o + n]
        BY <1>3, <2>2, <3>1, <3>4 DEF next, NextCursor, Cleared
      <4>2. o + n <= Cardinality(catalog) /\ n = Window(sweep[s].set)
        BY <1>2, <3>2, <4>1 DEF WindowRead
      <4>3. settings[c] \in SweepSettings
        BY <1>1 DEF Live, SweepShape
      <4>4. Aligned(settings[c], o + n)
        BY <1>2, <3>2, <4>2, <4>3, AlignedNext DEF WindowRead
      <4>5. BehindSecured(c, o + n)
        BY <1>1, <2>1, <3>2, <3>4, SettledCovers DEF AdvanceCursor
      <4>6. cursor'.offset = o + n
        BY <3>1, <4>1
      <4> QED BY <4>2, <4>4, <4>5, <4>6 DEF CursorMoves
    <3> QED BY <3>3, <3>4
  <2>3. ListStays(c)
    BY <1>4, <2>2 DEF ListStays
  <2>4. RunStays(s) /\ \A t \in Sweeps \ {s} : RunStays(t)
    BY <1>2, <1>7, <1>9 DEF RunStays
  <2> QED BY <1>10, <2>1, <2>3, <2>4, CycleLeftAlone
<1> QED BY <1>4, <1>11, <1>12, <1>13, QuietSweep



(* A run ends: when it gives the lock back, or dies.                            *)
LEMMA RunEnds ==
  ASSUME SweepInv, NEW s \in Sweeps, sweep' = [sweep EXCEPT ![s] = IdleSweep],
         UNCHANGED <<catalog, newest, cursor, childKeys, visits, present, settings>>,
         sweepLock' \in Sweeps \cup {NoSweep}, SweepFault \/ UNCHANGED sweepFaults,
         Strain(IF sweep[s].keyed = {} THEN {} ELSE {sweep[s].at.cycle})
  PROVE  SweepInv'
<1>1. SweepShape /\ 0 \notin Cycles
  BY SweepAssumption DEF SweepInv
<1>2. Cleared \in Cursors /\ Cleared.cycle = 0 /\ Cleared.offset = 0 /\ MaxProducts \in Nat
  BY SweepAssumption DEF Cursors, Cleared
<1>3. IdleSweep \in SweepRuns
  BY <1>2 DEF IdleSweep, SweepRuns
<1>4. /\ IdleSweep.pc = "idle" /\ IdleSweep.at = Cleared /\ IdleSweep.items = {} /\ IdleSweep.consumed = 0
      /\ IdleSweep.todo = {} /\ IdleSweep.keyed = {}
  BY DEF IdleSweep
<1>5. RunShape(IdleSweep)
  <2>1. UNION (IdleSweep.todo \cup IdleSweep.keyed) \subseteq IdleSweep.items
    BY <1>4
  <2> QED BY <1>2, <1>3, <1>4, <2>1 DEF RunShape
<1>6. /\ sweep' \in [Sweeps -> SweepRuns] /\ \A t \in Sweeps : RunShape(sweep'[t])
      /\ sweep'[s] = IdleSweep /\ \A t \in Sweeps \ {s} : sweep'[t] = sweep[t]
  BY <1>1, <1>5, RunSteps
<1>7. \A c \in Cycles : InUse(c)' => InUse(c)
  BY <1>1, <1>2, <1>4, <1>6 DEF InUse
<1>8. strained \subseteq strained' /\ strained' \subseteq Cycles
  <2>1. sweep[s].keyed # {} => sweep[s].at.cycle \in Cycles
    BY <1>1, RunEnqueues
  <2> QED BY <1>1, <2>1 DEF Strain, SweepShape
<1>9. SweepShape'
  BY <1>1, <1>6, <1>7, <1>8, FaultCounts DEF SweepShape
<1>10. ASSUME NEW c \in Live, c \notin strained' PROVE CycleKept(c)'
  <2>1. c \in Cycles /\ CycleKept(c) /\ c # 0
    BY <1>1 DEF Live, SweepInv
  <2>2. ListStays(c)
    BY DEF ListStays
  <2>3. \A t \in Sweeps : sweep'[t].at.cycle = c => sweep[t].at.cycle = c /\ sweep'[t] = sweep[t]
    BY <1>2, <1>4, <1>6, <2>1
  <2>4. \A t \in Sweeps : sweep[t].at.cycle = c /\ sweep'[t].at.cycle # c => RunLeaves(t)
    <3>1. ASSUME NEW t \in Sweeps, sweep[t].at.cycle = c, sweep'[t].at.cycle # c PROVE sweep[t].keyed = {}
      <4>1. t = s
        BY <1>6, <3>1
      <4> QED BY <1>10, <3>1, <4>1 DEF Strain
    <3> QED BY <3>1 DEF RunLeaves
  <2>5. \A t \in Sweeps : sweep'[t].at.cycle = c => sweep[t].at.cycle = c /\ RunStays(t)
    BY <2>3 DEF RunStays
  <2> QED BY <2>1, <2>2, <2>4, <2>5, CycleLeftAlone
<1> QED BY <1>7, <1>8, <1>9, <1>10, QuietSweep

LEMMA ReleaseSweepStep == ASSUME SweepInv, NEW s \in Sweeps, ReleaseSweep(s) PROVE SweepInv'
<1>1. SweepShape /\ RunShape(sweep[s])
  BY DEF SweepInv, SweepShape
<1>2. sweep[s].keyed = {}
  BY <1>1 DEF RunShape, ReleaseSweep, SweepAt
<1>3. sweepLock' \in Sweeps \cup {NoSweep} /\ sweep' = [sweep EXCEPT ![s] = IdleSweep]
  BY <1>1 DEF ReleaseSweep, SweepShape
<1>4. Strain(IF sweep[s].keyed = {} THEN {} ELSE {sweep[s].at.cycle})
  BY <1>2 DEF Strain, ReleaseSweep
<1>5. UNCHANGED <<catalog, newest, cursor, childKeys, visits, present, settings, sweepFaults>>
  BY DEF ReleaseSweep
<1> QED BY <1>3, <1>4, <1>5, RunEnds

LEMMA CrashSweepStep == ASSUME SweepInv, NEW s \in Sweeps, CrashSweep(s) PROVE SweepInv'
<1>1. sweepLock' \in Sweeps \cup {NoSweep}
  BY DEF SweepInv, SweepShape, CrashSweep
<1> QED BY <1>1, RunEnds DEF CrashSweep

LEMMA SweepLockExpiresStep == ASSUME SweepInv, SweepLockExpires PROVE SweepInv'
<1>1. UNCHANGED <<catalog, newest, cursor, sweep, childKeys, visits, present, settings, strained, sweepFaults>>
  BY DEF SweepLockExpires
<1>2. InUse(0)' = InUse(0) /\ \A c \in Cycles : InUse(c)' <=> InUse(c)
  BY <1>1 DEF InUse
<1>3. SweepShape'
  BY <1>1, <1>2 DEF SweepInv, SweepShape, SweepLockExpires
<1>4. ASSUME NEW c \in Live PROVE CycleKept(c)'
  <2>1. c \in Cycles /\ CycleKept(c)
    BY DEF Live, SweepInv
  <2>2. ListStays(c) /\ \A t \in Sweeps : RunStays(t)
    BY <1>1 DEF ListStays, RunStays
  <2> QED BY <1>1, <2>1, <2>2, CycleLeftAlone
<1> QED BY <1>1, <1>2, <1>3, <1>4, QuietSweep

LEMMA AddProductStep == ASSUME SweepInv, AddProduct PROVE SweepInv'
<1>1. /\ UNCHANGED <<cursor, sweepLock, sweep, childKeys, visits, present, settings, strained, sweepFaults>>
      /\ newest + 1 \in Products /\ newest' = newest + 1 /\ catalog' = catalog \cup {newest + 1}
  BY DEF AddProduct
<1>2. SweepShape /\ newest \in Nat
  BY SweepAssumption DEF SweepInv, SweepShape
<1>3. \A c \in Cycles : InUse(c)' <=> InUse(c)
  BY <1>1 DEF InUse
<1>4. newest' \in 0..MaxProducts /\ catalog' \subseteq 1..newest'
  <2>1. newest' \in 0..MaxProducts
    BY <1>1, <1>2, SweepAssumption DEF Products
  <2>2. \A p \in 1..newest : p \in 1..newest'
    BY <1>1, <1>2
  <2>3. newest + 1 \in 1..newest'
    BY <1>1, <1>2
  <2> QED BY <1>1, <1>2, <2>1, <2>2, <2>3 DEF SweepShape
<1>5. SweepShape'
  BY <1>1, <1>2, <1>3, <1>4 DEF SweepShape
<1>6. ASSUME NEW c \in Live, settings[c] \in SweepSettings PROVE CycleKept(c)'
  <2>1. c \in Cycles /\ CycleKept(c)
    BY DEF Live, SweepInv
  <2> QED BY <1>1, <1>2, <1>6, <2>1, ProductAdded
<1> QED BY <1>1, <1>3, <1>5, <1>6, QuietSweep

LEMMA RemoveProductStep == ASSUME SweepInv, RemoveProduct PROVE SweepInv'
<1>1. /\ UNCHANGED <<newest, cursor, sweepLock, sweep, childKeys, visits, present, settings>>
      /\ SweepFault /\ Strain({c \in Cycles : InUse(c)}) /\ catalog' \subseteq catalog
  BY DEF RemoveProduct
<1>2. \A c \in Cycles : InUse(c)' <=> InUse(c)
  BY <1>1 DEF InUse
<1>3. strained \subseteq strained' /\ \A c \in Cycles : InUse(c) => c \in strained'
  BY <1>1 DEF Strain
<1>4. SweepShape
  BY DEF SweepInv
<1>5. strained' \subseteq Cycles
  BY <1>1, <1>4 DEF Strain, SweepShape
<1>6. SweepShape'
  BY <1>1, <1>2, <1>4, <1>5, FaultCounts DEF SweepShape
<1>7. \A c \in Live : c \in strained'
  BY <1>3 DEF Live
<1> QED BY <1>1, <1>2, <1>3, <1>6, <1>7, QuietSweep

LEMMA SweepBegins == ASSUME SweepInit PROVE SweepInv
<1>1. /\ MaxProducts \in Nat /\ FirstCount \in 0..MaxProducts /\ 0 \notin Cycles /\ MaxSweepFaults \in Nat
      /\ Cleared \in Cursors /\ Cleared.cycle = 0 /\ Cleared.offset = 0
  BY SweepAssumption DEF Cursors, Cleared
<1>2. IdleSweep \in SweepRuns
  BY <1>1 DEF IdleSweep, SweepRuns
<1>3. RunShape(IdleSweep)
  <2>1. /\ IdleSweep.pc = "idle" /\ IdleSweep.at = Cleared /\ IdleSweep.items = {} /\ IdleSweep.consumed = 0
        /\ IdleSweep.todo = {} /\ IdleSweep.keyed = {}
    BY DEF IdleSweep
  <2>2. UNION (IdleSweep.todo \cup IdleSweep.keyed) \subseteq IdleSweep.items
    BY <2>1
  <2> QED BY <1>1, <1>2, <2>1, <2>2 DEF RunShape
<1>4. \A s \in Sweeps : sweep[s] = IdleSweep /\ sweep[s].at.cycle = 0
  BY <1>1 DEF SweepInit, IdleSweep
<1>5. \A c \in Cycles : ~InUse(c)
  BY <1>1, <1>4 DEF InUse, SweepInit
<1>6. sweep \in [Sweeps -> SweepRuns] /\ \A s \in Sweeps : RunShape(sweep[s])
  BY <1>2, <1>3, <1>4 DEF SweepInit
<1>7. visits \in [Cycles -> [Products -> Nat]] /\ SweepVisitsOnce
  BY DEF SweepInit, SweepVisitsOnce
<1>8. newest \in 0..MaxProducts /\ catalog \subseteq 1..newest /\ sweepFaults \in 0..MaxSweepFaults
  BY <1>1 DEF SweepInit
<1>9. /\ childKeys \subseteq Products \X Cycles /\ present \in [Cycles -> SUBSET Products] /\ cursor \in Cursors
      /\ settings \in [Cycles -> SweepSettings \cup {NoSettings}] /\ strained \subseteq Cycles
      /\ sweepLock \in Sweeps \cup {NoSweep}
  BY <1>1 DEF SweepInit
<1>10. SweepShape
  BY <1>5, <1>6, <1>7, <1>8, <1>9 DEF SweepShape
<1> QED BY <1>5, <1>7, <1>10 DEF SweepInv, Live

LEMMA SweepStep == ASSUME SweepInv, [SweepNext]_sweepVars PROVE SweepInv'
<1>1. CASE \E s \in Sweeps : StartSweep(s) \/ ReadCursor(s) \/ FetchPage(s) \/ SetChildKey(s)
  BY <1>1, StartSweepStep, ReadCursorStep, FetchPageStep, SetChildKeyStep
<1>2. CASE \E s \in Sweeps : AddChild(s) \/ AdvanceCursor(s) \/ ReleaseSweep(s) \/ CrashSweep(s)
  BY <1>2, AddChildStep, AdvanceCursorStep, ReleaseSweepStep, CrashSweepStep
<1>3. CASE SweepLockExpires \/ AddProduct \/ RemoveProduct
  BY <1>3, SweepLockExpiresStep, AddProductStep, RemoveProductStep
<1>4. CASE UNCHANGED sweepVars
  <2>1. UNCHANGED <<catalog, newest, cursor, sweepLock, sweep, childKeys, visits, present, settings, strained, sweepFaults>>
    BY <1>4 DEF sweepVars
  <2>2. \A c \in Cycles : InUse(c)' <=> InUse(c)
    BY <2>1 DEF InUse
  <2>3. SweepShape'
    BY <2>1, <2>2 DEF SweepInv, SweepShape
  <2>4. ASSUME NEW c \in Live PROVE CycleKept(c)'
    <3>1. c \in Cycles /\ CycleKept(c)
      BY DEF Live, SweepInv
    <3>2. ListStays(c) /\ \A t \in Sweeps : RunStays(t)
      BY <2>1 DEF ListStays, RunStays
    <3> QED BY <2>1, <3>1, <3>2, CycleLeftAlone
  <2> QED BY <2>1, <2>2, <2>3, <2>4, QuietSweep
<1> QED BY <1>1, <1>2, <1>3, <1>4 DEF SweepNext

(* What the invariant says of a cycle is what is promised.                      *)
LEMMA NothingSkipped == ASSUME SweepInv PROVE SweepSkipsNothing
<1>1. SweepShape /\ 0 \notin Cycles
  BY SweepAssumption DEF SweepInv
<1>2. ASSUME NEW c \in Live, NEW p \in present[c], Secured(c, p) PROVE p \in Visited(c)
  <2>1. p \in Products
    BY <1>1 DEF Live, SweepShape
  <2>2. CASE visits[c][p] > 0
    BY <2>1, <2>2 DEF Visited
  <2>3. CASE \E s \in RunsIn(c) : \E g \in sweep[s].keyed \cap sweep[s].leant : p \in g
    BY <2>3 DEF Visited, RunsIn
  <2> QED BY <1>2, <2>2, <2>3 DEF Secured
<1>3. ASSUME NEW c \in Live, NEW offset, BehindSecured(c, offset) PROVE Behind(c, offset) \subseteq Visited(c)
  <2>1. ASSUME NEW p \in Behind(c, offset) PROVE p \in Visited(c)
    <3>1. p \in present[c] /\ Rank(p, present[c]) <= offset /\ c \in Cycles /\ Grown(c)
      BY DEF Behind, Live, SweepInv, CycleKept
    <3>2. Rank(p, catalog) <= offset
      BY <1>1, <3>1, PresentRank
    <3> QED BY <1>2, <1>3, <3>1, <3>2 DEF BehindSecured
  <2> QED BY <2>1
<1>4. ASSUME cursor # Cleared, cursor.cycle \notin strained
      PROVE  Behind(cursor.cycle, cursor.offset) \subseteq Visited(cursor.cycle)
  <2>1. cursor.cycle \in Live
    BY <1>1, <1>4 DEF Live, InUse, SweepShape, Cursors
  <2>2. BehindSecured(cursor.cycle, cursor.offset)
    BY <2>1 DEF SweepInv, CycleKept, CursorBehind
  <2> QED BY <1>3, <2>1, <2>2
<1>5. ASSUME NEW s \in Sweeps, AllSettled(sweep[s]), sweep[s].at.cycle \notin strained
      PROVE  (IF NextCursor(sweep[s]) = Cleared THEN present[sweep[s].at.cycle]
              ELSE Behind(sweep[s].at.cycle, NextCursor(sweep[s]).offset)) \subseteq Visited(sweep[s].at.cycle)
  <2> DEFINE c == sweep[s].at.cycle
             o == sweep[s].at.offset
             n == sweep[s].consumed
  <2>1. RunShape(sweep[s]) /\ sweep[s].pc = "enqueue" /\ sweep[s].at \in Cursors /\ c # 0 /\ n \in Nat
    BY <1>1, <1>5 DEF AllSettled, SweepShape, RunShape, SweepRuns
  <2>2. c \in Live /\ o \in Nat /\ c \in Cycles /\ s \in RunsIn(c) /\ CycleKept(c)
    <3>1. c \in Cycles /\ o \in Nat
      BY <2>1, SweepAssumption DEF Cursors, Cleared
    <3> QED BY <1>5, <3>1 DEF Live, InUse, RunsIn, SweepInv
  <2>3. CASE sweep[s].failed
    <3>1. NextCursor(sweep[s]) = sweep[s].at /\ sweep[s].at # Cleared
      BY <2>1, <2>3 DEF NextCursor, Cleared
    <3>2. BehindSecured(c, o)
      BY <2>2 DEF CycleKept, RunsBehind
    <3> QED BY <1>3, <2>2, <3>1, <3>2
  <2>4. CASE ~sweep[s].failed
    <3>1. BehindSecured(c, o + n)
      BY <1>1, <1>5, <2>2, <2>4, SettledCovers
    <3>2. CASE sweep[s].exhausted
      <4>1. NextCursor(sweep[s]) = Cleared
        BY <2>4, <3>2 DEF NextCursor
      <4>2. Cardinality(present[c]) <= o + n /\ Grown(c)
        BY <2>1, <2>2, <3>2 DEF CycleKept, WindowsRead, WindowRead
      <4>3. ASSUME NEW p \in present[c] PROVE p \in Visited(c)
        <5>1. p \in catalog /\ Rank(p, catalog) <= Cardinality(present[c])
          BY <1>1, <2>2, <4>2, PresentRank
        <5>2. Rank(p, catalog) \in Nat /\ Cardinality(present[c]) \in Nat
          <6>1. present[c] \in SUBSET catalog
            BY <4>2 DEF Grown
          <6> QED BY <1>1, <5>1, <6>1, CatalogIs, FS_Subset, FS_CardinalityType
        <5>3. Rank(p, catalog) <= o + n
          BY <2>1, <2>2, <4>2, <5>1, <5>2
        <5> QED BY <1>2, <2>2, <3>1, <5>3 DEF BehindSecured
      <4> QED BY <4>1, <4>3
    <3>3. CASE ~sweep[s].exhausted
      <4>1. NextCursor(sweep[s]) = [cycle |-> c, offset |-> o + n]
        BY <2>4, <3>3 DEF NextCursor
      <4>2. NextCursor(sweep[s]) # Cleared /\ NextCursor(sweep[s]).offset = o + n
        BY <2>1, <4>1 DEF Cleared
      <4> QED BY <1>3, <2>2, <3>1, <4>2
    <3> QED BY <3>2, <3>3
  <2> QED BY <2>3, <2>4
<1> QED BY <1>4, <1>5 DEF SweepSkipsNothing

(* Whatever the numbers, the invariant of the sweep is kept.                    *)
LEMMA SweepIsKept == SweepSpec => []SweepInv
<1>1. SweepInit => SweepInv
  BY SweepBegins
<1>2. SweepInv /\ [SweepNext]_sweepVars => SweepInv'
  BY SweepStep
<1> QED BY <1>1, <1>2, PTL DEF SweepSpec

(* The variables of the sweep have their types in every reachable state.        *)
THEOREM SweepTypeCorrect == SweepSpec => []SweepTypeOK
<1>1. ASSUME SweepInv PROVE SweepTypeOK
  <2>1. SweepShape
    BY <1>1 DEF SweepInv
  <2>2. ASSUME NEW s \in Sweeps
        PROVE  /\ sweep[s].pc \in {"idle", "cursor", "page", "enqueue", "release"} /\ sweep[s].at \in Cursors
               /\ UNION (sweep[s].todo \cup sweep[s].keyed) \subseteq sweep[s].items /\ sweep[s].items \subseteq Products
    BY <2>1 DEF SweepShape, RunShape, SweepRuns
  <2> QED BY <2>1, <2>2 DEF SweepShape, SweepTypeOK
<1>2. SweepInv => SweepTypeOK
  BY <1>1
<1> QED BY <1>2, SweepIsKept, PTL

(* A cycle of the bounded sweep gives every product that was in the list when it*)
(* began a child job, and one only, and no cursor stored or about to be is ahead*)
(* of a product without one, whatever overlaps, fails, crashes or is appended,  *)
(* unless the cycle met what its offset cannot absorb.                          *)
THEOREM SweepCovered == SweepSpec => []SweepCoversOnce
<1>1. SweepInv => SweepCoversOnce
  BY NothingSkipped DEF SweepInv, SweepCoversOnce
<1> QED BY <1>1, SweepIsKept, PTL
==============================================================================
