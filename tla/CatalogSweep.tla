----------------------------- MODULE CatalogSweep -----------------------------
(* The bounded sweep by which a connection's whole catalog is synchronised:   *)
(* MasterProductSyncAllHandler over runBoundedSweep.  A run reads pages of the*)
(* master's list from an offset until its budget is spent, enqueues one child *)
(* job per batch of products and writes back where the next run goes on.  A   *)
(* cursor that reached the end is cleared, and the next run begins a cycle.   *)
(*                                                                            *)
(* The list is sorted by id: a new product is appended, a removed one shifts  *)
(* those behind it.  Runs take a lock whose TTL may end before they do, so    *)
(* they overlap; budget and batch size are settings of each run.              *)
EXTENDS Naturals, FiniteSets

CONSTANTS
  Sweeps,         \* executions of the handler at a time
  MaxProducts,    \* bound: external ids, in the order of the list
  FirstCount,     \* how many the list holds at first
  PageSize,       \* getPageSize
  Budgets,        \* catalogueSweepBudget, or the payload's pageLimit
  BatchSizes,     \* sweepPageSize
  Cycles,         \* names of cycles: one more than the others in use
  MaxSweepFaults, \* bound: crashes and failing calls
  NoSweep

ASSUME SweepAssumption ==
  /\ MaxProducts \in Nat /\ FirstCount \in 0..MaxProducts
  /\ IsFiniteSet(Sweeps)
  /\ Cycles \subseteq Nat \ {0} /\ IsFiniteSet(Cycles) /\ Cardinality(Cycles) >= Cardinality(Sweeps)
  /\ MaxSweepFaults \in Nat
  /\ PageSize \in Nat \ {0}
  /\ Budgets \subseteq Nat \ {0} /\ BatchSizes \subseteq Nat \ {0}
  /\ NoSweep \notin Sweeps

VARIABLES
  catalog,     \* the master's list
  newest,      \* the last id it gave out
  cursor,      \* the stored cursor: cycle (0: none) and offset
  sweepLock,   \* the run that has the lock
  sweep,       \* per run: where it is, and what it works with
  childKeys,   \* jobdedup keys of children: first product and cycle
  visits,      \* per cycle and product: children enqueued that cover it
  present,     \* per cycle: the list when it began
  settings,    \* per cycle: budget and batch size of the run that began it
  strained,    \* cycles in which something happened the offset cannot absorb
  sweepFaults

sweepVars == <<catalog, newest, cursor, sweepLock, sweep, childKeys, visits, present, settings,
               strained, sweepFaults>>

Products == 1..MaxProducts
Cleared == [cycle |-> 0, offset |-> 0]
NoSettings == [budget |-> 0, batch |-> 0]

IdleSweep == [pc |-> "idle", set |-> NoSettings, at |-> Cleared, items |-> {},
              consumed |-> 0, exhausted |-> FALSE, todo |-> {}, keyed |-> {}, leant |-> {}, failed |-> FALSE]

SweepInit ==
  /\ catalog = 1..FirstCount /\ newest = FirstCount
  /\ cursor = Cleared
  /\ sweepLock = NoSweep
  /\ sweep = [s \in Sweeps |-> IdleSweep]
  /\ childKeys = {}
  /\ visits = [c \in Cycles |-> [p \in Products |-> 0]]
  /\ present = [c \in Cycles |-> {}]
  /\ settings = [c \in Cycles |-> NoSettings]
  /\ strained = {}
  /\ sweepFaults = 0

SweepFault == sweepFaults < MaxSweepFaults /\ sweepFaults' = sweepFaults + 1
Strain(cs) == strained' = strained \cup cs
SweepAt(s, pc) == sweep[s].pc = pc

(* Rows offset+1 .. offset+limit of the list; the first of a batch.           *)
Rank(p, list) == Cardinality({q \in list : q <= p})
Rows(offset, limit) == {p \in catalog : Rank(p, catalog) \in offset + 1 .. offset + limit}
First(g) == CHOOSE p \in g : \A q \in g : p <= q

(* groupItems: the page cut into batches, from its first item on.             *)
Batches(items, size) ==
  {{q \in items : (Rank(q, items) - 1) \div size = (Rank(p, items) - 1) \div size} : p \in items}

(* The key of a child: the batch's first product and the cycle.               *)
ChildKey_PerRun(s, g) == <<First(g), sweep[s].at.cycle, s>>
ChildKey(s, g) == <<First(g), sweep[s].at.cycle>>

-----------------------------------------------------------------------------
(* The handler reads its settings, then takes the lock; if it is taken the run*)
(* is over.                                                                   *)
StartSweep(s) ==
  /\ SweepAt(s, "idle") /\ sweepLock = NoSweep
  /\ sweepLock' = s
  /\ \E b \in Budgets, n \in BatchSizes :
       sweep' = [sweep EXCEPT ![s].pc = "cursor", ![s].set = [budget |-> b, batch |-> n]]
  /\ UNCHANGED <<catalog, newest, cursor, childKeys, visits, present, settings, strained, sweepFaults>>

(* Two runs cut a cycle into the same batches if their batch size is the same,*)
(* and divides a page or goes with the same budget.                           *)
SameCut(x, y) == x.batch = y.batch /\ (PageSize % x.batch = 0 \/ x.budget = y.budget)

(* The cursor of the moment, or a fresh cycle: a name nothing refers to any   *)
(* more stands for a new random id.                                           *)
InUse(c) == cursor.cycle = c \/ \E s \in Sweeps : sweep[s].at.cycle = c
ReadCursor(s) ==
  /\ SweepAt(s, "cursor")
  /\ IF cursor # Cleared
       THEN /\ sweep' = [sweep EXCEPT ![s].pc = "page", ![s].at = cursor]
            /\ Strain(IF SameCut(sweep[s].set, settings[cursor.cycle]) THEN {} ELSE {cursor.cycle})
            /\ UNCHANGED <<childKeys, visits, present, settings>>
       ELSE LET c == CHOOSE d \in Cycles : ~InUse(d)
            IN /\ sweep' = [sweep EXCEPT ![s].pc = "page", ![s].at = [cycle |-> c, offset |-> 0]]
               /\ present' = [present EXCEPT ![c] = catalog]
               /\ settings' = [settings EXCEPT ![c] = sweep[s].set]
               /\ childKeys' = {key \in childKeys : key[2] # c}
               /\ visits' = [visits EXCEPT ![c] = [p \in Products |-> 0]]
               /\ strained' = strained \ {c}
  /\ UNCHANGED <<catalog, newest, cursor, sweepLock, sweepFaults>>

(* readPagedIds: one page, until the budget is spent or a page is short.  A   *)
(* read that fails ends the run without a word to the cursor.                 *)
FetchPage(s) ==
  /\ SweepAt(s, "page")
  /\ LET r == sweep[s]
         rows == Rows(r.at.offset + r.consumed, PageSize)
         items == r.items \cup rows
         short == Cardinality(rows) < PageSize
         last == short \/ r.consumed + Cardinality(rows) >= r.set.budget
     IN \/ /\ sweep' = [sweep EXCEPT ![s].items = items,
                                     ![s].consumed = @ + Cardinality(rows),
                                     ![s].exhausted = short,
                                     ![s].pc = IF last THEN "enqueue" ELSE "page",
                                     ![s].todo = IF last THEN Batches(items, r.set.batch) ELSE {}]
           /\ UNCHANGED sweepFaults
        \/ SweepFault /\ sweep' = [sweep EXCEPT ![s].pc = "release"]
  /\ UNCHANGED <<catalog, newest, cursor, sweepLock, childKeys, visits, present, settings, strained>>

(* enqueueJob of one batch, in any order: SET NX of the key, where a key that *)
(* is there counts as enqueued, be it that of a run whose XADD is to come ... *)
LeanOn(s, key) ==
  [t \in Sweeps |-> [sweep[t] EXCEPT !.leant = @ \cup {h \in sweep[t].keyed : ChildKey(t, h) = key}]]
SetChildKey(s) == \E g \in sweep[s].todo :
  /\ LET key == ChildKey(s, g)
     IN \/ /\ key \in childKeys
           /\ sweep' = [LeanOn(s, key) EXCEPT ![s].todo = @ \ {g}]
           /\ UNCHANGED <<childKeys, strained, sweepFaults>>
        \/ /\ key \notin childKeys
           /\ childKeys' = childKeys \cup {key}
           /\ sweep' = [sweep EXCEPT ![s].todo = @ \ {g}, ![s].keyed = @ \cup {g}]
           /\ UNCHANGED <<strained, sweepFaults>>
        \/ /\ SweepFault
           /\ sweep' = [sweep EXCEPT ![s].todo = @ \ {g}, ![s].failed = TRUE]
           /\ \E applied \in BOOLEAN :
                /\ childKeys' = IF applied THEN childKeys \cup {key} ELSE childKeys
                /\ Strain(IF applied /\ key \notin childKeys THEN {sweep[s].at.cycle} ELSE {})
  /\ UNCHANGED <<catalog, newest, cursor, sweepLock, visits, present, settings>>

(* ... then XADD.  If it is reported as failed the key is deleted, which may  *)
(* fail as well; the entry may be there nevertheless.                         *)
AddChild(s) == \E g \in sweep[s].keyed, added, failing, kept \in BOOLEAN :
  /\ IF failing THEN SweepFault ELSE added /\ kept /\ UNCHANGED sweepFaults
  /\ visits' = IF added THEN [visits EXCEPT ![sweep[s].at.cycle] =
                                [p \in Products |-> IF p \in g THEN @[p] + 1 ELSE @[p]]]
                        ELSE visits
  /\ childKeys' = IF kept THEN childKeys ELSE childKeys \ {ChildKey(s, g)}
  /\ Strain(IF added # kept \/ (~added /\ g \in sweep[s].leant) THEN {sweep[s].at.cycle} ELSE {})
  /\ sweep' = [sweep EXCEPT ![s].keyed = @ \ {g}, ![s].leant = @ \ {g}, ![s].failed = @ \/ failing]
  /\ UNCHANGED <<catalog, newest, cursor, sweepLock, present, settings>>

(* runBoundedSweep's answer: any failed child holds the cursor where it was.  *)
NextCursor_PastFailures(r) ==
  IF r.exhausted THEN Cleared
  ELSE [cycle |-> r.at.cycle, offset |-> r.at.offset + r.consumed]
NextCursor(r) ==
  IF r.failed THEN r.at
  ELSE IF r.exhausted THEN Cleared
  ELSE [cycle |-> r.at.cycle, offset |-> r.at.offset + r.consumed]

AllSettled(r) == r.pc = "enqueue" /\ r.todo = {} /\ r.keyed = {}

(* advanceCursor is a plain upsert: an overlapping run may write it back.     *)
AdvanceCursor(s) ==
  /\ AllSettled(sweep[s])
  /\ \/ cursor' = NextCursor(sweep[s]) /\ UNCHANGED sweepFaults
     \/ SweepFault /\ cursor' \in {cursor, NextCursor(sweep[s])}
  /\ sweep' = [sweep EXCEPT ![s].pc = "release"]
  /\ UNCHANGED <<catalog, newest, sweepLock, childKeys, visits, present, settings, strained>>

(* Compare-and-delete; one that fails leaves the lock as a crash would.       *)
ReleaseSweep(s) ==
  /\ SweepAt(s, "release")
  /\ sweepLock' = IF sweepLock = s THEN NoSweep ELSE sweepLock
  /\ sweep' = [sweep EXCEPT ![s] = IdleSweep]
  /\ UNCHANGED <<catalog, newest, cursor, childKeys, visits, present, settings, strained, sweepFaults>>

(* A worker dies; a child whose key is set and whose entry is not added yet   *)
(* never comes.                                                               *)
CrashSweep(s) ==
  /\ ~SweepAt(s, "idle") /\ SweepFault
  /\ sweep' = [sweep EXCEPT ![s] = IdleSweep]
  /\ Strain(IF sweep[s].keyed = {} THEN {} ELSE {sweep[s].at.cycle})
  /\ UNCHANGED <<catalog, newest, cursor, sweepLock, childKeys, visits, present, settings>>

SweepLockExpires ==
  /\ sweepLock # NoSweep
  /\ sweepLock' = NoSweep
  /\ UNCHANGED <<catalog, newest, cursor, sweep, childKeys, visits, present, settings, strained, sweepFaults>>

(* A new product gets the next id.                                            *)
AddProduct ==
  /\ newest + 1 \in Products
  /\ newest' = newest + 1
  /\ catalog' = catalog \cup {newest + 1}
  /\ UNCHANGED <<cursor, sweepLock, sweep, childKeys, visits, present, settings, strained, sweepFaults>>

(* A product is deleted: the rows of every cycle begun so far shift.          *)
RemoveProduct ==
  /\ \E p \in catalog : catalog' = catalog \ {p}
  /\ Strain({c \in Cycles : InUse(c)})
  /\ SweepFault
  /\ UNCHANGED <<newest, cursor, sweepLock, sweep, childKeys, visits, present, settings>>

SweepNext ==
  \/ \E s \in Sweeps :
       \/ StartSweep(s) \/ ReadCursor(s) \/ FetchPage(s) \/ SetChildKey(s)
       \/ AddChild(s) \/ AdvanceCursor(s) \/ ReleaseSweep(s) \/ CrashSweep(s)
  \/ SweepLockExpires \/ AddProduct \/ RemoveProduct

SweepSpec == SweepInit /\ [][SweepNext]_sweepVars

-----------------------------------------------------------------------------
Cursors == [cycle : Cycles, offset : 0..MaxProducts] \cup {Cleared}

SweepTypeOK ==
  /\ newest \in 0..MaxProducts /\ catalog \subseteq 1..newest
  /\ cursor \in Cursors
  /\ sweepLock \in Sweeps \cup {NoSweep}
  /\ \A s \in Sweeps :
       /\ sweep[s].pc \in {"idle", "cursor", "page", "enqueue", "release"}
       /\ sweep[s].at \in Cursors
       /\ UNION (sweep[s].todo \cup sweep[s].keyed) \subseteq sweep[s].items
       /\ sweep[s].items \subseteq Products
  /\ visits \in [Cycles -> [Products -> Nat]]
  /\ present \in [Cycles -> SUBSET Products]
  /\ strained \subseteq Cycles
  /\ sweepFaults \in 0..MaxSweepFaults

(* The products a cursor says the cycle is done with, all when it is about to *)
(* be cleared.                                                                *)
Behind(c, offset) == {p \in present[c] : Rank(p, present[c]) <= offset}
Visited(c) ==
  {p \in Products : visits[c][p] > 0} \cup
  UNION UNION {sweep[s].keyed : s \in {t \in Sweeps : sweep[t].at.cycle = c}}

(* Nothing is skipped: a cursor stored, or about to be, is never ahead of a   *)
(* product that was in the list when the cycle began and has no child, nor one*)
(* being added, whatever fails, crashes, overlaps or is appended; a cycle that*)
(* ends has covered its list.  What the code cannot absorb is in `strained`: a*)
(* product removed, runs that cut the list differently, a key whose entry was *)
(* never added though somebody counted on it.                                 *)
SweepSkipsNothing ==
  /\ cursor # Cleared /\ cursor.cycle \notin strained =>
       Behind(cursor.cycle, cursor.offset) \subseteq Visited(cursor.cycle)
  /\ \A s \in Sweeps :
       LET c == sweep[s].at.cycle
           next == NextCursor(sweep[s])
       IN AllSettled(sweep[s]) /\ c \notin strained =>
            (IF next = Cleared THEN present[c] ELSE Behind(c, next.offset)) \subseteq Visited(c)

(* A page enqueued again after a crash, a held cursor or beside an overlapping*)
(* run makes no second child: the key is the cycle's, not the job's.          *)
SweepVisitsOnce ==
  \A c \in Cycles \ strained : \A p \in Products : visits[c][p] <= 1
(* A cycle gives every product of its list a child, and one only.              *)
SweepCoversOnce == SweepSkipsNothing /\ SweepVisitsOnce
=============================================================================
