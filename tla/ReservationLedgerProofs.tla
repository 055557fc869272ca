------------------------ MODULE ReservationLedgerProofs ------------------------
(* Proofs about the reservation ledger.  LedgerInv is inductive: the locks keep *)
(* the transactions apart, the counter of a position is the sum of the rows held*)
(* on it, and the account of a transaction is the sum of what it wrote, so that *)
(* its commit leaves counter and rows in step; what it promises of a position   *)
(* was seen to be there while the position was locked, and is there still.      *)
(* CallsInv says of a call that it keeps to its order, takes the positions in   *)
(* their sequence and, while it has the order to itself, writes what is open.   *)
(* WritesInv says what a row may be written from, so that a commit is one step  *)
(* of StockAccount.                                                             *)
EXTENDS ReservationLedger, SetSums, SequenceTheorems

-----------------------------------------------------------------------------
(* What a transaction sees of the rows, summed.                                 *)
LEMMA SumOfSeen ==
  ASSUME NEW S, IsFiniteSet(S), NEW t
  PROVE  MapThenSumSet(LAMBDA k : Seen(t, k).qty, S) = Total([k \in S |-> Seen(t, k).qty], S)
<1> DEFINE Of(g) == g = [s \in SUBSET S |-> IF s = {} THEN 0 ELSE Seen(t, Any(s)).qty + g[s \ {Any(s)}]]
           f == [k \in S |-> Seen(t, k).qty]
           m == CHOOSE g : Of(g)
<1>1. MapThenSumSet(LAMBDA k : Seen(t, k).qty, S) = m[S]
  BY Zenon DEF MapThenSumSet, MapThenFoldSet, Any
<1>2. \A s \in SUBSET S : s # {} => f[Any(s)] = Seen(t, Any(s)).qty
  BY AnyIsIn
<1>3. Sums(f, S, Summing(f, S))
  BY SummingExists
<1> HIDE DEF f
<1>4. ASSUME NEW g PROVE Of(g) <=> Sums(f, S, g)
  BY <1>2 DEF Sums
<1>5. Of(Summing(f, S))
  BY <1>3, <1>4
<1> HIDE DEF Of
<1>6. Of(m)
  BY <1>5
<1>7. m[S] = Summing(f, S)[S]
  BY <1>3, <1>4, <1>6, SumsAgree
<1> QED BY <1>1, <1>7 DEF Total, f

-----------------------------------------------------------------------------
(* Listing.  Items of one order and of different keys have a place each: the    *)
(* number of those that come before.                                            *)
Items(S) ==
  /\ IsFiniteSet(S) /\ \A a \in S : a.key \in Keys
  /\ \A a, b \in S : a # b => a.key # b.key /\ a.key[1] = b.key[1]
Place(S, x) == Cardinality({b \in S : Before(b, x)})

LEMMA KeyParts ==
  ASSUME NEW k \in Keys
  PROVE  k[1] \in Orders /\ k[2] \in Lines /\ k[2] \in Nat /\ k[3] \in Positions /\ k[3] \in Nat
         /\ k = <<k[1], k[2], k[3]>>
<1>1. k \in Orders \X Lines \X Positions
  BY DEF Keys
<1>2. k[1] \in Orders /\ k[2] \in Lines /\ k[3] \in Positions /\ k = <<k[1], k[2], k[3]>>
  BY <1>1
<1> QED BY <1>2, ConstantsAssumption

LEMMA BeforeIsTotal ==
  ASSUME NEW S, Items(S), NEW a \in S, NEW b \in S
  PROVE  /\ ~Before(a, a) /\ (a # b => Before(a, b) \/ Before(b, a))
         /\ \A c \in S : Before(a, b) /\ Before(b, c) => Before(a, c)
<1>1. \A x \in S : /\ x.key[2] \in Nat /\ x.key[3] \in Nat /\ x.key = <<x.key[1], x.key[2], x.key[3]>>
  BY KeyParts DEF Items
<1>2. a # b => a.key[2] # b.key[2] \/ a.key[3] # b.key[3]
  BY <1>1 DEF Items
<1> QED BY <1>1, <1>2 DEF Before

LEMMA PlacesApart ==
  ASSUME NEW S, Items(S), NEW a \in S, NEW b \in S
  PROVE  /\ Place(S, a) \in 0..Cardinality(S) - 1
         /\ a # b => Place(S, a) # Place(S, b)
         /\ Before(a, b) => Place(S, a) < Place(S, b)
<1> DEFINE Lower(x) == {y \in S : Before(y, x)}
<1>1. \A x \in S : IsFiniteSet(Lower(x)) /\ Cardinality(Lower(x)) \in Nat
  BY FS_Subset, FS_CardinalityType DEF Items
<1>2. ASSUME NEW x \in S, NEW y \in S, Before(x, y) PROVE Cardinality(Lower(x)) < Cardinality(Lower(y))
  <2>1. Lower(x) \subseteq Lower(y) /\ x \in Lower(y) /\ x \notin Lower(x)
    BY <1>2, BeforeIsTotal
  <2>2. Lower(x) # Lower(y)
    BY <2>1
  <2> HIDE DEF Lower
  <2> QED BY <1>1, <2>1, <2>2, FS_Subset
<1>3. Cardinality(Lower(a)) < Cardinality(S)
  <2>1. Lower(a) \subseteq S /\ Lower(a) # S
    BY BeforeIsTotal
  <2>2. IsFiniteSet(S) /\ Cardinality(S) \in Nat
    BY FS_CardinalityType DEF Items
  <2> HIDE DEF Lower
  <2> QED BY <1>1, <2>1, <2>2, FS_Subset
<1>4. Place(S, a) = Cardinality(Lower(a)) /\ Place(S, b) = Cardinality(Lower(b))
  BY DEF Place
<1>5. Cardinality(S) \in Nat
  BY FS_CardinalityType DEF Items
<1>6. a # b => Before(a, b) \/ Before(b, a)
  BY BeforeIsTotal
<1> HIDE DEF Lower
<1>7. Place(S, a) \in 0..Cardinality(S) - 1
  BY <1>1, <1>3, <1>4, <1>5
<1> QED BY <1>1, <1>2, <1>4, <1>6, <1>7

LEMMA Listed ==
  ASSUME NEW S, Items(S)
  PROVE  /\ ByPosition(S) \in Seq(S) /\ DOMAIN ByPosition(S) = 1..Cardinality(S)
         /\ \A m, n \in DOMAIN ByPosition(S) : m # n => ByPosition(S)[m] # ByPosition(S)[n]
         /\ \A a \in S : \E n \in DOMAIN ByPosition(S) : ByPosition(S)[n] = a
         /\ \A m, n \in DOMAIN ByPosition(S) :
              m < n => ByPosition(S)[m].key[3] <= ByPosition(S)[n].key[3]
<1> DEFINE N == Cardinality(S)
           place == [x \in S |-> Place(S, x) + 1]
<1>1. IsFiniteSet(S) /\ N \in Nat
  BY FS_CardinalityType DEF Items
<1>2. \A x \in S : Place(S, x) \in 0..N - 1
  BY PlacesApart
<1> HIDE DEF N
<1>3. place \in [S -> 1..N]
  BY <1>1, <1>2
<1>4. \A x, y \in S : place[x] = place[y] => x = y
  BY <1>1, <1>2, PlacesApart
<1>5. IsFiniteSet(1..N) /\ Cardinality(1..N) = N
  BY <1>1, FS_Interval
<1>6. place \in Injection(S, 1..N)
  BY <1>3, <1>4, Fun_IsInj
<1>7. place \in Surjection(S, 1..N)
  BY <1>5, <1>6, FS_Injection DEF N
<1>8. \A n \in 1..N : \E x \in S : Place(S, x) = n - 1
  <2> SUFFICES ASSUME NEW n \in 1..N PROVE \E x \in S : Place(S, x) = n - 1
    OBVIOUS
  <2>1. PICK x \in S : place[x] = n
    BY <1>7 DEF Surjection
  <2> QED BY <1>1, <1>2, <2>1
<1> DEFINE s == ByPosition(S)
<1>9. s = [n \in 1..N |-> CHOOSE a \in S : Place(S, a) = n - 1]
  BY DEF ByPosition, Place, N
<1>10. \A n \in 1..N : s[n] \in S /\ Place(S, s[n]) = n - 1
  BY <1>8, <1>9
<1>11. s \in Seq(S) /\ DOMAIN s = 1..N
  <2> HIDE DEF s
  <2>1. s \in [1..N -> S]
    BY <1>9, <1>10
  <2> QED BY <1>1, <2>1
<1>12. \A m, n \in DOMAIN s : m # n => s[m] # s[n]
  <2> SUFFICES ASSUME NEW m \in 1..N, NEW n \in 1..N, s[m] = s[n] PROVE m = n
    BY <1>11
  <2>1. m - 1 = n - 1
    BY <1>10
  <2> QED BY <1>1, <2>1
<1>13. \A a \in S : \E n \in DOMAIN s : s[n] = a
  <2> SUFFICES ASSUME NEW a \in S PROVE \E n \in DOMAIN s : s[n] = a
    OBVIOUS
  <2>1. Place(S, a) \in 0..N - 1 /\ Place(S, a) + 1 \in 1..N
    BY <1>1, <1>2
  <2>2. Place(S, s[Place(S, a) + 1]) = Place(S, a) /\ s[Place(S, a) + 1] \in S
    BY <1>1, <1>10, <2>1
  <2> QED BY <1>11, <2>1, <2>2, PlacesApart
<1>14. \A m, n \in DOMAIN s : m < n => s[m].key[3] <= s[n].key[3]
  <2> SUFFICES ASSUME NEW m \in 1..N, NEW n \in 1..N, m < n PROVE s[m].key[3] <= s[n].key[3]
    BY <1>11
  <2> DEFINE a == s[m]
             b == s[n]
  <2>1. a \in S /\ b \in S /\ Place(S, a) = m - 1 /\ Place(S, b) = n - 1 /\ m \in Int /\ n \in Int
    BY <1>1, <1>10
  <2> HIDE DEF a, b
  <2>2. a.key[3] \in Nat /\ b.key[3] \in Nat
    BY <2>1, KeyParts DEF Items
  <2>3. ~Before(b, a)
    BY <2>1, PlacesApart
  <2>4. a.key[3] <= b.key[3]
    BY <2>2, <2>3 DEF Before
  <2> QED BY <2>4 DEF a, b
<1> QED BY <1>11, <1>12, <1>13, <1>14 DEF N

-----------------------------------------------------------------------------
(* Books.  Each position has finitely many keys, and the sums over them are     *)
(* what the counters, the accounts of the transactions and the guard are about. *)
KeysAt(p) == {k \in Keys : k[3] = p}
Quantity(h) == [k \in Keys |-> h[k].qty]
Promised(hold) == IF hold.stamp = "published" THEN hold.qty ELSE 0
Published(h) == [k \in Keys |-> Promised(h[k])]

(* The account of a transaction is what its commit will do to the counters: it  *)
(* counts every row written but the one whose counter is still to be moved.     *)
Moving == {"lock", "add", "lower"}
Counted(r) == {k \in DOMAIN r.wrote : ~(r.pc \in Moving /\ k = r.todo[1].key)}
Change(h, r) == [k \in Keys |-> IF k \in Counted(r) THEN r.wrote[k].qty - h[k].qty ELSE 0]
Publishing(h, r) == [k \in Keys |-> Promised(IF k \in Counted(r) THEN r.wrote[k] ELSE h[k])]

AccountKept(h, r) == \A p \in Positions : r.delta[p] = Total(Change(h, r), KeysAt(p))

(* What a transaction will have promised of a position, if it is more than was, *)
(* is within the stock there is.                                                *)
StockKept(h, pos, r) == \A p \in Positions :
  Total(Publishing(h, r), KeysAt(p)) > Total(Published(h), KeysAt(p)) =>
    Total(Publishing(h, r), KeysAt(p)) <= pos[p].available

LEMMA KeysAreFinite == IsFiniteSet(Keys)
<1> DEFINE T == (Orders \X Lines) \X Positions
           f == [x \in T |-> <<x[1][1], x[1][2], x[2]>>]
<1>2. IsFiniteSet(T)
  BY ConstantsAssumption, FS_Product
<1>3. IsFiniteSet({f[x] : x \in T})
  <2>1. DOMAIN f = T /\ f = [x \in T |-> f[x]]
    OBVIOUS
  <2> HIDE DEF T, f
  <2> QED BY <1>2, <2>1, ImageIsFinite
<1>4. \A k \in Orders \X Lines \X Positions : k \in {f[x] : x \in T}
  <2> TAKE k \in Orders \X Lines \X Positions
  <2>1. <<<<k[1], k[2]>>, k[3]>> \in T /\ f[<<<<k[1], k[2]>>, k[3]>>] = k
    OBVIOUS
  <2> QED BY <2>1
<1>5. Keys \subseteq {f[x] : x \in T}
  BY <1>4 DEF Keys
<1> QED BY <1>3, <1>5, FS_Subset

LEMMA KeysAtFinite == ASSUME NEW p PROVE IsFiniteSet(KeysAt(p)) /\ KeysAt(p) \subseteq Keys
BY KeysAreFinite, FS_Subset DEF KeysAt

LEMMA HoldParts ==
  ASSUME NEW x \in Hold
  PROVE  /\ x.qty \in 0..MaxQty /\ Promised(x) \in 0..MaxQty /\ Promised(x) <= x.qty
         /\ x # NoHold => x \in [qty : 1..MaxQty, stamp : Stamps]
BY ConstantsAssumption DEF Hold, NoHold, Promised

(* What a record of a transaction must be like for its sums to be numbers.      *)
Bookable(h, r) ==
  /\ h \in [Keys -> Hold]
  /\ r.wrote \in [DOMAIN r.wrote -> Hold] /\ DOMAIN r.wrote \subseteq Keys
  /\ r.delta \in [Positions -> Int]

LEMMA BooksAreNumbers ==
  ASSUME NEW h, NEW r, Bookable(h, r), NEW k \in Keys
  PROVE  /\ Quantity(h)[k] \in Nat /\ Change(h, r)[k] \in Int
         /\ Published(h)[k] \in Nat /\ Publishing(h, r)[k] \in Nat
<1>1. h[k] \in Hold /\ (k \in Counted(r) => r.wrote[k] \in Hold)
  BY DEF Bookable, Counted
<1>2. h[k].qty \in Nat /\ Promised(h[k]) \in Nat
  BY <1>1, HoldParts, ConstantsAssumption
<1>3. k \in Counted(r) => r.wrote[k].qty \in Nat /\ Promised(r.wrote[k]) \in Nat
  BY <1>1, HoldParts, ConstantsAssumption
<1> QED BY <1>2, <1>3 DEF Quantity, Change, Published, Publishing

LEMMA BooksAreTotals ==
  ASSUME NEW h, NEW r, Bookable(h, r), NEW p
  PROVE  /\ Total(Quantity(h), KeysAt(p)) \in Nat /\ Total(Change(h, r), KeysAt(p)) \in Int
         /\ Total(Published(h), KeysAt(p)) \in Nat /\ Total(Publishing(h, r), KeysAt(p)) \in Nat
<1>1. \A k \in KeysAt(p) : /\ Quantity(h)[k] \in Nat /\ Change(h, r)[k] \in Int
                           /\ Published(h)[k] \in Nat /\ Publishing(h, r)[k] \in Nat
  BY BooksAreNumbers, KeysAtFinite
<1> QED BY <1>1, KeysAtFinite, TotalIsNat, TotalIsInt

(* A transaction that counts no row of a position changes nothing there.        *)
LEMMA NothingCounted ==
  ASSUME NEW h, NEW r, Bookable(h, r), NEW p, \A k \in Counted(r) : k[3] # p
  PROVE  /\ Total(Change(h, r), KeysAt(p)) = 0
         /\ Total(Publishing(h, r), KeysAt(p)) = Total(Published(h), KeysAt(p))
<1>1. \A k \in KeysAt(p) : Change(h, r)[k] = 0 /\ Publishing(h, r)[k] = Published(h)[k]
  BY DEF KeysAt, Change, Publishing, Published
<1>2. Total(Publishing(h, r), KeysAt(p)) = Total(Published(h), KeysAt(p))
  BY <1>1, KeysAtFinite, TotalAgrees
<1>3. Total(Change(h, r), {}) = Total(Change(h, r), KeysAt(p))
  BY <1>1, KeysAtFinite, TotalOfSome
<1> QED BY <1>2, <1>3, TotalOfNone

LEMMA FreshBooks ==
  ASSUME NEW h, NEW pos, NEW r, Bookable(h, r), DOMAIN r.wrote = {}, \A p \in Positions : r.delta[p] = 0
  PROVE  AccountKept(h, r) /\ StockKept(h, pos, r)
<1>1. Counted(r) = {}
  BY DEF Counted
<1>2. ASSUME NEW p \in Positions
      PROVE  /\ Total(Change(h, r), KeysAt(p)) = 0
             /\ Total(Publishing(h, r), KeysAt(p)) = Total(Published(h), KeysAt(p))
  BY <1>1, NothingCounted
<1> QED BY <1>2, BooksAreTotals DEF AccountKept, StockKept

(* A step that counts no further row leaves the books.                          *)
LEMMA SameBooks ==
  ASSUME NEW h, NEW pos, NEW r, NEW q, Counted(q) = Counted(r), q.delta = r.delta,
         \A k \in Counted(r) : q.wrote[k] = r.wrote[k],
         AccountKept(h, r), StockKept(h, pos, r)
  PROVE  AccountKept(h, q) /\ StockKept(h, pos, q)
<1>1. Change(h, q) = Change(h, r) /\ Publishing(h, q) = Publishing(h, r)
  BY DEF Change, Publishing
<1> QED BY <1>1 DEF AccountKept, StockKept

(* One that counts one more row moves the account by the difference.            *)
Counts(r, q, k) ==
  /\ k \in Keys /\ k \notin Counted(r) /\ Counted(q) = Counted(r) \cup {k}
  /\ \A x \in Counted(r) : q.wrote[x] = r.wrote[x]

LEMMA OneMoreRow ==
  ASSUME NEW h, NEW r, NEW q, NEW k, Bookable(h, r), Bookable(h, q), Counts(r, q, k)
  PROVE  /\ Total(Change(h, q), KeysAt(k[3])) = Total(Change(h, r), KeysAt(k[3])) + q.wrote[k].qty - h[k].qty
         /\ Total(Publishing(h, q), KeysAt(k[3]))
              = Total(Publishing(h, r), KeysAt(k[3])) + Promised(q.wrote[k]) - Promised(h[k])
         /\ \A p \in Positions : p # k[3] =>
              /\ Total(Change(h, q), KeysAt(p)) = Total(Change(h, r), KeysAt(p))
              /\ Total(Publishing(h, q), KeysAt(p)) = Total(Publishing(h, r), KeysAt(p))
<1>1. k \in Keys /\ k \in KeysAt(k[3]) /\ k \in Counted(q) /\ k \notin Counted(r)
  BY DEF KeysAt, Counts
<1>2. /\ Change(h, q)[k] = q.wrote[k].qty - h[k].qty /\ Change(h, r)[k] = 0
      /\ Publishing(h, q)[k] = Promised(q.wrote[k]) /\ Publishing(h, r)[k] = Promised(h[k])
  BY <1>1 DEF Change, Publishing
<1>3. \A x \in Keys \ {k} : Change(h, q)[x] = Change(h, r)[x] /\ Publishing(h, q)[x] = Publishing(h, r)[x]
  BY DEF Change, Publishing, Counts
<1>4. \A x \in Keys : /\ Change(h, q)[x] \in Int /\ Change(h, r)[x] \in Int
                      /\ Publishing(h, q)[x] \in Int /\ Publishing(h, r)[x] \in Int
  BY BooksAreNumbers
<1>5. q.wrote[k] \in Hold /\ h[k] \in Hold
  BY <1>1 DEF Bookable, Counted
<1>6. q.wrote[k].qty \in Int /\ h[k].qty \in Int
  BY <1>5, HoldParts, ConstantsAssumption
<1>7. \A x \in KeysAt(k[3]) \ {k} : Change(h, q)[x] = Change(h, r)[x] /\ Publishing(h, q)[x] = Publishing(h, r)[x]
  BY <1>3, KeysAtFinite
<1>8. \A x \in KeysAt(k[3]) : /\ Change(h, q)[x] \in Int /\ Change(h, r)[x] \in Int
                              /\ Publishing(h, q)[x] \in Int /\ Publishing(h, r)[x] \in Int
  BY <1>4, KeysAtFinite
<1>9. Total(Change(h, q), KeysAt(k[3])) = Total(Change(h, r), KeysAt(k[3])) + q.wrote[k].qty - h[k].qty
  <2>1. Total(Change(h, q), KeysAt(k[3])) = Total(Change(h, r), KeysAt(k[3])) + Change(h, q)[k] - Change(h, r)[k]
    BY <1>1, <1>7, <1>8, KeysAtFinite, TotalChanges
  <2> QED BY <2>1, <1>2, <1>6, BooksAreTotals
<1>10. Total(Publishing(h, q), KeysAt(k[3]))
         = Total(Publishing(h, r), KeysAt(k[3])) + Promised(q.wrote[k]) - Promised(h[k])
  <2>1. Total(Publishing(h, q), KeysAt(k[3]))
          = Total(Publishing(h, r), KeysAt(k[3])) + Publishing(h, q)[k] - Publishing(h, r)[k]
    BY <1>1, <1>7, <1>8, KeysAtFinite, TotalChanges
  <2> QED BY <2>1, <1>2
<1>11. ASSUME NEW p \in Positions, p # k[3]
       PROVE  /\ Total(Change(h, q), KeysAt(p)) = Total(Change(h, r), KeysAt(p))
              /\ Total(Publishing(h, q), KeysAt(p)) = Total(Publishing(h, r), KeysAt(p))
  <2>1. \A x \in KeysAt(p) : Change(h, q)[x] = Change(h, r)[x] /\ Publishing(h, q)[x] = Publishing(h, r)[x]
    BY <1>3, <1>11 DEF KeysAt
  <2> QED BY <2>1, KeysAtFinite, TotalAgrees
<1> QED BY <1>9, <1>10, <1>11

(* Two functions of rows that differ only in what another transaction writes.   *)
LEMMA CommittedElsewhere ==
  ASSUME NEW h, NEW g, NEW r, NEW p, Bookable(h, r), Bookable(g, r),
         \A k \in Counted(r) : g[k] = h[k]
  PROVE  Total(Change(g, r), KeysAt(p)) = Total(Change(h, r), KeysAt(p))
<1>1. Change(g, r) = Change(h, r)
  BY DEF Change
<1> QED BY <1>1

-----------------------------------------------------------------------------
(* Processes.                                                                   *)
Pcs == {"idle", "insert", "select", "lock", "add", "flip", "lower", "commit", "mark"}

ProcessOK(r) ==
  /\ r \in [op : {r.op}, order : {r.order}, pc : Pcs, todo : Seq(Work), failed : BOOLEAN,
            alone : BOOLEAN, rows : SUBSET Keys, share : SUBSET Positions,
            excl : SUBSET Positions, wrote : {r.wrote}, delta : [Positions -> Int]]
  /\ r.wrote \in [DOMAIN r.wrote -> Hold] /\ DOMAIN r.wrote \subseteq r.rows

(* The items of a call: each of a key of its own, which it locks once.          *)
TodoFits(r) ==
  /\ \A n \in DOMAIN r.todo : r.todo[n].qty > 0 => r.todo[n].stamp \in Stamps
  /\ \A m, n \in DOMAIN r.todo : m # n => r.todo[m].key # r.todo[n].key
  /\ \A n \in DOMAIN r.todo :
       n > 1 \/ r.pc \in {"insert", "select", "flip"} => r.todo[n].key \notin r.rows

(* Where a transaction is, and what it has done to the row of its item.         *)
PcFits(r) ==
  /\ r.pc = "idle" => r = Idle
  /\ r.todo = <<>> <=> r.pc \in {"idle", "mark"}

StepFits(h, r) ==
  /\ r.pc \in {"insert", "select", "lock", "add"} => r.todo[1].qty > 0
  /\ r.pc = "flip" => r.todo[1].qty = 0
  /\ r.pc \in Moving => r.todo[1].key \in r.rows
  /\ r.pc \in {"lock", "add"} /\ r.todo[1].key \in DOMAIN r.wrote => r.wrote[r.todo[1].key] # NoHold
  /\ r.pc = "add" => r.todo[1].key[3] \in r.excl
  /\ r.pc = "lower" => r.todo[1].qty <= h[r.todo[1].key].qty
  /\ r.pc = "lower" /\ r.todo[1].qty > 0 => r.todo[1].key \notin DOMAIN r.wrote
  /\ r.pc = "lower" /\ r.todo[1].qty = 0 =>
       r.todo[1].key \in DOMAIN r.wrote /\ r.wrote[r.todo[1].key] = NoHold

(* A row that is locked and not written is held, and the position of every row  *)
(* counted is locked.                                                           *)
LocksFit(h, r) ==
  /\ \A k \in r.rows \ DOMAIN r.wrote : h[k] # NoHold
  /\ \A k \in Counted(r) : k[3] \in r.excl

Fits(h, r) == ProcessOK(r) /\ TodoFits(r) /\ PcFits(r) /\ StepFits(h, r) /\ LocksFit(h, r)

(* The records that a call's first item, the next item in its transaction and   *)
(* the next transaction make.                                                   *)
Following(r, failed) ==
  Ended(AfterItem([Idle EXCEPT !.op = r.op, !.order = r.order,
                               !.alone = r.alone, !.failed = r.failed \/ failed],
                  Tail(r.todo)))
Back(r, failed) == IF r.op = "reserve" THEN Idle ELSE Following(r, failed)
Done(r) == IF r.op = "reserve" /\ Len(r.todo) > 1 THEN AfterItem(r, Tail(r.todo))
           ELSE [r EXCEPT !.pc = "commit"]

Fresh(r) == r.wrote = <<>> /\ r.rows = {} /\ r.excl = {} /\ r.delta = [p \in Positions |-> 0]

LEMMA IdleFits ==
  ASSUME NEW h PROVE Fits(h, Idle) /\ Fresh(Idle)
<1>1. Fresh(Idle) /\ Idle.pc = "idle" /\ Idle.todo = <<>>
  BY DEF Idle, Fresh
<1>2. ProcessOK(Idle)
  BY DEF ProcessOK, Idle, Pcs
<1>3. TodoFits(Idle) /\ PcFits(Idle) /\ StepFits(h, Idle) /\ LocksFit(h, Idle)
  BY <1>1 DEF TodoFits, PcFits, StepFits, LocksFit, Counted, Moving, Fresh
<1> QED BY <1>2, <1>3, <1>1 DEF Fits

(* What is left to do of a call is listed by items that fit.                    *)
ItemsFit(todo) ==
  /\ todo \in Seq(Work)
  /\ \A n \in DOMAIN todo : todo[n].qty > 0 => todo[n].stamp \in Stamps
  /\ \A m, n \in DOMAIN todo : m # n => todo[m].key # todo[n].key

LEMMA RestFits ==
  ASSUME NEW r, ItemsFit(r.todo), r.todo # <<>>
  PROVE  /\ ItemsFit(Tail(r.todo)) /\ Len(r.todo) \in Nat \ {0} /\ DOMAIN r.todo = 1..Len(r.todo)
         /\ Tail(r.todo) # <<>> <=> Len(r.todo) > 1
         /\ \A n \in DOMAIN Tail(r.todo) : n + 1 \in DOMAIN r.todo /\ Tail(r.todo)[n] = r.todo[n + 1]
<1>1. r.todo \in Seq(Work) /\ Len(r.todo) \in Nat \ {0} /\ DOMAIN r.todo = 1..Len(r.todo)
  BY DEF ItemsFit
<1>2. Tail(r.todo) \in Seq(Work) /\ DOMAIN Tail(r.todo) = 1..Len(r.todo) - 1
  BY <1>1
<1>3. \A n \in DOMAIN Tail(r.todo) : n \in Nat /\ n + 1 \in DOMAIN r.todo /\ Tail(r.todo)[n] = r.todo[n + 1]
  BY <1>1, <1>2
<1>4. Tail(r.todo) # <<>> <=> Len(r.todo) > 1
  <2> DEFINE s == Tail(r.todo)
             n == Len(r.todo)
  <2>1. Len(s) = n - 1 /\ n \in Nat
    BY <1>1
  <2>2. s # <<>> => Len(s) \in Nat \ {0}
    BY <1>2, EmptySeq
  <2>3. s = <<>> => Len(s) = 0
    BY EmptySeq
  <2> HIDE DEF s, n
  <2>4. s # <<>> <=> n > 1
    BY <2>1, <2>2, <2>3
  <2> QED BY <2>4 DEF s, n
<1>5. \A m, n \in DOMAIN Tail(r.todo) : m # n => m + 1 # n + 1
  BY <1>3
<1>6. ItemsFit(Tail(r.todo))
  BY <1>2, <1>3, <1>5 DEF ItemsFit
<1> QED BY <1>1, <1>3, <1>4, <1>6

LEMMA ItemParts ==
  ASSUME NEW todo, ItemsFit(todo), todo # <<>>
  PROVE  /\ Head(todo) = todo[1] /\ todo[1] \in Work /\ 1 \in DOMAIN todo
         /\ todo[1].key \in Keys /\ todo[1].qty \in 0..MaxQty
         /\ todo[1].qty > 0 => todo[1].stamp \in Stamps
<1>1. todo \in Seq(Work) /\ Len(todo) \in Nat \ {0}
  BY EmptySeq DEF ItemsFit
<1>2. 1 \in DOMAIN todo /\ todo[1] \in Work /\ Head(todo) = todo[1]
  BY <1>1
<1>3. todo[1].key \in Keys /\ todo[1].qty \in 0..MaxQty
  BY <1>2 DEF Work
<1> QED BY <1>2, <1>3 DEF ItemsFit

(* A transaction that begins with items that fit.                               *)
Blank(r) ==
  r \in [op : {r.op}, order : {r.order}, pc : {"idle"}, todo : {<<>>}, failed : BOOLEAN, alone : BOOLEAN,
         rows : {{}}, share : {{}}, excl : {{}}, wrote : {<<>>}, delta : {[p \in Positions |-> 0]}]

LEMMA BlankStarts ==
  ASSUME NEW op, NEW o, NEW alone \in BOOLEAN, NEW failed \in BOOLEAN
  PROVE  /\ Blank([Idle EXCEPT !.op = op, !.order = o, !.alone = alone])
         /\ Blank([Idle EXCEPT !.op = op, !.order = o, !.alone = alone, !.failed = failed])
         /\ [Idle EXCEPT !.op = op, !.order = o, !.alone = alone].alone = alone
         /\ [Idle EXCEPT !.op = op, !.order = o, !.alone = alone].order = o
<1> DEFINE z == [p \in Positions |-> 0]
<1>1. Idle \in [op : {Idle.op}, order : {Idle.order}, pc : {"idle"}, todo : {<<>>}, failed : {FALSE}, alone : {TRUE},
                rows : {{}}, share : {{}}, excl : {{}}, wrote : {<<>>}, delta : {z}]
  BY DEF Idle
<1> HIDE DEF z
<1>2. /\ Blank([Idle EXCEPT !.op = op, !.order = o, !.alone = alone])
      /\ Blank([Idle EXCEPT !.op = op, !.order = o, !.alone = alone, !.failed = failed])
  BY <1>1 DEF Blank, z
<1> QED BY <1>1, <1>2

LEMMA BeginFits ==
  ASSUME NEW h, NEW r, Blank(r), NEW todo, ItemsFit(todo)
  PROVE  LET q == Ended(AfterItem(r, todo)) IN Fits(h, q) /\ Fresh(q)
<1> DEFINE a == AfterItem(r, todo)
           z == [p \in Positions |-> 0]
<1>1. r \in [op : {r.op}, order : {r.order}, pc : {"idle"}, todo : {<<>>}, failed : BOOLEAN, alone : BOOLEAN,
             rows : {{}}, share : {{}}, excl : {{}}, wrote : {<<>>}, delta : {z}]
  BY DEF Blank
<1>2. a = [r EXCEPT !.todo = todo, !.pc = a.pc]
  BY <1>1 DEF AfterItem
<1> HIDE DEF z
<1>3. a \in [op : {a.op}, order : {a.order}, pc : {a.pc}, todo : {todo}, failed : BOOLEAN, alone : BOOLEAN,
             rows : {{}}, share : {{}}, excl : {{}}, wrote : {<<>>}, delta : {z}]
  <2> HIDE DEF a
  <2> QED BY <1>1, <1>2
<1>4. a.pc \in {"insert", "flip", "mark", "idle"}
  BY <1>1 DEF AfterItem, Entry
<1>5. todo # <<>> => a.pc = Entry(todo[1])
  BY <1>1, ItemParts DEF AfterItem
<1>6. todo = <<>> => a.pc \in {"idle", "mark"}
  BY <1>1 DEF AfterItem
<1> HIDE DEF a
<1>7. Fresh(a)
  BY <1>3 DEF Fresh, z
<1>8. CASE a.pc = "idle"
  <2>1. Ended(a) = Idle /\ todo = <<>>
    BY <1>8, <1>5 DEF Ended, Entry
  <2> QED BY <2>1, IdleFits DEF a
<1>9. CASE a.pc # "idle"
  <2>1. Ended(a) = a
    BY <1>9, <1>3 DEF Ended
  <2>2. ProcessOK(a)
    <3>1. z \in [Positions -> Int]
      BY DEF z
    <3>2. /\ a.wrote = <<>> /\ a.rows = {} /\ DOMAIN <<>> = {} /\ <<>> \in [{} -> Hold]
      BY <1>3
    <3>3. todo \in Seq(Work)
      BY DEF ItemsFit
    <3>4. a.pc \in Pcs
      BY <1>4 DEF Pcs
    <3>5. a \in [op : {a.op}, order : {a.order}, pc : Pcs, todo : Seq(Work), failed : BOOLEAN,
                 alone : BOOLEAN, rows : SUBSET Keys, share : SUBSET Positions,
                 excl : SUBSET Positions, wrote : {a.wrote}, delta : [Positions -> Int]]
      BY <1>3, <3>1, <3>2, <3>3, <3>4
    <3> QED BY <3>2, <3>5 DEF ProcessOK
  <2>3. TodoFits(a)
    BY <1>3 DEF TodoFits, ItemsFit
  <2>4. PcFits(a)
    BY <1>9, <1>3, <1>4, <1>5, <1>6 DEF PcFits, Entry
  <2>5. StepFits(h, a)
    <3>1. todo # <<>> => todo[1].qty \in Nat
      BY ItemParts
    <3>2. todo # <<>> => (a.pc = "insert" => todo[1].qty > 0) /\ (a.pc = "flip" => todo[1].qty = 0)
      BY <1>5, <3>1 DEF Entry
    <3> QED BY <1>3, <1>4, <1>6, <3>2 DEF StepFits, Moving
  <2>6. LocksFit(h, a)
    BY <1>7 DEF LocksFit, Fresh, Counted
  <2> QED BY <2>1, <2>2, <2>3, <2>4, <2>5, <2>6, <1>7 DEF Fits, a
<1> QED BY <1>8, <1>9

LEMMA BackFits ==
  ASSUME NEW h, NEW r, Fits(h, r), r.todo # <<>>, NEW failed \in BOOLEAN, NEW g
  PROVE  Fits(g, Back(r, failed)) /\ Fresh(Back(r, failed))
<1>1. r.alone \in BOOLEAN /\ (r.failed \/ failed) \in BOOLEAN /\ ItemsFit(r.todo)
  BY DEF Fits, ProcessOK, TodoFits, ItemsFit
<1>2. ItemsFit(Tail(r.todo))
  BY <1>1, RestFits
<1>3. Fits(g, Following(r, failed)) /\ Fresh(Following(r, failed))
  BY <1>1, <1>2, BlankStarts, BeginFits DEF Following
<1> QED BY <1>3, IdleFits DEF Back

(* The item of a statement is done: the next item of the transaction begins, or *)
(* it commits.                                                                  *)
DoneWith(h, q) ==
  /\ ProcessOK(q) /\ ItemsFit(q.todo) /\ q.todo # <<>>
  /\ \A n \in DOMAIN q.todo : n > 1 => q.todo[n].key \notin q.rows
  /\ \A k \in q.rows \ DOMAIN q.wrote : h[k] # NoHold
  /\ \A k \in DOMAIN q.wrote : k[3] \in q.excl

LEMMA DoneFits ==
  ASSUME NEW h, NEW q, DoneWith(h, q)
  PROVE  /\ Fits(h, Done(q)) /\ Counted(Done(q)) = DOMAIN q.wrote
         /\ Done(q).wrote = q.wrote /\ Done(q).rows = q.rows
         /\ Done(q).excl = q.excl /\ Done(q).delta = q.delta
<1> DEFINE d == Done(q)
<1>1. /\ ProcessOK(q) /\ ItemsFit(q.todo) /\ q.todo # <<>>
      /\ \A n \in DOMAIN q.todo : n > 1 => q.todo[n].key \notin q.rows
      /\ \A k \in q.rows \ DOMAIN q.wrote : h[k] # NoHold
      /\ \A k \in DOMAIN q.wrote : k[3] \in q.excl
  BY DEF DoneWith
<1>2. CASE q.op = "reserve" /\ Len(q.todo) > 1
  <2> DEFINE todo == Tail(q.todo)
  <2>1. ItemsFit(todo) /\ todo # <<>> /\ \A n \in DOMAIN todo : n + 1 \in DOMAIN q.todo /\ todo[n] = q.todo[n + 1]
    BY <1>1, <1>2, RestFits
  <2>2. /\ Head(todo) = todo[1] /\ todo[1] \in Work /\ 1 \in DOMAIN todo /\ todo[1].qty \in 0..MaxQty
    BY <2>1, ItemParts
  <2> HIDE DEF todo
  <2>3. d = [q EXCEPT !.todo = todo, !.pc = Entry(todo[1])]
    BY <1>2, <2>1, <2>2 DEF Done, AfterItem, todo
  <2>4. Entry(todo[1]) \in {"insert", "flip"} /\ (Entry(todo[1]) = "flip" <=> todo[1].qty = 0)
    BY DEF Entry
  <2> HIDE DEF d
  <2>5. /\ d.todo = todo /\ d.pc = Entry(todo[1]) /\ d.rows = q.rows /\ d.excl = q.excl
        /\ d.wrote = q.wrote /\ d.delta = q.delta
    BY <1>1, <2>3 DEF ProcessOK
  <2>6. ProcessOK(d)
    BY <1>1, <2>1, <2>3, <2>4 DEF ProcessOK, Pcs, ItemsFit
  <2>7. \A n \in DOMAIN todo : todo[n].key \notin q.rows
    <3> TAKE n \in DOMAIN todo
    <3>1. n + 1 \in DOMAIN q.todo /\ n + 1 > 1
      BY <2>1 DEF ItemsFit
    <3> QED BY <3>1, <2>1, <1>1
  <2>8. TodoFits(d)
    BY <2>1, <2>5, <2>7 DEF TodoFits, ItemsFit
  <2>9. PcFits(d) /\ StepFits(h, d)
    BY <2>1, <2>2, <2>4, <2>5, ConstantsAssumption DEF PcFits, StepFits, Moving
  <2>10. Counted(d) = DOMAIN q.wrote
    BY <2>4, <2>5 DEF Counted, Moving
  <2>11. LocksFit(h, d)
    BY <1>1, <2>5, <2>10 DEF LocksFit
  <2> QED BY <2>5, <2>6, <2>8, <2>9, <2>10, <2>11 DEF Fits, d
<1>3. CASE ~(q.op = "reserve" /\ Len(q.todo) > 1)
  <2>1. d = [q EXCEPT !.pc = "commit"]
    BY <1>3 DEF Done
  <2> HIDE DEF d
  <2>2. /\ d.todo = q.todo /\ d.pc = "commit" /\ d.rows = q.rows /\ d.excl = q.excl
        /\ d.wrote = q.wrote /\ d.delta = q.delta
    BY <1>1, <2>1 DEF ProcessOK
  <2>3. ProcessOK(d)
    BY <1>1, <2>1 DEF ProcessOK, Pcs
  <2>4. TodoFits(d)
    BY <1>1, <2>2 DEF TodoFits, ItemsFit
  <2>5. PcFits(d) /\ StepFits(h, d)
    BY <1>1, <2>2 DEF PcFits, StepFits, Moving
  <2>6. Counted(d) = DOMAIN q.wrote
    BY <2>2 DEF Counted, Moving
  <2>7. LocksFit(h, d)
    BY <1>1, <2>2, <2>6 DEF LocksFit
  <2> QED BY <2>2, <2>3, <2>4, <2>5, <2>6, <2>7 DEF Fits, d
<1> QED BY <1>2, <1>3

-----------------------------------------------------------------------------
(* The inductive invariant.  No row and no position is locked by two            *)
(* transactions; the counters are the sums of the rows, and the account of every*)
(* transaction that of what it wrote.                                           *)
StateOK ==
  /\ position \in [Positions -> [available : Levels, reserved : Nat, stale : BOOLEAN]]
  /\ held \in [Keys -> Hold]
  /\ closed \subseteq Keys
  /\ shipment \in [Orders -> {"none", "dispatched", "marked"}]
  /\ faults \in 0..MaxFaults
  /\ proc = [t \in Procs |-> proc[t]]

Kept(h, pos, r) == Fits(h, r) /\ AccountKept(h, r) /\ StockKept(h, pos, r)
ProcsKept == \A t \in Procs : Kept(held, position, proc[t])
Apart(r, q) == r.rows \cap q.rows = {} /\ r.excl \cap q.excl = {}
LocksApart == \A t, u \in Procs : t # u => Apart(proc[t], proc[u])
CountersKept == \A p \in Positions : position[p].reserved = Total(Quantity(held), KeysAt(p))

LedgerInv == StateOK /\ ProcsKept /\ LocksApart /\ CountersKept

LEMMA InitHolds == ASSUME Init PROVE LedgerInv
<1>1. held = [k \in Keys |-> NoHold] /\ proc = [t \in Procs |-> Idle] /\ faults = 0 /\ closed = {}
      /\ shipment = [o \in Orders |-> "none"]
      /\ position \in [Positions -> [available : Levels, reserved : {0}, stale : {FALSE}]]
  BY DEF Init
<1>2. held \in [Keys -> Hold]
  BY <1>1 DEF Hold
<1>3. StateOK
  <2>1. position \in [Positions -> [available : Levels, reserved : Nat, stale : BOOLEAN]]
    <3> SUFFICES ASSUME NEW p \in Positions
                 PROVE  position[p] \in [available : Levels, reserved : Nat, stale : BOOLEAN]
      BY <1>1
    <3>1. position[p] \in [available : Levels, reserved : {0}, stale : {FALSE}]
      BY <1>1
    <3>2. 0 \in Nat /\ FALSE \in BOOLEAN
      OBVIOUS
    <3> QED BY <3>1, <3>2, Zenon
  <2>2. shipment \in [Orders -> {"none", "dispatched", "marked"}] /\ faults \in 0..MaxFaults
    BY <1>1, ConstantsAssumption
  <2> QED BY <1>1, <1>2, <2>1, <2>2 DEF StateOK
<1>4. Bookable(held, Idle)
  BY <1>2, IdleFits DEF Bookable, Fits, ProcessOK
<1>5. Kept(held, position, Idle)
  BY <1>4, IdleFits, FreshBooks DEF Kept, Fresh
<1>6. ProcsKept
  BY <1>1, <1>5 DEF ProcsKept
<1>7. LocksApart
  BY <1>1, IdleFits DEF LocksApart, Apart, Fresh
<1>8. CountersKept
  <2> SUFFICES ASSUME NEW p \in Positions PROVE position[p].reserved = Total(Quantity(held), KeysAt(p))
    BY DEF CountersKept
  <2>1. position[p].reserved = 0
    BY <1>1
  <2>2. \A k \in KeysAt(p) : Quantity(held)[k] = 0
    BY <1>1, KeysAtFinite DEF Quantity, NoHold
  <2>3. Total(Quantity(held), {}) = Total(Quantity(held), KeysAt(p))
    BY <2>2, KeysAtFinite, TotalOfSome
  <2> QED BY <2>1, <2>3, TotalOfNone
<1> QED BY <1>3, <1>6, <1>7, <1>8 DEF LedgerInv

(* What the invariant says of one process.                                      *)
LEMMA InvParts ==
  ASSUME LedgerInv, NEW t \in Procs
  PROVE  /\ Kept(held, position, proc[t]) /\ Fits(held, proc[t]) /\ Bookable(held, proc[t])
         /\ proc[t].todo # <<>> =>
              /\ ItemsFit(proc[t].todo) /\ Item(t) = proc[t].todo[1] /\ Item(t).key \in Keys
              /\ Item(t).key[3] \in Positions /\ Item(t).qty \in 0..MaxQty
              /\ Item(t).qty > 0 => Item(t).qty \in 1..MaxQty /\ Item(t).stamp \in Stamps
<1>1. Kept(held, position, proc[t]) /\ Fits(held, proc[t]) /\ held \in [Keys -> Hold]
  BY DEF LedgerInv, ProcsKept, Kept, StateOK
<1>2. Bookable(held, proc[t])
  BY <1>1 DEF Bookable, Fits, ProcessOK
<1>3. ItemsFit(proc[t].todo)
  BY <1>1 DEF Fits, ProcessOK, TodoFits, ItemsFit
<1>4. ASSUME proc[t].todo # <<>>
      PROVE  /\ Item(t) = proc[t].todo[1] /\ Item(t).key \in Keys
             /\ Item(t).key[3] \in Positions /\ Item(t).qty \in 0..MaxQty
             /\ Item(t).qty > 0 => Item(t).qty \in 1..MaxQty /\ Item(t).stamp \in Stamps
  <2>1. Item(t) = proc[t].todo[1] /\ Item(t).key \in Keys /\ Item(t).qty \in 0..MaxQty
    BY <1>3, <1>4, ItemParts DEF Item
  <2>2. Item(t).qty > 0 => Item(t).stamp \in Stamps
    BY <1>3, <1>4, <2>1, ItemParts
  <2> QED BY <2>1, <2>2, KeyParts, ConstantsAssumption
<1> QED BY <1>1, <1>2, <1>3, <1>4

(* A step of one process that commits nothing.                                  *)
LEMMA OwnStep ==
  ASSUME LedgerInv, NEW t \in Procs, NEW r, proc' = [proc EXCEPT ![t] = r],
         Kept(held, position, r),
         \A u \in Procs \ {t} : Apart(r, proc[u]),
         UNCHANGED <<position, held, closed>>,
         shipment' \in [Orders -> {"none", "dispatched", "marked"}],
         faults' \in 0..MaxFaults
  PROVE  LedgerInv'
<1>1. proc' = [u \in Procs |-> IF u = t THEN r ELSE proc[u]]
  BY DEF LedgerInv, StateOK
<1>2. StateOK'
  BY <1>1 DEF LedgerInv, StateOK
<1>3. ProcsKept'
  BY <1>1 DEF LedgerInv, ProcsKept
<1>4. LocksApart'
  <2>1. ASSUME NEW v \in Procs, NEW u \in Procs, v # u PROVE Apart(proc'[v], proc'[u])
    <3>1. CASE v = t
      BY <3>1, <2>1, <1>1
    <3>2. CASE u = t
      <4>1. Apart(r, proc[v])
        BY <3>2, <2>1
      <4> QED BY <3>2, <2>1, <1>1, <4>1 DEF Apart
    <3>3. CASE v # t /\ u # t
      BY <3>3, <2>1, <1>1 DEF LedgerInv, LocksApart
    <3> QED BY <3>1, <3>2, <3>3
  <2> QED BY <2>1 DEF LocksApart
<1>5. CountersKept'
  BY DEF LedgerInv, CountersKept
<1> QED BY <1>2, <1>3, <1>4, <1>5 DEF LedgerInv

(* A transaction that ends without a commit, and the call that goes on.         *)
LEMMA FreshKept ==
  ASSUME LedgerInv, NEW r, Fits(held, r), Fresh(r)
  PROVE  Kept(held, position, r) /\ \A q : Apart(r, q)
<1>1. Bookable(held, r)
  BY DEF LedgerInv, StateOK, Bookable, Fits, ProcessOK
<1>2. DOMAIN r.wrote = {} /\ \A p \in Positions : r.delta[p] = 0
  BY DEF Fresh
<1> QED BY <1>1, <1>2, FreshBooks DEF Kept, Apart, Fresh

LEMMA FreshStep ==
  ASSUME LedgerInv, NEW t \in Procs, NEW r, proc' = [proc EXCEPT ![t] = r], Fits(held, r), Fresh(r),
         UNCHANGED <<position, held, closed>>,
         shipment' \in [Orders -> {"none", "dispatched", "marked"}],
         faults' \in 0..MaxFaults
  PROVE  LedgerInv'
BY FreshKept, OwnStep

LEMMA RollbackHolds ==
  ASSUME LedgerInv, NEW t \in Procs, NEW failed \in BOOLEAN, proc[t].todo # <<>>, Rollback(t, failed),
         UNCHANGED <<position, held, closed, shipment>>, faults' \in 0..MaxFaults
  PROVE  LedgerInv'
<1>1. Fits(held, Back(proc[t], failed)) /\ Fresh(Back(proc[t], failed))
  BY InvParts, BackFits
<1>2. proc' = [proc EXCEPT ![t] = Back(proc[t], failed)]
  BY DEF Rollback, Moves, NextTransaction, Back, Following
<1>3. shipment' \in [Orders -> {"none", "dispatched", "marked"}]
  BY DEF LedgerInv, StateOK
<1> QED BY <1>1, <1>2, <1>3, FreshStep

-----------------------------------------------------------------------------
(* The statements.                                                              *)
LEMMA UnchangedTypes ==
  ASSUME LedgerInv, UNCHANGED <<shipment, faults>>
  PROVE  shipment' \in [Orders -> {"none", "dispatched", "marked"}] /\ faults' \in 0..MaxFaults
BY DEF LedgerInv, StateOK

LEMMA InsertHolds ==
  ASSUME LedgerInv, NEW t \in Procs, Insert(t) PROVE LedgerInv'
<1> DEFINE r == proc[t]
           c == Item(t)
           k == c.key
           x == [qty |-> c.qty, stamp |-> c.stamp]
           q1 == [r EXCEPT !.pc = "select"]
           q2 == [r EXCEPT !.pc = "lock", !.rows = @ \cup {k}, !.share = @ \cup {k[3]},
                           !.wrote = Writes(@, k, x)]
<1>1. /\ r.pc = "insert" /\ Free(t)
      /\ proc' = [proc EXCEPT ![t] = IF held[k] # NoHold THEN q1 ELSE q2]
      /\ UNCHANGED <<position, held, closed, shipment, faults>>
  BY DEF Insert, At, Moves
<1>2. /\ Kept(held, position, r) /\ Fits(held, r) /\ ProcessOK(r) /\ TodoFits(r) /\ PcFits(r)
      /\ StepFits(held, r) /\ LocksFit(held, r)
  BY InvParts DEF Fits
<1>3. r.todo # <<>>
  BY <1>1, <1>2 DEF PcFits
<1>4. /\ ItemsFit(r.todo) /\ c = r.todo[1] /\ k \in Keys /\ k[3] \in Positions /\ c.qty > 0
      /\ c.qty \in 1..MaxQty /\ c.stamp \in Stamps /\ 1 \in DOMAIN r.todo
  <2>1. c = r.todo[1] /\ r.todo[1].qty > 0
    BY <1>1, <1>2, <1>3, InvParts DEF StepFits
  <2> QED BY <2>1, <1>3, InvParts, ItemParts
<1>5. k \notin r.rows /\ k \notin DOMAIN r.wrote
  BY <1>1, <1>2, <1>4 DEF TodoFits, ProcessOK
<1>6. CASE held[k] # NoHold
  <2>1. /\ q1.todo = r.todo /\ q1.pc = "select" /\ q1.rows = r.rows /\ q1.excl = r.excl
        /\ q1.wrote = r.wrote /\ q1.delta = r.delta
    BY <1>2 DEF ProcessOK
  <2>2. ProcessOK(q1)
    BY <1>2 DEF ProcessOK, Pcs
  <2> HIDE DEF q1
  <2>3. TodoFits(q1) /\ PcFits(q1) /\ StepFits(held, q1)
    BY <1>1, <1>2, <1>3, <2>1 DEF TodoFits, PcFits, StepFits, Moving
  <2>4. Counted(q1) = Counted(r)
    BY <1>1, <2>1 DEF Counted, Moving
  <2>5. LocksFit(held, q1)
    BY <1>2, <2>1, <2>4 DEF LocksFit
  <2>6. Kept(held, position, q1)
    BY <1>2, <2>1, <2>2, <2>3, <2>4, <2>5, SameBooks DEF Kept, Fits
  <2>7. \A u \in Procs \ {t} : Apart(q1, proc[u])
    BY <2>1 DEF LedgerInv, LocksApart, Apart
  <2> HIDE DEF r, c, k
  <2> QED BY <1>1, <1>6, <2>6, <2>7, UnchangedTypes, OwnStep
<1>7. CASE held[k] = NoHold
  <2>1. x \in Hold /\ x # NoHold
    BY <1>4 DEF Hold, NoHold
  <2>2. /\ q2.todo = r.todo /\ q2.pc = "lock" /\ q2.rows = r.rows \cup {k} /\ q2.excl = r.excl
        /\ q2.wrote = Writes(r.wrote, k, x) /\ q2.delta = r.delta
    BY <1>2 DEF ProcessOK
  <2>3. /\ DOMAIN q2.wrote = DOMAIN r.wrote \cup {k} /\ q2.wrote[k] = x
        /\ q2.wrote \in [DOMAIN q2.wrote -> Hold]
        /\ \A y \in DOMAIN r.wrote : q2.wrote[y] = r.wrote[y]
    <3>1. r.wrote \in [DOMAIN r.wrote -> Hold]
      BY <1>2 DEF ProcessOK
    <3> DEFINE w == Writes(r.wrote, k, x)
    <3>2. /\ w \in [DOMAIN r.wrote \cup {k} -> Hold] /\ w[k] = x
          /\ \A y \in DOMAIN r.wrote : y # k => w[y] = r.wrote[y]
      <4> HIDE DEF x, r, k
      <4> QED BY <2>1, <3>1 DEF Writes
    <3> HIDE DEF w, q2
    <3> QED BY <1>5, <2>2, <3>2 DEF w
  <2>4. ProcessOK(q2)
    <3>1. q2 \in [op : {q2.op}, order : {q2.order}, pc : Pcs, todo : Seq(Work), failed : BOOLEAN,
                  alone : BOOLEAN, rows : SUBSET Keys, share : SUBSET Positions,
                  excl : SUBSET Positions, wrote : {q2.wrote}, delta : [Positions -> Int]]
      BY <1>2, <1>4 DEF ProcessOK, Pcs
    <3>2. DOMAIN q2.wrote \subseteq q2.rows
      BY <1>2, <2>2, <2>3 DEF ProcessOK
    <3> QED BY <3>1, <3>2, <2>3 DEF ProcessOK
  <2> HIDE DEF q2
  <2>5. TodoFits(q2)
    <3>1. \A n \in DOMAIN r.todo : n > 1 => r.todo[n].key \notin q2.rows
      BY <1>2, <1>4, <2>2 DEF TodoFits
    <3> QED BY <1>2, <2>2, <3>1 DEF TodoFits
  <2>6. PcFits(q2) /\ StepFits(held, q2)
    BY <1>3, <1>4, <2>1, <2>2, <2>3 DEF PcFits, StepFits, Moving
  <2>7. Counted(q2) = Counted(r)
    <3>1. Counted(r) = DOMAIN r.wrote
      BY <1>1 DEF Counted, Moving
    <3>2. Counted(q2) = DOMAIN q2.wrote \ {k}
      BY <1>4, <2>2 DEF Counted, Moving
    <3> HIDE DEF r, k
    <3> QED BY <1>5, <2>3, <3>1, <3>2
  <2>8. LocksFit(held, q2)
    BY <1>2, <2>2, <2>3, <2>7 DEF LocksFit
  <2>9. \A y \in Counted(r) : q2.wrote[y] = r.wrote[y]
    BY <2>3 DEF Counted
  <2>10. Kept(held, position, q2)
    BY <1>2, <2>2, <2>4, <2>5, <2>6, <2>7, <2>8, <2>9, SameBooks DEF Kept, Fits
  <2>11. ASSUME NEW u \in Procs \ {t} PROVE Apart(q2, proc[u])
    <3>1. k \notin DOMAIN proc[u].wrote
      BY <1>1, <1>3 DEF Free, Waits, At
    <3>2. k \notin proc[u].rows
      BY <3>1, <1>7, InvParts DEF Fits, LocksFit
    <3> QED BY <3>2, <2>2 DEF LedgerInv, LocksApart, Apart
  <2> HIDE DEF r, c, k
  <2> QED BY <1>1, <1>7, <2>10, <2>11, UnchangedTypes, OwnStep
<1> QED BY <1>6, <1>7

LEMMA LockForAddHolds ==
  ASSUME LedgerInv, NEW t \in Procs, LockForAdd(t) PROVE LedgerInv'
<1> DEFINE r == proc[t]
           c == Item(t)
           p == c.key[3]
           q == [r EXCEPT !.pc = "add", !.excl = @ \cup {p}]
<1>1. /\ r.pc = "lock" /\ Free(t) /\ proc' = [proc EXCEPT ![t] = q]
      /\ UNCHANGED <<position, held, closed, shipment, faults>>
  BY DEF LockForAdd, LockPosition, At, Moves
<1>2. /\ Kept(held, position, r) /\ Fits(held, r) /\ ProcessOK(r) /\ TodoFits(r) /\ PcFits(r)
      /\ StepFits(held, r) /\ LocksFit(held, r)
  BY InvParts DEF Fits
<1>3. r.todo # <<>>
  BY <1>1, <1>2 DEF PcFits
<1>4. c = r.todo[1] /\ p \in Positions
  BY <1>3, InvParts
<1>5. /\ q.todo = r.todo /\ q.pc = "add" /\ q.rows = r.rows /\ q.excl = r.excl \cup {p}
      /\ q.wrote = r.wrote /\ q.delta = r.delta
  BY <1>2 DEF ProcessOK
<1>6. ProcessOK(q)
  BY <1>2, <1>4 DEF ProcessOK, Pcs
<1> HIDE DEF q
<1>7. TodoFits(q)
  BY <1>2, <1>5 DEF TodoFits
<1>8. PcFits(q) /\ StepFits(held, q)
  BY <1>1, <1>2, <1>3, <1>4, <1>5 DEF PcFits, StepFits, Moving
<1>9. Counted(q) = Counted(r)
  BY <1>1, <1>5 DEF Counted, Moving
<1>10. LocksFit(held, q)
  BY <1>2, <1>5, <1>9 DEF LocksFit
<1>11. Kept(held, position, q)
  BY <1>2, <1>5, <1>6, <1>7, <1>8, <1>9, <1>10, SameBooks DEF Kept, Fits
<1>12. ASSUME NEW u \in Procs \ {t} PROVE Apart(q, proc[u])
  <2>1. p \notin proc[u].excl
    BY <1>1, <1>3 DEF Free, Waits, Conflicts, At
  <2> QED BY <2>1, <1>5 DEF LedgerInv, LocksApart, Apart
<1> HIDE DEF r, c, p
<1> QED BY <1>1, <1>11, <1>12, UnchangedTypes, OwnStep

LEMMA FlipTerminalHolds ==
  ASSUME LedgerInv, NEW t \in Procs, FlipTerminal(t) PROVE LedgerInv'
<1> DEFINE r == proc[t]
           c == Item(t)
           k == c.key
           q == [r EXCEPT !.pc = "lower", !.rows = @ \cup {k}, !.wrote = Writes(@, k, NoHold)]
<1>1. /\ r.pc = "flip" /\ Free(t)
      /\ IF held[k] = NoHold THEN Rollback(t, FALSE) ELSE proc' = [proc EXCEPT ![t] = q]
      /\ UNCHANGED <<position, held, closed, shipment, faults>>
  BY DEF FlipTerminal, At, Moves
<1>2. /\ Kept(held, position, r) /\ Fits(held, r) /\ ProcessOK(r) /\ TodoFits(r) /\ PcFits(r)
      /\ StepFits(held, r) /\ LocksFit(held, r)
  BY InvParts DEF Fits
<1>3. r.todo # <<>>
  BY <1>1, <1>2 DEF PcFits
<1>4. c = r.todo[1] /\ k \in Keys /\ r.todo[1].qty = 0 /\ 1 \in DOMAIN r.todo
  BY <1>1, <1>2, <1>3, InvParts, ItemParts DEF StepFits
<1>5. k \notin r.rows /\ k \notin DOMAIN r.wrote
  BY <1>1, <1>2, <1>4 DEF TodoFits, ProcessOK
<1>6. CASE held[k] = NoHold
  BY <1>1, <1>3, <1>6, UnchangedTypes, RollbackHolds
<1>7. CASE held[k] # NoHold
  <2>1. NoHold \in Hold
    BY DEF Hold
  <2>2. /\ q.todo = r.todo /\ q.pc = "lower" /\ q.rows = r.rows \cup {k} /\ q.excl = r.excl
        /\ q.wrote = Writes(r.wrote, k, NoHold) /\ q.delta = r.delta
    BY <1>2 DEF ProcessOK
  <2>3. /\ DOMAIN q.wrote = DOMAIN r.wrote \cup {k} /\ q.wrote[k] = NoHold
        /\ q.wrote \in [DOMAIN q.wrote -> Hold]
        /\ \A y \in DOMAIN r.wrote : q.wrote[y] = r.wrote[y]
    <3>1. r.wrote \in [DOMAIN r.wrote -> Hold]
      BY <1>2 DEF ProcessOK
    <3> DEFINE w == Writes(r.wrote, k, NoHold)
    <3>2. /\ w \in [DOMAIN r.wrote \cup {k} -> Hold] /\ w[k] = NoHold
          /\ \A y \in DOMAIN r.wrote : y # k => w[y] = r.wrote[y]
      <4> HIDE DEF r, k
      <4> QED BY <2>1, <3>1 DEF Writes
    <3> HIDE DEF w, q
    <3> QED BY <1>5, <2>2, <3>2 DEF w
  <2>4. ProcessOK(q)
    <3>1. q \in [op : {q.op}, order : {q.order}, pc : Pcs, todo : Seq(Work), failed : BOOLEAN,
                 alone : BOOLEAN, rows : SUBSET Keys, share : SUBSET Positions,
                 excl : SUBSET Positions, wrote : {q.wrote}, delta : [Positions -> Int]]
      BY <1>2, <1>4 DEF ProcessOK, Pcs
    <3>2. DOMAIN q.wrote \subseteq q.rows
      BY <1>2, <2>2, <2>3 DEF ProcessOK
    <3> QED BY <3>1, <3>2, <2>3 DEF ProcessOK
  <2> HIDE DEF q
  <2>5. TodoFits(q)
    <3>1. \A n \in DOMAIN r.todo : n > 1 => r.todo[n].key \notin q.rows
      BY <1>2, <1>4, <2>2 DEF TodoFits
    <3> QED BY <1>2, <2>2, <3>1 DEF TodoFits
  <2>6. held[k].qty \in Nat
    BY <1>4, HoldParts, ConstantsAssumption DEF LedgerInv, StateOK
  <2>7. PcFits(q) /\ StepFits(held, q)
    BY <1>3, <1>4, <2>2, <2>3, <2>6 DEF PcFits, StepFits, Moving
  <2>8. Counted(q) = Counted(r)
    <3>1. Counted(r) = DOMAIN r.wrote
      BY <1>1 DEF Counted, Moving
    <3>2. Counted(q) = DOMAIN q.wrote \ {k}
      BY <1>4, <2>2 DEF Counted, Moving
    <3> HIDE DEF r, k
    <3> QED BY <1>5, <2>3, <3>1, <3>2
  <2>9. LocksFit(held, q)
    BY <1>2, <2>2, <2>3, <2>8 DEF LocksFit
  <2>10. \A y \in Counted(r) : q.wrote[y] = r.wrote[y]
    BY <2>3 DEF Counted
  <2>11. Kept(held, position, q)
    BY <1>2, <2>2, <2>4, <2>5, <2>7, <2>8, <2>9, <2>10, SameBooks DEF Kept, Fits
  <2>12. ASSUME NEW u \in Procs \ {t} PROVE Apart(q, proc[u])
    <3>1. k \notin proc[u].rows
      BY <1>1, <1>3, <1>7 DEF Free, Waits, At
    <3> QED BY <3>1, <2>2 DEF LedgerInv, LocksApart, Apart
  <2> HIDE DEF r, c, k
  <2> QED BY <1>1, <1>7, <2>11, <2>12, UnchangedTypes, OwnStep
<1> QED BY <1>6, <1>7

LEMMA SelectForUpdateHolds ==
  ASSUME LedgerInv, NEW t \in Procs, SelectForUpdate(t) PROVE LedgerInv'
<1> DEFINE r == proc[t]
           c == Item(t)
           k == c.key
           q == [r EXCEPT !.rows = @ \cup {k}]
           m == [q EXCEPT !.pc = IF Delta(c) > 0 THEN "lock" ELSE "lower"]
<1>1. /\ r.pc = "select" /\ Free(t)
      /\ IF held[k] = NoHold THEN Rollback(t, TRUE)
         ELSE IF Delta(c) = 0 THEN StatementDone(t, q) ELSE proc' = [proc EXCEPT ![t] = m]
      /\ UNCHANGED <<position, held, closed, shipment, faults>>
  BY DEF SelectForUpdate, At, Moves
<1>2. /\ Kept(held, position, r) /\ Fits(held, r) /\ ProcessOK(r) /\ TodoFits(r) /\ PcFits(r)
      /\ StepFits(held, r) /\ LocksFit(held, r)
  BY InvParts DEF Fits
<1>3. r.todo # <<>>
  BY <1>1, <1>2 DEF PcFits
<1>4. c = r.todo[1] /\ k \in Keys /\ ItemsFit(r.todo) /\ 1 \in DOMAIN r.todo /\ c.qty \in 1..MaxQty
  <2>1. c = r.todo[1] /\ r.todo[1].qty > 0
    BY <1>1, <1>2, <1>3, InvParts DEF StepFits
  <2> QED BY <2>1, <1>3, InvParts, ItemParts
<1>5. k \notin r.rows /\ k \notin DOMAIN r.wrote
  BY <1>1, <1>2, <1>4 DEF TodoFits, ProcessOK
<1>6. /\ q.todo = r.todo /\ q.pc = "select" /\ q.rows = r.rows \cup {k} /\ q.excl = r.excl
      /\ q.wrote = r.wrote /\ q.delta = r.delta
  BY <1>1, <1>2 DEF ProcessOK
<1>7. ProcessOK(q)
  BY <1>2, <1>4 DEF ProcessOK, Pcs
<1>8. Counted(r) = DOMAIN r.wrote
  BY <1>1 DEF Counted, Moving
<1>9. \A n \in DOMAIN r.todo : n > 1 => r.todo[n].key \notin q.rows
  BY <1>2, <1>4, <1>6 DEF TodoFits
<1>10. ASSUME held[k] # NoHold, NEW u \in Procs \ {t} PROVE q.rows \cap proc[u].rows = {} /\ q.excl \cap proc[u].excl = {}
  <2>1. k \notin proc[u].rows
    BY <1>1, <1>3 DEF Free, Waits, At
  <2> QED BY <2>1, <1>6 DEF LedgerInv, LocksApart, Apart
<1>11. CASE held[k] = NoHold
  BY <1>1, <1>3, <1>11, UnchangedTypes, RollbackHolds
<1>12. CASE held[k] # NoHold /\ Delta(c) = 0
  <2> HIDE DEF q
  <2>1. proc' = [proc EXCEPT ![t] = Done(q)]
    BY <1>1, <1>12 DEF StatementDone, Moves, Done
  <2>2. DoneWith(held, q)
    BY <1>2, <1>3, <1>4, <1>6, <1>7, <1>8, <1>9, <1>12 DEF DoneWith, LocksFit
  <2>3. Fits(held, Done(q)) /\ Counted(Done(q)) = Counted(r)
        /\ Done(q).wrote = r.wrote /\ Done(q).rows = q.rows
        /\ Done(q).excl = q.excl /\ Done(q).delta = r.delta
    BY <2>2, <1>6, <1>8, DoneFits
  <2>4. Kept(held, position, Done(q))
    BY <2>3, <1>2, SameBooks DEF Kept
  <2>5. \A u \in Procs \ {t} : Apart(Done(q), proc[u])
    BY <2>3, <1>10, <1>12 DEF Apart
  <2> HIDE DEF r, c, k
  <2> QED BY <1>1, <2>1, <2>4, <2>5, UnchangedTypes, OwnStep
<1>13. CASE held[k] # NoHold /\ Delta(c) # 0
  <2>1. /\ m.todo = r.todo /\ m.pc \in {"lock", "lower"} /\ m.rows = q.rows /\ m.excl = q.excl
        /\ m.wrote = r.wrote /\ m.delta = r.delta /\ (m.pc = "lower" <=> ~(Delta(c) > 0))
    BY <1>6, <1>7 DEF ProcessOK
  <2>2. ProcessOK(m)
    BY <1>7 DEF ProcessOK, Pcs
  <2>3. held[k].qty \in Nat
    BY <1>4, HoldParts, ConstantsAssumption DEF LedgerInv, StateOK
  <2>4. m.pc = "lower" => c.qty <= held[k].qty
    BY <2>1, <2>3, <1>4, ConstantsAssumption DEF Delta
  <2> HIDE DEF m, q
  <2>5. TodoFits(m)
    BY <1>2, <1>9, <2>1 DEF TodoFits
  <2>6. PcFits(m) /\ StepFits(held, m)
    BY <1>3, <1>4, <1>5, <1>6, <2>1, <2>4 DEF PcFits, StepFits, Moving
  <2>7. Counted(m) = Counted(r)
    BY <1>4, <1>5, <1>8, <2>1 DEF Counted
  <2>8. LocksFit(held, m)
    BY <1>2, <1>6, <1>13, <2>1, <2>7 DEF LocksFit
  <2>9. Kept(held, position, m)
    BY <1>2, <2>1, <2>2, <2>5, <2>6, <2>7, <2>8, SameBooks DEF Kept, Fits
  <2>10. \A u \in Procs \ {t} : Apart(m, proc[u])
    BY <2>1, <1>10, <1>13 DEF Apart
  <2> HIDE DEF r, c, k
  <2> QED BY <1>1, <1>13, <2>9, <2>10, UnchangedTypes, OwnStep
<1> QED BY <1>11, <1>12, <1>13

(* A statement that counts a row, whose counter it moved.                       *)
LEMMA CountedKept ==
  ASSUME LedgerInv, NEW t \in Procs, NEW d, Fits(held, d), NEW k, Counts(proc[t], d, k),
         d.delta = [proc[t].delta EXCEPT ![k[3]] = @ + (d.wrote[k].qty - held[k].qty)],
         LET after == Total(Publishing(held, d), KeysAt(k[3])) IN
           after > Total(Publishing(held, proc[t]), KeysAt(k[3])) => after <= position[k[3]].available
  PROVE  Kept(held, position, d)
<1> DEFINE r == proc[t]
           p == k[3]
<1>1. Kept(held, position, r) /\ Bookable(held, r)
  BY InvParts
<1>2. Bookable(held, d)
  BY <1>1 DEF Fits, ProcessOK, Bookable
<1>3. k \in Keys /\ p \in Positions /\ Counts(r, d, k)
  BY KeyParts DEF Counts
<1>4. /\ Total(Change(held, d), KeysAt(p)) = Total(Change(held, r), KeysAt(p)) + d.wrote[k].qty - held[k].qty
      /\ \A s \in Positions : s # p =>
           /\ Total(Change(held, d), KeysAt(s)) = Total(Change(held, r), KeysAt(s))
           /\ Total(Publishing(held, d), KeysAt(s)) = Total(Publishing(held, r), KeysAt(s))
  BY <1>1, <1>2, <1>3, OneMoreRow
<1>5. d.wrote[k].qty \in Int /\ held[k].qty \in Int
  <2>1. d.wrote[k] \in Hold /\ held[k] \in Hold
    BY <1>2, <1>3 DEF Bookable, Counts, Counted
  <2> QED BY <2>1, HoldParts, ConstantsAssumption
<1>6. AccountKept(held, d)
  <2> SUFFICES ASSUME NEW s \in Positions PROVE d.delta[s] = Total(Change(held, d), KeysAt(s))
    BY DEF AccountKept
  <2>1. r.delta \in [Positions -> Int] /\ r.delta[s] = Total(Change(held, r), KeysAt(s))
    BY <1>1 DEF Kept, AccountKept, Bookable
  <2>2. CASE s = p
    <3>1. d.delta[s] = r.delta[s] + (d.wrote[k].qty - held[k].qty)
      BY <2>1, <2>2, <1>3
    <3> QED BY <3>1, <2>1, <2>2, <1>4, <1>5, <1>1, BooksAreTotals
  <2>3. CASE s # p
    BY <2>1, <2>3, <1>4
  <2> QED BY <2>2, <2>3
<1>7. StockKept(held, position, d)
  <2> SUFFICES ASSUME NEW s \in Positions,
                      Total(Publishing(held, d), KeysAt(s)) > Total(Published(held), KeysAt(s))
               PROVE  Total(Publishing(held, d), KeysAt(s)) <= position[s].available
    BY DEF StockKept
  <2>1. Total(Publishing(held, r), KeysAt(s)) > Total(Published(held), KeysAt(s)) =>
          Total(Publishing(held, r), KeysAt(s)) <= position[s].available
    BY <1>1 DEF Kept, StockKept
  <2>2. /\ Total(Publishing(held, r), KeysAt(s)) \in Nat /\ Total(Publishing(held, d), KeysAt(s)) \in Nat
        /\ Total(Published(held), KeysAt(s)) \in Nat /\ position[s].available \in Nat
    BY <1>1, <1>2, BooksAreTotals, ConstantsAssumption DEF LedgerInv, StateOK
  <2>3. CASE s = p
    BY <2>1, <2>2, <2>3
  <2>4. CASE s # p
    BY <2>1, <2>4, <1>4
  <2> QED BY <2>3, <2>4
<1> QED BY <1>6, <1>7 DEF Kept

(* What the guard of the UPDATE adds up is what the transaction, and everybody  *)
(* who committed, has promised of the position beside the row.                  *)
LEMMA OthersAreSummed ==
  ASSUME LedgerInv, NEW t \in Procs, NEW c, c.key \in Keys, NEW d, Bookable(held, d),
         Counted(d) = DOMAIN proc[t].wrote \cup {c.key},
         \A x \in DOMAIN proc[t].wrote : x # c.key => d.wrote[x] = proc[t].wrote[x]
  PROVE  Total(Publishing(held, d), KeysAt(c.key[3]))
           = Promised(d.wrote[c.key]) + PublishedByOthers(t, c)
         /\ PublishedByOthers(t, c) \in Int
<1> DEFINE k == c.key
           p == k[3]
           S == KeysAt(p)
           T == {x \in Keys \ {k} : x[3] = p /\ Seen(t, x).stamp = "published"}
           F == Publishing(held, d)
           G == [x \in T |-> Seen(t, x).qty]
<1>1. k \in S /\ T \subseteq S \ {k} /\ IsFiniteSet(S) /\ IsFiniteSet(S \ {k}) /\ IsFiniteSet(T)
  <2>1. k \in S /\ T \subseteq S \ {k} /\ IsFiniteSet(S)
    BY KeysAtFinite DEF KeysAt
  <2> QED BY <2>1, FS_Subset
<1>2. \A x \in S : F[x] \in Int
  BY BooksAreNumbers, KeysAtFinite
<1>3. F[k] = Promised(d.wrote[k])
  BY DEF Publishing
<1>4. \A x \in S \ {k} : F[x] = Promised(Seen(t, x))
  <2> TAKE x \in S \ {k}
  <2>1. x \in Keys /\ (x \in Counted(d) <=> x \in DOMAIN proc[t].wrote)
    BY KeysAtFinite
  <2> QED BY <2>1 DEF Publishing, Seen
<1> HIDE DEF F
<1>5. Total(F, S) = F[k] + Total(F, S \ {k})
  BY <1>1, <1>2, TotalSplits
<1>6. Total(F, T) = Total(F, S \ {k})
  <2>1. \A x \in (S \ {k}) \ T : F[x] = 0
    BY <1>4, KeysAtFinite DEF KeysAt, Promised
  <2> QED BY <2>1, <1>1, <1>2, TotalOfSome
<1>7. Total(G, T) = Total(F, T)
  <2>1. \A x \in T : G[x] = F[x]
    BY <1>1, <1>4 DEF Promised
  <2> HIDE DEF G
  <2> QED BY <2>1, <1>1, TotalAgrees
<1>8. PublishedByOthers(t, c) = Total(G, T)
  BY <1>1, SumOfSeen DEF PublishedByOthers
<1>9. Total(F, T) \in Int
  BY <1>1, <1>2, TotalIsInt
<1> QED BY <1>3, <1>5, <1>6, <1>7, <1>8, <1>9 DEF F

LEMMA GuardedAddHolds ==
  ASSUME LedgerInv, NEW t \in Procs, GuardedAdd(t) PROVE LedgerInv'
<1> DEFINE r == proc[t]
           c == Item(t)
           k == c.key
           p == k[3]
           y == [Seen(t, k) EXCEPT !.qty = c.qty]
           b == [r EXCEPT !.delta[p] = @ + Delta(c)]
           q == SetQuantity(t, c, b)
           d == Done(q)
<1>1. /\ r.pc = "add"
      /\ IF Admits(t, c) THEN StatementDone(t, q) ELSE Rollback(t, TRUE)
      /\ UNCHANGED <<position, held, closed, shipment, faults>>
  BY DEF GuardedAdd, At
<1>2. /\ Kept(held, position, r) /\ Fits(held, r) /\ ProcessOK(r) /\ TodoFits(r) /\ PcFits(r)
      /\ StepFits(held, r) /\ LocksFit(held, r) /\ Bookable(held, r)
  BY InvParts DEF Fits
<1>3. r.todo # <<>>
  BY <1>1, <1>2 DEF PcFits
<1>4. /\ c = r.todo[1] /\ k \in Keys /\ p \in Positions /\ ItemsFit(r.todo) /\ 1 \in DOMAIN r.todo
      /\ c.qty \in 1..MaxQty /\ c.qty \in Nat
  <2>1. c = r.todo[1] /\ r.todo[1].qty > 0
    BY <1>1, <1>2, <1>3, InvParts DEF StepFits
  <2> QED BY <2>1, <1>3, InvParts, ItemParts, ConstantsAssumption
<1>5. k \in r.rows /\ p \in r.excl /\ (k \in DOMAIN r.wrote => r.wrote[k] # NoHold)
  BY <1>1, <1>2, <1>4 DEF StepFits, Moving
<1>6. CASE ~Admits(t, c)
  BY <1>1, <1>3, <1>6, UnchangedTypes, RollbackHolds
<1>7. CASE Admits(t, c)
  <2>1. Seen(t, k) \in Hold /\ Seen(t, k) # NoHold
    BY <1>2, <1>4, <1>5 DEF Seen, LocksFit, ProcessOK, LedgerInv, StateOK
  <2>2. y \in [qty : 1..MaxQty, stamp : Stamps] /\ y \in Hold /\ y.qty = c.qty
    BY <2>1, <1>4 DEF Hold
  <2>3. held[k] \in Hold /\ held[k].qty \in Int
    BY <1>4, HoldParts, ConstantsAssumption DEF LedgerInv, StateOK
  <2>4. b = [r EXCEPT !.delta = [r.delta EXCEPT ![p] = @ + Delta(c)]] /\ Delta(c) = c.qty - held[k].qty
    BY DEF Delta
  <2>5. Delta(c) \in Int /\ [r.delta EXCEPT ![p] = @ + Delta(c)] \in [Positions -> Int]
    BY <1>2, <1>4, <2>3, <2>4 DEF Bookable
  <2> HIDE DEF b
  <2>6. /\ b \in [op : {b.op}, order : {b.order}, pc : Pcs, todo : Seq(Work), failed : BOOLEAN,
                  alone : BOOLEAN, rows : SUBSET Keys, share : SUBSET Positions,
                  excl : SUBSET Positions, wrote : {b.wrote}, delta : [Positions -> Int]]
        /\ b.todo = r.todo /\ b.rows = r.rows /\ b.excl = r.excl /\ b.wrote = r.wrote
        /\ b.delta = [r.delta EXCEPT ![p] = @ + (c.qty - held[k].qty)]
    BY <1>2, <2>4, <2>5 DEF ProcessOK
  <2>7. q = [b EXCEPT !.wrote = Writes(b.wrote, k, y)]
    BY <2>6 DEF SetQuantity
  <2> HIDE DEF y, q
  <2>8. /\ q.todo = r.todo /\ q.rows = r.rows /\ q.excl = r.excl /\ q.wrote = Writes(r.wrote, k, y)
        /\ q.delta = b.delta
    BY <2>6, <2>7
  <2>9. /\ DOMAIN q.wrote = DOMAIN r.wrote \cup {k} /\ q.wrote[k] = y
        /\ q.wrote \in [DOMAIN q.wrote -> Hold]
        /\ \A x \in DOMAIN r.wrote : x # k => q.wrote[x] = r.wrote[x]
    <3>1. r.wrote \in [DOMAIN r.wrote -> Hold]
      BY <1>2 DEF ProcessOK
    <3> DEFINE w == Writes(r.wrote, k, y)
    <3>2. /\ w \in [DOMAIN r.wrote \cup {k} -> Hold] /\ w[k] = y
          /\ \A x \in DOMAIN r.wrote : x # k => w[x] = r.wrote[x]
      <4> HIDE DEF r, k
      <4> QED BY <2>2, <3>1 DEF Writes
    <3> HIDE DEF w
    <3> QED BY <2>8, <3>2 DEF w
  <2>10. ProcessOK(q)
    <3>1. q \in [op : {q.op}, order : {q.order}, pc : Pcs, todo : Seq(Work), failed : BOOLEAN,
                 alone : BOOLEAN, rows : SUBSET Keys, share : SUBSET Positions,
                 excl : SUBSET Positions, wrote : {q.wrote}, delta : [Positions -> Int]]
      BY <2>6, <2>7
    <3>2. DOMAIN q.wrote \subseteq q.rows
      BY <1>2, <1>5, <2>8, <2>9 DEF ProcessOK
    <3> QED BY <3>1, <3>2, <2>9 DEF ProcessOK
  <2>11. Counted(r) = DOMAIN r.wrote \ {k}
    BY <1>1, <1>4 DEF Counted, Moving
  <2>12. DoneWith(held, q)
    <3>1. \A n \in DOMAIN q.todo : n > 1 => q.todo[n].key \notin q.rows
      BY <1>2, <2>8 DEF TodoFits
    <3>2. \A x \in q.rows \ DOMAIN q.wrote : held[x] # NoHold
      BY <1>2, <2>8, <2>9 DEF LocksFit
    <3>3. \A x \in DOMAIN q.wrote : x[3] \in q.excl
      BY <1>2, <1>5, <2>8, <2>9, <2>11 DEF LocksFit
    <3> QED BY <1>3, <1>4, <2>8, <2>10, <3>1, <3>2, <3>3 DEF DoneWith
  <2>13. /\ Fits(held, d) /\ Counted(d) = DOMAIN q.wrote /\ d.wrote = q.wrote
         /\ d.rows = r.rows /\ d.excl = r.excl /\ d.delta = b.delta
    BY <2>8, <2>12, DoneFits
  <2>14. proc' = [proc EXCEPT ![t] = d]
    BY <1>1, <1>7 DEF StatementDone, Moves, Done
  <2> HIDE DEF d
  <2>15. Counts(r, d, k)
    BY <1>4, <2>9, <2>11, <2>13 DEF Counts
  <2>16. Total(Publishing(held, d), KeysAt(p)) <= position[p].available
    <3>1. Bookable(held, d)
      BY <1>2, <2>13 DEF Fits, ProcessOK, Bookable
    <3>2. /\ Total(Publishing(held, d), KeysAt(p)) = Promised(y) + PublishedByOthers(t, c)
          /\ PublishedByOthers(t, c) \in Int
      BY <1>4, <2>9, <2>13, <3>1, OthersAreSummed
    <3>3. Promised(y) \in Nat /\ Promised(y) <= c.qty
      BY <2>2, HoldParts, ConstantsAssumption
    <3>4. Total(Publishing(held, d), KeysAt(p)) \in Nat /\ position[p].available \in Nat
      BY <1>4, <3>1, BooksAreTotals, ConstantsAssumption DEF LedgerInv, StateOK
    <3>5. position[p].available - PublishedByOthers(t, c) >= c.qty
      BY <1>7 DEF Admits
    <3> QED BY <1>4, <3>2, <3>3, <3>4, <3>5
  <2>17. Kept(held, position, d)
    <3>1. d.delta = [r.delta EXCEPT ![p] = @ + (d.wrote[k].qty - held[k].qty)]
      BY <2>2, <2>6, <2>9, <2>13
    <3> HIDE DEF r, k
    <3> QED BY <2>13, <2>15, <2>16, <3>1, CountedKept DEF r, p
  <2>18. \A u \in Procs \ {t} : Apart(d, proc[u])
    BY <2>13 DEF LedgerInv, LocksApart, Apart
  <2> HIDE DEF r, c, k, p
  <2> QED BY <1>1, <2>14, <2>17, <2>18, UnchangedTypes, OwnStep
<1> QED BY <1>6, <1>7

(* The counter, as the transaction sees it, holds at least the row's quantity:  *)
(* it never has to be kept from going below zero.                               *)
LEMMA CounterCovers ==
  ASSUME LedgerInv, NEW t \in Procs, NEW k \in Keys, k \notin Counted(proc[t])
  PROVE  held[k].qty <= position[k[3]].reserved + proc[t].delta[k[3]]
<1> DEFINE r == proc[t]
           p == k[3]
           Q == Quantity(held)
           C == Change(held, r)
           E == [x \in Keys |-> Q[x] + C[x]]
<1>1. Kept(held, position, r) /\ Bookable(held, r) /\ p \in Positions
  BY InvParts, KeyParts
<1>2. \A x \in Keys : Q[x] \in Nat /\ C[x] \in Int /\ E[x] = Q[x] + C[x]
  BY <1>1, BooksAreNumbers
<1>3. \A x \in Keys : E[x] \in Nat
  <2> TAKE x \in Keys
  <2>1. CASE x \in Counted(r)
    <3>1. r.wrote[x] \in Hold /\ held[x] \in Hold
      BY <1>1, <2>1 DEF Bookable, Counted
    <3>2. r.wrote[x].qty \in Nat /\ held[x].qty \in Nat
      BY <3>1, HoldParts, ConstantsAssumption
    <3>3. Q[x] = held[x].qty /\ C[x] = r.wrote[x].qty - held[x].qty
      BY <2>1 DEF Quantity, Change
    <3> QED BY <3>2, <3>3, <1>2
  <2>2. CASE x \notin Counted(r)
    <3>1. C[x] = 0
      BY <2>2 DEF Change
    <3> HIDE DEF Q, C, E
    <3> QED BY <3>1, <1>2
  <2> QED BY <2>1, <2>2
<1>4. E[k] = held[k].qty
  <2>1. C[k] = 0 /\ Q[k] = held[k].qty
    BY DEF Change, Quantity
  <2> HIDE DEF Q, C, E
  <2> QED BY <2>1, <1>2
<1> HIDE DEF Q, C, E
<1>5. \A x \in KeysAt(p) : Q[x] \in Int /\ C[x] \in Int /\ E[x] = Q[x] + C[x] /\ E[x] \in Nat
  BY <1>2, <1>3, KeysAtFinite
<1>6. Total(E, KeysAt(p)) = Total(Q, KeysAt(p)) + Total(C, KeysAt(p))
  BY <1>5, KeysAtFinite, TotalAdds
<1>7. k \in KeysAt(p)
  BY DEF KeysAt
<1>8. E[k] <= Total(E, KeysAt(p))
  BY <1>5, <1>7, KeysAtFinite, TermOfTotal
<1>9. position[p].reserved = Total(Q, KeysAt(p)) /\ r.delta[p] = Total(C, KeysAt(p))
  BY <1>1 DEF LedgerInv, CountersKept, Kept, AccountKept, Q, C
<1> QED BY <1>4, <1>6, <1>8, <1>9

LEMMA LowerCounterHolds ==
  ASSUME LedgerInv, NEW t \in Procs, LowerCounter(t) PROVE LedgerInv'
<1> DEFINE r == proc[t]
           c == Item(t)
           k == c.key
           p == k[3]
           now == position[p].reserved + r.delta[p]
           less == IF -Delta(c) > now THEN now ELSE -Delta(c)
           b == [r EXCEPT !.excl = @ \cup {p}, !.delta[p] = @ - less]
           y == [Seen(t, k) EXCEPT !.qty = c.qty]
           q == IF c.qty = 0 THEN b ELSE SetQuantity(t, c, b)
           d == Done(q)
<1>1. /\ r.pc = "lower" /\ Free(t) /\ StatementDone(t, q)
      /\ UNCHANGED <<position, held, closed, shipment, faults>>
  BY DEF LowerCounter, At
<1>2. /\ Kept(held, position, r) /\ Fits(held, r) /\ ProcessOK(r) /\ TodoFits(r) /\ PcFits(r)
      /\ StepFits(held, r) /\ LocksFit(held, r) /\ Bookable(held, r)
  BY InvParts DEF Fits
<1>3. r.todo # <<>>
  BY <1>1, <1>2 DEF PcFits
<1>4. /\ c = r.todo[1] /\ k \in Keys /\ p \in Positions /\ ItemsFit(r.todo)
      /\ c.qty \in 0..MaxQty /\ c.qty \in Nat
      /\ c.qty # 0 => c.qty \in 1..MaxQty
  <2>1. c.qty \in 0..MaxQty
    BY <1>3, InvParts
  <2>2. c.qty \in Nat /\ (c.qty # 0 => c.qty \in 1..MaxQty)
    BY <2>1, ConstantsAssumption
  <2> QED BY <1>3, <2>1, <2>2, InvParts
<1>5. /\ k \in r.rows /\ c.qty <= held[k].qty
      /\ c.qty # 0 => k \notin DOMAIN r.wrote
      /\ c.qty = 0 => k \in DOMAIN r.wrote /\ r.wrote[k] = NoHold
  <2>1. /\ k \in r.rows /\ c.qty <= held[k].qty
        /\ c.qty > 0 => k \notin DOMAIN r.wrote
        /\ c.qty = 0 => k \in DOMAIN r.wrote /\ r.wrote[k] = NoHold
    BY <1>1, <1>2, <1>4 DEF StepFits, Moving
  <2>2. c.qty # 0 => c.qty > 0
    BY <1>4
  <2> QED BY <2>1, <2>2
<1>6. Counted(r) = DOMAIN r.wrote \ {k}
  BY <1>1, <1>4 DEF Counted, Moving
<1>7. held[k] \in Hold /\ held[k].qty \in Nat
  BY <1>4, HoldParts, ConstantsAssumption DEF LedgerInv, StateOK
<1>8. less = held[k].qty - c.qty /\ less \in Int
  <2>1. held[k].qty <= now
    BY <1>4, <1>6, CounterCovers
  <2>2. now \in Int
    BY <1>2, <1>4 DEF LedgerInv, StateOK, Bookable
  <2> HIDE DEF now
  <2> QED BY <1>4, <1>7, <2>1, <2>2 DEF Delta
<1> HIDE DEF less
<1>9. /\ b \in [op : {b.op}, order : {b.order}, pc : Pcs, todo : Seq(Work), failed : BOOLEAN,
                alone : BOOLEAN, rows : SUBSET Keys, share : SUBSET Positions,
                excl : SUBSET Positions, wrote : {b.wrote}, delta : [Positions -> Int]]
      /\ b.todo = r.todo /\ b.rows = r.rows /\ b.excl = r.excl \cup {p} /\ b.wrote = r.wrote
      /\ b.delta = [r.delta EXCEPT ![p] = @ + (c.qty - held[k].qty)]
  <2>1. b = [r EXCEPT !.excl = r.excl \cup {p}, !.delta = [r.delta EXCEPT ![p] = @ - less]]
    OBVIOUS
  <2>2. /\ [r.delta EXCEPT ![p] = @ - less] = [r.delta EXCEPT ![p] = @ + (c.qty - held[k].qty)]
        /\ [r.delta EXCEPT ![p] = @ - less] \in [Positions -> Int]
    <3>1. r.delta \in [Positions -> Int] /\ r.delta[p] \in Int
      BY <1>2, <1>4 DEF Bookable
    <3>2. r.delta[p] - less = r.delta[p] + (c.qty - held[k].qty) /\ r.delta[p] - less \in Int
      <4> DEFINE m == c.qty
                 n == held[k].qty
                 e == r.delta[p]
      <4>1. m \in Int /\ n \in Int /\ e \in Int /\ less = n - m
        <5>1. m \in Int
          BY <1>4
        <5>2. n \in Int
          BY <1>7
        <5> QED BY <1>8, <3>1, <5>1, <5>2
      <4> HIDE DEF m, n, e
      <4>2. e - less = e + (m - n) /\ e - less \in Int
        BY <4>1
      <4> QED BY <4>2 DEF m, n, e
    <3> HIDE DEF c, k, p
    <3> QED BY <3>1, <3>2
  <2> HIDE DEF b
  <2> QED BY <1>2, <1>4, <2>1, <2>2 DEF ProcessOK
<1> HIDE DEF b
<1>10. c.qty # 0 => y \in Hold /\ y.qty = c.qty /\ Promised(y) <= Promised(held[k])
  <2> SUFFICES ASSUME c.qty # 0 PROVE y \in Hold /\ y.qty = c.qty /\ Promised(y) <= Promised(held[k])
    OBVIOUS
  <2>1. Seen(t, k) = held[k] /\ held[k] # NoHold
    BY <1>2, <1>5 DEF Seen, LocksFit
  <2>2. held[k] \in [qty : 1..MaxQty, stamp : Stamps]
    BY <1>7, <2>1, HoldParts
  <2>3. y \in [qty : 1..MaxQty, stamp : Stamps] /\ y.qty = c.qty /\ y.stamp = held[k].stamp
    BY <2>1, <2>2, <1>4
  <2> HIDE DEF y
  <2> QED BY <2>3, <1>4, <1>5, <1>7 DEF Hold, Promised
<1>11. /\ q.todo = r.todo /\ q.rows = r.rows /\ q.excl = r.excl \cup {p} /\ q.delta = b.delta
       /\ q.wrote \in [DOMAIN r.wrote \cup {k} -> Hold]
       /\ \A x \in DOMAIN r.wrote : x # k => q.wrote[x] = r.wrote[x]
       /\ q.wrote[k].qty = c.qty /\ Promised(q.wrote[k]) <= Promised(held[k])
       /\ q \in [op : {q.op}, order : {q.order}, pc : Pcs, todo : Seq(Work), failed : BOOLEAN,
                 alone : BOOLEAN, rows : SUBSET Keys, share : SUBSET Positions,
                 excl : SUBSET Positions, wrote : {q.wrote}, delta : [Positions -> Int]]
  <2>1. CASE c.qty = 0
    <3>1. q = b
      BY <2>1
    <3> HIDE DEF q
    <3>2. r.wrote \in [DOMAIN r.wrote \cup {k} -> Hold]
      BY <1>2, <1>5, <2>1 DEF ProcessOK
    <3>3. Promised(r.wrote[k]) <= Promised(held[k]) /\ r.wrote[k].qty = 0
      BY <1>5, <1>7, <2>1, HoldParts DEF NoHold, Promised
    <3> QED BY <3>1, <3>2, <3>3, <1>9, <2>1
  <2>2. CASE c.qty # 0
    <3> DEFINE w == Writes(r.wrote, k, y)
    <3>1. q = [b EXCEPT !.wrote = Writes(b.wrote, k, y)]
      BY <2>2 DEF SetQuantity
    <3> HIDE DEF q, y
    <3>2. /\ q.todo = r.todo /\ q.rows = r.rows /\ q.excl = r.excl \cup {p} /\ q.delta = b.delta
          /\ q.wrote = w
      BY <1>9, <3>1
    <3>3. /\ w \in [DOMAIN r.wrote \cup {k} -> Hold] /\ w[k] = y
          /\ \A x \in DOMAIN r.wrote : x # k => w[x] = r.wrote[x]
      <4>1. r.wrote \in [DOMAIN r.wrote -> Hold]
        BY <1>2 DEF ProcessOK
      <4> HIDE DEF r, k
      <4> QED BY <1>10, <2>2, <4>1 DEF Writes
    <3>4. q \in [op : {q.op}, order : {q.order}, pc : Pcs, todo : Seq(Work), failed : BOOLEAN,
                 alone : BOOLEAN, rows : SUBSET Keys, share : SUBSET Positions,
                 excl : SUBSET Positions, wrote : {q.wrote}, delta : [Positions -> Int]]
      BY <1>9, <3>1
    <3> HIDE DEF w
    <3> QED BY <3>2, <3>3, <3>4, <1>10, <2>2
  <2> QED BY <2>1, <2>2
<1> HIDE DEF q
<1>12. DOMAIN q.wrote = DOMAIN r.wrote \cup {k} /\ q.wrote \in [DOMAIN q.wrote -> Hold] /\ q.wrote[k] \in Hold
  BY <1>11
<1>13. ProcessOK(q)
  <2>1. DOMAIN q.wrote \subseteq q.rows
    BY <1>2, <1>5, <1>11, <1>12 DEF ProcessOK
  <2> QED BY <2>1, <1>11, <1>12 DEF ProcessOK
<1>14. DoneWith(held, q)
  <2>1. \A n \in DOMAIN q.todo : n > 1 => q.todo[n].key \notin q.rows
    BY <1>2, <1>11 DEF TodoFits
  <2>2. \A x \in q.rows \ DOMAIN q.wrote : held[x] # NoHold
    BY <1>2, <1>11, <1>12 DEF LocksFit
  <2>3. \A x \in DOMAIN q.wrote : x[3] \in q.excl
    BY <1>2, <1>6, <1>11, <1>12 DEF LocksFit
  <2> QED BY <1>3, <1>4, <1>11, <1>13, <2>1, <2>2, <2>3 DEF DoneWith
<1>15. /\ Fits(held, d) /\ Counted(d) = DOMAIN q.wrote /\ d.wrote = q.wrote
       /\ d.rows = r.rows /\ d.excl = r.excl \cup {p} /\ d.delta = b.delta
  BY <1>11, <1>14, DoneFits
<1>16. proc' = [proc EXCEPT ![t] = d]
  BY <1>1 DEF StatementDone, Moves, Done
<1> HIDE DEF d
<1>17. Counts(r, d, k)
  BY <1>4, <1>6, <1>11, <1>12, <1>15 DEF Counts
<1>18. ~(Total(Publishing(held, d), KeysAt(p)) > Total(Publishing(held, r), KeysAt(p)))
  <2>1. Bookable(held, d)
    BY <1>2, <1>15 DEF Fits, ProcessOK, Bookable
  <2>2. Total(Publishing(held, d), KeysAt(p))
          = Total(Publishing(held, r), KeysAt(p)) + Promised(d.wrote[k]) - Promised(held[k])
    BY <1>2, <1>17, <2>1, OneMoreRow
  <2>3. Promised(d.wrote[k]) \in Nat /\ Promised(held[k]) \in Nat /\ Promised(d.wrote[k]) <= Promised(held[k])
    BY <1>7, <1>11, <1>12, <1>15, HoldParts, ConstantsAssumption
  <2>4. Total(Publishing(held, d), KeysAt(p)) \in Nat /\ Total(Publishing(held, r), KeysAt(p)) \in Nat
    BY <1>2, <2>1, BooksAreTotals
  <2> QED BY <2>2, <2>3, <2>4
<1>19. Kept(held, position, d)
  <2>1. d.delta = [r.delta EXCEPT ![p] = @ + (d.wrote[k].qty - held[k].qty)]
    BY <1>9, <1>11, <1>15
  <2> QED BY <1>15, <1>17, <1>18, <2>1, CountedKept
<1>20. ASSUME NEW u \in Procs \ {t} PROVE Apart(d, proc[u])
  <2>1. p \notin proc[u].excl
    BY <1>1, <1>3 DEF Free, Waits, Conflicts, At
  <2> QED BY <2>1, <1>15 DEF LedgerInv, LocksApart, Apart
<1> HIDE DEF r, c, k, p
<1> QED BY <1>1, <1>16, <1>19, <1>20, UnchangedTypes, OwnStep

-----------------------------------------------------------------------------
(* Ends without a commit, and what only reads or writes other columns.          *)
LEMMA EndsHold ==
  ASSUME LedgerInv, NEW t \in Procs,
         DeadlockVictim(t) \/ StatementFails(t) \/ ProcessDies(t) \/ ClaimReservationConsume(t)
  PROVE  LedgerInv'
<1> USE DEF LedgerInv, StateOK
<1>1. CASE DeadlockVictim(t)
  <2>1. proc[t].todo # <<>>
    BY <1>1 DEF DeadlockVictim, Cycle, Deadlocked, Waits
  <2>2. Rollback(t, TRUE) /\ UNCHANGED <<position, held, closed, shipment, faults>>
    BY <1>1 DEF DeadlockVictim
  <2> QED BY <2>1, <2>2, UnchangedTypes, RollbackHolds
<1>2. CASE StatementFails(t)
  <2>1. faults' \in 0..MaxFaults
    BY <1>2, ConstantsAssumption DEF StatementFails, Fault
  <2>2. proc[t].todo # <<>> /\ Rollback(t, TRUE) /\ UNCHANGED <<position, held, closed, shipment>>
    BY <1>2 DEF StatementFails
  <2> QED BY <2>1, <2>2, RollbackHolds
<1>3. CASE ProcessDies(t)
  <2>1. faults' \in 0..MaxFaults
    BY <1>3, ConstantsAssumption DEF ProcessDies, Fault
  <2>2. proc' = [proc EXCEPT ![t] = Idle] /\ UNCHANGED <<position, held, closed, shipment>>
    BY <1>3 DEF ProcessDies, Moves
  <2>3. shipment' \in [Orders -> {"none", "dispatched", "marked"}]
    BY <2>2
  <2> QED BY <2>1, <2>2, <2>3, IdleFits, FreshStep
<1>4. CASE ClaimReservationConsume(t)
  <2>1. faults' \in 0..MaxFaults /\ shipment' \in [Orders -> {"none", "dispatched", "marked"}]
    BY <1>4 DEF ClaimReservationConsume
  <2>2. proc' = [proc EXCEPT ![t] = Idle] /\ UNCHANGED <<position, held, closed>>
    BY <1>4 DEF ClaimReservationConsume, Moves
  <2> QED BY <2>1, <2>2, IdleFits, FreshStep
<1> QED BY <1>1, <1>2, <1>3, <1>4

LEMMA DispatchHolds == ASSUME LedgerInv, NEW o \in Orders, Dispatch(o) PROVE LedgerInv'
<1>1. UNCHANGED <<position, held, closed, proc, faults>>
  BY DEF Dispatch
<1>2. shipment' \in [Orders -> {"none", "dispatched", "marked"}]
  BY DEF Dispatch, LedgerInv, StateOK
<1>3. StateOK'
  BY <1>1, <1>2 DEF LedgerInv, StateOK
<1> QED BY <1>1, <1>3 DEF LedgerInv, ProcsKept, LocksApart, CountersKept

(* A master sync waits for whoever counts a row of the position.                *)
LEMMA SyncStockHolds ==
  ASSUME LedgerInv, NEW p \in Positions, NEW n \in Levels, NEW stale \in BOOLEAN, SyncStock(p, n, stale)
  PROVE  LedgerInv'
<1>1. /\ \A u \in Procs : p \notin proc[u].excl
      /\ position' = [position EXCEPT ![p] = MasterColumns(p, n, stale)]
      /\ UNCHANGED <<held, closed, shipment, proc, faults>>
  BY DEF SyncStock, Conflicts
<1>2. position \in [Positions -> [available : Levels, reserved : Nat, stale : BOOLEAN]]
  BY DEF LedgerInv, StateOK
<1>3. /\ MasterColumns(p, n, stale) \in [available : Levels, reserved : Nat, stale : BOOLEAN]
      /\ MasterColumns(p, n, stale).reserved = position[p].reserved
  BY <1>2 DEF MasterColumns
<1>4. /\ position' \in [Positions -> [available : Levels, reserved : Nat, stale : BOOLEAN]]
      /\ \A s \in Positions : position'[s].reserved = position[s].reserved
      /\ \A s \in Positions : s # p => position'[s] = position[s]
  BY <1>1, <1>2, <1>3
<1>5. StateOK'
  BY <1>1, <1>4 DEF LedgerInv, StateOK
<1>6. ASSUME NEW t \in Procs PROVE Kept(held, position', proc[t])
  <2>1. Kept(held, position, proc[t]) /\ Fits(held, proc[t]) /\ Bookable(held, proc[t])
    BY InvParts
  <2>2. \A k \in Counted(proc[t]) : k[3] # p
    BY <1>1, <2>1 DEF Fits, LocksFit
  <2>3. Total(Publishing(held, proc[t]), KeysAt(p)) = Total(Published(held), KeysAt(p))
        /\ Total(Published(held), KeysAt(p)) \in Nat
    BY <2>1, <2>2, NothingCounted, BooksAreTotals
  <2>4. StockKept(held, position', proc[t])
    BY <1>4, <2>1, <2>3 DEF Kept, StockKept
  <2> QED BY <2>1, <2>4 DEF Kept
<1>7. ProcsKept'
  BY <1>1, <1>6 DEF ProcsKept
<1>8. LocksApart' /\ CountersKept'
  BY <1>1, <1>4 DEF LedgerInv, LocksApart, CountersKept
<1> QED BY <1>5, <1>7, <1>8 DEF LedgerInv

-----------------------------------------------------------------------------
(* A commit.  It changes no row that another transaction locks, and no counter  *)
(* that another transaction's account is about to change.                       *)
LEMMA FitsElsewhere ==
  ASSUME NEW h, NEW g, NEW r, Fits(h, r), \A k \in r.rows : g[k] = h[k]
  PROVE  Fits(g, r)
BY DEF Fits, StepFits, LocksFit, Moving

LEMMA CommitHolds ==
  ASSUME LedgerInv, NEW t \in Procs, Commit(t) PROVE LedgerInv'
<1> DEFINE r == proc[t]
           w == r.wrote
           q == IF r.op = "reserve" THEN Idle ELSE Following(r, FALSE)
<1>1. /\ r.pc = "commit"
      /\ held' = [k \in Keys |-> Seen(t, k)]
      /\ closed' = closed \cup {k \in DOMAIN w : w[k] = NoHold}
      /\ position' = [p \in Positions |-> [position[p] EXCEPT !.reserved = @ + r.delta[p]]]
      /\ proc' = [proc EXCEPT ![t] = q]
      /\ UNCHANGED <<shipment, faults>>
  BY DEF Commit, At, Moves, NextTransaction, Following
<1>2. /\ Kept(held, position, r) /\ Fits(held, r) /\ ProcessOK(r) /\ PcFits(r) /\ LocksFit(held, r)
      /\ Bookable(held, r)
  BY InvParts DEF Fits
<1>3. r.todo # <<>> /\ Counted(r) = DOMAIN w /\ DOMAIN w \subseteq r.rows /\ DOMAIN w \subseteq Keys
  BY <1>1, <1>2 DEF PcFits, Counted, Moving, ProcessOK
<1>4. /\ held' \in [Keys -> Hold]
      /\ \A k \in Keys : held'[k] = IF k \in DOMAIN w THEN w[k] ELSE held[k]
  BY <1>1, <1>2, <1>3 DEF Seen, Bookable
<1>5. \A p \in Positions : position'[p].reserved = Total(Quantity(held'), KeysAt(p))
  <2> SUFFICES ASSUME NEW p \in Positions PROVE position'[p].reserved = Total(Quantity(held'), KeysAt(p))
    OBVIOUS
  <2> DEFINE Q == Quantity(held)
             C == Change(held, r)
             E == Quantity(held')
  <2>1. \A k \in KeysAt(p) : Q[k] \in Int /\ C[k] \in Int
    BY <1>2, BooksAreNumbers, KeysAtFinite
  <2>2. \A k \in KeysAt(p) : E[k] = Q[k] + C[k]
    <3> TAKE k \in KeysAt(p)
    <3>1. k \in Keys
      BY KeysAtFinite
    <3>2. CASE k \in DOMAIN w
      <4>1. E[k] = w[k].qty /\ Q[k] = held[k].qty /\ C[k] = w[k].qty - held[k].qty
        BY <1>3, <1>4, <3>1, <3>2 DEF Quantity, Change
      <4>2. w[k].qty \in Int /\ held[k].qty \in Int
        BY <1>2, <3>1, <3>2, HoldParts, ConstantsAssumption DEF Bookable
      <4> HIDE DEF Q, C, E
      <4> QED BY <4>1, <4>2
    <3>3. CASE k \notin DOMAIN w
      <4>1. E[k] = held[k].qty /\ Q[k] = held[k].qty /\ C[k] = 0
        BY <1>3, <1>4, <3>1, <3>3 DEF Quantity, Change
      <4> HIDE DEF Q, C, E
      <4> QED BY <4>1, <2>1
    <3> QED BY <3>2, <3>3
  <2> HIDE DEF Q, C, E
  <2>3. Total(E, KeysAt(p)) = Total(Q, KeysAt(p)) + Total(C, KeysAt(p))
    BY <2>1, <2>2, KeysAtFinite, TotalAdds
  <2>4. position[p].reserved = Total(Q, KeysAt(p)) /\ r.delta[p] = Total(C, KeysAt(p))
    BY <1>2 DEF LedgerInv, CountersKept, Kept, AccountKept, Q, C
  <2>5. position'[p].reserved = position[p].reserved + r.delta[p]
    BY <1>1 DEF LedgerInv, StateOK
  <2> QED BY <2>3, <2>4, <2>5 DEF E
<1>6. position' \in [Positions -> [available : Levels, reserved : Nat, stale : BOOLEAN]]
      /\ \A p \in Positions : position'[p].available = position[p].available
  <2>1. Bookable(held', Idle)
    BY <1>4, IdleFits DEF Bookable, Fits, ProcessOK
  <2>2. \A p \in Positions : position'[p].reserved \in Nat
    BY <1>5, <2>1, BooksAreTotals
  <2>3. position \in [Positions -> [available : Levels, reserved : Nat, stale : BOOLEAN]]
    BY DEF LedgerInv, StateOK
  <2>4. ASSUME NEW p \in Positions
        PROVE  /\ position'[p] \in [available : Levels, reserved : Nat, stale : BOOLEAN]
               /\ position'[p].available = position[p].available
    <3>1. position'[p] = [position[p] EXCEPT !.reserved = position'[p].reserved]
      BY <1>1, <2>3
    <3> QED BY <2>2, <2>3, <3>1
  <2>5. position' = [p \in Positions |-> position'[p]]
    BY <1>1
  <2> QED BY <2>4, <2>5
<1>7. StateOK'
  <2>1. closed' \subseteq Keys
    BY <1>1, <1>3 DEF LedgerInv, StateOK
  <2>2. proc' = [u \in Procs |-> proc'[u]]
    BY <1>1 DEF LedgerInv, StateOK
  <2> QED BY <1>1, <1>4, <1>6, <2>1, <2>2 DEF LedgerInv, StateOK
<1>8. Fits(held', q) /\ Fresh(q)
  BY <1>2, <1>3, BackFits DEF Back
<1>9. Kept(held', position', q)
  <2>1. Bookable(held', q) /\ DOMAIN q.wrote = {} /\ \A p \in Positions : q.delta[p] = 0
    BY <1>4, <1>8 DEF Bookable, Fits, ProcessOK, Fresh
  <2> QED BY <1>8, <2>1, FreshBooks DEF Kept
<1>10. ASSUME NEW u \in Procs, u # t PROVE Kept(held', position', proc[u])
  <2> DEFINE s == proc[u]
  <2>1. Kept(held, position, s) /\ Fits(held, s) /\ Bookable(held, s) /\ ProcessOK(s) /\ LocksFit(held, s)
    BY InvParts DEF Fits
  <2>2. r.rows \cap s.rows = {} /\ r.excl \cap s.excl = {}
    BY <1>10 DEF LedgerInv, LocksApart, Apart
  <2>3. \A k \in s.rows : held'[k] = held[k]
    BY <1>3, <1>4, <2>1, <2>2 DEF ProcessOK
  <2>4. Fits(held', s) /\ Bookable(held', s)
    BY <1>4, <2>1, <2>3, FitsElsewhere DEF Bookable
  <2>5. \A k \in Counted(s) : held'[k] = held[k]
    BY <2>1, <2>3 DEF Counted, ProcessOK
  <2>6. AccountKept(held', s)
    <3>1. \A p \in Positions : Total(Change(held', s), KeysAt(p)) = Total(Change(held, s), KeysAt(p))
      BY <2>1, <2>4, <2>5, CommittedElsewhere
    <3> QED BY <2>1, <3>1 DEF Kept, AccountKept
  <2>7. ASSUME NEW p \in Positions,
               Total(Publishing(held', s), KeysAt(p)) > Total(Published(held'), KeysAt(p))
        PROVE  Total(Publishing(held', s), KeysAt(p)) <= position'[p].available
    <3>1. PICK x \in Counted(s) : x[3] = p
      <4>1. Total(Published(held'), KeysAt(p)) \in Nat
        BY <2>4, BooksAreTotals
      <4> QED BY <2>4, <2>7, <4>1, NothingCounted
    <3>2. p \notin r.excl
      BY <2>1, <2>2, <3>1 DEF LocksFit
    <3>3. \A k \in KeysAt(p) : k \in Keys /\ held'[k] = held[k]
      BY <1>2, <1>3, <1>4, <3>2 DEF LocksFit, KeysAt
    <3>4. \A k \in KeysAt(p) : /\ Published(held')[k] = Published(held)[k]
                               /\ Publishing(held', s)[k] = Publishing(held, s)[k]
      BY <3>3 DEF Published, Publishing
    <3>5. Total(Published(held'), KeysAt(p)) = Total(Published(held), KeysAt(p))
          /\ Total(Publishing(held', s), KeysAt(p)) = Total(Publishing(held, s), KeysAt(p))
      BY <3>4, KeysAtFinite, TotalAgrees
    <3> QED BY <1>6, <2>1, <2>7, <3>5 DEF Kept, StockKept
  <2>8. StockKept(held', position', s)
    BY <2>7 DEF StockKept
  <2> QED BY <2>4, <2>6, <2>8 DEF Kept
<1>11. proc' = [u \in Procs |-> IF u = t THEN q ELSE proc[u]]
  BY <1>1 DEF LedgerInv, StateOK
<1>12. ProcsKept'
  <2> HIDE DEF q
  <2> QED BY <1>9, <1>10, <1>11 DEF ProcsKept
<1>13. LocksApart'
  <2> HIDE DEF q
  <2>1. \A x : Apart(q, x) /\ Apart(x, q)
    BY <1>8 DEF Fresh, Apart
  <2> QED BY <1>11, <2>1 DEF LedgerInv, LocksApart
<1>14. CountersKept'
  BY <1>5 DEF CountersKept
<1> QED BY <1>7, <1>12, <1>13, <1>14 DEF LedgerInv

-----------------------------------------------------------------------------
(* The calls.                                                                   *)
LEMMA AloneKept ==
  ASSUME NEW h, NEW pos, NEW r, Kept(h, pos, r), NEW b \in BOOLEAN, r.pc = "idle" => b = r.alone
  PROVE  /\ Kept(h, pos, [r EXCEPT !.alone = b])
         /\ [r EXCEPT !.alone = b].rows = r.rows /\ [r EXCEPT !.alone = b].excl = r.excl
<1> DEFINE q == [r EXCEPT !.alone = b]
<1>1. Fits(h, r) /\ ProcessOK(r) /\ TodoFits(r) /\ PcFits(r) /\ StepFits(h, r) /\ LocksFit(h, r)
  BY DEF Kept, Fits
<1>2. /\ q.todo = r.todo /\ q.pc = r.pc /\ q.rows = r.rows /\ q.excl = r.excl
      /\ q.wrote = r.wrote /\ q.delta = r.delta
  BY <1>1 DEF ProcessOK
<1>3. ProcessOK(q)
  BY <1>1 DEF ProcessOK
<1>4. CASE r.pc = "idle"
  <2>1. q = r
    BY <1>1, <1>4 DEF ProcessOK
  <2> QED BY <2>1
<1>5. CASE r.pc # "idle"
  <2> HIDE DEF q
  <2>1. TodoFits(q) /\ PcFits(q)
    BY <1>1, <1>2, <1>5 DEF TodoFits, PcFits
  <2>2. Counted(q) = Counted(r)
    BY <1>2 DEF Counted
  <2>3. StepFits(h, q) /\ LocksFit(h, q)
    BY <1>1, <1>2, <2>2 DEF StepFits, LocksFit
  <2>4. AccountKept(h, q) /\ StockKept(h, pos, q)
    BY <1>2, <2>2, SameBooks DEF Kept
  <2>5. Kept(h, pos, q)
    BY <1>3, <2>1, <2>3, <2>4 DEF Kept, Fits
  <2> QED BY <1>2, <2>5 DEF q
<1> QED BY <1>4, <1>5

(* The items of a call.                                                         *)
Asked(S) == Items(S) /\ S \subseteq Work /\ \A a \in S : a.qty > 0 => a.stamp \in Stamps

(* What a call claims is open, a reserve only claims, and a consumption lists   *)
(* every row of its order.                                                      *)
Open(h, cl, op, k) == IF op = "reserve" THEN \A e \in cl : LineOf(e) # LineOf(k) ELSE h[k] # NoHold
Wanted(op, o, items) ==
  /\ Asked(items) /\ \A a \in items : a.key[1] = o
  /\ \A a \in items : a.qty > 0 => Open(held, closed, op, a.key)
  /\ op = "reserve" => \A a \in items : a.qty > 0
  /\ op = "consume" => /\ \A a \in items : a.qty = 0
                       /\ \A k \in HeldOf(o) : \E a \in items : a.key = k

LEMMA ListedFits == ASSUME NEW S, Asked(S) PROVE ItemsFit(ByPosition(S))
<1> DEFINE L == ByPosition(S)
<1>1. /\ L \in Seq(S) /\ \A m, n \in DOMAIN L : m # n => L[m] # L[n]
  BY Listed DEF Asked
<1>2. L \in Seq(Work)
  BY <1>1 DEF Asked
<1>3. \A n \in DOMAIN L : L[n] \in S
  BY <1>1
<1> HIDE DEF L
<1>4. \A m, n \in DOMAIN L : m # n => L[m].key # L[n].key
  BY <1>1, <1>3 DEF Asked, Items
<1>5. ItemsFit(L)
  BY <1>2, <1>3, <1>4 DEF ItemsFit, Asked
<1> QED BY <1>5 DEF L

LEMMA BeginHolds ==
  ASSUME LedgerInv, NEW t \in Procs, NEW op, NEW o \in Orders, NEW items, Asked(items), Begin(t, op, o, items),
         UNCHANGED <<position, held, closed, shipment, faults>>
  PROVE  LedgerInv'
<1> DEFINE others == {u \in Procs \ {t} : proc[u].order = o}
           r == [Idle EXCEPT !.op = op, !.order = o, !.alone = others = {}]
           q == Ended(AfterItem(r, ByPosition(items)))
           beside(u) == [proc[u] EXCEPT !.alone = @ /\ u \notin others]
<1>1. proc' = [u \in Procs |-> IF u = t THEN q ELSE beside(u)]
  BY DEF Begin
<1>2. Fits(held, q) /\ Fresh(q)
  <2>1. Blank(r)
    <3>1. (others = {}) \in BOOLEAN /\ FALSE \in BOOLEAN
      OBVIOUS
    <3> HIDE DEF others
    <3> QED BY <3>1, BlankStarts
  <2> HIDE DEF r
  <2> QED BY <2>1, ListedFits, BeginFits
<1> HIDE DEF q
<1>3. Kept(held, position, q) /\ \A x : Apart(q, x) /\ Apart(x, q)
  <2>1. \A x : Apart(x, q)
    BY <1>2 DEF Apart, Fresh
  <2> QED BY <1>2, <2>1, FreshKept
<1>4. ASSUME NEW u \in Procs \ {t}
      PROVE  /\ Kept(held, position, beside(u))
             /\ beside(u).rows = proc[u].rows /\ beside(u).excl = proc[u].excl
  <2> DEFINE b == proc[u].alone /\ u \notin others
  <2>1. Kept(held, position, proc[u]) /\ Fits(held, proc[u])
    BY InvParts
  <2>2. proc[u].alone \in BOOLEAN /\ b \in BOOLEAN
    BY <2>1 DEF Fits, ProcessOK
  <2>3. proc[u].pc = "idle" => b = proc[u].alone
    <3>1. proc[u].pc = "idle" => proc[u].order = "none"
      BY <2>1 DEF Fits, PcFits, Idle
    <3>2. proc[u].pc = "idle" => u \notin others
      BY <3>1, ConstantsAssumption
    <3> HIDE DEF others
    <3> QED BY <2>2, <3>2
  <2>4. beside(u) = [proc[u] EXCEPT !.alone = b]
    OBVIOUS
  <2> HIDE DEF b, beside
  <2> QED BY <2>1, <2>2, <2>3, <2>4, AloneKept
<1> HIDE DEF beside
<1>5. StateOK'
  BY <1>1 DEF LedgerInv, StateOK
<1>6. ProcsKept'
  BY <1>1, <1>3, <1>4 DEF ProcsKept
<1>7. LocksApart'
  <2>1. ASSUME NEW v \in Procs, NEW u \in Procs, v # u PROVE Apart(proc'[v], proc'[u])
    <3>1. CASE v = t \/ u = t
      BY <3>1, <1>1, <1>3
    <3>2. CASE v # t /\ u # t
      <4>1. Apart(proc[v], proc[u])
        BY <2>1 DEF LedgerInv, LocksApart
      <4>2. proc'[v] = beside(v) /\ proc'[u] = beside(u)
        BY <1>1, <3>2
      <4> QED BY <1>4, <3>2, <4>1, <4>2 DEF Apart
    <3> QED BY <3>1, <3>2
  <2> QED BY <2>1 DEF LocksApart
<1>8. CountersKept'
  BY DEF LedgerInv, CountersKept
<1> QED BY <1>5, <1>6, <1>7, <1>8 DEF LedgerInv

LEMMA ReserveWanted ==
  ASSUME LedgerInv, NEW t \in Procs, NEW o \in Orders, NEW asked \in [Lines -> 1..MaxQty], NEW stamp \in Stamps,
         ReserveForOrder(t, o, asked, stamp)
  PROVE  \E items : Wanted("reserve", o, items) /\ Begin(t, "reserve", o, items)
<1> DEFINE P(l) == CHOOSE p \in LivePositions(o, l) : TRUE
           K == [l \in Claimable(o) |-> <<o, l, P(l)>>]
           f == [l \in Claimable(o) |-> [key |-> K[l], qty |-> asked[l], stamp |-> stamp]]
           items == {f[l] : l \in Claimable(o)}
<1>1. Claimable(o) \subseteq Lines /\ IsFiniteSet(Claimable(o))
  BY ConstantsAssumption, FS_Subset DEF Claimable
<1>2. ASSUME NEW l \in Claimable(o)
      PROVE  K[l] \in Keys /\ K[l][1] = o /\ K[l][2] = l
  <2>1. LivePositions(o, l) # {}
    BY FS_EmptySet DEF Claimable
  <2>2. P(l) \in LivePositions(o, l)
    BY <2>1
  <2>3. l \in Lines /\ P(l) \in Stock[<<o, l>>]
    BY <1>1, <2>2 DEF LivePositions
  <2>4. Stock[<<o, l>>] \in SUBSET Positions
    BY <2>3, ConstantsAssumption
  <2>5. K[l] = <<o, l, P(l)>>
    OBVIOUS
  <2> HIDE DEF P, K
  <2> QED BY <2>3, <2>4, <2>5 DEF Keys, LineOf
<1> HIDE DEF P
<1>3. Begin(t, "reserve", o, items)
  <2>1. items = {[key |-> <<o, l, P(l)>>, qty |-> asked[l], stamp |-> stamp] : l \in Claimable(o)}
    OBVIOUS
  <2> HIDE DEF items
  <2> QED BY <2>1 DEF ReserveForOrder, P
<1> HIDE DEF K
<1>4. \A l \in Claimable(o) : f[l] = [key |-> K[l], qty |-> asked[l], stamp |-> stamp]
  OBVIOUS
<1>5. IsFiniteSet(items)
  <2>1. DOMAIN f = Claimable(o) /\ f = [l \in Claimable(o) |-> f[l]]
    OBVIOUS
  <2> HIDE DEF f
  <2> QED BY <1>1, <2>1, ImageIsFinite
<1> HIDE DEF f
<1>6. \A l \in Claimable(o) : /\ f[l] \in Work /\ f[l].key = K[l] /\ f[l].stamp = stamp /\ f[l].qty > 0
  <2> TAKE l \in Claimable(o)
  <2>1. l \in Lines
    BY <1>1
  <2>2. asked[l] \in 1..MaxQty
    BY <2>1
  <2>3. asked[l] \in 0..MaxQty
    BY <2>2, ConstantsAssumption
  <2> DEFINE k == K[l]
             n == asked[l]
  <2>4. f[l] = [key |-> k, qty |-> n, stamp |-> stamp]
    BY <1>4
  <2>5. k \in Keys /\ n \in 0..MaxQty /\ n > 0
    BY <1>2, <2>2, <2>3
  <2> HIDE DEF k, n
  <2>6. f[l] \in Work /\ f[l].key = k /\ f[l].stamp = stamp /\ f[l].qty > 0
    BY <2>4, <2>5 DEF Work
  <2> QED BY <2>6 DEF k
<1>7. Items(items)
  <2>1. \A a \in items : a.key \in Keys
    BY <1>2, <1>6
  <2>2. ASSUME NEW a \in items, NEW b \in items, a # b PROVE a.key # b.key /\ a.key[1] = b.key[1]
    <3>1. PICK l \in Claimable(o) : a = f[l]
      OBVIOUS
    <3>2. PICK m \in Claimable(o) : b = f[m]
      OBVIOUS
    <3>3. l # m
      BY <2>2, <3>1, <3>2
    <3> QED BY <1>2, <1>6, <3>1, <3>2, <3>3
  <2> QED BY <1>5, <2>1, <2>2 DEF Items
<1>8. Asked(items)
  BY <1>6, <1>7 DEF Asked
<1>9. \A a \in items : a.key[1] = o
  BY <1>2, <1>6
<1>10. \A l \in Claimable(o) : Open(held, closed, "reserve", K[l])
  <2> SUFFICES ASSUME NEW l \in Claimable(o), NEW e \in closed PROVE LineOf(e) # LineOf(K[l])
    BY DEF Open
  <2>1. LineOf(K[l]) = <<o, l>>
    BY <1>2 DEF LineOf
  <2> QED BY <2>1 DEF Claimable, AlreadyClosed
<1>11. \A a \in items : a.qty > 0 /\ Open(held, closed, "reserve", a.key)
  BY <1>6, <1>10
<1> HIDE DEF items
<1> QED BY <1>3, <1>8, <1>9, <1>11 DEF Wanted

(* The calls that list held rows: an item for each of them.                     *)
LEMMA OfRowsAsked ==
  ASSUME NEW o, NEW rows, rows \subseteq Keys, \A k \in rows : k[1] = o,
         NEW f, DOMAIN f = rows, f = [k \in rows |-> f[k]],
         \A k \in rows : f[k] \in Work /\ f[k].key = k /\ (f[k].qty > 0 => f[k].stamp \in Stamps)
  PROVE  Asked({f[k] : k \in rows})
<1>1. IsFiniteSet({f[k] : k \in rows})
  <2>1. IsFiniteSet(rows)
    BY KeysAreFinite, FS_Subset
  <2> QED BY <2>1, ImageIsFinite
<1> QED BY <1>1 DEF Asked, Items

LEMMA NarrowWanted ==
  ASSUME LedgerInv, NEW t \in Procs, NEW o \in Orders, NEW target \in [Lines -> 0..MaxQty],
         NarrowForOrder(t, o, target)
  PROVE  \E items : Wanted("lower", o, items) /\ Begin(t, "lower", o, items)
<1> DEFINE rows == {k \in HeldOf(o) : target[k[2]] < held[k].qty}
           f == [k \in rows |-> IF target[k[2]] = 0 THEN Release(k)
                                ELSE [key |-> k, qty |-> target[k[2]], stamp |-> held[k].stamp]]
<1>1. Begin(t, "lower", o, {f[k] : k \in rows})
  <2>1. {f[k] : k \in rows} = {IF target[k[2]] = 0 THEN Release(k)
                                ELSE [key |-> k, qty |-> target[k[2]], stamp |-> held[k].stamp] : k \in rows}
    OBVIOUS
  <2> HIDE DEF f
  <2> QED BY <2>1 DEF NarrowForOrder
<1>2. ASSUME NEW k \in rows
      PROVE  /\ k \in Keys /\ k[1] = o /\ held[k] # NoHold /\ f[k] \in Work /\ f[k].key = k
             /\ f[k].qty > 0 => f[k].stamp \in Stamps
  <2>1. k \in Keys /\ k[1] = o /\ held[k] # NoHold /\ held[k] \in Hold /\ target[k[2]] \in 0..MaxQty
    BY KeyParts DEF HeldOf, LedgerInv, StateOK
  <2>2. held[k].stamp \in Stamps
    BY <2>1, HoldParts
  <2>3. f[k] \in [key : {k}, qty : 0..MaxQty, stamp : Stamps \cup {"none"}]
        /\ (f[k].qty > 0 => f[k].stamp \in Stamps)
    BY <2>1, <2>2, ConstantsAssumption DEF Release
  <2> HIDE DEF f
  <2> QED BY <2>1, <2>3 DEF Work
<1>3. DOMAIN f = rows /\ f = [k \in rows |-> f[k]]
  OBVIOUS
<1> HIDE DEF f, rows
<1>4. Asked({f[k] : k \in rows}) /\ \A a \in {f[k] : k \in rows} : a.key[1] = o
  <2>1. rows \subseteq Keys /\ \A k \in rows : k[1] = o
    BY <1>2
  <2>2. \A k \in rows : f[k] \in Work /\ f[k].key = k /\ (f[k].qty > 0 => f[k].stamp \in Stamps)
    BY <1>2
  <2>3. \A a \in {f[k] : k \in rows} : a.key[1] = o
    BY <1>2
  <2>4. Asked({f[k] : k \in rows})
    BY <1>3, <2>1, <2>2, OfRowsAsked
  <2> QED BY <2>3, <2>4
<1>5. \A a \in {f[k] : k \in rows} : Open(held, closed, "lower", a.key)
  BY <1>2 DEF Open
<1> QED BY <1>1, <1>4, <1>5 DEF Wanted

LEMMA CloseWanted ==
  ASSUME NEW t \in Procs, NEW op \in {"lower", "consume"}, NEW o \in Orders, NEW lines,
         op = "consume" => lines = Lines, CloseForOrder(t, op, o, lines)
  PROVE  \E items : Wanted(op, o, items) /\ Begin(t, op, o, items)
<1> DEFINE rows == {h \in HeldOf(o) : h[2] \in lines}
           f == [k \in rows |-> Release(k)]
<1>1. Begin(t, op, o, {f[k] : k \in rows})
  <2>1. {f[k] : k \in rows} = {Release(k) : k \in rows}
    OBVIOUS
  <2> HIDE DEF f
  <2> QED BY <2>1 DEF CloseForOrder
<1>2. ASSUME NEW k \in rows
      PROVE  /\ k \in Keys /\ k[1] = o /\ f[k] \in Work /\ f[k].key = k
             /\ f[k].qty > 0 => f[k].stamp \in Stamps
             /\ f[k].qty = 0
  BY ConstantsAssumption DEF HeldOf, Release, Work
<1>3. op = "consume" => rows = HeldOf(o)
  BY KeyParts DEF HeldOf
<1>4. DOMAIN f = rows /\ f = [k \in rows |-> f[k]]
  OBVIOUS
<1> HIDE DEF f, rows
<1>5. Asked({f[k] : k \in rows}) /\ \A a \in {f[k] : k \in rows} : a.key[1] = o
  <2>1. rows \subseteq Keys /\ \A k \in rows : k[1] = o
    BY <1>2
  <2>2. \A k \in rows : f[k] \in Work /\ f[k].key = k /\ (f[k].qty > 0 => f[k].stamp \in Stamps)
    BY <1>2
  <2>3. \A a \in {f[k] : k \in rows} : a.key[1] = o
    BY <1>2
  <2>4. Asked({f[k] : k \in rows})
    BY <1>4, <2>1, <2>2, OfRowsAsked
  <2> QED BY <2>3, <2>4
<1>6. \A a \in {f[k] : k \in rows} : a.qty = 0
  BY <1>2
<1>7. \A k \in rows : \E a \in {f[x] : x \in rows} : a.key = k
  BY <1>2
<1> DEFINE items == {f[k] : k \in rows}
<1>8. \A a \in items : ~(a.qty > 0)
  BY <1>6
<1> HIDE DEF items
<1>9. Wanted(op, o, items)
  BY <1>3, <1>5, <1>6, <1>7, <1>8 DEF Wanted, items
<1> QED BY <1>1, <1>9 DEF items

LEMMA CallWanted ==
  ASSUME LedgerInv, NEW t \in Procs, NEW o \in Orders, Call(t, o)
  PROVE  /\ \E op : \E items : Wanted(op, o, items) /\ Begin(t, op, o, items)
         /\ UNCHANGED <<position, held, closed, shipment, faults>>
<1>1. ASSUME NEW asked \in [Lines -> 1..MaxQty], NEW stamp \in Stamps, ReserveForOrder(t, o, asked, stamp)
      PROVE  \E items : Wanted("reserve", o, items) /\ Begin(t, "reserve", o, items)
  BY <1>1, ReserveWanted
<1>2. ASSUME NEW target \in [Lines -> 0..MaxQty], NarrowForOrder(t, o, target)
      PROVE  \E items : Wanted("lower", o, items) /\ Begin(t, "lower", o, items)
  BY <1>2, NarrowWanted
<1>3. ASSUME NEW lines \in SUBSET Lines, CloseLines(t, o, lines)
      PROVE  \E items : Wanted("lower", o, items) /\ Begin(t, "lower", o, items)
  BY <1>3, CloseWanted DEF CloseLines
<1>4. ASSUME ConsumeShipment(t, o)
      PROVE  \E items : Wanted("consume", o, items) /\ Begin(t, "consume", o, items)
  BY <1>4, CloseWanted DEF ConsumeShipment
<1>5. UNCHANGED <<position, held, closed, shipment, faults>>
  BY DEF Call, ReserveForOrder, NarrowForOrder, CloseLines, ConsumeShipment
<1> QED BY <1>1, <1>2, <1>3, <1>4, <1>5 DEF Call

LEMMA NextHolds == ASSUME LedgerInv, [Next]_vars PROVE LedgerInv'
<1>1. CASE UNCHANGED vars
  BY <1>1 DEF vars, LedgerInv, StateOK, ProcsKept, LocksApart, CountersKept
<1>2. ASSUME NEW t \in Procs, NEW o \in Orders, Call(t, o) PROVE LedgerInv'
  BY <1>2, CallWanted, BeginHolds DEF Wanted
<1>3. ASSUME NEW t \in Procs,
             \/ Insert(t) \/ SelectForUpdate(t) \/ LockForAdd(t) \/ GuardedAdd(t)
             \/ FlipTerminal(t) \/ LowerCounter(t) \/ Commit(t) \/ ClaimReservationConsume(t)
             \/ DeadlockVictim(t) \/ StatementFails(t) \/ ProcessDies(t)
      PROVE  LedgerInv'
  BY <1>3, InsertHolds, SelectForUpdateHolds, LockForAddHolds, GuardedAddHolds,
     FlipTerminalHolds, LowerCounterHolds, CommitHolds, EndsHold
<1>4. ASSUME NEW p \in Positions, NEW n \in Levels, NEW stale \in BOOLEAN, SyncStock(p, n, stale)
      PROVE  LedgerInv'
  BY <1>4, SyncStockHolds
<1>5. ASSUME NEW o \in Shipped, Dispatch(o) PROVE LedgerInv'
  BY <1>5, ConstantsAssumption, DispatchHolds
<1> QED BY <1>1, <1>2, <1>3, <1>4, <1>5 DEF Next

LEMMA InvHolds == Spec => []LedgerInv
BY InitHolds, NextHolds, PTL DEF Spec

-----------------------------------------------------------------------------
(* The sums that the properties are about.                                      *)
LEMMA HeldIsTotal ==
  ASSUME NEW h, h \in [Keys -> Hold], NEW p
  PROVE  /\ MapThenSumSet(LAMBDA k : h[k].qty, {k \in Keys : k[3] = p /\ h[k].stamp \in Stamps})
              = Total(Quantity(h), KeysAt(p))
         /\ MapThenSumSet(LAMBDA k : h[k].qty, {k \in Keys : k[3] = p /\ h[k].stamp \in {"published"}})
              = Total(Published(h), KeysAt(p))
<1> DEFINE A == {k \in Keys : k[3] = p /\ h[k].stamp \in Stamps}
           B == {k \in Keys : k[3] = p /\ h[k].stamp \in {"published"}}
           f == [k \in A |-> h[k].qty]
           g == [k \in B |-> h[k].qty]
<1>1. A \subseteq KeysAt(p) /\ B \subseteq KeysAt(p) /\ IsFiniteSet(A) /\ IsFiniteSet(B)
  <2>1. A \subseteq KeysAt(p) /\ B \subseteq KeysAt(p)
    BY DEF KeysAt
  <2> QED BY <2>1, KeysAtFinite, FS_Subset
<1>2. /\ MapThenSumSet(LAMBDA k : h[k].qty, A) = Total(f, A)
      /\ MapThenSumSet(LAMBDA k : h[k].qty, B) = Total(g, B)
  BY <1>1, SumOfRows
<1>3. ASSUME NEW k \in KeysAt(p)
      PROVE  /\ Quantity(h)[k] \in Int /\ Published(h)[k] \in Int
             /\ k \in A => f[k] = Quantity(h)[k]
             /\ k \in B => g[k] = Published(h)[k]
             /\ k \notin A => Quantity(h)[k] = 0
             /\ k \notin B => Published(h)[k] = 0
  <2>1. k \in Keys /\ k[3] = p /\ h[k] \in Hold
    BY DEF KeysAt
  <2>2. Quantity(h)[k] = h[k].qty /\ Published(h)[k] = Promised(h[k])
    BY <2>1 DEF Quantity, Published
  <2>3. h[k].qty \in Int /\ Promised(h[k]) \in Int
    BY <2>1, HoldParts, ConstantsAssumption
  <2>4. k \notin A => h[k].qty = 0
    <3>1. h[k] # NoHold => h[k].stamp \in Stamps
      BY <2>1, HoldParts
    <3> QED BY <2>1, <3>1 DEF NoHold
  <2>5. k \notin B => Promised(h[k]) = 0
    BY <2>1 DEF Promised
  <2>6. k \in B => Promised(h[k]) = h[k].qty
    BY DEF Promised
  <2>7. (k \in A => f[k] = h[k].qty) /\ (k \in B => g[k] = h[k].qty)
    OBVIOUS
  <2> HIDE DEF A, B, f, g
  <2> QED BY <2>2, <2>3, <2>4, <2>5, <2>6, <2>7
<1> HIDE DEF A, B, f, g
<1>4. Total(f, A) = Total(Quantity(h), A) /\ Total(g, B) = Total(Published(h), B)
  <2>1. (\A k \in A : f[k] = Quantity(h)[k]) /\ (\A k \in B : g[k] = Published(h)[k])
    BY <1>1, <1>3
  <2> QED BY <2>1, <1>1, TotalAgrees
<1>5. Total(Quantity(h), A) = Total(Quantity(h), KeysAt(p)) /\ Total(Published(h), B) = Total(Published(h), KeysAt(p))
  <2>1. /\ \A k \in KeysAt(p) : Quantity(h)[k] \in Int /\ Published(h)[k] \in Int
        /\ \A k \in KeysAt(p) \ A : Quantity(h)[k] = 0
        /\ \A k \in KeysAt(p) \ B : Published(h)[k] = 0
    BY <1>3
  <2> QED BY <2>1, <1>1, KeysAtFinite, TotalOfSome
<1> QED BY <1>2, <1>4, <1>5 DEF A, B

LEMMA HeldNow ==
  ASSUME LedgerInv, NEW p
  PROVE  /\ Held(p, Stamps) = Total(Quantity(held), KeysAt(p))
         /\ Held(p, {"published"}) = Total(Published(held), KeysAt(p))
BY HeldIsTotal DEF Held, LedgerInv, StateOK

LEMMA HeldNext ==
  ASSUME LedgerInv', NEW p
  PROVE  Held(p, {"published"})' = Total(Published(held'), KeysAt(p))
<1> DEFINE B == {k \in Keys : k[3] = p /\ held'[k].stamp \in {"published"}}
<1>1. Held(p, {"published"})' = MapThenSumSet(LAMBDA k : held'[k].qty, B)
  BY Zenon DEF Held, MapThenSumSet, MapThenFoldSet
<1>2. held' \in [Keys -> Hold]
  BY DEF LedgerInv, StateOK
<1>3. MapThenSumSet(LAMBDA k : held'[k].qty, B) = Total(Published(held'), KeysAt(p))
  BY <1>2, HeldIsTotal
<1> QED BY <1>1, <1>3

LEMMA OnlyCommitsHold ==
  ASSUME [Next]_vars, held' # held
  PROVE  \E t \in Procs : Commit(t)
<1>1. \A t \in Procs, o \in Orders : ~Call(t, o)
  BY DEF Call, ReserveForOrder, NarrowForOrder, CloseLines, ConsumeShipment
<1>2. \A t \in Procs : ~(Insert(t) \/ SelectForUpdate(t) \/ LockForAdd(t) \/ GuardedAdd(t)
                         \/ FlipTerminal(t) \/ LowerCounter(t))
  BY DEF Insert, SelectForUpdate, LockForAdd, GuardedAdd, FlipTerminal, LowerCounter
<1>3. \A t \in Procs : ~(ClaimReservationConsume(t) \/ DeadlockVictim(t) \/ StatementFails(t) \/ ProcessDies(t))
  BY DEF ClaimReservationConsume, DeadlockVictim, StatementFails, ProcessDies
<1>4. /\ \A p \in Positions, n \in Levels, stale \in BOOLEAN : ~SyncStock(p, n, stale)
      /\ \A o \in Shipped : ~Dispatch(o)
      /\ ~UNCHANGED vars
  BY DEF SyncStock, Dispatch, vars
<1> QED BY <1>1, <1>2, <1>3, <1>4 DEF Next

(* Whatever runs beside what, fails or dies, the counter of a position is the   *)
(* sum of the reservations held on it: the counter and the rows are written in  *)
(* one transaction, under the locks of both.                                    *)
THEOREM CounterIsLedger == Spec => []CounterMatchesLedger
<1>1. LedgerInv => CounterMatchesLedger
  BY HeldNow DEF LedgerInv, CountersKept, CounterMatchesLedger
<1> QED BY <1>1, InvHolds, PTL

(* Two claims that run together cannot both take the last unit: a commit that   *)
(* raises what is promised of a position leaves it within the stock there is.   *)
THEOREM StockIsNotOverbooked == Spec => AdmitsWithinStock
<1>1. ASSUME LedgerInv, LedgerInv', [Next]_vars, NEW p \in Positions,
             Held(p, {"published"})' > Held(p, {"published"})
      PROVE  Held(p, {"published"})' <= position[p].available
  <2>1. Total(Published(held'), KeysAt(p)) > Total(Published(held), KeysAt(p))
    BY <1>1, HeldNow, HeldNext
  <2>2. held' # held
    <3> SUFFICES ASSUME held' = held PROVE FALSE
      OBVIOUS
    <3>1. Total(Published(held), KeysAt(p)) > Total(Published(held), KeysAt(p))
      BY <2>1
    <3>2. Total(Published(held), KeysAt(p)) \in Nat
      <4>1. Bookable(held, Idle)
        BY <1>1, IdleFits DEF Bookable, Fits, ProcessOK, LedgerInv, StateOK
      <4> QED BY <4>1, BooksAreTotals
    <3> QED BY <3>1, <3>2
  <2>3. PICK t \in Procs : Commit(t)
    BY <1>1, <2>2, OnlyCommitsHold
  <2>4. Kept(held, position, proc[t]) /\ Bookable(held, proc[t])
    BY <1>1, InvParts
  <2>5. Published(held') = Publishing(held, proc[t])
    <3>1. held' = [k \in Keys |-> Seen(t, k)] /\ Counted(proc[t]) = DOMAIN proc[t].wrote
      BY <2>3 DEF Commit, At, Counted, Moving
    <3>2. \A k \in Keys : held'[k] = IF k \in Counted(proc[t]) THEN proc[t].wrote[k] ELSE held[k]
      BY <3>1 DEF Seen
    <3> QED BY <3>2 DEF Published, Publishing
  <2>6. Total(Published(held'), KeysAt(p)) <= position[p].available
    BY <2>1, <2>4, <2>5 DEF Kept, StockKept
  <2> QED BY <1>1, <2>6, HeldNext
<1>2. LedgerInv /\ LedgerInv' /\ [Next]_vars =>
        [\A p \in Positions : Held(p, {"published"})' > Held(p, {"published"}) =>
           Held(p, {"published"})' <= position[p].available]_vars
  BY <1>1
<1> QED BY <1>2, InvHolds, PTL DEF Spec, AdmitsWithinStock

(* The variables have their types in every reachable state.                     *)
THEOREM LedgerTypeCorrect == Spec => []TypeOK
<1>1. LedgerInv => TypeOK
  <2> SUFFICES ASSUME LedgerInv PROVE TypeOK
    OBVIOUS
  <2>1. ASSUME NEW t \in Procs
        PROVE  /\ proc[t].todo \in Seq(Work)
               /\ proc[t].wrote \in [DOMAIN proc[t].wrote -> Hold]
               /\ DOMAIN proc[t].wrote \subseteq proc[t].rows
               /\ proc[t].rows \subseteq Keys
               /\ proc[t].share \cup proc[t].excl \subseteq Positions
               /\ proc[t].alone \in BOOLEAN
               /\ At(t, "idle") => proc[t] = Idle
    BY InvParts DEF Fits, ProcessOK, PcFits, At
  <2> QED BY <2>1 DEF TypeOK, LedgerInv, StateOK
<1> QED BY <1>1, InvHolds, PTL

-----------------------------------------------------------------------------
(* Calls.  What a call does is about its own order; it locks the positions in   *)
(* their sequence; and while it has the order to itself, what it claims is open *)
(* and what it still has to release is all there is.                            *)
OrderFits(r) ==
  /\ r.pc # "idle" => r.order \in Orders
  /\ \A k \in r.rows : k[1] = r.order
  /\ \A n \in DOMAIN r.todo : r.todo[n].key[1] = r.order

Sorted(r) ==
  /\ \A m, n \in DOMAIN r.todo : m < n => r.todo[m].key[3] <= r.todo[n].key[3]
  /\ \A p \in r.excl : \A n \in DOMAIN r.todo : p <= r.todo[n].key[3]

Flipped(r) == r.todo[1].key \in DOMAIN r.wrote /\ r.wrote[r.todo[1].key] = NoHold
ConsumeFits(r) ==
  /\ r.op = "consume" => \A n \in DOMAIN r.todo : r.todo[n].qty = 0
  /\ r.pc = "commit" /\ r.todo[1].qty = 0 => Flipped(r)
  /\ r.pc = "mark" => r.op = "consume" /\ ~r.failed

Covered(h, o, todo) ==
  \A k \in Keys : k[1] = o /\ h[k] # NoHold => \E n \in DOMAIN todo : todo[n].key = k

AloneFits(h, cl, r) ==
  /\ \A n \in DOMAIN r.todo : r.todo[n].qty > 0 => Open(h, cl, r.op, r.todo[n].key)
  /\ \A k \in DOMAIN r.wrote : r.wrote[k] # NoHold => Open(h, cl, r.op, k)
  /\ r.op = "consume" /\ ~r.failed => Covered(h, r.order, r.todo)

CallFits(h, cl, r) ==
  OrderFits(r) /\ Sorted(r) /\ ConsumeFits(r) /\ (r.alone => AloneFits(h, cl, r))

CallsKept == \A t \in Procs : CallFits(held, closed, proc[t])
CallsApart == \A t, u \in Procs :
  t # u /\ proc[t].alone /\ proc[t].pc # "idle" => proc[u].order # proc[t].order
CallsInv == CallsKept /\ CallsApart

LEMMA IdleCalls == ASSUME NEW h, NEW cl PROVE CallFits(h, cl, Idle) /\ Idle.order = "none" /\ Idle.pc = "idle"
<1>1. /\ Idle.pc = "idle" /\ Idle.todo = <<>> /\ Idle.rows = {} /\ Idle.excl = {} /\ Idle.wrote = <<>>
      /\ Idle.op = "none" /\ Idle.order = "none" /\ DOMAIN <<>> = {}
  BY DEF Idle
<1>2. OrderFits(Idle) /\ Sorted(Idle) /\ ConsumeFits(Idle)
  BY <1>1 DEF OrderFits, Sorted, ConsumeFits
<1>3. AloneFits(h, cl, Idle)
  BY <1>1 DEF AloneFits
<1> QED BY <1>1, <1>2, <1>3 DEF CallFits

(* A statement.                                                                 *)
SameCall(r, q) == q.op = r.op /\ q.order = r.order /\ q.alone = r.alone /\ q.failed = r.failed
Goes(r, q) ==
  /\ SameCall(r, q)
  /\ q.todo = r.todo \/ (r.op = "reserve" /\ q.todo = Tail(r.todo))
  /\ q.rows \subseteq r.rows \cup {r.todo[1].key}
  /\ q.excl \subseteq r.excl \cup {r.todo[1].key[3]}
  /\ \A k \in DOMAIN q.wrote : q.wrote[k] # NoHold =>
       \/ k \in DOMAIN r.wrote /\ r.wrote[k] # NoHold
       \/ k = r.todo[1].key /\ r.todo[1].qty > 0
  /\ q.pc \notin {"idle", "mark"}
  /\ q.pc = "commit" /\ q.todo[1].qty = 0 => Flipped(q)

LEMMA GoesFits ==
  ASSUME NEW h, NEW cl, NEW r, ItemsFit(r.todo), r.todo # <<>>, r.pc # "idle",
         CallFits(h, cl, r), NEW q, Goes(r, q)
  PROVE  CallFits(h, cl, q)
<1>1. /\ 1 \in DOMAIN r.todo
      /\ \A n \in DOMAIN Tail(r.todo) : n \in Nat /\ n + 1 \in DOMAIN r.todo /\ Tail(r.todo)[n] = r.todo[n + 1]
  BY ItemParts, RestFits DEF ItemsFit
<1>2. /\ \A n \in DOMAIN q.todo : \E m \in DOMAIN r.todo : q.todo[n] = r.todo[m]
      /\ \A n, m \in DOMAIN q.todo : n < m => q.todo[n].key[3] <= q.todo[m].key[3]
  <2>1. CASE q.todo = r.todo
    BY <2>1 DEF CallFits, Sorted
  <2>2. CASE q.todo = Tail(r.todo)
    <3>1. \A n, m \in DOMAIN Tail(r.todo) : n < m => n + 1 < m + 1
      BY <1>1
    <3> QED BY <1>1, <2>2, <3>1 DEF CallFits, Sorted
  <2> QED BY <2>1, <2>2 DEF Goes
<1>3. SameCall(r, q) /\ OrderFits(r) /\ Sorted(r) /\ ConsumeFits(r)
  BY DEF Goes, CallFits
<1>4. OrderFits(q)
  BY <1>1, <1>2, <1>3 DEF OrderFits, Goes, SameCall
<1>5. Sorted(q)
  <2>1. \A m \in DOMAIN r.todo : r.todo[1].key[3] <= r.todo[m].key[3]
    <3> TAKE m \in DOMAIN r.todo
    <3>1. r.todo[1].key[3] \in Nat /\ (m = 1 \/ 1 < m)
      <4>1. r.todo[1].key[3] \in Nat
        BY ItemParts, KeyParts
      <4>2. m \in 1..Len(r.todo) /\ Len(r.todo) \in Nat
        BY RestFits
      <4> QED BY <4>1, <4>2
    <3> QED BY <1>1, <1>3, <3>1 DEF Sorted
  <2>2. \A p \in q.excl : \A m \in DOMAIN r.todo : p <= r.todo[m].key[3]
    BY <1>3, <2>1 DEF Sorted, Goes
  <2> QED BY <1>2, <2>2 DEF Sorted
<1>6. ConsumeFits(q)
  BY <1>2, <1>3 DEF ConsumeFits, Goes, SameCall
<1>7. ASSUME q.alone PROVE AloneFits(h, cl, q)
  <2>1. AloneFits(h, cl, r)
    BY <1>3, <1>7 DEF CallFits, SameCall
  <2>2. r.op = "consume" => q.todo = r.todo
    BY DEF Goes
  <2>3. r.op = "consume" /\ ~r.failed => Covered(h, q.order, q.todo)
    BY <1>3, <2>1, <2>2 DEF AloneFits, SameCall
  <2>4. \A n \in DOMAIN q.todo : q.todo[n].qty > 0 => Open(h, cl, r.op, q.todo[n].key)
    BY <1>2, <2>1 DEF AloneFits
  <2>5. \A k \in DOMAIN q.wrote : q.wrote[k] # NoHold => Open(h, cl, r.op, k)
    BY <1>1, <2>1 DEF AloneFits, Goes
  <2> QED BY <1>3, <2>3, <2>4, <2>5 DEF AloneFits, SameCall
<1> QED BY <1>4, <1>5, <1>6, <1>7 DEF CallFits

(* A call begins, or goes on with its next transaction.                         *)
LEMMA StartedParts ==
  ASSUME NEW r, Blank(r), NEW todo
  PROVE  LET q == Ended(AfterItem(r, todo)) IN
         \/ q = Idle
         \/ /\ SameCall(r, q) /\ q.todo = todo /\ q.wrote = <<>> /\ q.rows = {} /\ q.excl = {}
            /\ q.pc \notin {"idle", "commit"} /\ (q.pc = "mark" => r.op = "consume" /\ ~r.failed)
<1> DEFINE a == AfterItem(r, todo)
<1>1. a = [r EXCEPT !.todo = todo, !.pc = a.pc]
  BY DEF AfterItem, Blank
<1>2. a.pc \notin {"commit"} /\ (a.pc = "mark" => r.op = "consume" /\ ~r.failed)
  BY DEF AfterItem, Blank, Entry, MayMark
<1> HIDE DEF a
<1>3. SameCall(r, a) /\ a.todo = todo /\ a.wrote = <<>> /\ a.rows = {} /\ a.excl = {}
  BY <1>1 DEF SameCall, Blank
<1> QED BY <1>2, <1>3 DEF Ended, a

LEMMA StartFits ==
  ASSUME NEW h, NEW cl, NEW r, Blank(r), r.order \in Orders, NEW todo,
         \A n \in DOMAIN todo : todo[n].key[1] = r.order,
         \A m, n \in DOMAIN todo : m < n => todo[m].key[3] <= todo[n].key[3],
         r.op = "consume" => \A n \in DOMAIN todo : todo[n].qty = 0,
         r.alone => /\ \A n \in DOMAIN todo : todo[n].qty > 0 => Open(h, cl, r.op, todo[n].key)
                    /\ r.op = "consume" /\ ~r.failed => Covered(h, r.order, todo)
  PROVE  CallFits(h, cl, Ended(AfterItem(r, todo)))
<1> DEFINE q == Ended(AfterItem(r, todo))
<1>1. CASE q = Idle
  BY <1>1, IdleCalls
<1>2. CASE q # Idle
  <2>1. /\ SameCall(r, q) /\ q.todo = todo /\ q.wrote = <<>> /\ q.rows = {} /\ q.excl = {}
        /\ q.pc \notin {"idle", "commit"} /\ (q.pc = "mark" => r.op = "consume" /\ ~r.failed)
        /\ DOMAIN <<>> = {}
    BY <1>2, StartedParts
  <2> HIDE DEF q
  <2>2. OrderFits(q) /\ Sorted(q) /\ ConsumeFits(q)
    BY <2>1 DEF OrderFits, Sorted, ConsumeFits, SameCall
  <2>3. q.alone => AloneFits(h, cl, q)
    BY <2>1 DEF AloneFits, SameCall
  <2>4. CallFits(h, cl, q)
    BY <2>2, <2>3 DEF CallFits
  <2> QED BY <2>4 DEF q
<1> QED BY <1>1, <1>2

(* What a transaction of a call must leave to the next.                         *)
Leaves(g, gl, r, failed) ==
  r.alone => /\ \A n \in DOMAIN r.todo : n > 1 /\ r.todo[n].qty > 0 => Open(g, gl, r.op, r.todo[n].key)
             /\ r.op = "consume" /\ ~r.failed /\ ~failed =>
                  Covered(g, r.order, r.todo) /\ g[r.todo[1].key] = NoHold

LEMMA FollowingCalls ==
  ASSUME NEW h, NEW cl, NEW g, NEW gl, NEW r, ItemsFit(r.todo), r.todo # <<>>, r.pc # "idle",
         r.alone \in BOOLEAN, r.failed \in BOOLEAN,
         CallFits(h, cl, r), NEW failed \in BOOLEAN, Leaves(g, gl, r, failed)
  PROVE  /\ CallFits(g, gl, Following(r, failed))
         /\ \/ Following(r, failed) = Idle
            \/ Following(r, failed).order = r.order /\ Following(r, failed).alone = r.alone
<1> DEFINE b == [Idle EXCEPT !.op = r.op, !.order = r.order, !.alone = r.alone, !.failed = r.failed \/ failed]
           todo == Tail(r.todo)
<1>1. /\ 1 \in DOMAIN r.todo /\ DOMAIN r.todo = 1..Len(r.todo) /\ Len(r.todo) \in Nat
      /\ \A n \in DOMAIN todo : n \in Nat \ {0} /\ n + 1 \in DOMAIN r.todo /\ todo[n] = r.todo[n + 1]
      /\ \A n \in DOMAIN r.todo : n > 1 => n - 1 \in DOMAIN todo /\ todo[n - 1] = r.todo[n]
  <2>1. 1 \in DOMAIN r.todo /\ DOMAIN r.todo = 1..Len(r.todo) /\ Len(r.todo) \in Nat /\ r.todo \in Seq(Work)
    BY ItemParts, RestFits DEF ItemsFit
  <2>2. DOMAIN todo = 1..Len(r.todo) - 1 /\ \A n \in DOMAIN todo : todo[n] = r.todo[n + 1]
    BY <2>1, ItemParts
  <2> HIDE DEF todo
  <2> QED BY <2>1, <2>2
<1>2. /\ Blank(b) /\ b.op = r.op /\ b.order = r.order /\ b.alone = r.alone /\ b.failed = (r.failed \/ failed)
  <2>1. (r.failed \/ failed) \in BOOLEAN
    OBVIOUS
  <2>2. Blank(b)
    BY <2>1, BlankStarts
  <2> QED BY <2>2 DEF Idle
<1>3. OrderFits(r) /\ Sorted(r) /\ ConsumeFits(r)
  BY DEF CallFits
<1>4. \A n \in DOMAIN todo : todo[n].key[1] = r.order
  BY <1>1, <1>3 DEF OrderFits
<1>5. \A m, n \in DOMAIN todo : m < n => todo[m].key[3] <= todo[n].key[3]
  <2>1. \A m, n \in DOMAIN todo : m < n => m + 1 < n + 1
    BY <1>1
  <2> QED BY <1>1, <1>3, <2>1 DEF Sorted
<1>6. r.op = "consume" => \A n \in DOMAIN todo : todo[n].qty = 0
  BY <1>1, <1>3 DEF ConsumeFits
<1>7. r.alone => \A n \in DOMAIN todo : todo[n].qty > 0 => Open(g, gl, r.op, todo[n].key)
  <2>1. \A n \in DOMAIN todo : n + 1 > 1
    BY <1>1
  <2> QED BY <1>1, <2>1 DEF Leaves
<1>8. ASSUME r.alone, r.op = "consume", ~(r.failed \/ failed) PROVE Covered(g, r.order, todo)
  <2> SUFFICES ASSUME NEW k \in Keys, k[1] = r.order, g[k] # NoHold PROVE \E n \in DOMAIN todo : todo[n].key = k
    BY DEF Covered
  <2>1. PICK n \in DOMAIN r.todo : r.todo[n].key = k
    BY <1>8 DEF Covered, Leaves
  <2>2. n > 1
    BY <1>1, <1>8, <2>1 DEF Leaves
  <2> QED BY <1>1, <2>1, <2>2
<1> HIDE DEF b, todo
<1>9. b.alone => /\ \A n \in DOMAIN todo : todo[n].qty > 0 => Open(g, gl, b.op, todo[n].key)
                 /\ b.op = "consume" /\ ~b.failed => Covered(g, b.order, todo)
  BY <1>2, <1>7, <1>8
<1>10. b.order \in Orders
  BY <1>2, <1>3 DEF OrderFits
<1>11. CallFits(g, gl, Ended(AfterItem(b, todo)))
  BY <1>2, <1>4, <1>5, <1>6, <1>9, <1>10, StartFits
<1>12. Ended(AfterItem(b, todo)) = Idle \/ SameCall(b, Ended(AfterItem(b, todo)))
  BY <1>2, StartedParts
<1>13. Following(r, failed) = Ended(AfterItem(b, todo))
  BY DEF Following, b, todo
<1> QED BY <1>2, <1>11, <1>12, <1>13 DEF SameCall

LEMMA CallParts ==
  ASSUME LedgerInv, CallsInv, NEW t \in Procs, proc[t].pc \notin {"idle", "mark"}
  PROVE  /\ Fits(held, proc[t]) /\ ItemsFit(proc[t].todo) /\ proc[t].todo # <<>> /\ Item(t) = proc[t].todo[1]
         /\ CallFits(held, closed, proc[t]) /\ proc[t].alone \in BOOLEAN /\ proc[t].failed \in BOOLEAN
         /\ proc[t].order \in Orders
<1>1. Fits(held, proc[t]) /\ proc[t].todo # <<>>
  BY InvParts DEF Fits, PcFits
<1>2. CallFits(held, closed, proc[t])
  BY DEF CallsInv, CallsKept
<1> QED BY <1>1, <1>2, InvParts DEF Fits, ProcessOK, CallFits, OrderFits

(* A step of one process, within its call or to its end.                        *)
LEMMA OwnCall ==
  ASSUME LedgerInv, CallsInv, NEW t \in Procs, proc[t].pc # "idle", NEW q, proc' = [proc EXCEPT ![t] = q],
         CallFits(held', closed', q),
         q = Idle \/ (q.order = proc[t].order /\ q.alone = proc[t].alone),
         \A u \in Procs \ {t} : CallFits(held', closed', proc[u])
  PROVE  CallsInv'
<1>1. proc' = [u \in Procs |-> IF u = t THEN q ELSE proc[u]]
  BY DEF LedgerInv, StateOK
<1>2. CallsKept'
  BY <1>1 DEF CallsKept
<1>3. CallsApart'
  <2> SUFFICES ASSUME NEW v \in Procs, NEW u \in Procs, v # u, proc'[v].alone, proc'[v].pc # "idle"
               PROVE  proc'[u].order # proc'[v].order
    BY DEF CallsApart
  <2>1. CASE v = t
    <3>1. q.order = proc[t].order /\ proc[t].alone
      BY <1>1, <2>1, IdleCalls
    <3> QED BY <1>1, <2>1, <3>1 DEF CallsInv, CallsApart
  <2>2. CASE v # t
    <3>1. proc[v].alone /\ proc[v].pc # "idle" /\ proc'[v] = proc[v]
      BY <1>1, <2>2
    <3>2. proc[v].order \in Orders
      BY <3>1 DEF CallsInv, CallsKept, CallFits, OrderFits
    <3>3. proc[u].order # proc[v].order
      BY <3>1 DEF CallsInv, CallsApart
    <3> QED BY <1>1, <2>2, <3>1, <3>2, <3>3, IdleCalls, ConstantsAssumption
  <2> QED BY <2>1, <2>2
<1> QED BY <1>2, <1>3 DEF CallsInv

LEMMA OwnStatement ==
  ASSUME LedgerInv, CallsInv, NEW t \in Procs, proc[t].pc \notin {"idle", "mark"}, NEW q,
         proc' = [proc EXCEPT ![t] = q], Goes(proc[t], q), UNCHANGED <<held, closed>>
  PROVE  CallsInv'
<1>1. CallFits(held, closed, q)
  BY CallParts, GoesFits
<1>2. q.order = proc[t].order /\ q.alone = proc[t].alone
  BY DEF Goes, SameCall
<1>3. \A u \in Procs \ {t} : CallFits(held, closed, proc[u])
  BY DEF CallsInv, CallsKept
<1> QED BY <1>1, <1>2, <1>3, OwnCall

LEMMA OwnEnd ==
  ASSUME LedgerInv, CallsInv, NEW t \in Procs, proc[t].pc # "idle",
         proc' = [proc EXCEPT ![t] = Idle], UNCHANGED <<held, closed>>
  PROVE  CallsInv'
<1>1. \A u \in Procs \ {t} : CallFits(held, closed, proc[u])
  BY DEF CallsInv, CallsKept
<1> QED BY <1>1, IdleCalls, OwnCall

LEMMA RollbackCalls ==
  ASSUME LedgerInv, CallsInv, NEW t \in Procs, proc[t].pc \notin {"idle", "mark"}, NEW failed \in BOOLEAN,
         Rollback(t, failed), UNCHANGED <<held, closed>>, failed \/ held[Item(t).key] = NoHold
  PROVE  CallsInv'
<1> DEFINE r == proc[t]
           f == Following(r, failed)
<1>1. /\ ItemsFit(r.todo) /\ r.todo # <<>> /\ Item(t) = r.todo[1] /\ CallFits(held, closed, r)
      /\ r.alone \in BOOLEAN /\ r.failed \in BOOLEAN /\ r.pc # "idle"
  BY CallParts
<1>2. Leaves(held, closed, r, failed)
  BY <1>1 DEF CallFits, AloneFits, Leaves
<1>3. CallFits(held, closed, f) /\ (f = Idle \/ (f.order = r.order /\ f.alone = r.alone))
  <2> HIDE DEF r
  <2> QED BY <1>1, <1>2, FollowingCalls
<1>4. proc' = [proc EXCEPT ![t] = IF r.op = "reserve" THEN Idle ELSE f]
  BY DEF Rollback, Moves, NextTransaction, Following
<1>5. \A u \in Procs \ {t} : CallFits(held, closed, proc[u])
  BY DEF CallsInv, CallsKept
<1> HIDE DEF f
<1>6. CASE r.op = "reserve"
  BY <1>4, <1>6, OwnEnd
<1>7. CASE r.op # "reserve"
  BY <1>3, <1>4, <1>5, <1>7, OwnCall
<1> QED BY <1>6, <1>7

(* What the end of a statement makes of the record before it.                   *)
Shaped(r) ==
  r \in [op : {r.op}, order : {r.order}, pc : {r.pc}, todo : {r.todo}, failed : {r.failed}, alone : {r.alone},
         rows : {r.rows}, share : {r.share}, excl : {r.excl}, wrote : {r.wrote}, delta : {r.delta}]

LEMMA ShapeOfProcess == ASSUME NEW r, ProcessOK(r) PROVE Shaped(r)
BY DEF ProcessOK, Shaped

LEMMA DoneGoes ==
  ASSUME NEW r, ItemsFit(r.todo), r.todo # <<>>, NEW q, Shaped(q), SameCall(r, q), q.todo = r.todo,
         q.rows \subseteq r.rows \cup {r.todo[1].key}, q.excl \subseteq r.excl \cup {r.todo[1].key[3]},
         \A k \in DOMAIN q.wrote : q.wrote[k] # NoHold =>
            \/ k \in DOMAIN r.wrote /\ r.wrote[k] # NoHold
            \/ k = r.todo[1].key /\ r.todo[1].qty > 0,
         r.todo[1].qty = 0 => Flipped(q)
  PROVE  Goes(r, Done(q))
<1>1. CASE q.op = "reserve" /\ Len(q.todo) > 1
  <2> DEFINE a == AfterItem(q, Tail(q.todo))
  <2>1. Tail(q.todo) # <<>>
    BY <1>1, RestFits
  <2>2. a = [q EXCEPT !.todo = Tail(q.todo), !.pc = Entry(Head(Tail(q.todo)))] /\ Done(q) = a
    BY <1>1, <2>1 DEF AfterItem, Done
  <2>3. Entry(Head(Tail(q.todo))) \in {"insert", "flip"}
    BY DEF Entry
  <2> HIDE DEF a
  <2>4. /\ SameCall(q, a) /\ a.rows = q.rows /\ a.excl = q.excl /\ a.wrote = q.wrote
        /\ a.todo = Tail(q.todo) /\ a.pc \in {"insert", "flip"}
    BY <2>2, <2>3 DEF Shaped, SameCall
  <2> QED BY <1>1, <2>2, <2>4 DEF Goes, SameCall
<1>2. CASE ~(q.op = "reserve" /\ Len(q.todo) > 1)
  <2> DEFINE a == [q EXCEPT !.pc = "commit"]
  <2>1. Done(q) = a
    BY <1>2 DEF Done
  <2>2. /\ SameCall(q, a) /\ a.rows = q.rows /\ a.excl = q.excl /\ a.wrote = q.wrote
        /\ a.todo = q.todo /\ a.pc = "commit"
    BY DEF Shaped, SameCall
  <2> HIDE DEF a
  <2> QED BY <2>1, <2>2 DEF Goes, SameCall, Flipped
<1> QED BY <1>1, <1>2

LEMMA WritesParts ==
  ASSUME NEW w, NEW k, NEW hold
  PROVE  /\ k \in DOMAIN Writes(w, k, hold) /\ Writes(w, k, hold)[k] = hold
         /\ \A x \in DOMAIN Writes(w, k, hold) : x = k \/ (x \in DOMAIN w /\ Writes(w, k, hold)[x] = w[x])
BY DEF Writes

LEMMA StatementsKeepCalls ==
  ASSUME LedgerInv, CallsInv, NEW t \in Procs,
         Insert(t) \/ SelectForUpdate(t) \/ LockForAdd(t) \/ GuardedAdd(t) \/ FlipTerminal(t) \/ LowerCounter(t)
  PROVE  CallsInv'
<1> DEFINE r == proc[t]
           c == Item(t)
           k == c.key
<1>1. r.pc \in {"insert", "select", "lock", "add", "flip", "lower"} /\ UNCHANGED <<held, closed>>
  BY DEF Insert, SelectForUpdate, LockForAdd, GuardedAdd, FlipTerminal, LowerCounter, At
<1>2. /\ Fits(held, r) /\ ItemsFit(r.todo) /\ r.todo # <<>> /\ c = r.todo[1]
      /\ Shaped(r) /\ StepFits(held, r) /\ k \in Keys /\ c.qty \in Nat
  BY <1>1, CallParts, InvParts, ShapeOfProcess, ConstantsAssumption DEF Fits
<1>3. CASE Insert(t)
  <2> DEFINE q1 == [r EXCEPT !.pc = "select"]
             w == Writes(r.wrote, k, [qty |-> c.qty, stamp |-> c.stamp])
             q2 == [r EXCEPT !.pc = "lock", !.rows = r.rows \cup {k}, !.share = r.share \cup {k[3]}, !.wrote = w]
  <2>1. proc' = [proc EXCEPT ![t] = IF held[k] # NoHold THEN q1 ELSE q2] /\ r.todo[1].qty > 0
    BY <1>2, <1>3 DEF Insert, Moves, At, StepFits
  <2>2. Goes(r, q1)
    BY <1>2 DEF Goes, SameCall, Shaped
  <2>3. Goes(r, q2)
    <3>1. \A x \in DOMAIN w : x = k \/ (x \in DOMAIN r.wrote /\ w[x] = r.wrote[x])
      BY WritesParts
    <3> HIDE DEF w
    <3>2. /\ SameCall(r, q2) /\ q2.todo = r.todo /\ q2.rows = r.rows \cup {k} /\ q2.excl = r.excl /\ q2.pc = "lock"
          /\ q2.wrote = w
      BY <1>2 DEF Shaped, SameCall
    <3> HIDE DEF q2
    <3> QED BY <1>2, <2>1, <3>1, <3>2 DEF Goes
  <2> HIDE DEF q1, q2
  <2> QED BY <1>1, <2>1, <2>2, <2>3, OwnStatement
<1>4. CASE SelectForUpdate(t)
  <2> DEFINE q == [r EXCEPT !.rows = @ \cup {k}]
             m == [q EXCEPT !.pc = IF Delta(c) > 0 THEN "lock" ELSE "lower"]
  <2>1. /\ r.pc = "select" /\ r.todo[1].qty > 0
        /\ IF held[k] = NoHold THEN Rollback(t, TRUE)
           ELSE IF Delta(c) = 0 THEN proc' = [proc EXCEPT ![t] = Done(q)] ELSE proc' = [proc EXCEPT ![t] = m]
    BY <1>2, <1>4 DEF SelectForUpdate, Moves, At, StatementDone, Done, StepFits
  <2>2. /\ SameCall(r, q) /\ q.todo = r.todo /\ q.rows = r.rows \cup {k} /\ q.excl = r.excl /\ q.wrote = r.wrote
        /\ Shaped(q)
    BY <1>2 DEF Shaped, SameCall
  <2>3. Goes(r, m)
    BY <1>2 DEF Goes, SameCall, Shaped
  <2> HIDE DEF q, m
  <2>4. Goes(r, Done(q))
    BY <1>2, <2>1, <2>2, DoneGoes
  <2> QED BY <1>1, <2>1, <2>3, <2>4, OwnStatement, RollbackCalls
<1>5. CASE LockForAdd(t)
  <2> DEFINE q == [r EXCEPT !.pc = "add", !.excl = @ \cup {k[3]}]
  <2>1. proc' = [proc EXCEPT ![t] = q]
    BY <1>5 DEF LockForAdd, LockPosition, Moves
  <2>2. Goes(r, q)
    BY <1>2 DEF Goes, SameCall, Shaped
  <2> HIDE DEF q
  <2> QED BY <1>1, <2>1, <2>2, OwnStatement
<1>6. CASE GuardedAdd(t)
  <2> DEFINE d == [r.delta EXCEPT ![k[3]] = @ + Delta(c)]
             b == [r EXCEPT !.delta = d]
             w == Writes(r.wrote, k, [Seen(t, k) EXCEPT !.qty = c.qty])
             q == [b EXCEPT !.wrote = w]
  <2>1. r.pc = "add" /\ r.todo[1].qty > 0
    BY <1>2, <1>6 DEF GuardedAdd, At, StepFits
  <2> HIDE DEF d
  <2>2. /\ SameCall(r, b) /\ b.todo = r.todo /\ b.rows = r.rows /\ b.excl = r.excl /\ b.wrote = r.wrote
        /\ Shaped(b)
    BY <1>2 DEF Shaped, SameCall
  <2>3. SetQuantity(t, c, b) = q
    BY <2>2 DEF SetQuantity
  <2>4. proc' = [proc EXCEPT ![t] = Done(q)] \/ Rollback(t, TRUE)
    <3>1. b = [r EXCEPT !.delta[k[3]] = @ + Delta(c)]
      BY DEF d
    <3> HIDE DEF q, b, d
    <3> QED BY <1>6, <2>3, <3>1 DEF GuardedAdd, Moves, StatementDone, Done
  <2>5. \A x \in DOMAIN w : x = k \/ (x \in DOMAIN r.wrote /\ w[x] = r.wrote[x])
    BY WritesParts
  <2> HIDE DEF w, b
  <2>6. SameCall(r, q) /\ q.todo = r.todo /\ q.rows = r.rows /\ q.excl = r.excl /\ q.wrote = w /\ Shaped(q)
    BY <2>2 DEF Shaped, SameCall
  <2> HIDE DEF q
  <2>7. Goes(r, Done(q))
    BY <1>2, <2>1, <2>5, <2>6, DoneGoes
  <2> QED BY <1>1, <2>4, <2>7, OwnStatement, RollbackCalls
<1>7. CASE FlipTerminal(t)
  <2> DEFINE w == Writes(r.wrote, k, NoHold)
             q == [r EXCEPT !.pc = "lower", !.rows = r.rows \cup {k}, !.wrote = w]
  <2>1. IF held[k] = NoHold THEN Rollback(t, FALSE) ELSE proc' = [proc EXCEPT ![t] = q]
    BY <1>7 DEF FlipTerminal, Moves
  <2>2. w[k] = NoHold /\ \A x \in DOMAIN w : x = k \/ (x \in DOMAIN r.wrote /\ w[x] = r.wrote[x])
    BY WritesParts
  <2> HIDE DEF w
  <2>3. /\ SameCall(r, q) /\ q.todo = r.todo /\ q.rows = r.rows \cup {k} /\ q.excl = r.excl
        /\ q.wrote = w /\ q.pc = "lower"
    BY <1>2 DEF Shaped, SameCall
  <2> HIDE DEF q
  <2>4. Goes(r, q)
    BY <1>2, <2>2, <2>3 DEF Goes
  <2>5. held[Item(t).key] = NoHold \/ proc' = [proc EXCEPT ![t] = q]
    BY <2>1
  <2>6. CASE held[k] = NoHold
    BY <1>1, <2>1, <2>6, RollbackCalls
  <2>7. CASE held[k] # NoHold
    BY <1>1, <2>1, <2>4, <2>7, OwnStatement
  <2> QED BY <2>6, <2>7
<1>8. CASE LowerCounter(t)
  <2> DEFINE p == k[3]
             now == position[p].reserved + r.delta[p]
             less == IF -Delta(c) > now THEN now ELSE -Delta(c)
             d == [r.delta EXCEPT ![p] = @ - less]
             b == [r EXCEPT !.excl = r.excl \cup {p}, !.delta = d]
             w == Writes(r.wrote, k, [Seen(t, k) EXCEPT !.qty = c.qty])
             q == IF c.qty = 0 THEN b ELSE [b EXCEPT !.wrote = w]
  <2>1. r.pc = "lower" /\ (r.todo[1].qty = 0 => Flipped(r))
    BY <1>2, <1>8 DEF LowerCounter, At, StepFits, Flipped
  <2> HIDE DEF d
  <2>2. /\ SameCall(r, b) /\ b.todo = r.todo /\ b.rows = r.rows /\ b.excl = r.excl \cup {p} /\ b.wrote = r.wrote
        /\ Shaped(b)
    BY <1>2 DEF Shaped, SameCall
  <2>3. (IF c.qty = 0 THEN b ELSE SetQuantity(t, c, b)) = q
    BY <2>2 DEF SetQuantity
  <2>4. proc' = [proc EXCEPT ![t] = Done(q)]
    <3>1. b = [r EXCEPT !.excl = @ \cup {p}, !.delta[p] = @ - less]
      BY DEF d
    <3>2. StatementDone(t, IF c.qty = 0 THEN [r EXCEPT !.excl = @ \cup {p}, !.delta[p] = @ - less]
                           ELSE SetQuantity(t, c, [r EXCEPT !.excl = @ \cup {p}, !.delta[p] = @ - less]))
      BY <1>8 DEF LowerCounter
    <3> HIDE DEF q, b, d
    <3>3. StatementDone(t, q)
      BY <2>3, <3>1, <3>2
    <3> QED BY <3>3 DEF Moves, StatementDone, Done
  <2>5. \A x \in DOMAIN w : x = k \/ (x \in DOMAIN r.wrote /\ w[x] = r.wrote[x])
    BY WritesParts
  <2> HIDE DEF w, b
  <2>6. /\ SameCall(r, q) /\ q.todo = r.todo /\ q.rows = r.rows /\ q.excl = r.excl \cup {p} /\ Shaped(q)
        /\ q.wrote = IF c.qty = 0 THEN r.wrote ELSE w
    BY <2>2 DEF Shaped, SameCall
  <2> HIDE DEF q
  <2>7. \A x \in DOMAIN q.wrote : (x \in DOMAIN r.wrote /\ q.wrote[x] = r.wrote[x]) \/ (x = k /\ c.qty > 0)
    BY <1>2, <2>5, <2>6
  <2>8. r.todo[1].qty = 0 => Flipped(q)
    BY <1>2, <2>1, <2>6 DEF Flipped
  <2>9. Goes(r, Done(q))
    BY <1>2, <2>6, <2>7, <2>8, DoneGoes
  <2> QED BY <1>1, <2>4, <2>9, OwnStatement
<1> QED BY <1>3, <1>4, <1>5, <1>6, <1>7, <1>8

(* A commit leaves the calls on other orders what they were.                    *)
LEMMA CallElsewhere ==
  ASSUME NEW h, NEW cl, NEW g, NEW gl, NEW s, CallFits(h, cl, s), ProcessOK(s), ItemsFit(s.todo),
         s.alone => /\ \A k \in Keys : k[1] = s.order => g[k] = h[k]
                    /\ \A e \in gl \ cl : e[1] # s.order
  PROVE  CallFits(g, gl, s)
<1>1. OrderFits(s) /\ Sorted(s) /\ ConsumeFits(s)
  BY DEF CallFits
<1>2. ASSUME s.alone PROVE AloneFits(g, gl, s)
  <2>1. AloneFits(h, cl, s)
    BY <1>2 DEF CallFits
  <2>2. \A k \in Keys : k[1] = s.order => g[k] = h[k]
    BY <1>2
  <2>3. ASSUME NEW k \in Keys, k[1] = s.order, Open(h, cl, s.op, k) PROVE Open(g, gl, s.op, k)
    <3>1. g[k] = h[k]
      BY <2>2, <2>3
    <3>2. \A e \in gl \ cl : LineOf(e) # LineOf(k)
      BY <1>2, <2>3 DEF LineOf
    <3> QED BY <2>3, <3>1, <3>2 DEF Open
  <2>4. \A n \in DOMAIN s.todo : s.todo[n].key \in Keys /\ s.todo[n].key[1] = s.order
    <3>1. \A n \in DOMAIN s.todo : s.todo[n] \in Work
      BY DEF ItemsFit
    <3> QED BY <1>1, <3>1 DEF OrderFits, Work
  <2>5. \A k \in DOMAIN s.wrote : k \in Keys /\ k[1] = s.order
    BY <1>1 DEF OrderFits, ProcessOK
  <2>6. s.op = "consume" /\ ~s.failed => Covered(g, s.order, s.todo)
    BY <2>1, <2>2 DEF AloneFits, Covered
  <2>7. \A n \in DOMAIN s.todo : s.todo[n].qty > 0 => Open(g, gl, s.op, s.todo[n].key)
    BY <2>1, <2>3, <2>4 DEF AloneFits
  <2>8. \A k \in DOMAIN s.wrote : s.wrote[k] # NoHold => Open(g, gl, s.op, k)
    BY <2>1, <2>3, <2>5 DEF AloneFits
  <2> QED BY <2>6, <2>7, <2>8 DEF AloneFits
<1> QED BY <1>1, <1>2 DEF CallFits

(* What a commit does to the rows and to the keys that are closed.              *)
LEMMA CommitParts ==
  ASSUME LedgerInv, CallsInv, NEW t \in Procs, Commit(t)
  PROVE  /\ proc[t].pc = "commit" /\ DOMAIN proc[t].wrote \subseteq proc[t].rows
         /\ \A k \in proc[t].rows : k \in Keys /\ k[1] = proc[t].order
         /\ \A k \in Keys : held'[k] = IF k \in DOMAIN proc[t].wrote THEN proc[t].wrote[k] ELSE held[k]
         /\ closed' = closed \cup {k \in DOMAIN proc[t].wrote : proc[t].wrote[k] = NoHold}
         /\ \A e \in closed' \ closed : e[1] = proc[t].order
<1>1. proc[t].pc = "commit" /\ ProcessOK(proc[t]) /\ OrderFits(proc[t])
  BY InvParts DEF Commit, At, Fits, CallsInv, CallsKept, CallFits
<1>2. /\ held' = [k \in Keys |-> Seen(t, k)]
      /\ closed' = closed \cup {k \in DOMAIN proc[t].wrote : proc[t].wrote[k] = NoHold}
  BY DEF Commit
<1>3. DOMAIN proc[t].wrote \subseteq proc[t].rows /\ \A k \in proc[t].rows : k \in Keys /\ k[1] = proc[t].order
  BY <1>1 DEF ProcessOK, OrderFits
<1>4. \A k \in Keys : held'[k] = IF k \in DOMAIN proc[t].wrote THEN proc[t].wrote[k] ELSE held[k]
  BY <1>2 DEF Seen
<1> QED BY <1>1, <1>2, <1>3, <1>4

LEMMA CommitKeepsCalls ==
  ASSUME LedgerInv, CallsInv, NEW t \in Procs, Commit(t) PROVE CallsInv'
<1> DEFINE r == proc[t]
           f == Following(r, FALSE)
           q == IF r.op = "reserve" THEN Idle ELSE f
<1>1. proc' = [proc EXCEPT ![t] = q]
  BY DEF Commit, Moves, NextTransaction, Following
<1>2. /\ r.pc = "commit" /\ DOMAIN r.wrote \subseteq r.rows
      /\ \A k \in r.rows : k \in Keys /\ k[1] = r.order
      /\ \A k \in Keys : held'[k] = IF k \in DOMAIN r.wrote THEN r.wrote[k] ELSE held[k]
      /\ \A e \in closed' \ closed : e[1] = r.order
  BY CommitParts
<1>3. /\ Fits(held, r) /\ ItemsFit(r.todo) /\ r.todo # <<>>
      /\ CallFits(held, closed, r) /\ r.alone \in BOOLEAN /\ r.failed \in BOOLEAN
  BY <1>2, CallParts
<1>4. ASSUME r.op # "reserve" PROVE Leaves(held', closed', r, FALSE)
  <2> SUFFICES ASSUME r.alone PROVE Leaves(held', closed', r, FALSE)
    BY DEF Leaves
  <2>1. AloneFits(held, closed, r) /\ ConsumeFits(r) /\ TodoFits(r)
    BY <1>3 DEF CallFits, Fits
  <2>2. \A n \in DOMAIN r.todo : r.todo[n].key \in Keys
    <3>1. \A n \in DOMAIN r.todo : r.todo[n] \in Work
      BY <1>3 DEF ItemsFit
    <3> QED BY <3>1 DEF Work
  <2>3. ASSUME NEW n \in DOMAIN r.todo, n > 1, r.todo[n].qty > 0 PROVE Open(held', closed', r.op, r.todo[n].key)
    <3>1. r.todo[n].key \notin DOMAIN r.wrote
      BY <1>2, <2>1, <2>3 DEF TodoFits
    <3>2. held'[r.todo[n].key] = held[r.todo[n].key]
      BY <1>2, <2>2, <3>1
    <3> QED BY <1>4, <2>1, <2>3, <3>2 DEF AloneFits, Open
  <2>4. ASSUME r.op = "consume", ~r.failed PROVE Covered(held', r.order, r.todo) /\ held'[r.todo[1].key] = NoHold
    <3>1. \A k \in Keys : held'[k] # NoHold => held[k] # NoHold
      BY <1>2, <1>4, <2>1 DEF AloneFits, Open
    <3>2. Covered(held', r.order, r.todo)
      BY <2>1, <2>4, <3>1 DEF AloneFits, Covered
    <3>3. 1 \in DOMAIN r.todo
      BY <1>3, ItemParts
    <3>4. Flipped(r)
      BY <1>2, <2>1, <2>4, <3>3 DEF ConsumeFits
    <3> QED BY <1>2, <2>2, <3>2, <3>3, <3>4 DEF Flipped
  <2> QED BY <2>3, <2>4 DEF Leaves
<1>5. CallFits(held', closed', q) /\ (q = Idle \/ (q.order = r.order /\ q.alone = r.alone))
  <2>1. CASE r.op = "reserve"
    BY <2>1, IdleCalls
  <2>2. CASE r.op # "reserve"
    <3>1. Leaves(held', closed', r, FALSE) /\ q = f /\ r.pc # "idle" /\ FALSE \in BOOLEAN
      BY <1>2, <1>4, <2>2
    <3> HIDE DEF r, q, f
    <3> DEFINE b == FALSE
    <3>2. b \in BOOLEAN /\ Leaves(held', closed', r, b) /\ f = Following(r, b)
      BY <3>1 DEF f
    <3> HIDE DEF b
    <3>3. CallFits(held', closed', f) /\ (f = Idle \/ (f.order = r.order /\ f.alone = r.alone))
      BY <1>3, <3>1, <3>2, FollowingCalls
    <3> QED BY <3>1, <3>3
  <2> QED BY <2>1, <2>2
<1>6. ASSUME NEW u \in Procs \ {t} PROVE CallFits(held', closed', proc[u])
  <2> DEFINE s == proc[u]
  <2>1. CallFits(held, closed, s) /\ ProcessOK(s) /\ ItemsFit(s.todo)
    BY InvParts DEF CallsInv, CallsKept, Fits, ProcessOK, TodoFits, ItemsFit
  <2>2. CASE s.pc = "idle"
    <3>1. s = Idle
      BY <2>2, InvParts DEF Fits, PcFits
    <3> QED BY <3>1, IdleCalls
  <2>3. CASE s.pc # "idle"
    <3>1. s.alone => r.order # s.order
      BY <2>3 DEF CallsInv, CallsApart
    <3>2. s.alone => /\ \A k \in Keys : k[1] = s.order => held'[k] = held[k]
                     /\ \A e \in closed' \ closed : e[1] # s.order
      BY <1>2, <3>1
    <3> HIDE DEF s
    <3> QED BY <2>1, <3>2, CallElsewhere DEF s
  <2> QED BY <2>2, <2>3
<1> HIDE DEF q
<1> QED BY <1>1, <1>2, <1>5, <1>6, OwnCall

LEMMA EndsKeepCalls ==
  ASSUME LedgerInv, CallsInv, NEW t \in Procs,
         DeadlockVictim(t) \/ StatementFails(t) \/ ProcessDies(t) \/ ClaimReservationConsume(t)
  PROVE  CallsInv'
<1>1. CASE DeadlockVictim(t) \/ StatementFails(t)
  <2>1. proc[t].todo # <<>>
    BY <1>1 DEF DeadlockVictim, Cycle, Deadlocked, Waits, StatementFails
  <2>2. proc[t].pc \notin {"idle", "mark"}
    BY <2>1, InvParts DEF Fits, PcFits
  <2>3. Rollback(t, TRUE) /\ UNCHANGED <<held, closed>>
    BY <1>1 DEF DeadlockVictim, StatementFails
  <2> QED BY <2>2, <2>3, RollbackCalls
<1>2. CASE ProcessDies(t) \/ ClaimReservationConsume(t)
  <2>1. proc[t].pc # "idle" /\ proc' = [proc EXCEPT ![t] = Idle] /\ UNCHANGED <<held, closed>>
    BY <1>2 DEF ProcessDies, ClaimReservationConsume, Moves, At
  <2> QED BY <2>1, OwnEnd
<1> QED BY <1>1, <1>2

-----------------------------------------------------------------------------
(* The calls.                                                                   *)
LEMMA BeginKeepsCalls ==
  ASSUME LedgerInv, CallsInv, NEW t \in Procs, NEW op, NEW o \in Orders, NEW items, Wanted(op, o, items),
         Begin(t, op, o, items), UNCHANGED <<held, closed>>
  PROVE  CallsInv'
<1> DEFINE others == {u \in Procs \ {t} : proc[u].order = o}
           r == [Idle EXCEPT !.op = op, !.order = o, !.alone = others = {}]
           L == ByPosition(items)
           q == Ended(AfterItem(r, L))
           beside(u) == [proc[u] EXCEPT !.alone = @ /\ u \notin others]
<1>1. proc' = [u \in Procs |-> IF u = t THEN q ELSE beside(u)]
  BY DEF Begin
<1>2. Blank(r) /\ r.op = op /\ r.order = o /\ r.alone = (others = {}) /\ ~r.failed
  <2> DEFINE b == others = {}
  <2>1. b \in BOOLEAN
    OBVIOUS
  <2>2. r = [Idle EXCEPT !.op = op, !.order = o, !.alone = b]
    OBVIOUS
  <2> HIDE DEF others, b, r
  <2>3. Blank(r)
    BY <2>1, <2>2, BlankStarts
  <2>4. r.op = op /\ r.order = o /\ r.alone = b /\ ~r.failed
    BY <2>2 DEF Idle
  <2> QED BY <2>3, <2>4 DEF b
<1>3. /\ L \in Seq(items) /\ \A a \in items : \E n \in DOMAIN L : L[n] = a
      /\ \A m, n \in DOMAIN L : m < n => L[m].key[3] <= L[n].key[3]
  BY Listed DEF Wanted, Asked
<1>4. \A n \in DOMAIN L : L[n] \in items
  BY <1>3
<1> HIDE DEF L, r, others
<1>5. CallFits(held, closed, q) /\ (q = Idle \/ (q.order = o /\ q.alone = (others = {})))
  <2>1. op = "consume" => Covered(held, o, L)
    <3> SUFFICES ASSUME op = "consume", NEW k \in Keys, k[1] = o, held[k] # NoHold
                 PROVE  \E n \in DOMAIN L : L[n].key = k
      BY DEF Covered
    <3>1. PICK a \in items : a.key = k
      BY DEF Wanted, HeldOf
    <3> QED BY <1>3, <3>1
  <2>2. /\ \A n \in DOMAIN L : L[n].key[1] = r.order
        /\ r.op = "consume" => \A n \in DOMAIN L : L[n].qty = 0
        /\ r.alone => /\ \A n \in DOMAIN L : L[n].qty > 0 => Open(held, closed, r.op, L[n].key)
                      /\ r.op = "consume" /\ ~r.failed => Covered(held, r.order, L)
    BY <1>2, <1>4, <2>1 DEF Wanted
  <2>3. CallFits(held, closed, q)
    BY <1>2, <1>3, <2>2, StartFits
  <2>4. q = Idle \/ SameCall(r, q)
    BY <1>2, StartedParts
  <2> QED BY <1>2, <2>3, <2>4 DEF SameCall
<1> HIDE DEF q
<1>6. ASSUME NEW u \in Procs \ {t}
      PROVE  /\ CallFits(held, closed, beside(u)) /\ beside(u).order = proc[u].order /\ beside(u).pc = proc[u].pc
             /\ beside(u).alone => proc[u].alone /\ u \notin others
  <2> DEFINE s == proc[u]
             d == s.alone /\ u \notin others
             b == [s EXCEPT !.alone = d]
  <2>1. CallFits(held, closed, s) /\ Shaped(s)
    BY InvParts, ShapeOfProcess DEF CallsInv, CallsKept, Fits
  <2>2. beside(u) = b
    OBVIOUS
  <2> HIDE DEF d
  <2>3. /\ b.order = s.order /\ b.pc = s.pc /\ b.op = s.op /\ b.todo = s.todo /\ b.rows = s.rows
        /\ b.excl = s.excl /\ b.wrote = s.wrote /\ b.failed = s.failed /\ b.alone = d
    BY <2>1 DEF Shaped
  <2>4. d => s.alone /\ u \notin others
    BY DEF d
  <2> HIDE DEF b, s
  <2>5. OrderFits(b) /\ Sorted(b) /\ ConsumeFits(b)
    BY <2>1, <2>3 DEF CallFits, OrderFits, Sorted, ConsumeFits, Flipped
  <2>6. b.alone => AloneFits(held, closed, b)
    BY <2>1, <2>3, <2>4 DEF CallFits, AloneFits
  <2>7. CallFits(held, closed, b)
    BY <2>5, <2>6 DEF CallFits
  <2> QED BY <2>2, <2>3, <2>4, <2>7 DEF s
<1> HIDE DEF beside
<1>7. CallsKept'
  BY <1>1, <1>5, <1>6 DEF CallsKept
<1>8. ASSUME NEW v \in Procs, NEW u \in Procs, v # u, proc'[v].alone, proc'[v].pc # "idle"
      PROVE  proc'[u].order # proc'[v].order
  <2>1. CASE v = t
    <3>1. q.order = o /\ others = {}
      BY <1>1, <1>5, <1>8, <2>1, IdleCalls
    <3>2. proc'[u].order = proc[u].order /\ proc[u].order # o
      BY <1>1, <1>6, <1>8, <2>1, <3>1 DEF others
    <3> QED BY <1>1, <2>1, <3>1, <3>2
  <2>2. CASE v # t /\ u = t
    <3>1. v \notin others /\ proc'[v].order = proc[v].order /\ proc[v].pc # "idle"
      BY <1>1, <1>6, <1>8, <2>2
    <3>2. proc[v].order # o /\ proc[v].order \in Orders
      BY <2>2, <3>1 DEF others, CallsInv, CallsKept, CallFits, OrderFits
    <3>3. proc'[u].order \in {o, "none"}
      BY <1>1, <1>5, <2>2, IdleCalls
    <3> QED BY <3>1, <3>2, <3>3, ConstantsAssumption
  <2>3. CASE v # t /\ u # t
    <3>1. proc[v].alone /\ proc[v].pc # "idle"
      BY <1>1, <1>6, <1>8, <2>3
    <3>2. proc'[v].order = proc[v].order /\ proc'[u].order = proc[u].order
      BY <1>1, <1>6, <2>3
    <3>3. proc[u].order # proc[v].order
      BY <1>8, <3>1 DEF CallsInv, CallsApart
    <3> QED BY <3>2, <3>3
  <2> QED BY <2>1, <2>2, <2>3
<1>9. CallsApart'
  BY <1>8 DEF CallsApart
<1> QED BY <1>7, <1>9 DEF CallsInv

LEMMA InitCalls == ASSUME Init PROVE CallsInv
<1>1. \A t \in Procs : proc[t] = Idle
  BY DEF Init
<1> QED BY <1>1, IdleCalls DEF CallsInv, CallsKept, CallsApart

LEMMA NextKeepsCalls == ASSUME LedgerInv, CallsInv, [Next]_vars PROVE CallsInv'
<1>1. CASE UNCHANGED <<held, closed, proc>>
  BY <1>1 DEF CallsInv, CallsKept, CallsApart
<1>2. ASSUME NEW t \in Procs, NEW o \in Orders, Call(t, o) PROVE CallsInv'
  BY <1>2, CallWanted, BeginKeepsCalls
<1>3. ASSUME NEW t \in Procs, Commit(t) PROVE CallsInv'
  BY <1>3, CommitKeepsCalls
<1>4. ASSUME NEW t \in Procs,
             \/ Insert(t) \/ SelectForUpdate(t) \/ LockForAdd(t) \/ GuardedAdd(t)
             \/ FlipTerminal(t) \/ LowerCounter(t)
      PROVE  CallsInv'
  BY <1>4, StatementsKeepCalls
<1>5. ASSUME NEW t \in Procs,
             \/ ClaimReservationConsume(t) \/ DeadlockVictim(t) \/ StatementFails(t) \/ ProcessDies(t)
      PROVE  CallsInv'
  BY <1>5, EndsKeepCalls
<1>6. ASSUME NEW p \in Positions, NEW n \in Levels, NEW stale \in BOOLEAN, SyncStock(p, n, stale)
      PROVE  UNCHANGED <<held, closed, proc>>
  BY <1>6 DEF SyncStock
<1>7. ASSUME NEW o \in Shipped, Dispatch(o) PROVE UNCHANGED <<held, closed, proc>>
  BY <1>7 DEF Dispatch
<1>8. CASE UNCHANGED vars
  BY <1>1, <1>8 DEF vars
<1> QED BY <1>1, <1>2, <1>3, <1>4, <1>5, <1>6, <1>7, <1>8 DEF Next

LEMMA CallsHold == Spec => [](LedgerInv /\ CallsInv)
<1>1. LedgerInv /\ CallsInv /\ [Next]_vars => CallsInv'
  BY NextKeepsCalls
<1> QED BY <1>1, InitCalls, InvHolds, PTL DEF Spec

-----------------------------------------------------------------------------
(* What follows for the calls.                                                  *)
LEMMA OnlyMarksAndDispatches ==
  ASSUME [Next]_vars, shipment' # shipment
  PROVE  (\E t \in Procs : ClaimReservationConsume(t)) \/ UNCHANGED proc
<1>1. \A t \in Procs, o \in Orders : ~Call(t, o)
  BY DEF Call, ReserveForOrder, NarrowForOrder, CloseLines, ConsumeShipment
<1>2. \A t \in Procs : ~(Insert(t) \/ SelectForUpdate(t) \/ LockForAdd(t) \/ GuardedAdd(t)
                         \/ FlipTerminal(t) \/ LowerCounter(t))
  BY DEF Insert, SelectForUpdate, LockForAdd, GuardedAdd, FlipTerminal, LowerCounter
<1>3. \A t \in Procs : ~(Commit(t) \/ DeadlockVictim(t) \/ StatementFails(t) \/ ProcessDies(t))
  BY DEF Commit, DeadlockVictim, StatementFails, ProcessDies
<1>4. /\ \A p \in Positions, n \in Levels, stale \in BOOLEAN : SyncStock(p, n, stale) => UNCHANGED proc
      /\ \A o \in Shipped : Dispatch(o) => UNCHANGED proc
      /\ ~UNCHANGED vars
  BY DEF SyncStock, Dispatch, vars
<1> QED BY <1>1, <1>2, <1>3, <1>4 DEF Next

LEMMA MovesOne ==
  ASSUME LedgerInv, NEW t \in Procs, NEW u \in Procs, NEW q, proc' = [proc EXCEPT ![u] = q], proc'[t] # proc[t]
  PROVE  t = u
BY DEF LedgerInv, StateOK

(* A line whose reservation has ended is not held again by a call that has its  *)
(* order to itself: what it writes was open when it began, and stays open.      *)
THEOREM AloneCallsRespectEnds == Spec => AloneNeverReholds
<1>1. ASSUME LedgerInv, CallsInv, [Next]_vars, NEW t \in Procs, proc[t].alone, proc'[t] # proc[t]
      PROVE  ~ReheldAtClosed
  <2> SUFFICES ASSUME NEW k \in Keys, NEW e \in closed, LineOf(k) = LineOf(e), held[k] = NoHold, held'[k] # NoHold
               PROVE  FALSE
    BY DEF ReheldAtClosed
  <2>1. PICK u \in Procs : Commit(u)
    BY <1>1, OnlyCommitsHold
  <2>2. u = t
    BY <1>1, <2>1, MovesOne DEF Commit, Moves, Rollback, NextTransaction
  <2>3. k \in DOMAIN proc[t].wrote /\ proc[t].wrote[k] # NoHold
    BY <1>1, <2>1, <2>2, CommitParts
  <2>4. Open(held, closed, proc[t].op, k)
    BY <1>1, <2>3 DEF CallsInv, CallsKept, CallFits, AloneFits
  <2> QED BY <2>4 DEF Open
<1>2. LedgerInv /\ CallsInv /\ [Next]_vars =>
        [\A t \in Procs : proc[t].alone /\ proc'[t] # proc[t] => ~ReheldAtClosed]_vars
  BY <1>1
<1> QED BY <1>2, CallsHold, PTL DEF Spec, AloneNeverReholds

(* A dispatch sweep that has the order to itself marks the shipment only when   *)
(* every hold of the order has ended: what it has not released yet is on its    *)
(* list, and after a failure it does not mark.                                  *)
THEOREM MarkedOrdersAreClosed == Spec => AloneMarksClosed
<1>1. ASSUME LedgerInv, CallsInv, [Next]_vars, NEW t \in Procs,
             proc[t].alone, proc'[t] # proc[t], shipment' # shipment
      PROVE  HeldOf(proc[t].order) = {}
  <2>1. PICK u \in Procs : ClaimReservationConsume(u)
    BY <1>1, OnlyMarksAndDispatches
  <2>2. u = t
    BY <1>1, <2>1, MovesOne DEF ClaimReservationConsume, Moves
  <2>3. proc[t].pc = "mark" /\ proc[t].todo = <<>>
    BY <1>1, <2>1, <2>2, InvParts DEF ClaimReservationConsume, At, Fits, PcFits
  <2>4. proc[t].op = "consume" /\ ~proc[t].failed
    BY <1>1, <2>3 DEF CallsInv, CallsKept, CallFits, ConsumeFits
  <2>5. Covered(held, proc[t].order, <<>>)
    BY <1>1, <2>3, <2>4 DEF CallsInv, CallsKept, CallFits, AloneFits
  <2> QED BY <2>5 DEF Covered, HeldOf
<1>2. LedgerInv /\ CallsInv /\ [Next]_vars =>
        [\A t \in Procs : proc[t].alone /\ proc'[t] # proc[t] /\ shipment' # shipment =>
           HeldOf(proc[t].order) = {}]_vars
  BY <1>1
<1> QED BY <1>2, CallsHold, PTL DEF Spec, AloneMarksClosed

LEMMA SomePositionIsLast ==
  ASSUME NEW s \in SUBSET Positions, \A n \in s : \E m \in s : n < m
  PROVE  s = {}
<1> DEFINE G == {x \in SUBSET Positions : (\A n \in x : \E m \in x : n < m) => x = {}}
<1>1. ASSUME NEW x \in SUBSET Positions, \A y \in SUBSET x : y # x => y \in G PROVE x \in G
  <2> SUFFICES ASSUME \A n \in x : \E m \in x : n < m, x # {} PROVE FALSE
    OBVIOUS
  <2>1. x \subseteq Nat
    BY ConstantsAssumption
  <2>2. PICK a \in x : \A n \in x : a <= n
    BY <2>1, LeastNumber
  <2> DEFINE y == x \ {a}
  <2>3. y \in SUBSET x /\ y # x
    OBVIOUS
  <2>4. ASSUME NEW n \in y PROVE \E m \in y : n < m
    <3>1. PICK m \in x : n < m
      OBVIOUS
    <3>2. n \in Nat /\ m \in Nat /\ a \in Nat /\ a <= n
      BY <2>1, <2>2
    <3> QED BY <3>1, <3>2
  <2>5. y = {}
    BY <1>1, <2>3, <2>4
  <2>6. PICK m \in x : a < m
    OBVIOUS
  <2>7. m = a
    BY <2>5
  <2> QED BY <2>1, <2>6, <2>7
<1> HIDE DEF G
<1>2. SUBSET Positions \subseteq G
  BY <1>1, ConstantsAssumption, EverySubset
<1> QED BY <1>2 DEF G

(* The claims of different orders never wait for each other in a ring: every    *)
(* call takes the positions in their sequence, so that whoever it waits for has *)
(* gone further than it.                                                        *)
THEOREM ClaimsOfOrdersNeverDeadlock == Spec => []OrdersNeverDeadlock
<1>1. LedgerInv /\ CallsInv => OrdersNeverDeadlock
  <2> SUFFICES ASSUME LedgerInv, CallsInv, NEW S \in SUBSET Procs, Deadlocked(S), \A t \in S : Claiming(t),
                      \A t, u \in S : t # u => proc[t].order # proc[u].order
               PROVE  FALSE
    BY DEF OrdersNeverDeadlock
  <2> DEFINE next(t) == Item(t).key[3]
  <2>1. ASSUME NEW t \in S
        PROVE  /\ proc[t].todo # <<>> /\ Item(t) = proc[t].todo[1] /\ 1 \in DOMAIN proc[t].todo
               /\ proc[t].todo[1].qty > 0 /\ next(t) \in Positions /\ next(t) \in Nat
               /\ Item(t).key[1] = proc[t].order /\ Sorted(proc[t]) /\ Fits(held, proc[t])
               /\ \A k \in proc[t].rows : k[1] = proc[t].order
    <3>1. proc[t].todo # <<>> /\ Item(t).qty > 0
      BY DEF Claiming
    <3>2. Item(t) = proc[t].todo[1] /\ next(t) \in Positions /\ ItemsFit(proc[t].todo) /\ Fits(held, proc[t])
      BY <3>1, InvParts
    <3>3. 1 \in DOMAIN proc[t].todo
      BY <3>1, <3>2, ItemParts
    <3>4. OrderFits(proc[t]) /\ Sorted(proc[t])
      BY DEF CallsInv, CallsKept, CallFits
    <3> QED BY <3>1, <3>2, <3>3, <3>4, ConstantsAssumption DEF OrderFits
  <2> HIDE DEF next
  <2>2. ASSUME NEW t \in S, NEW u \in S, Waits(t, u) PROVE u # t /\ next(t) \in proc[u].excl
    <3>1. u # t /\ Item(t).key \notin proc[u].rows
      BY <2>1, <2>2 DEF Waits
    <3>2. DOMAIN proc[u].wrote \subseteq proc[u].rows
      BY <2>1 DEF Fits, ProcessOK
    <3>3. proc[t].pc \in {"lock", "lower"} /\ Conflicts(u, Item(t).key[3])
      BY <2>1, <2>2, <3>1, <3>2 DEF Waits, At
    <3> QED BY <3>1, <3>3 DEF Conflicts, next
  <2>3. ASSUME NEW t \in S PROVE \E u \in S : next(t) < next(u)
    <3>1. PICK u \in S : Waits(t, u)
      BY DEF Deadlocked
    <3>2. PICK v \in S : Waits(u, v)
      BY DEF Deadlocked
    <3>3. next(t) \in proc[u].excl /\ next(u) \in proc[v].excl /\ u # v
      BY <2>2, <3>1, <3>2
    <3>4. proc[u].excl \cap proc[v].excl = {}
      BY <3>3 DEF LedgerInv, LocksApart, Apart
    <3>5. next(t) <= next(u)
      BY <2>1, <3>3 DEF Sorted, next
    <3> QED BY <2>1, <3>3, <3>4, <3>5
  <2> DEFINE T == {next(t) : t \in S}
  <2>4. T \in SUBSET Positions /\ \A n \in T : \E m \in T : n < m
    BY <2>1, <2>3
  <2>5. T # {}
    BY DEF Deadlocked
  <2> HIDE DEF T
  <2> QED BY <2>4, <2>5, SomePositionIsLast
<1> QED BY <1>1, CallsHold, PTL

-----------------------------------------------------------------------------
(* Every transaction happens at once.  What it takes besides: a reserve ends no *)
(* row and any other transaction writes one row; a row that is ended was held,  *)
(* one that is written again keeps its stamp, and none is raised at a position  *)
(* that is stale.  The row's lock, and the position's, keep it so.              *)
WritesAsCalled(r) ==
  /\ r.op = "reserve" => /\ \A n \in DOMAIN r.todo : r.todo[n].qty > 0
                         /\ \A k \in DOMAIN r.wrote : r.wrote[k] # NoHold
  /\ r.op # "reserve" => \A k \in DOMAIN r.wrote : r.todo # <<>> /\ k = r.todo[1].key
Rewrites(h, k, hold) ==
  /\ hold = NoHold => h[k] # NoHold
  /\ hold # NoHold /\ h[k] # NoHold => hold.stamp = h[k].stamp
Raises(h, r) == {k \in Counted(r) : r.wrote[k].qty > h[k].qty}
WriteFits(h, pos, r) ==
  /\ WritesAsCalled(r)
  /\ \A k \in DOMAIN r.wrote : Rewrites(h, k, r.wrote[k])
  /\ \A k \in Raises(h, r) : ~pos[k[3]].stale
WritesInv == \A t \in Procs : WriteFits(held, position, proc[t])

(* A transaction that has written nothing.                                      *)
LEMMA NothingWritten ==
  ASSUME NEW h, NEW pos, NEW r, r.wrote = <<>>,
         r.op = "reserve" => \A n \in DOMAIN r.todo : r.todo[n].qty > 0
  PROVE  WriteFits(h, pos, r)
<1>1. DOMAIN r.wrote = {} /\ Counted(r) = {}
  BY DEF Counted
<1> QED BY <1>1 DEF WriteFits, WritesAsCalled, Raises

LEMMA IdleWrites == ASSUME NEW h, NEW pos PROVE WriteFits(h, pos, Idle)
<1>1. Idle.wrote = <<>> /\ Idle.op = "none"
  BY DEF Idle
<1> QED BY <1>1, NothingWritten

LEMMA BackWrites ==
  ASSUME NEW h, NEW pos, NEW r, r.alone \in BOOLEAN, r.failed \in BOOLEAN, NEW failed \in BOOLEAN
  PROVE  WriteFits(h, pos, Back(r, failed))
<1> DEFINE b == [Idle EXCEPT !.op = r.op, !.order = r.order, !.alone = r.alone, !.failed = r.failed \/ failed]
           q == Ended(AfterItem(b, Tail(r.todo)))
<1>1. (r.failed \/ failed) \in BOOLEAN
  OBVIOUS
<1>2. Blank(b) /\ b.op = r.op
  <2>1. Blank(b)
    BY <1>1, BlankStarts
  <2> QED BY <2>1 DEF Idle
<1> HIDE DEF b
<1>3. q = Idle \/ (q.op = r.op /\ q.wrote = <<>>)
  BY <1>2, StartedParts DEF SameCall
<1>4. Following(r, failed) = q
  BY DEF Following, b
<1> HIDE DEF q
<1>5. r.op # "reserve" => WriteFits(h, pos, q)
  BY <1>3, NothingWritten, IdleWrites
<1> QED BY <1>4, <1>5, IdleWrites DEF Back

(* A statement writes the row of its item, or none.                             *)
LEMMA GoesOnWriting ==
  ASSUME NEW h, NEW pos, NEW r, WriteFits(h, pos, r), ItemsFit(r.todo), r.todo # <<>>,
         NEW q, q.op = r.op, q.todo = r.todo \/ (r.op = "reserve" /\ q.todo = Tail(r.todo)),
         NEW k, k = r.todo[1].key,
         \A x \in DOMAIN q.wrote :
            \/ x \in DOMAIN r.wrote /\ q.wrote[x] = r.wrote[x]
            \/ x = k /\ (r.op = "reserve" => q.wrote[k] # NoHold) /\ Rewrites(h, k, q.wrote[k]),
         \A x \in Counted(q) :
            \/ x \in Counted(r) /\ q.wrote[x] = r.wrote[x]
            \/ x = k /\ (q.wrote[k].qty > h[k].qty => ~pos[k[3]].stale)
  PROVE  WriteFits(h, pos, q)
<1>1. \A n \in DOMAIN q.todo : \E m \in DOMAIN r.todo : q.todo[n] = r.todo[m]
  <2>1. CASE q.todo = r.todo
    BY <2>1
  <2>2. CASE q.todo = Tail(r.todo)
    BY <2>2, RestFits
  <2> QED BY <2>1, <2>2
<1>2. WritesAsCalled(q)
  BY <1>1 DEF WriteFits, WritesAsCalled
<1>3. \A x \in DOMAIN q.wrote : Rewrites(h, x, q.wrote[x])
  BY DEF WriteFits
<1>4. \A x \in Raises(h, q) : ~pos[x[3]].stale
  BY DEF WriteFits, Raises
<1> QED BY <1>2, <1>3, <1>4 DEF WriteFits

LEMMA DoneParts ==
  ASSUME NEW q, Shaped(q), ItemsFit(q.todo), q.todo # <<>>
  PROVE  /\ Done(q).op = q.op /\ Done(q).wrote = q.wrote /\ Counted(Done(q)) = DOMAIN q.wrote
         /\ Done(q).todo = q.todo \/ (q.op = "reserve" /\ Done(q).todo = Tail(q.todo))
<1>1. CASE q.op = "reserve" /\ Len(q.todo) > 1
  <2> DEFINE a == AfterItem(q, Tail(q.todo))
  <2>1. Tail(q.todo) # <<>>
    BY <1>1, RestFits
  <2>2. a = [q EXCEPT !.todo = Tail(q.todo), !.pc = Entry(Head(Tail(q.todo)))] /\ Done(q) = a
    BY <1>1, <2>1 DEF AfterItem, Done
  <2>3. Entry(Head(Tail(q.todo))) \in {"insert", "flip"}
    BY DEF Entry
  <2> HIDE DEF a
  <2>4. a.op = q.op /\ a.wrote = q.wrote /\ a.todo = Tail(q.todo) /\ a.pc \in {"insert", "flip"}
    BY <2>2, <2>3 DEF Shaped
  <2> QED BY <1>1, <2>2, <2>4 DEF Counted, Moving
<1>2. CASE ~(q.op = "reserve" /\ Len(q.todo) > 1)
  <2> DEFINE a == [q EXCEPT !.pc = "commit"]
  <2>1. Done(q) = a
    BY <1>2 DEF Done
  <2>2. a.op = q.op /\ a.wrote = q.wrote /\ a.todo = q.todo /\ a.pc = "commit"
    BY DEF Shaped
  <2> HIDE DEF a
  <2> QED BY <2>1, <2>2 DEF Counted, Moving
<1> QED BY <1>1, <1>2

(* The rows a transaction writes, and the positions whose rows it counts, are   *)
(* nobody else's meanwhile.                                                     *)
LEMMA WriteElsewhere ==
  ASSUME NEW h, NEW pos, NEW g, NEW gpos, NEW r, WriteFits(h, pos, r),
         \A k \in DOMAIN r.wrote : g[k] = h[k],
         \A k \in Counted(r) : gpos[k[3]].stale = pos[k[3]].stale
  PROVE  WriteFits(g, gpos, r)
<1>1. Raises(g, r) = Raises(h, r)
  BY DEF Raises, Counted
<1>2. \A k \in Raises(h, r) : k \in Counted(r)
  BY DEF Raises
<1> QED BY <1>1, <1>2 DEF WriteFits, Rewrites

LEMMA OwnWrites ==
  ASSUME LedgerInv, WritesInv, NEW t \in Procs, NEW q, proc' = [proc EXCEPT ![t] = q],
         WriteFits(held, position, q), UNCHANGED <<position, held>>
  PROVE  WritesInv'
<1>1. proc' = [u \in Procs |-> IF u = t THEN q ELSE proc[u]]
  BY DEF LedgerInv, StateOK
<1> QED BY <1>1 DEF WritesInv

LEMMA RollbackWrites ==
  ASSUME LedgerInv, WritesInv, NEW t \in Procs, NEW failed \in BOOLEAN,
         Rollback(t, failed), UNCHANGED <<position, held>>
  PROVE  WritesInv'
<1>1. proc[t].alone \in BOOLEAN /\ proc[t].failed \in BOOLEAN
  BY InvParts DEF Fits, ProcessOK
<1>2. WriteFits(held, position, Back(proc[t], failed))
  BY <1>1, BackWrites
<1>3. proc' = [proc EXCEPT ![t] = Back(proc[t], failed)]
  BY DEF Rollback, Moves, NextTransaction, Back, Following
<1> QED BY <1>2, <1>3, OwnWrites

LEMMA StatementsKeepWrites ==
  ASSUME LedgerInv, WritesInv, NEW t \in Procs,
         Insert(t) \/ SelectForUpdate(t) \/ LockForAdd(t) \/ GuardedAdd(t) \/ FlipTerminal(t) \/ LowerCounter(t)
  PROVE  WritesInv'
<1> DEFINE r == proc[t]
           c == Item(t)
           k == c.key
<1>1. r.pc \in {"insert", "select", "lock", "add", "flip", "lower"} /\ UNCHANGED <<position, held>>
  BY DEF Insert, SelectForUpdate, LockForAdd, GuardedAdd, FlipTerminal, LowerCounter, At
<1>2. /\ r.todo # <<>> /\ ItemsFit(r.todo) /\ c = r.todo[1] /\ 1 \in DOMAIN r.todo
      /\ Shaped(r) /\ StepFits(held, r) /\ k \in Keys /\ c.qty \in Nat
      /\ WriteFits(held, position, r) /\ WritesAsCalled(r)
  <2>1. Fits(held, r) /\ r.todo # <<>>
    BY <1>1, InvParts DEF Fits, PcFits
  <2>2. ItemsFit(r.todo) /\ c = r.todo[1] /\ k \in Keys /\ c.qty \in Nat
    BY <2>1, InvParts, ConstantsAssumption
  <2>3. 1 \in DOMAIN r.todo
    BY <2>1, <2>2, ItemParts
  <2>4. Shaped(r) /\ StepFits(held, r)
    BY <2>1, ShapeOfProcess DEF Fits
  <2>5. WriteFits(held, position, r) /\ WritesAsCalled(r)
    BY DEF WritesInv, WriteFits
  <2> QED BY <2>1, <2>2, <2>3, <2>4, <2>5
<1>3. /\ held[k] \in Hold /\ held[k].qty \in Nat
      /\ k \in DOMAIN r.wrote => r.wrote[k] \in Hold
  BY <1>2, InvParts, HoldParts, ConstantsAssumption DEF Bookable
<1>4. c.qty > 0 => \A s : [qty |-> c.qty, stamp |-> s] # NoHold
  BY <1>2 DEF NoHold
<1>5. CASE Insert(t)
  <2> DEFINE q1 == [r EXCEPT !.pc = "select"]
             hold == [qty |-> c.qty, stamp |-> c.stamp]
             w == Writes(r.wrote, k, hold)
             q2 == [r EXCEPT !.pc = "lock", !.rows = r.rows \cup {k}, !.share = r.share \cup {k[3]}, !.wrote = w]
  <2>1. /\ r.pc = "insert" /\ hold # NoHold
        /\ IF held[k] # NoHold THEN proc' = [proc EXCEPT ![t] = q1] ELSE proc' = [proc EXCEPT ![t] = q2]
    BY <1>2, <1>4, <1>5 DEF Insert, Moves, At, StepFits
  <2>2. /\ w[k] = hold /\ \A x \in DOMAIN w : x = k \/ (x \in DOMAIN r.wrote /\ w[x] = r.wrote[x])
    BY WritesParts
  <2> HIDE DEF w, hold
  <2>3. /\ q1.op = r.op /\ q1.todo = r.todo /\ q1.wrote = r.wrote /\ q1.pc = "select"
        /\ q2.op = r.op /\ q2.todo = r.todo /\ q2.wrote = w /\ q2.pc = "lock"
    BY <1>2 DEF Shaped
  <2> HIDE DEF q1, q2
  <2>4. WriteFits(held, position, q1)
    <3>1. Counted(q1) = Counted(r)
      BY <2>1, <2>3 DEF Counted, Moving
    <3> QED BY <1>2, <2>3, <3>1, GoesOnWriting DEF Counted
  <2>5. held[k] = NoHold => WriteFits(held, position, q2)
    <3> SUFFICES ASSUME held[k] = NoHold PROVE WriteFits(held, position, q2)
      OBVIOUS
    <3>1. Rewrites(held, k, q2.wrote[k])
      BY <2>1, <2>2, <2>3 DEF Rewrites
    <3>2. \A x \in Counted(q2) : x \in Counted(r) /\ q2.wrote[x] = r.wrote[x]
      BY <1>2, <2>1, <2>2, <2>3 DEF Counted, Moving
    <3>3. \A x \in DOMAIN q2.wrote : x = k \/ (x \in DOMAIN r.wrote /\ q2.wrote[x] = r.wrote[x])
      BY <2>2, <2>3
    <3> QED BY <1>2, <2>1, <2>2, <2>3, <3>1, <3>2, <3>3, GoesOnWriting
  <2> QED BY <1>1, <2>1, <2>4, <2>5, OwnWrites
<1>6. CASE SelectForUpdate(t)
  <2> DEFINE q == [r EXCEPT !.rows = @ \cup {k}]
             m == [q EXCEPT !.pc = IF Delta(c) > 0 THEN "lock" ELSE "lower"]
  <2>1. /\ r.pc = "select"
        /\ IF held[k] = NoHold THEN Rollback(t, TRUE)
           ELSE IF Delta(c) = 0 THEN proc' = [proc EXCEPT ![t] = Done(q)] ELSE proc' = [proc EXCEPT ![t] = m]
    BY <1>6 DEF SelectForUpdate, Moves, At, StatementDone, Done
  <2>2. q.op = r.op /\ q.todo = r.todo /\ q.wrote = r.wrote /\ Shaped(q)
        /\ m.op = r.op /\ m.todo = r.todo /\ m.wrote = r.wrote
    BY <1>2 DEF Shaped
  <2> HIDE DEF q, m
  <2>3. WriteFits(held, position, m)
    <3>1. Counted(m) \subseteq Counted(r)
      BY <2>1, <2>2 DEF Counted, Moving
    <3> QED BY <1>2, <2>2, <3>1, GoesOnWriting DEF Counted
  <2>4. WriteFits(held, position, Done(q))
    <3> DEFINE d == Done(q)
    <3>1. /\ d.op = r.op /\ d.wrote = r.wrote /\ Counted(d) = Counted(r)
          /\ d.todo = r.todo \/ (r.op = "reserve" /\ d.todo = Tail(r.todo))
      BY <1>2, <2>1, <2>2, DoneParts DEF Counted, Moving
    <3> HIDE DEF d
    <3>2. WriteFits(held, position, d)
      BY <1>2, <3>1, GoesOnWriting DEF Counted
    <3> QED BY <3>2 DEF d
  <2> QED BY <1>1, <2>1, <2>3, <2>4, OwnWrites, RollbackWrites
<1>7. CASE LockForAdd(t)
  <2> DEFINE q == [r EXCEPT !.pc = "add", !.excl = @ \cup {k[3]}]
  <2>1. r.pc = "lock" /\ proc' = [proc EXCEPT ![t] = q]
    BY <1>7 DEF LockForAdd, LockPosition, Moves, At
  <2>2. q.op = r.op /\ q.todo = r.todo /\ q.wrote = r.wrote /\ q.pc = "add"
    BY <1>2 DEF Shaped
  <2> HIDE DEF q
  <2>3. Counted(q) = Counted(r)
    BY <2>1, <2>2 DEF Counted, Moving
  <2>4. WriteFits(held, position, q)
    BY <1>2, <2>2, <2>3, GoesOnWriting DEF Counted
  <2> QED BY <1>1, <2>1, <2>4, OwnWrites
<1>8. CASE GuardedAdd(t)
  <2> DEFINE d == [r.delta EXCEPT ![k[3]] = @ + Delta(c)]
             b == [r EXCEPT !.delta = d]
             hold == [Seen(t, k) EXCEPT !.qty = c.qty]
             w == Writes(r.wrote, k, hold)
             q == [b EXCEPT !.wrote = w]
  <2>1. r.pc = "add" /\ c.qty > 0 /\ (k \in DOMAIN r.wrote => r.wrote[k] # NoHold)
    BY <1>2, <1>8 DEF GuardedAdd, At, StepFits
  <2>2. hold # NoHold /\ Rewrites(held, k, hold)
    <3>1. Seen(t, k) \in Hold /\ (held[k] # NoHold => Seen(t, k).stamp = held[k].stamp)
      BY <1>2, <1>3, <2>1 DEF Seen, WriteFits, Rewrites
    <3>2. hold.qty = c.qty /\ hold.stamp = Seen(t, k).stamp
      BY <3>1 DEF Hold, NoHold
    <3>3. hold # NoHold
      BY <2>1, <3>2, <1>2 DEF NoHold
    <3> QED BY <3>1, <3>2, <3>3 DEF Rewrites
  <2>3. w[k] = hold /\ \A x \in DOMAIN w : x = k \/ (x \in DOMAIN r.wrote /\ w[x] = r.wrote[x])
    BY WritesParts
  <2> HIDE DEF d
  <2>4. b.op = r.op /\ b.todo = r.todo /\ b.wrote = r.wrote /\ Shaped(b)
    BY <1>2 DEF Shaped
  <2>5. SetQuantity(t, c, b) = q
    BY <2>4 DEF SetQuantity
  <2>6. (Admits(t, c) /\ proc' = [proc EXCEPT ![t] = Done(q)]) \/ Rollback(t, TRUE)
    <3>1. b = [r EXCEPT !.delta[k[3]] = @ + Delta(c)]
      BY DEF d
    <3> HIDE DEF q, b, d
    <3> QED BY <1>8, <2>5, <3>1 DEF GuardedAdd, Moves, StatementDone, Done
  <2> HIDE DEF w, b, hold
  <2>7. q.op = r.op /\ q.todo = r.todo /\ q.wrote = w /\ Shaped(q)
    BY <2>4 DEF Shaped
  <2> HIDE DEF q
  <2>8. Admits(t, c) => WriteFits(held, position, Done(q))
    <3> DEFINE e == Done(q)
    <3>1. /\ e.op = r.op /\ e.wrote = w /\ Counted(e) = DOMAIN w
          /\ e.todo = r.todo \/ (r.op = "reserve" /\ e.todo = Tail(r.todo))
      BY <1>2, <2>7, DoneParts
    <3> HIDE DEF e
    <3> SUFFICES ASSUME Admits(t, c) PROVE WriteFits(held, position, e)
      BY DEF e
    <3>2. ~position[k[3]].stale
      BY DEF Admits
    <3>3. \A x \in Counted(e) : x = k \/ (x \in Counted(r) /\ e.wrote[x] = r.wrote[x])
      BY <1>2, <2>3, <3>1 DEF Counted
    <3> QED BY <1>2, <2>2, <2>3, <3>1, <3>2, <3>3, GoesOnWriting
  <2> QED BY <1>1, <2>6, <2>8, OwnWrites, RollbackWrites
<1>9. CASE FlipTerminal(t)
  <2> DEFINE w == Writes(r.wrote, k, NoHold)
             q == [r EXCEPT !.pc = "lower", !.rows = r.rows \cup {k}, !.wrote = w]
  <2>1. /\ r.pc = "flip" /\ c.qty = 0
        /\ IF held[k] = NoHold THEN Rollback(t, FALSE) ELSE proc' = [proc EXCEPT ![t] = q]
    BY <1>2, <1>9 DEF FlipTerminal, Moves, At, StepFits
  <2>2. w[k] = NoHold /\ \A x \in DOMAIN w : x = k \/ (x \in DOMAIN r.wrote /\ w[x] = r.wrote[x])
    BY WritesParts
  <2> HIDE DEF w
  <2>3. q.op = r.op /\ q.todo = r.todo /\ q.wrote = w /\ q.pc = "lower"
    BY <1>2 DEF Shaped
  <2> HIDE DEF q
  <2>4. r.op # "reserve"
    BY <1>2, <2>1 DEF WritesAsCalled
  <2>5. held[k] # NoHold => WriteFits(held, position, q)
    <3> SUFFICES ASSUME held[k] # NoHold PROVE WriteFits(held, position, q)
      OBVIOUS
    <3>1. Rewrites(held, k, q.wrote[k])
      BY <2>2, <2>3 DEF Rewrites
    <3>2. \A x \in Counted(q) : x \in Counted(r) /\ q.wrote[x] = r.wrote[x]
      BY <1>2, <2>1, <2>2, <2>3 DEF Counted, Moving
    <3>3. \A x \in DOMAIN q.wrote : x = k \/ (x \in DOMAIN r.wrote /\ q.wrote[x] = r.wrote[x])
      BY <2>2, <2>3
    <3> QED BY <1>2, <2>3, <2>4, <3>1, <3>2, <3>3, GoesOnWriting
  <2>6. CASE held[k] = NoHold
    <3> DEFINE f == FALSE
    <3>1. f \in BOOLEAN /\ Rollback(t, f)
      BY <2>1, <2>6
    <3> HIDE DEF f
    <3> QED BY <1>1, <3>1, RollbackWrites
  <2>7. CASE held[k] # NoHold
    BY <1>1, <2>1, <2>5, <2>7, OwnWrites
  <2> QED BY <2>6, <2>7
<1>10. CASE LowerCounter(t)
  <2> DEFINE p == k[3]
             now == position[p].reserved + r.delta[p]
             less == IF -Delta(c) > now THEN now ELSE -Delta(c)
             d == [r.delta EXCEPT ![p] = @ - less]
             b == [r EXCEPT !.excl = r.excl \cup {p}, !.delta = d]
             hold == [Seen(t, k) EXCEPT !.qty = c.qty]
             w == Writes(r.wrote, k, hold)
             q == IF c.qty = 0 THEN b ELSE [b EXCEPT !.wrote = w]
  <2>1. /\ r.pc = "lower" /\ c.qty <= held[k].qty
        /\ c.qty > 0 => k \notin DOMAIN r.wrote
        /\ c.qty = 0 => k \in DOMAIN r.wrote /\ r.wrote[k] = NoHold
    BY <1>2, <1>10 DEF LowerCounter, At, StepFits
  <2>2. c.qty > 0 => hold # NoHold /\ hold.qty = c.qty /\ Rewrites(held, k, hold)
    <3> SUFFICES ASSUME c.qty > 0 PROVE hold # NoHold /\ hold.qty = c.qty /\ Rewrites(held, k, hold)
      OBVIOUS
    <3>1. Seen(t, k) = held[k]
      BY <2>1 DEF Seen
    <3>2. hold.qty = c.qty /\ hold.stamp = held[k].stamp
      BY <1>3, <3>1 DEF Hold, NoHold
    <3>3. hold # NoHold
      BY <1>2, <3>2 DEF NoHold
    <3> QED BY <3>2, <3>3 DEF Rewrites
  <2>3. w[k] = hold /\ \A x \in DOMAIN w : x = k \/ (x \in DOMAIN r.wrote /\ w[x] = r.wrote[x])
    BY WritesParts
  <2> HIDE DEF d
  <2>4. b.op = r.op /\ b.todo = r.todo /\ b.wrote = r.wrote /\ Shaped(b)
    BY <1>2 DEF Shaped
  <2>5. (IF c.qty = 0 THEN b ELSE SetQuantity(t, c, b)) = q
    BY <2>4 DEF SetQuantity
  <2>6. proc' = [proc EXCEPT ![t] = Done(q)]
    <3>1. b = [r EXCEPT !.excl = @ \cup {p}, !.delta[p] = @ - less]
      BY DEF d
    <3>2. StatementDone(t, IF c.qty = 0 THEN [r EXCEPT !.excl = @ \cup {p}, !.delta[p] = @ - less]
                           ELSE SetQuantity(t, c, [r EXCEPT !.excl = @ \cup {p}, !.delta[p] = @ - less]))
      BY <1>10 DEF LowerCounter
    <3> HIDE DEF q, b, d
    <3>3. StatementDone(t, q)
      BY <2>5, <3>1, <3>2
    <3> QED BY <3>3 DEF Moves, StatementDone, Done
  <2> HIDE DEF w, b, hold
  <2>7. q.op = r.op /\ q.todo = r.todo /\ Shaped(q) /\ q.wrote = IF c.qty = 0 THEN r.wrote ELSE w
    BY <2>4 DEF Shaped
  <2> HIDE DEF q
  <2>8. /\ \A x \in DOMAIN q.wrote : x = k \/ (x \in DOMAIN r.wrote /\ q.wrote[x] = r.wrote[x])
        /\ k \in DOMAIN q.wrote => q.wrote[k].qty <= held[k].qty
        /\ k \in DOMAIN q.wrote => \/ k \in DOMAIN r.wrote /\ q.wrote[k] = r.wrote[k]
                                   \/ q.wrote[k] # NoHold /\ Rewrites(held, k, q.wrote[k])
    <3>1. CASE c.qty = 0
      BY <1>3, <2>1, <2>7, <3>1 DEF NoHold
    <3>2. CASE c.qty > 0
      BY <2>1, <2>2, <2>3, <2>7, <3>2
    <3> QED BY <1>2, <3>1, <3>2
  <2>9. WriteFits(held, position, Done(q))
    <3> DEFINE e == Done(q)
    <3>1. /\ e.op = r.op /\ e.wrote = q.wrote /\ Counted(e) = DOMAIN q.wrote
          /\ e.todo = r.todo \/ (r.op = "reserve" /\ e.todo = Tail(r.todo))
      BY <1>2, <2>7, DoneParts
    <3> HIDE DEF e
    <3>2. k \in DOMAIN q.wrote => ~(q.wrote[k].qty > held[k].qty)
      <4>1. k \in DOMAIN q.wrote => q.wrote[k].qty \in Int
        <5>1. CASE c.qty = 0
          BY <2>1, <2>7, <5>1 DEF NoHold
        <5>2. CASE c.qty > 0
          BY <1>2, <2>2, <2>3, <2>7, <5>2
        <5> QED BY <1>2, <5>1, <5>2
      <4> QED BY <1>3, <2>8, <4>1
    <3>3. \A x \in Counted(e) : x = k \/ (x \in Counted(r) /\ e.wrote[x] = r.wrote[x])
      BY <1>2, <2>8, <3>1 DEF Counted
    <3>4. WriteFits(held, position, e)
      BY <1>2, <2>8, <3>1, <3>2, <3>3, GoesOnWriting
    <3> QED BY <3>4 DEF e
  <2> QED BY <1>1, <2>6, <2>9, OwnWrites
<1> QED BY <1>5, <1>6, <1>7, <1>8, <1>9, <1>10

LEMMA CommitKeepsWrites ==
  ASSUME LedgerInv, WritesInv, NEW t \in Procs, Commit(t) PROVE WritesInv'
<1> DEFINE r == proc[t]
           q == Back(r, FALSE)
<1>1. /\ proc' = [proc EXCEPT ![t] = q] /\ r.pc = "commit"
      /\ held' = [k \in Keys |-> Seen(t, k)]
      /\ position' = [p \in Positions |-> [position[p] EXCEPT !.reserved = @ + r.delta[p]]]
  BY DEF Commit, At, Moves, NextTransaction, Following, Back
<1>2. proc' = [u \in Procs |-> IF u = t THEN q ELSE proc[u]]
  BY <1>1 DEF LedgerInv, StateOK
<1>3. WriteFits(held', position', q)
  <2> DEFINE b == FALSE
  <2>1. r.alone \in BOOLEAN /\ r.failed \in BOOLEAN /\ b \in BOOLEAN
    BY InvParts DEF Fits, ProcessOK
  <2> HIDE DEF b
  <2>2. WriteFits(held', position', Back(r, b))
    BY <2>1, BackWrites
  <2> QED BY <2>2 DEF b
<1>4. \A p \in Positions : position'[p].stale = position[p].stale
  BY <1>1 DEF LedgerInv, StateOK
<1>5. ASSUME NEW u \in Procs \ {t} PROVE WriteFits(held', position', proc[u])
  <2> DEFINE s == proc[u]
  <2>1. WriteFits(held, position, s) /\ r.rows \cap s.rows = {} /\ Bookable(held, s)
    BY InvParts DEF WritesInv, LedgerInv, LocksApart, Apart
  <2>2. DOMAIN r.wrote \subseteq r.rows /\ DOMAIN s.wrote \subseteq s.rows /\ DOMAIN s.wrote \subseteq Keys
    BY <2>1, InvParts DEF Fits, ProcessOK, Bookable
  <2>3. \A k \in DOMAIN s.wrote : held'[k] = held[k]
    BY <1>1, <2>1, <2>2 DEF Seen
  <2>4. \A k \in Counted(s) : position'[k[3]].stale = position[k[3]].stale
    BY <1>4, <2>2, KeyParts DEF Counted
  <2> HIDE DEF s
  <2>5. WriteFits(held', position', s)
    BY <2>1, <2>3, <2>4, WriteElsewhere
  <2> QED BY <2>5 DEF s
<1> HIDE DEF q
<1> QED BY <1>2, <1>3, <1>5 DEF WritesInv

LEMMA SyncKeepsWrites ==
  ASSUME LedgerInv, WritesInv, NEW p \in Positions, NEW n \in Levels, NEW stale \in BOOLEAN, SyncStock(p, n, stale)
  PROVE  WritesInv'
<1>1. /\ \A u \in Procs : p \notin proc[u].excl
      /\ position' = [position EXCEPT ![p] = MasterColumns(p, n, stale)]
      /\ UNCHANGED <<held, proc>>
  BY DEF SyncStock, Conflicts
<1>2. \A s \in Positions : s # p => position'[s] = position[s]
  BY <1>1 DEF LedgerInv, StateOK
<1>3. ASSUME NEW u \in Procs PROVE WriteFits(held, position', proc[u])
  <2> DEFINE s == proc[u]
  <2>1. WriteFits(held, position, s) /\ Fits(held, s)
    BY InvParts DEF WritesInv
  <2>2. \A k \in Counted(s) : k[3] \in Positions /\ k[3] # p
    BY <1>1, <2>1 DEF Fits, LocksFit, ProcessOK
  <2>3. \A k \in Counted(s) : position'[k[3]].stale = position[k[3]].stale
    BY <1>2, <2>2
  <2> HIDE DEF s
  <2>4. WriteFits(held, position', s)
    BY <2>1, <2>3, WriteElsewhere
  <2> QED BY <2>4 DEF s
<1> QED BY <1>1, <1>3 DEF WritesInv

LEMMA BeginKeepsWrites ==
  ASSUME LedgerInv, WritesInv, NEW t \in Procs, NEW op, NEW o \in Orders, NEW items, Wanted(op, o, items),
         Begin(t, op, o, items), UNCHANGED <<position, held>>
  PROVE  WritesInv'
<1> DEFINE others == {u \in Procs \ {t} : proc[u].order = o}
           alone == others = {}
           r == [Idle EXCEPT !.op = op, !.order = o, !.alone = alone]
           L == ByPosition(items)
           q == Ended(AfterItem(r, L))
           beside(u) == [proc[u] EXCEPT !.alone = @ /\ u \notin others]
<1>1. proc' = [u \in Procs |-> IF u = t THEN q ELSE beside(u)]
  BY DEF Begin
<1>2. Blank(r) /\ r.op = op
  <2>1. alone \in BOOLEAN
    OBVIOUS
  <2> HIDE DEF alone, others
  <2>2. Blank(r)
    BY <2>1, BlankStarts
  <2> QED BY <2>2 DEF Idle
<1>3. \A n \in DOMAIN L : L[n] \in items
  <2>1. L \in Seq(items)
    BY Listed DEF Wanted, Asked
  <2> QED BY <2>1
<1> HIDE DEF L, r
<1>4. WriteFits(held, position, q)
  <2>1. q = Idle \/ (q.op = op /\ q.todo = L /\ q.wrote = <<>>)
    BY <1>2, StartedParts DEF SameCall
  <2> HIDE DEF q
  <2>2. op = "reserve" => \A n \in DOMAIN L : L[n].qty > 0
    BY <1>3 DEF Wanted
  <2> QED BY <2>1, <2>2, NothingWritten, IdleWrites
<1> HIDE DEF q
<1>5. ASSUME NEW u \in Procs \ {t} PROVE WriteFits(held, position, beside(u))
  <2> DEFINE s == proc[u]
             d == s.alone /\ u \notin others
             b == [s EXCEPT !.alone = d]
  <2>1. WriteFits(held, position, s) /\ Shaped(s)
    BY InvParts, ShapeOfProcess DEF WritesInv, Fits
  <2> HIDE DEF d
  <2>2. b.pc = s.pc /\ b.op = s.op /\ b.todo = s.todo /\ b.wrote = s.wrote
    BY <2>1 DEF Shaped
  <2>3. beside(u) = b
    BY DEF d
  <2> HIDE DEF b, s
  <2>4. Counted(b) = Counted(s)
    BY <2>2 DEF Counted
  <2>5. WriteFits(held, position, b)
    BY <2>1, <2>2, <2>4 DEF WriteFits, WritesAsCalled, Raises
  <2> QED BY <2>3, <2>5
<1> HIDE DEF beside
<1> QED BY <1>1, <1>4, <1>5 DEF WritesInv

LEMMA InitWrites == ASSUME Init PROVE WritesInv
<1>1. \A t \in Procs : proc[t] = Idle
  BY DEF Init
<1> QED BY <1>1, IdleWrites DEF WritesInv

LEMMA NextKeepsWrites == ASSUME LedgerInv, WritesInv, [Next]_vars PROVE WritesInv'
<1>1. CASE UNCHANGED <<position, held, proc>>
  BY <1>1 DEF WritesInv
<1>2. ASSUME NEW t \in Procs, NEW o \in Orders, Call(t, o) PROVE WritesInv'
  BY <1>2, CallWanted, BeginKeepsWrites
<1>3. ASSUME NEW t \in Procs,
             \/ Insert(t) \/ SelectForUpdate(t) \/ LockForAdd(t) \/ GuardedAdd(t)
             \/ FlipTerminal(t) \/ LowerCounter(t) \/ Commit(t)
      PROVE  WritesInv'
  BY <1>3, StatementsKeepWrites, CommitKeepsWrites
<1>4. ASSUME NEW t \in Procs, DeadlockVictim(t) \/ StatementFails(t) PROVE WritesInv'
  BY <1>4, RollbackWrites DEF DeadlockVictim, StatementFails
<1>5. ASSUME NEW t \in Procs, ClaimReservationConsume(t) \/ ProcessDies(t) PROVE WritesInv'
  BY <1>5, IdleWrites, OwnWrites DEF ClaimReservationConsume, ProcessDies, Moves
<1>6. ASSUME NEW p \in Positions, NEW n \in Levels, NEW stale \in BOOLEAN, SyncStock(p, n, stale)
      PROVE  WritesInv'
  BY <1>6, SyncKeepsWrites
<1>7. ASSUME NEW o \in Shipped, Dispatch(o) PROVE UNCHANGED <<position, held, proc>>
  BY <1>7 DEF Dispatch
<1>8. CASE UNCHANGED vars
  BY <1>1, <1>8 DEF vars
<1> QED BY <1>1, <1>2, <1>3, <1>4, <1>5, <1>6, <1>7, <1>8 DEF Next

LEMMA WritesHold == Spec => [](LedgerInv /\ CallsInv /\ WritesInv)
<1>1. LedgerInv /\ WritesInv /\ [Next]_vars => WritesInv'
  BY NextKeepsWrites
<1> QED BY <1>1, InitWrites, CallsHold, PTL DEF Spec

-----------------------------------------------------------------------------
(* The account.                                                                 *)
Offered == [p \in Positions |-> IF position[p].stale THEN 0 ELSE position[p].available]

LEMMA AccountSums ==
  ASSUME NEW h, h \in [Keys -> Hold], NEW p
  PROVE  /\ Account!Booked(h, p) = Total(Quantity(h), KeysAt(p))
         /\ Account!Promised(h, p) = Total(Published(h), KeysAt(p))
<1>1. Account!Booked(h, p) = Total(Quantity(h), KeysAt(p))
  <2>1. MapThenSumSet(LAMBDA k : h[k].qty, KeysAt(p)) = Total([k \in KeysAt(p) |-> h[k].qty], KeysAt(p))
    BY KeysAtFinite, SumOfRows
  <2>2. \A k \in KeysAt(p) : [x \in KeysAt(p) |-> h[x].qty][k] = Quantity(h)[k]
    BY KeysAtFinite DEF Quantity
  <2>3. Total([k \in KeysAt(p) |-> h[k].qty], KeysAt(p)) = Total(Quantity(h), KeysAt(p))
    BY <2>2, KeysAtFinite, TotalAgrees
  <2>4. Account!Booked(h, p) = MapThenSumSet(LAMBDA k : h[k].qty, KeysAt(p))
    BY Zenon DEF Account!Booked, Account!MapThenSumSet, Account!MapThenFoldSet, MapThenSumSet, MapThenFoldSet, KeysAt
  <2> QED BY <2>1, <2>3, <2>4
<1>2. Account!Promised(h, p) = Total(Published(h), KeysAt(p))
  <2>1. {k \in Keys : k[3] = p /\ h[k].stamp = "published"}
          = {k \in Keys : k[3] = p /\ h[k].stamp \in {"published"}}
    OBVIOUS
  <2>2. Account!Promised(h, p)
          = MapThenSumSet(LAMBDA k : h[k].qty, {k \in Keys : k[3] = p /\ h[k].stamp = "published"})
    BY Zenon DEF Account!Promised, Account!MapThenSumSet, Account!MapThenFoldSet, MapThenSumSet, MapThenFoldSet
  <2> QED BY <2>1, <2>2, HeldIsTotal
<1> QED BY <1>1, <1>2

(* A transaction that raises what is promised of a position found it not stale. *)
LEMMA RaisedIsOffered ==
  ASSUME LedgerInv, WritesInv, NEW t \in Procs, Commit(t), NEW p \in Positions,
         Total(Published(held'), KeysAt(p)) > Total(Published(held), KeysAt(p))
  PROVE  Total(Published(held'), KeysAt(p)) <= Offered[p]
<1> DEFINE r == proc[t]
<1>1. Kept(held, position, r) /\ Bookable(held, r) /\ WriteFits(held, position, r)
  BY InvParts DEF WritesInv
<1>2. /\ Counted(r) = DOMAIN r.wrote
      /\ \A k \in Keys : held'[k] = IF k \in DOMAIN r.wrote THEN r.wrote[k] ELSE held[k]
  BY DEF Commit, At, Counted, Moving, Seen
<1>3. Published(held') = Publishing(held, r)
  BY <1>2 DEF Published, Publishing
<1>4. Total(Published(held'), KeysAt(p)) <= position[p].available
  BY <1>1, <1>3 DEF Kept, StockKept
<1>5. \A k \in KeysAt(p) : Published(held')[k] \in Nat /\ Published(held)[k] \in Nat
  BY <1>1, <1>3, BooksAreNumbers, KeysAtFinite
<1>6. PICK k \in KeysAt(p) : Published(held')[k] > Published(held)[k]
  BY <1>5, KeysAtFinite, GreaterTerm
<1>7. k \in Keys /\ k[3] = p
  BY DEF KeysAt
<1>8. k \in DOMAIN r.wrote /\ Promised(r.wrote[k]) > Promised(held[k])
  <2>1. Promised(held'[k]) > Promised(held[k])
    BY <1>6, <1>7 DEF Published
  <2>2. Promised(held[k]) \in Nat
    BY <1>5, <1>7 DEF Published
  <2> QED BY <1>2, <1>7, <2>1, <2>2
<1>9. r.wrote[k].qty > held[k].qty
  <2>1. r.wrote[k] \in Hold /\ held[k] \in Hold
    BY <1>1, <1>7, <1>8 DEF Bookable
  <2>2. Rewrites(held, k, r.wrote[k])
    BY <1>1, <1>8 DEF WriteFits
  <2>3. /\ r.wrote[k].qty \in Nat /\ held[k].qty \in Nat
        /\ Promised(r.wrote[k]) \in Nat /\ Promised(held[k]) \in Nat
    BY <2>1, HoldParts, ConstantsAssumption
  <2>4. r.wrote[k].stamp = "published" /\ Promised(r.wrote[k]) = r.wrote[k].qty /\ r.wrote[k] # NoHold
    BY <1>8, <2>3 DEF Promised, NoHold
  <2>5. held[k] = NoHold \/ held[k].stamp = "published"
    BY <2>2, <2>4 DEF Rewrites
  <2>6. held[k] = NoHold => held[k].qty = 0 /\ Promised(held[k]) = 0
    BY DEF NoHold, Promised
  <2>7. held[k].stamp = "published" => Promised(held[k]) = held[k].qty
    BY DEF Promised
  <2> QED BY <1>8, <2>3, <2>4, <2>5, <2>6, <2>7
<1>10. ~position[p].stale
  BY <1>1, <1>2, <1>7, <1>8, <1>9 DEF WriteFits, Raises
<1> QED BY <1>4, <1>10 DEF Offered

LEMMA CommitIsAtOnce ==
  ASSUME LedgerInv, LedgerInv', CallsInv, WritesInv, NEW t \in Procs, Commit(t) PROVE Account!Next
<1> DEFINE r == proc[t]
           w == r.wrote
<1>1. /\ r.pc = "commit" /\ DOMAIN w \subseteq Keys /\ r.order \in Orders
      /\ \A k \in DOMAIN w : k[1] = r.order
      /\ \A k \in Keys : held'[k] = IF k \in DOMAIN w THEN w[k] ELSE held[k]
      /\ closed' = closed \cup {k \in DOMAIN w : w[k] = NoHold}
  BY CommitParts, CallParts
<1>2. held \in [Keys -> Hold] /\ held' \in [Keys -> Hold]
  BY DEF LedgerInv, StateOK
<1>3. WritesAsCalled(r) /\ \A k \in DOMAIN w : Rewrites(held, k, w[k])
  BY DEF WritesInv, WriteFits
<1>4. Offered' = Offered
  <2>1. \A p \in Positions : position'[p].stale = position[p].stale /\ position'[p].available = position[p].available
    BY DEF Commit, LedgerInv, StateOK
  <2> QED BY <2>1 DEF Offered
<1>5. Account!Books
  <2>1. ASSUME NEW p \in Positions
        PROVE  position'[p].reserved = position[p].reserved + Account!Booked(held', p) - Account!Booked(held, p)
    <3>1. Account!Booked(held', p) = Total(Quantity(held'), KeysAt(p))
          /\ Account!Booked(held, p) = Total(Quantity(held), KeysAt(p))
      BY <1>2, AccountSums
    <3>2. position'[p].reserved = Total(Quantity(held'), KeysAt(p))
          /\ position[p].reserved = Total(Quantity(held), KeysAt(p))
      BY DEF LedgerInv, CountersKept
    <3>3. position'[p].reserved \in Nat /\ position[p].reserved \in Nat
      BY DEF LedgerInv, StateOK
    <3> QED BY <3>1, <3>2, <3>3
  <2> QED BY <2>1 DEF Account!Books
<1>6. CASE \A k \in DOMAIN w : w[k] # NoHold
  <2>1. closed' = closed
    BY <1>1, <1>6
  <2>2. \A k \in Keys : held'[k] # held[k] => k[1] = r.order
    BY <1>1
  <2>3. \A k \in Keys : held[k] # NoHold => held'[k] # NoHold /\ held'[k].stamp = held[k].stamp
    BY <1>1, <1>3, <1>6 DEF Rewrites
  <2>4. ASSUME NEW p \in Positions, Account!Promised(held', p) > Account!Promised(held, p)
        PROVE  Account!Promised(held', p) <= Offered[p]
    BY <1>2, <2>4, AccountSums, RaisedIsOffered
  <2>5. Account!Claim(r.order)
    BY <1>4, <1>5, <2>1, <2>2, <2>3, <2>4 DEF Account!Claim, Offered
  <2> QED BY <1>1, <2>5 DEF Account!Next
<1>7. CASE \E k \in DOMAIN w : w[k] = NoHold
  <2>1. PICK k \in DOMAIN w : w[k] = NoHold
    BY <1>7
  <2>2. DOMAIN w = {k} /\ k \in Keys /\ held[k] # NoHold
    BY <1>1, <1>3, <2>1 DEF WritesAsCalled, Rewrites
  <2>3. held' = [held EXCEPT ![k] = NoHold]
    BY <1>1, <1>2, <2>1, <2>2
  <2>4. closed' = closed \cup {k}
    BY <1>1, <2>1, <2>2
  <2>5. Account!End(k)
    BY <1>4, <1>5, <2>2, <2>3, <2>4 DEF Account!End, Offered
  <2> QED BY <2>2, <2>5 DEF Account!Next
<1> QED BY <1>6, <1>7

LEMMA SyncRestocks ==
  ASSUME LedgerInv, NEW p \in Positions, NEW n \in Levels, NEW stale \in BOOLEAN, SyncStock(p, n, stale)
  PROVE  Account!Next
<1>1. /\ position' = [position EXCEPT ![p] = MasterColumns(p, n, stale)]
      /\ UNCHANGED <<held, closed>>
  BY DEF SyncStock
<1>2. position \in [Positions -> [available : Levels, reserved : Nat, stale : BOOLEAN]]
  BY DEF LedgerInv, StateOK
<1>3. MasterColumns(p, n, stale).reserved = position[p].reserved
  BY <1>2 DEF MasterColumns
<1>4. /\ \A s \in Positions : position'[s].reserved = position[s].reserved
      /\ \A s \in Positions \ {p} : position'[s] = position[s]
  BY <1>1, <1>2, <1>3
<1>5. \A s \in Positions \ {p} : Offered'[s] = Offered[s]
  BY <1>4 DEF Offered
<1>6. Account!Restock(p)
  BY <1>1, <1>4, <1>5 DEF Account!Restock, Offered
<1> QED BY <1>6 DEF Account!Next

LEMMA OthersStutter ==
  ASSUME [Next]_vars
  PROVE  \/ UNCHANGED <<position, held, closed>>
         \/ \E t \in Procs : Commit(t)
         \/ \E p \in Positions, n \in Levels, stale \in BOOLEAN : SyncStock(p, n, stale)
<1>1. \A t \in Procs, o \in Orders : Call(t, o) => UNCHANGED <<position, held, closed>>
  BY DEF Call, ReserveForOrder, NarrowForOrder, CloseLines, ConsumeShipment
<1>2. \A t \in Procs :
        Insert(t) \/ SelectForUpdate(t) \/ LockForAdd(t) \/ GuardedAdd(t) \/ FlipTerminal(t) \/ LowerCounter(t) =>
          UNCHANGED <<position, held, closed>>
  BY DEF Insert, SelectForUpdate, LockForAdd, GuardedAdd, FlipTerminal, LowerCounter
<1>3. \A t \in Procs :
        ClaimReservationConsume(t) \/ DeadlockVictim(t) \/ StatementFails(t) \/ ProcessDies(t) =>
          UNCHANGED <<position, held, closed>>
  BY DEF ClaimReservationConsume, DeadlockVictim, StatementFails, ProcessDies
<1>4. /\ \A o \in Shipped : Dispatch(o) => UNCHANGED <<position, held, closed>>
      /\ UNCHANGED vars => UNCHANGED <<position, held, closed>>
  BY DEF Dispatch, vars
<1> QED BY <1>1, <1>2, <1>3, <1>4 DEF Next

(* Statements of calls that interleave, wait for locks, deadlock, fail and die  *)
(* amount to transactions that happen at once: the claims of an order are booked*)
(* together, out of what is on offer, a hold ends on its own, and the counters  *)
(* go with them.                                                                *)
THEOREM LedgerIsAccount == Spec => ImplementsAccount
<1>1. Init => Account!Init
  <2> SUFFICES ASSUME Init PROVE Account!Init
    OBVIOUS
  <2>1. \A p \in Positions : position[p].reserved = 0
    BY DEF Init
  <2> QED BY <2>1 DEF Init, Account!Init
<1>2. LedgerInv /\ LedgerInv' /\ CallsInv /\ WritesInv /\ [Next]_vars => [Account!Next]_(Account!vars)
  <2> SUFFICES ASSUME LedgerInv, LedgerInv', CallsInv, WritesInv, [Next]_vars
               PROVE  [Account!Next]_(Account!vars)
    OBVIOUS
  <2>1. CASE UNCHANGED <<position, held, closed>>
    BY <2>1 DEF Account!vars
  <2>2. CASE ~UNCHANGED <<position, held, closed>>
    BY <2>2, OthersStutter, CommitIsAtOnce, SyncRestocks
  <2> QED BY <2>1, <2>2
<1> QED BY <1>1, <1>2, WritesHold, PTL DEF Spec, ImplementsAccount, Account!Spec
=============================================================================
