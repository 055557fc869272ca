------------------------------- MODULE SetSums -------------------------------
(* Sums over finite sets, for the proofs: MapThenSumSet of the community modules*)
(* takes its terms in an order it chooses, and what a proof needs is that the   *)
(* order does not matter.  The facts follow by induction over the subsets of    *)
(* the set.                                                                     *)
EXTENDS Integers, FiniteSets, FiniteSetsExt, FiniteSetTheorems, FunctionTheorems, WellFoundedInduction, TLAPS

-----------------------------------------------------------------------------
(* Induction, over sets instead of formulas: the library's theorems take an     *)
(* operator as a parameter.                                                     *)
LEMMA LeastNumber ==
  ASSUME NEW T, T \subseteq Nat, T # {}
  PROVE  \E n \in T : \A m \in T : n <= m
<1> DEFINE R == OpToRel(<, Nat)
<1>1. IsWellFoundedOn(R, Nat)
  BY NatLessThanWellFounded
<1>2. \A m, n \in Nat : m < n => <<m, n>> \in R
  BY DEF OpToRel
<1> HIDE DEF R
<1>3. PICK n \in T : \A m \in T : ~(<<m, n>> \in R)
  BY <1>1, WFMin
<1>4. ASSUME NEW m \in T PROVE n <= m
  <2>1. n \in Nat /\ m \in Nat /\ ~(m < n)
    BY <1>2, <1>3
  <2> QED BY <2>1
<1> QED BY <1>4

LEMMA EveryNumber ==
  ASSUME NEW G, 0 \in G, \A n \in Nat : n \in G => n + 1 \in G
  PROVE  Nat \subseteq G
<1> SUFFICES ASSUME Nat \ G # {} PROVE FALSE
  OBVIOUS
<1>1. PICK n \in Nat \ G : \A m \in Nat \ G : n <= m
  BY LeastNumber
<1>2. n - 1 \in Nat /\ n - 1 \notin Nat \ G
  BY <1>1
<1> QED BY <1>1, <1>2

LEMMA EverySubset ==
  ASSUME NEW S, IsFiniteSet(S), NEW G,
         \A s \in SUBSET S : (\A t \in SUBSET s : t # s => t \in G) => s \in G
  PROVE  SUBSET S \subseteq G
<1> DEFINE sizes == {Cardinality(s) : s \in (SUBSET S) \ G}
<1> SUFFICES ASSUME (SUBSET S) \ G # {} PROVE FALSE
  OBVIOUS
<1>1. \A s \in SUBSET S : IsFiniteSet(s) /\ Cardinality(s) \in Nat
  BY FS_Subset, FS_CardinalityType
<1>2. sizes \subseteq Nat /\ sizes # {}
  BY <1>1
<1>3. PICK n \in sizes : \A m \in sizes : n <= m
  BY <1>2, LeastNumber
<1>4. PICK s \in (SUBSET S) \ G : Cardinality(s) = n
  BY <1>3
<1>5. ASSUME NEW t \in SUBSET s, t # s PROVE t \in G
  <2>1. IsFiniteSet(s) /\ IsFiniteSet(t) /\ Cardinality(t) \in Nat /\ Cardinality(s) \in Nat
    BY <1>1
  <2>2. Cardinality(t) < Cardinality(s)
    BY <1>5, <2>1, FS_Subset
  <2>3. t \in SUBSET S
    OBVIOUS
  <2>4. t \notin G => Cardinality(t) \in sizes
    BY <2>3
  <2> QED BY <1>3, <1>4, <2>1, <2>2, <2>4
<1> QED BY <1>4, <1>5

LEMMA ImageIsFinite ==
  ASSUME NEW S, IsFiniteSet(S), NEW f, DOMAIN f = S, f = [x \in S |-> f[x]]
  PROVE  IsFiniteSet({f[x] : x \in S})
<1>1. f \in Surjection(S, {f[x] : x \in S})
  BY DEF Surjection
<1> QED BY <1>1, FS_Surjection

-----------------------------------------------------------------------------
(* Sums.  MapThenSumSet takes its terms in an order of its own (CHOOSE); that   *)
(* the sum is a sum whatever the order follows by induction over the set.       *)
Any(s) == CHOOSE x \in s : TRUE
Sums(f, S, g) == g = [s \in SUBSET S |-> IF s = {} THEN 0 ELSE f[Any(s)] + g[s \ {Any(s)}]]
Summing(f, S) == CHOOSE g : Sums(f, S, g)
Total(f, S) == Summing(f, S)[S]

LEMMA AnyIsIn == ASSUME NEW s, s # {} PROVE Any(s) \in s
BY DEF Any

(* There is a function that sums, ...                                           *)
LEMMA SummingExists == ASSUME NEW f, NEW S, IsFiniteSet(S) PROVE Sums(f, S, Summing(f, S))
<1> DEFINE Small(n) == {s \in SUBSET S : Cardinality(s) <= n}
           SumsSmall(n, g) == g = [s \in Small(n) |-> IF s = {} THEN 0 ELSE f[Any(s)] + g[s \ {Any(s)}]]
           G == {n \in Nat : \E g : SumsSmall(n, g)}
<1>1. \A s \in SUBSET S : IsFiniteSet(s) /\ Cardinality(s) \in Nat
  BY FS_Subset, FS_CardinalityType
<1>2. \A n \in Nat : \A s \in Small(n + 1) : s # {} => s \ {Any(s)} \in Small(n)
  <2> SUFFICES ASSUME NEW n \in Nat, NEW s \in SUBSET S, Cardinality(s) <= n + 1, s # {}
               PROVE  Cardinality(s \ {Any(s)}) <= n
    OBVIOUS
  <2>1. Cardinality(s \ {Any(s)}) = Cardinality(s) - 1
    BY <1>1, AnyIsIn, FS_RemoveElement
  <2> QED BY <1>1, <2>1
<1>3. 0 \in G
  <2>1. \A s \in Small(0) : s = {}
    BY <1>1, FS_EmptySet
  <2>2. SumsSmall(0, [s \in Small(0) |-> 0])
    BY <2>1
  <2> QED BY <2>2
<1>4. ASSUME NEW n \in Nat, n \in G PROVE n + 1 \in G
  <2>1. PICK g : SumsSmall(n, g)
    BY <1>4
  <2> DEFINE h == [s \in Small(n + 1) |-> IF s = {} THEN 0 ELSE f[Any(s)] + g[s \ {Any(s)}]]
  <2>2. \A s \in Small(n) : s \in Small(n + 1)
    BY <1>1
  <2>3. \A s \in Small(n) : g[s] = IF s = {} THEN 0 ELSE f[Any(s)] + g[s \ {Any(s)}]
    BY <2>1
  <2> HIDE DEF Small
  <2>4. \A s \in Small(n) : h[s] = g[s]
    BY <2>2, <2>3
  <2>5. \A s \in Small(n + 1) : s # {} => h[s \ {Any(s)}] = g[s \ {Any(s)}]
    BY <1>2, <2>4
  <2>6. h = [s \in Small(n + 1) |-> IF s = {} THEN 0 ELSE f[Any(s)] + h[s \ {Any(s)}]]
    BY <2>5
  <2>7. \E e : SumsSmall(n + 1, e)
    BY <2>6
  <2> HIDE DEF SumsSmall
  <2> QED BY <2>7
<1>5. Cardinality(S) \in G /\ Cardinality(S) \in Nat
  BY <1>1, <1>3, <1>4, EveryNumber
<1>6. Small(Cardinality(S)) = SUBSET S
  BY FS_Subset
<1>7. PICK g : SumsSmall(Cardinality(S), g)
  BY <1>5
<1>8. Sums(f, S, g)
  BY <1>6, <1>7 DEF Sums
<1> QED BY <1>8 DEF Summing

(* ... and it is determined by the terms.                                       *)
LEMMA SumsAgree ==
  ASSUME NEW S, NEW T, IsFiniteSet(S), T \subseteq S, NEW f, NEW e, \A x \in T : f[x] = e[x],
         NEW g, Sums(f, S, g), NEW h, Sums(e, T, h)
  PROVE  g[T] = h[T]
<1> DEFINE G == {s \in SUBSET T : g[s] = h[s]}
<1>1. IsFiniteSet(T)
  BY FS_Subset
<1>2. ASSUME NEW s \in SUBSET T, \A t \in SUBSET s : t # s => t \in G PROVE s \in G
  <2>1. /\ g[s] = IF s = {} THEN 0 ELSE f[Any(s)] + g[s \ {Any(s)}]
        /\ h[s] = IF s = {} THEN 0 ELSE e[Any(s)] + h[s \ {Any(s)}]
    <3>1. s \in SUBSET S
      OBVIOUS
    <3> QED BY <3>1 DEF Sums
  <2>2. s # {} => f[Any(s)] = e[Any(s)]
    BY AnyIsIn
  <2>3. s # {} => g[s \ {Any(s)}] = h[s \ {Any(s)}]
    <3> SUFFICES ASSUME s # {} PROVE s \ {Any(s)} \in G
      OBVIOUS
    <3>1. s \ {Any(s)} \in SUBSET s /\ s \ {Any(s)} # s
      BY AnyIsIn
    <3> QED BY <1>2, <3>1
  <2> QED BY <2>1, <2>2, <2>3
<1> HIDE DEF G
<1>3. SUBSET T \subseteq G
  BY <1>1, <1>2, EverySubset
<1> QED BY <1>3 DEF G

LEMMA TotalOfNone == ASSUME NEW f PROVE Total(f, {}) = 0
<1>1. Sums(f, {}, Summing(f, {}))
  BY SummingExists, FS_EmptySet
<1> QED BY <1>1 DEF Total, Sums

LEMMA TotalOfAny ==
  ASSUME NEW S, IsFiniteSet(S), S # {}, NEW f
  PROVE  Total(f, S) = f[Any(S)] + Total(f, S \ {Any(S)})
<1> DEFINE T == S \ {Any(S)}
<1>1. Sums(f, S, Summing(f, S))
  BY SummingExists
<1>2. IsFiniteSet(T) /\ Sums(f, T, Summing(f, T))
  BY FS_Subset, SummingExists
<1>3. Summing(f, S)[T] = Summing(f, T)[T]
  BY <1>1, <1>2, SumsAgree
<1>4. Summing(f, S)[S] = f[Any(S)] + Summing(f, S)[T]
  BY <1>1 DEF Sums
<1> QED BY <1>3, <1>4 DEF Total

LEMMA TotalAgrees ==
  ASSUME NEW S, IsFiniteSet(S), NEW f, NEW e, \A x \in S : f[x] = e[x]
  PROVE  Total(f, S) = Total(e, S)
BY SummingExists, SumsAgree DEF Total

LEMMA TotalIsInt ==
  ASSUME NEW S, IsFiniteSet(S), NEW f, \A x \in S : f[x] \in Int
  PROVE  Total(f, S) \in Int
<1> DEFINE G == {s \in SUBSET S : Total(f, s) \in Int}
<1>1. ASSUME NEW s \in SUBSET S, \A t \in SUBSET s : t # s => t \in G PROVE s \in G
  <2>1. CASE s = {}
    BY <2>1, TotalOfNone
  <2>2. CASE s # {}
    <3>1. Any(s) \in s /\ s \ {Any(s)} \in SUBSET s /\ s \ {Any(s)} # s
      BY <2>2, AnyIsIn
    <3>2. Total(f, s) = f[Any(s)] + Total(f, s \ {Any(s)})
      BY <2>2, FS_Subset, TotalOfAny
    <3>3. Total(f, s \ {Any(s)}) \in Int
      BY <1>1, <3>1
    <3> QED BY <3>1, <3>2, <3>3
  <2> QED BY <2>1, <2>2
<1> HIDE DEF G
<1>2. SUBSET S \subseteq G
  BY <1>1, EverySubset
<1> QED BY <1>2 DEF G

LEMMA TotalIsNat ==
  ASSUME NEW S, IsFiniteSet(S), NEW f, \A x \in S : f[x] \in Nat
  PROVE  Total(f, S) \in Nat
<1> DEFINE G == {s \in SUBSET S : Total(f, s) \in Nat}
<1>1. ASSUME NEW s \in SUBSET S, \A t \in SUBSET s : t # s => t \in G PROVE s \in G
  <2>1. CASE s = {}
    BY <2>1, TotalOfNone
  <2>2. CASE s # {}
    <3>1. Any(s) \in s /\ s \ {Any(s)} \in SUBSET s /\ s \ {Any(s)} # s
      BY <2>2, AnyIsIn
    <3>2. Total(f, s) = f[Any(s)] + Total(f, s \ {Any(s)})
      BY <2>2, FS_Subset, TotalOfAny
    <3>3. Total(f, s \ {Any(s)}) \in Nat
      BY <1>1, <3>1
    <3> QED BY <3>1, <3>2, <3>3
  <2> QED BY <2>1, <2>2
<1> HIDE DEF G
<1>2. SUBSET S \subseteq G
  BY <1>1, EverySubset
<1> QED BY <1>2 DEF G

(* Whichever term comes first.                                                  *)
LEMMA TotalSplits ==
  ASSUME NEW S, IsFiniteSet(S), NEW f, \A x \in S : f[x] \in Int, NEW x \in S
  PROVE  Total(f, S) = f[x] + Total(f, S \ {x})
<1> DEFINE G == {s \in SUBSET S : \A y \in s : Total(f, s) = f[y] + Total(f, s \ {y})}
<1>1. ASSUME NEW s \in SUBSET S, \A t \in SUBSET s : t # s => t \in G, NEW y \in s
      PROVE  Total(f, s) = f[y] + Total(f, s \ {y})
  <2> DEFINE a == Any(s)
  <2>0. IsFiniteSet(s) /\ a \in s
    BY FS_Subset, AnyIsIn
  <2>1. Total(f, s) = f[a] + Total(f, s \ {a})
    BY <2>0, TotalOfAny
  <2>2. CASE y = a
    BY <2>1, <2>2
  <2>3. CASE y # a
    <3> HIDE DEF a
    <3>1. s \ {a} \in G /\ s \ {y} \in G
      BY <1>1, <2>0
    <3>2. Total(f, s \ {a}) = f[y] + Total(f, (s \ {a}) \ {y})
      BY <2>3, <3>1
    <3>3. Total(f, s \ {y}) = f[a] + Total(f, (s \ {y}) \ {a})
      BY <2>0, <2>3, <3>1
    <3>4. (s \ {a}) \ {y} = (s \ {y}) \ {a}
      OBVIOUS
    <3>5. IsFiniteSet((s \ {y}) \ {a}) /\ \A z \in (s \ {y}) \ {a} : f[z] \in Int
      BY <2>0, FS_Subset
    <3>6. Total(f, (s \ {y}) \ {a}) \in Int /\ f[a] \in Int /\ f[y] \in Int
      BY <2>0, <3>5, TotalIsInt
    <3> DEFINE u == Total(f, (s \ {y}) \ {a})
    <3>7. Total(f, s \ {a}) = f[y] + u /\ Total(f, s \ {y}) = f[a] + u /\ u \in Int
      BY <3>2, <3>3, <3>4, <3>6
    <3> HIDE DEF u
    <3> QED BY <2>1, <3>6, <3>7
  <2> QED BY <2>2, <2>3
<1>2. \A s \in SUBSET S : (\A t \in SUBSET s : t # s => t \in G) => s \in G
  BY <1>1
<1> HIDE DEF G
<1>3. SUBSET S \subseteq G
  BY <1>2, EverySubset
<1> QED BY <1>3 DEF G

(* A change of one term, the sum of two sums, terms that are zero.              *)
LEMMA TotalChanges ==
  ASSUME NEW S, IsFiniteSet(S), NEW f, NEW e, \A x \in S : f[x] \in Int /\ e[x] \in Int,
         NEW x \in S, \A y \in S \ {x} : e[y] = f[y]
  PROVE  Total(e, S) = Total(f, S) + e[x] - f[x]
<1>1. IsFiniteSet(S \ {x})
  BY FS_Subset
<1>2. Total(e, S \ {x}) = Total(f, S \ {x})
  BY <1>1, TotalAgrees
<1>3. Total(f, S \ {x}) \in Int
  BY <1>1, TotalIsInt
<1>4. Total(e, S) = e[x] + Total(e, S \ {x}) /\ Total(f, S) = f[x] + Total(f, S \ {x})
  BY TotalSplits
<1> QED BY <1>2, <1>3, <1>4

LEMMA TotalAdds ==
  ASSUME NEW S, IsFiniteSet(S), NEW f, NEW e, NEW d,
         \A x \in S : f[x] \in Int /\ d[x] \in Int /\ e[x] = f[x] + d[x]
  PROVE  Total(e, S) = Total(f, S) + Total(d, S)
<1> DEFINE G == {s \in SUBSET S : Total(e, s) = Total(f, s) + Total(d, s)}
<1>1. ASSUME NEW s \in SUBSET S, \A t \in SUBSET s : t # s => t \in G PROVE s \in G
  <2>1. CASE s = {}
    BY <2>1, TotalOfNone
  <2>2. CASE s # {}
    <3> DEFINE a == Any(s)
               r == s \ {a}
    <3>1. a \in s /\ r \in SUBSET s /\ r # s /\ IsFiniteSet(s) /\ IsFiniteSet(r)
      BY <2>2, AnyIsIn, FS_Subset
    <3>2. /\ Total(e, s) = e[a] + Total(e, r) /\ Total(f, s) = f[a] + Total(f, r)
          /\ Total(d, s) = d[a] + Total(d, r)
      BY <2>2, <3>1, TotalOfAny
    <3>3. Total(e, r) = Total(f, r) + Total(d, r)
      BY <1>1, <3>1
    <3>4. Total(f, r) \in Int /\ Total(d, r) \in Int
      BY <3>1, TotalIsInt
    <3>5. f[a] \in Int /\ d[a] \in Int /\ e[a] = f[a] + d[a]
      BY <3>1
    <3> HIDE DEF a, r
    <3> QED BY <3>2, <3>3, <3>4, <3>5
  <2> QED BY <2>1, <2>2
<1> HIDE DEF G
<1>2. SUBSET S \subseteq G
  BY <1>1, EverySubset
<1> QED BY <1>2 DEF G

LEMMA TotalOfSome ==
  ASSUME NEW S, IsFiniteSet(S), NEW f, \A x \in S : f[x] \in Int,
         NEW T, T \subseteq S, \A x \in S \ T : f[x] = 0
  PROVE  Total(f, T) = Total(f, S)
<1> DEFINE G == {s \in SUBSET S : Total(f, s \cap T) = Total(f, s)}
<1>1. ASSUME NEW s \in SUBSET S, \A t \in SUBSET s : t # s => t \in G PROVE s \in G
  <2>1. CASE s = {}
    BY <2>1
  <2>2. CASE s # {}
    <3> DEFINE a == Any(s)
               r == s \ {a}
    <3>1. a \in s /\ r \in SUBSET s /\ r # s /\ IsFiniteSet(s) /\ IsFiniteSet(r) /\ IsFiniteSet(s \cap T)
      BY <2>2, AnyIsIn, FS_Subset
    <3>2. Total(f, s) = f[a] + Total(f, r)
      BY <2>2, <3>1, TotalOfAny
    <3>3. Total(f, r \cap T) = Total(f, r) /\ Total(f, r) \in Int
      BY <1>1, <3>1, TotalIsInt
    <3>4. CASE a \in T
      <4>1. Total(f, s \cap T) = f[a] + Total(f, (s \cap T) \ {a})
        BY <3>1, <3>4, TotalSplits
      <4>2. (s \cap T) \ {a} = r \cap T
        OBVIOUS
      <4> QED BY <3>2, <3>3, <4>1, <4>2
    <3>5. CASE a \notin T
      <4>1. s \cap T = r \cap T /\ f[a] = 0
        BY <3>1, <3>5
      <4>2. Total(f, s \cap T) = Total(f, r)
        BY <3>3, <4>1
      <4> HIDE DEF a, r
      <4>3. Total(f, s) = Total(f, r)
        BY <3>2, <3>3, <4>1
      <4> QED BY <4>2, <4>3
    <3> QED BY <3>4, <3>5
  <2> QED BY <2>1, <2>2
<1>2. \A s \in SUBSET S : (\A t \in SUBSET s : t # s => t \in G) => s \in G
  BY <1>1
<1> HIDE DEF G
<1>3. SUBSET S \subseteq G
  BY <1>2, EverySubset
<1>4. S \cap T = T
  OBVIOUS
<1> QED BY <1>3, <1>4 DEF G

LEMMA TermOfTotal ==
  ASSUME NEW S, IsFiniteSet(S), NEW f, \A x \in S : f[x] \in Nat, NEW x \in S
  PROVE  f[x] <= Total(f, S)
<1>1. IsFiniteSet(S \ {x})
  BY FS_Subset
<1>2. Total(f, S \ {x}) \in Nat
  BY <1>1, TotalIsNat
<1>3. Total(f, S) = f[x] + Total(f, S \ {x})
  BY TotalSplits
<1> QED BY <1>2, <1>3

(* A greater sum has a greater term.                                            *)
LEMMA GreaterTerm ==
  ASSUME NEW S, IsFiniteSet(S), NEW f, NEW e, \A x \in S : f[x] \in Int /\ e[x] \in Int, Total(e, S) > Total(f, S)
  PROVE  \E x \in S : e[x] > f[x]
<1> SUFFICES ASSUME \A x \in S : ~(e[x] > f[x]) PROVE FALSE
  OBVIOUS
<1> DEFINE d == [x \in S |-> f[x] - e[x]]
<1>1. \A x \in S : d[x] \in Nat /\ d[x] \in Int /\ f[x] = e[x] + d[x]
  OBVIOUS
<1> HIDE DEF d
<1>2. Total(d, S) \in Nat /\ Total(e, S) \in Int
  BY <1>1, TotalIsNat, TotalIsInt
<1>3. Total(f, S) = Total(e, S) + Total(d, S)
  BY <1>1, TotalAdds
<1> QED BY <1>2, <1>3

(* The sum of the quantities of rows.                                           *)
LEMMA SumOfRows ==
  ASSUME NEW S, IsFiniteSet(S), NEW h
  PROVE  MapThenSumSet(LAMBDA k : h[k].qty, S) = Total([k \in S |-> h[k].qty], S)
<1> DEFINE Of(g) == g = [s \in SUBSET S |-> IF s = {} THEN 0 ELSE h[Any(s)].qty + g[s \ {Any(s)}]]
           f == [k \in S |-> h[k].qty]
           m == CHOOSE g : Of(g)
<1>1. MapThenSumSet(LAMBDA k : h[k].qty, S) = m[S]
  BY Zenon DEF MapThenSumSet, MapThenFoldSet, Any
<1>2. \A s \in SUBSET S : s # {} => f[Any(s)] = h[Any(s)].qty
  BY AnyIsIn
<1>3. Sums(f, S, Summing(f, S))
  BY SummingExists
<1> HIDE DEF f
<1>4. ASSUME NEW g PROVE Of(g) <=> Sums(f, S, g)
  BY <1>2 DEF Sums
<1>5. Of(Summing(f, S))
  BY <1>3, <1>4
<1> HIDE DEF Of
<1>6. Of(m)
  BY <1>5
<1>7. m[S] = Summing(f, S)[S]
  BY <1>3, <1>4, <1>6, SumsAgree
<1> QED BY <1>1, <1>7 DEF Total, f
=============================================================================
