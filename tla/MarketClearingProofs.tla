-------------------------- MODULE MarketClearingProofs --------------------------
(* Theorems about the operators of MarketClearing, for every book: totals of    *)
(* quantities, sorted listings, and what the pass over one side of the book     *)
(* serves.  The folds of the community modules are recursive functions; what    *)
(* they compute is proved from the well-ordering of the natural numbers.        *)
EXTENDS MarketClearing, FiniteSetTheorems, WellFoundedInduction, TLAPS

-----------------------------------------------------------------------------
(* Induction *)

LEMMA LeastNatural ==
  ASSUME NEW N \in SUBSET Nat, N # {}
  PROVE  \E n \in N : \A m \in N : n <= m
<1>1. PICK n \in N : \A m \in N : ~ (<<m, n>> \in OpToRel(<, Nat))
  BY WFMin, NatLessThanWellFounded
<1>2. \A m \in N : ~ (m < n)
  BY <1>1 DEF OpToRel
<1> QED BY <1>2

\* Induction over the numbers that belong to a set.
LEMMA SetInduction ==
  ASSUME NEW T, 0 \in T, \A n \in Nat : n \in T => n + 1 \in T
  PROVE  Nat \subseteq T
<1> SUFFICES ASSUME Nat \ T # {} PROVE FALSE
  OBVIOUS
<1>1. PICK n \in Nat \ T : \A m \in Nat \ T : n <= m
  BY LeastNatural
<1>2. n # 0 /\ n - 1 \in Nat /\ n - 1 \in T
  BY <1>1
<1> QED BY <1>1, <1>2

-----------------------------------------------------------------------------
(* Totals over finite sets *)

Chosen(t) == CHOOSE x \in t : TRUE

\* f gives the total of q over each subset of S.
IsTable(f, q, S) ==
  f = [t \in SUBSET S |-> IF t = {} THEN 0 ELSE q[Chosen(t)] + f[t \ {Chosen(t)}]]

Total(q, S) == MapThenSumSet(LAMBDA x : q[x], S)

LEMMA ChosenIn ==
  ASSUME NEW t, t # {}
  PROVE  Chosen(t) \in t
BY DEF Chosen

LEMMA TotalChosen ==
  ASSUME NEW q, NEW S
  PROVE  Total(q, S) = (CHOOSE f : IsTable(f, q, S))[S]
BY DEF Total, MapThenSumSet, MapThenFoldSet, IsTable, Chosen

\* The subsets of S with at most n elements.
UpToSize(S, n) == {t \in SUBSET S : Cardinality(t) <= n}

LEMMA Smaller1 ==
  ASSUME NEW S, IsFiniteSet(S), NEW t \in SUBSET S, NEW n \in Nat, Cardinality(t) <= n + 1,
         NEW x \in t
  PROVE  t \ {x} \in UpToSize(S, n)
<1>1. IsFiniteSet(t)
  BY FS_Subset
<1>2. IsFiniteSet(t) /\ Cardinality(t) \in Nat /\ Cardinality(t \ {x}) = Cardinality(t) - 1
  BY <1>1, FS_CardinalityType, FS_RemoveElement
<1> QED BY <1>2 DEF UpToSize

LEMMA TableExists ==
  ASSUME NEW S, IsFiniteSet(S), NEW q, \A x \in S : q[x] \in Nat
  PROVE  \E f : IsTable(f, q, S) /\ f \in [SUBSET S -> Nat]
<1> DEFINE Next(f, t) == IF t = {} THEN 0 ELSE q[Chosen(t)] + f[t \ {Chosen(t)}]
           Level(n) == UpToSize(S, n)
           Fits(f, n) == f \in [Level(n) -> Nat] /\ \A t \in Level(n) : f[t] = Next(f, t)
           Good == {n \in Nat : \E f : Fits(f, n)}
<1>1. 0 \in Good
  <2>1. \A t \in Level(0) : t = {}
    <3> SUFFICES ASSUME NEW t \in Level(0) PROVE t = {}
      OBVIOUS
    <3>1. IsFiniteSet(t) /\ Cardinality(t) <= 0
      BY FS_Subset DEF UpToSize
    <3>2. Cardinality(t) = 0
      BY <3>1, FS_CardinalityType
    <3> QED BY <3>1, <3>2, FS_EmptySet
  <2>2. Fits([t \in Level(0) |-> 0], 0)
    BY <2>1
  <2> QED BY <2>2
<1>2. ASSUME NEW n \in Nat, n \in Good PROVE n + 1 \in Good
  <2>1. PICK f : Fits(f, n)
    BY <1>2
  <2> DEFINE g == [t \in Level(n + 1) |-> Next(f, t)]
  <2>2. ASSUME NEW t \in Level(n + 1), t # {}
        PROVE  t \ {Chosen(t)} \in Level(n) /\ Chosen(t) \in S
    BY <2>2, ChosenIn, Smaller1 DEF UpToSize
  <2>3. ASSUME NEW t \in Level(n + 1) PROVE Next(f, t) \in Nat
    BY <2>1, <2>2, <2>3
  <2>4. ASSUME NEW t \in Level(n) PROVE t \in Level(n + 1) /\ g[t] = f[t]
    <3>1. t \in Level(n + 1)
      <4>1. Cardinality(t) \in Nat
        BY FS_Subset, FS_CardinalityType DEF UpToSize
      <4> QED BY <4>1 DEF UpToSize
    <3> QED BY <2>1, <3>1
  <2>5. ASSUME NEW t \in Level(n + 1) PROVE g[t] = Next(g, t)
    <3>1. CASE t = {}
      BY <3>1
    <3>2. CASE t # {}
      <4>1. g[t \ {Chosen(t)}] = f[t \ {Chosen(t)}]
        BY <2>2, <2>4, <3>2
      <4>2. g[t] = q[Chosen(t)] + f[t \ {Chosen(t)}]
        BY <3>2
      <4> HIDE DEF g
      <4> QED BY <3>2, <4>1, <4>2
    <3> QED BY <3>1, <3>2
  <2>6. g \in [Level(n + 1) -> Nat]
    BY <2>3
  <2> HIDE DEF g, Next, Level
  <2>7. Fits(g, n + 1)
    BY <2>5, <2>6
  <2> QED BY <2>7
<1> HIDE DEF Good
<1>3. Cardinality(S) \in Good
  BY <1>1, <1>2, SetInduction, FS_CardinalityType
<1>4. PICK f : Fits(f, Cardinality(S))
  BY <1>3 DEF Good
<1>5. Level(Cardinality(S)) = SUBSET S
  BY FS_Subset DEF UpToSize
<1> QED BY <1>4, <1>5 DEF IsTable

LEMMA TotalIsTable ==
  ASSUME NEW S, IsFiniteSet(S), NEW q, \A x \in S : q[x] \in Nat
  PROVE  \E f : IsTable(f, q, S) /\ f \in [SUBSET S -> Nat] /\ Total(q, S) = f[S]
<1> DEFINE f == CHOOSE g : IsTable(g, q, S)
<1>1. PICK g : IsTable(g, q, S) /\ g \in [SUBSET S -> Nat]
  BY TableExists
<1>2. IsTable(f, q, S)
  BY <1>1
<1>3. Total(q, S) = f[S]
  BY TotalChosen
<1> HIDE DEF f
<1>4. \A t \in SUBSET S : f[t] = g[t]
  <2> DEFINE Good == {n \in Nat : \A t \in UpToSize(S, n) : f[t] = g[t]}
  <2>1. ASSUME NEW t \in SUBSET S
        PROVE  /\ f[t] = IF t = {} THEN 0 ELSE q[Chosen(t)] + f[t \ {Chosen(t)}]
               /\ g[t] = IF t = {} THEN 0 ELSE q[Chosen(t)] + g[t \ {Chosen(t)}]
    BY <1>1, <1>2 DEF IsTable
  <2>2. 0 \in Good
    <3> SUFFICES ASSUME NEW t \in UpToSize(S, 0) PROVE f[t] = g[t]
      OBVIOUS
    <3>1. t \in SUBSET S /\ IsFiniteSet(t) /\ Cardinality(t) <= 0
      BY FS_Subset DEF UpToSize
    <3>2. t = {}
      BY <3>1, FS_CardinalityType, FS_EmptySet
    <3> QED BY <2>1, <3>1, <3>2
  <2>3. ASSUME NEW n \in Nat, n \in Good PROVE n + 1 \in Good
    <3> SUFFICES ASSUME NEW t \in UpToSize(S, n + 1) PROVE f[t] = g[t]
      OBVIOUS
    <3>1. t \in SUBSET S /\ (t # {} => t \ {Chosen(t)} \in UpToSize(S, n))
      BY ChosenIn, Smaller1 DEF UpToSize
    <3> QED BY <2>1, <2>3, <3>1
  <2> HIDE DEF Good
  <2>4. Cardinality(S) \in Good
    BY <2>2, <2>3, SetInduction, FS_CardinalityType
  <2>5. UpToSize(S, Cardinality(S)) = SUBSET S
    BY FS_Subset DEF UpToSize
  <2> QED BY <2>4, <2>5 DEF Good
<1>5. f \in [SUBSET S -> Nat]
  BY <1>1, <1>2, <1>4 DEF IsTable
<1> QED BY <1>2, <1>3, <1>5

\* The empty set and the sets above it, and which sets have no elements.
LEMMA TableEquation ==
  ASSUME NEW S, IsFiniteSet(S), NEW q, NEW f, IsTable(f, q, S)
  PROVE  /\ \A t \in SUBSET S : f[t] = IF t = {} THEN 0 ELSE q[Chosen(t)] + f[t \ {Chosen(t)}]
         /\ \A t \in UpToSize(S, 0) : t = {}
         /\ Cardinality(S) \in Nat /\ UpToSize(S, Cardinality(S)) = SUBSET S
<1>1. ASSUME NEW t \in UpToSize(S, 0) PROVE t = {}
  <2>1. IsFiniteSet(t) /\ Cardinality(t) <= 0
    BY FS_Subset DEF UpToSize
  <2> QED BY <2>1, FS_CardinalityType, FS_EmptySet
<1>2. Cardinality(S) \in Nat /\ UpToSize(S, Cardinality(S)) = SUBSET S
  BY FS_Subset, FS_CardinalityType DEF UpToSize
<1>3. \A t \in SUBSET S : f[t] = IF t = {} THEN 0 ELSE q[Chosen(t)] + f[t \ {Chosen(t)}]
  BY DEF IsTable
<1> QED BY <1>1, <1>2, <1>3

\* An element counts once, whenever it is chosen.
LEMMA TableElement ==
  ASSUME NEW S, IsFiniteSet(S), NEW q, \A x \in S : q[x] \in Nat,
         NEW f, f \in [SUBSET S -> Nat], IsTable(f, q, S), NEW e, e \in S
  PROVE  f[S] = q[e] + f[S \ {e}]
<1> DEFINE Good == {n \in Nat : \A t \in UpToSize(S, n) : \A x \in t : f[t] = q[x] + f[t \ {x}]}
<1>1. 0 \in Good
  BY TableEquation
<1>2. ASSUME NEW n \in Nat, n \in Good PROVE n + 1 \in Good
  <2> SUFFICES ASSUME NEW t \in UpToSize(S, n + 1), NEW x \in t
               PROVE  f[t] = q[x] + f[t \ {x}]
    OBVIOUS
  <2> DEFINE y == Chosen(t)
  <2>1. y \in t /\ t \in SUBSET S /\ t # {}
    BY ChosenIn DEF UpToSize
  <2>2. f[t] = q[y] + f[t \ {y}]
    BY TableEquation, <2>1
  <2> HIDE DEF y
  <2>3. CASE x # y
    <3>1. t \ {x} \in UpToSize(S, n) /\ t \ {y} \in UpToSize(S, n)
      BY <2>1, Smaller1 DEF UpToSize
    <3> DEFINE u == t \ {x, y}
    <3>2. (t \ {y}) \ {x} = u /\ (t \ {x}) \ {y} = u
      OBVIOUS
    <3> HIDE DEF u
    <3>3. x \in t \ {y} /\ y \in t \ {x}
      BY <2>1, <2>3
    <3>4. f[t \ {y}] = q[x] + f[u] /\ f[t \ {x}] = q[y] + f[u]
      <4>1. \A v \in UpToSize(S, n) : \A z \in v : f[v] = q[z] + f[v \ {z}]
        BY <1>2
      <4>2. f[t \ {y}] = q[x] + f[(t \ {y}) \ {x}]
        BY <3>1, <3>3, <4>1, Zenon
      <4>3. f[t \ {x}] = q[y] + f[(t \ {x}) \ {y}]
        BY <3>1, <3>3, <4>1, Zenon
      <4> QED BY <3>2, <4>2, <4>3
    <3>5. q[x] \in Nat /\ q[y] \in Nat /\ f[u] \in Nat
      BY <2>1 DEF u
    <3> QED BY <2>2, <3>4, <3>5
  <2> QED BY <2>2, <2>3
<1> HIDE DEF Good
<1>3. Cardinality(S) \in Good
  BY TableEquation, <1>1, <1>2, SetInduction
<1> QED BY TableEquation, <1>3 DEF Good

\* Two tables of the same quantities agree where both are defined.
LEMMA TablesAgree ==
  ASSUME NEW S, IsFiniteSet(S), NEW q,
         NEW f, IsTable(f, q, S), NEW T, T \subseteq S, NEW g, IsTable(g, q, T)
  PROVE  g[T] = f[T]
<1> DEFINE Good == {n \in Nat : \A t \in UpToSize(T, n) : g[t] = f[t]}
<1>1. IsFiniteSet(T)
  BY FS_Subset
<1>2. ASSUME NEW t, t \in SUBSET T
      PROVE  /\ g[t] = IF t = {} THEN 0 ELSE q[Chosen(t)] + g[t \ {Chosen(t)}]
             /\ f[t] = IF t = {} THEN 0 ELSE q[Chosen(t)] + f[t \ {Chosen(t)}]
  BY <1>1, <1>2, TableEquation
<1>3. 0 \in Good
  <2> SUFFICES ASSUME NEW t \in UpToSize(T, 0) PROVE g[t] = f[t]
    OBVIOUS
  <2>1. t = {} /\ t \in SUBSET T
    BY <1>1, TableEquation
  <2> QED BY <1>2, <2>1
<1>4. ASSUME NEW n \in Nat, n \in Good PROVE n + 1 \in Good
  <2> SUFFICES ASSUME NEW t \in UpToSize(T, n + 1) PROVE g[t] = f[t]
    OBVIOUS
  <2>1. t \in SUBSET T /\ (t # {} => t \ {Chosen(t)} \in UpToSize(T, n))
    BY <1>1, ChosenIn, Smaller1 DEF UpToSize
  <2> QED BY <1>2, <1>4, <2>1
<1> HIDE DEF Good
<1>5. Cardinality(T) \in Good
  BY <1>1, <1>3, <1>4, SetInduction, FS_CardinalityType
<1>6. UpToSize(T, Cardinality(T)) = SUBSET T
  BY <1>1, <1>2, TableEquation
<1> QED BY <1>5, <1>6 DEF Good

\* What there is to know of a total.
LEMMA TotalFacts ==
  ASSUME NEW S, IsFiniteSet(S), NEW q, \A x \in S : q[x] \in Nat
  PROVE  /\ Total(q, S) \in Nat
         /\ Total(q, {}) = 0
         /\ \A x \in S : Total(q, S) = q[x] + Total(q, S \ {x})
<1>1. PICK f : IsTable(f, q, S) /\ f \in [SUBSET S -> Nat] /\ Total(q, S) = f[S]
  BY TotalIsTable
<1>2. ASSUME NEW T \in SUBSET S PROVE Total(q, T) = f[T]
  <2>1. IsFiniteSet(T) /\ \A x \in T : q[x] \in Nat
    BY FS_Subset
  <2>2. PICK g : IsTable(g, q, T) /\ Total(q, T) = g[T]
    BY <2>1, TotalIsTable
  <2>3. g[T] = f[T]
    BY <1>1, <2>2, TablesAgree
  <2> QED BY <2>2, <2>3
<1>3. ASSUME NEW x, x \in S PROVE f[S] = q[x] + f[S \ {x}]
  BY <1>1, <1>3, TableElement
<1>4. f[{}] = 0
  BY <1>1, TableEquation
<1> QED BY <1>1, <1>2, <1>3, <1>4

LEMMA TotalAdd ==
  ASSUME NEW S, IsFiniteSet(S), NEW q, \A x \in S : q[x] \in Nat,
         NEW e, e \notin S, q[e] \in Nat
  PROVE  Total(q, S \cup {e}) = Total(q, S) + q[e]
<1>1. IsFiniteSet(S \cup {e})
  BY FS_AddElement
<1>2. (S \cup {e}) \ {e} = S
  OBVIOUS
<1>3. Total(q, S \cup {e}) = q[e] + Total(q, S)
  BY <1>1, <1>2, TotalFacts
<1> QED BY <1>3, TotalFacts

\* More elements, no smaller a total.
LEMMA TotalMonotone ==
  ASSUME NEW S, IsFiniteSet(S), NEW q, \A x \in S : q[x] \in Nat, NEW T \in SUBSET S
  PROVE  Total(q, T) <= Total(q, S)
<1> DEFINE Good == {n \in Nat : \A U \in SUBSET S : Cardinality(U) = n => Total(q, U) >= Total(q, U \cap T)}
<1>1. ASSUME NEW U \in SUBSET S
      PROVE  /\ IsFiniteSet(U) /\ Cardinality(U) \in Nat
             /\ IsFiniteSet(U \cap T)
             /\ \A x \in U : q[x] \in Nat
             /\ Total(q, U) \in Nat /\ Total(q, U \cap T) \in Nat
  <2>1. IsFiniteSet(U) /\ IsFiniteSet(U \cap T)
    BY FS_Subset
  <2> QED BY <2>1, FS_CardinalityType, TotalFacts
<1>2. 0 \in Good
  <2> SUFFICES ASSUME NEW U \in SUBSET S, Cardinality(U) = 0
               PROVE  Total(q, U) >= Total(q, U \cap T)
    OBVIOUS
  <2>1. U = {}
    BY <1>1, FS_EmptySet
  <2>2. Total(q, U \cap T) = Total(q, U)
    BY <2>1
  <2>3. Total(q, U) \in Nat
    BY <1>1
  <2> QED BY <2>2, <2>3
<1>3. ASSUME NEW n \in Nat, n \in Good PROVE n + 1 \in Good
  <2> SUFFICES ASSUME NEW U \in SUBSET S, Cardinality(U) = n + 1
               PROVE  Total(q, U) >= Total(q, U \cap T)
    OBVIOUS
  <2>1. PICK x : x \in U
    BY FS_EmptySet
  <2> DEFINE V == U \ {x}
  <2>2. V \in SUBSET S /\ Cardinality(V) = n
    <3>1. IsFiniteSet(U)
      BY <1>1
    <3>2. Cardinality(V) = Cardinality(U) - 1
      BY <2>1, <3>1, FS_RemoveElement
    <3> QED BY <3>2
  <2>3. Total(q, V) >= Total(q, V \cap T)
    BY <1>3, <2>2
  <2>4. Total(q, U) = q[x] + Total(q, V) /\ q[x] \in Nat
    BY <1>1, <2>1, TotalFacts
  <2>5. x \in T => Total(q, U \cap T) = q[x] + Total(q, V \cap T)
    <3>1. SUFFICES ASSUME x \in T PROVE Total(q, U \cap T) = q[x] + Total(q, V \cap T)
      OBVIOUS
    <3>2. (U \cap T) \ {x} = V \cap T /\ x \in U \cap T
      BY <2>1, <3>1
    <3>3. IsFiniteSet(U \cap T) /\ \A y \in U \cap T : q[y] \in Nat
      BY <1>1
    <3>4. Total(q, U \cap T) = q[x] + Total(q, (U \cap T) \ {x})
      BY <3>2, <3>3, TotalFacts
    <3> QED BY <3>2, <3>4
  <2>6. x \notin T => U \cap T = V \cap T
    OBVIOUS
  <2>7. Total(q, V) \in Nat /\ Total(q, V \cap T) \in Nat
    BY <1>1, <2>2
  <2> HIDE DEF V
  <2> QED BY <2>3, <2>4, <2>5, <2>6, <2>7
<1> HIDE DEF Good
<1>4. Cardinality(S) \in Good
  BY <1>1, <1>2, <1>3, SetInduction, FS_CardinalityType
<1>5. S \cap T = T
  OBVIOUS
<1>6. Total(q, S) >= Total(q, S \cap T)
  BY <1>4 DEF Good
<1> QED BY <1>1, <1>5, <1>6

-----------------------------------------------------------------------------
(* Quantities along one side of the book *)

\* s lists n entries with a quantity each.
Side(s, n) ==
  /\ n \in Nat /\ DOMAIN s = 1..n
  /\ \A i \in 1..n : s[i].quantity \in Nat \ {0}

Amounts(s) == [i \in DOMAIN s |-> s[i].quantity]

LEMMA AmountsFinite ==
  ASSUME NEW s, NEW n, Side(s, n), NEW P \in SUBSET (1..n)
  PROVE  IsFiniteSet(P) /\ \A i \in P : Amounts(s)[i] \in Nat
<1>1. IsFiniteSet(1..n)
  BY FS_Interval DEF Side
<1>2. IsFiniteSet(P)
  BY <1>1, FS_Subset
<1> QED BY <1>2 DEF Side, Amounts

LEMMA QuantityIsTotal ==
  ASSUME NEW s, NEW n, Side(s, n), NEW P \in SUBSET (1..n)
  PROVE  QuantityAt(s, P) = Total(Amounts(s), P)
<1> DEFINE IsSum(f) == f = [t \in SUBSET P |-> IF t = {} THEN 0
                                               ELSE s[Chosen(t)].quantity + f[t \ {Chosen(t)}]]
           c == CHOOSE f : IsSum(f)
           q == Amounts(s)
<1>1. QuantityAt(s, P) = c[P]
  BY DEF QuantityAt, MapThenSumSet, MapThenFoldSet, Chosen
<1>2. IsFiniteSet(P) /\ \A i \in P : q[i] \in Nat
  BY AmountsFinite
<1>3. ASSUME NEW t \in SUBSET P, t # {} PROVE q[Chosen(t)] = s[Chosen(t)].quantity
  BY <1>3, ChosenIn DEF Side, Amounts
<1> HIDE DEF q
<1>4. PICK h : IsTable(h, q, P) /\ Total(q, P) = h[P]
  BY <1>2, TotalIsTable
<1>5. IsSum(h)
  <2>1. h = [t \in SUBSET P |-> IF t = {} THEN 0 ELSE q[Chosen(t)] + h[t \ {Chosen(t)}]]
    BY <1>4 DEF IsTable
  <2> QED BY <1>3, <2>1
<1>6. IsSum(c)
  BY <1>5
<1> HIDE DEF c
<1>7. IsTable(c, q, P)
  <2>1. c = [t \in SUBSET P |-> IF t = {} THEN 0 ELSE s[Chosen(t)].quantity + c[t \ {Chosen(t)}]]
    BY <1>6
  <2>2. c = [t \in SUBSET P |-> IF t = {} THEN 0 ELSE q[Chosen(t)] + c[t \ {Chosen(t)}]]
    BY <1>3, <2>1
  <2> QED BY <2>2 DEF IsTable
<1> HIDE DEF IsSum
<1>8. c[P] = h[P]
  BY <1>2, <1>4, <1>7, TablesAgree
<1> QED BY <1>1, <1>4, <1>8 DEF q

LEMMA QuantityFacts ==
  ASSUME NEW s, NEW n, Side(s, n), NEW P \in SUBSET (1..n)
  PROVE  QuantityAt(s, P) \in Nat /\ QuantityAt(s, {}) = 0
<1>1. IsFiniteSet(P) /\ \A i \in P : Amounts(s)[i] \in Nat
  BY AmountsFinite
<1>2. QuantityAt(s, P) = Total(Amounts(s), P) /\ QuantityAt(s, {}) = Total(Amounts(s), {})
  BY QuantityIsTotal
<1> QED BY <1>1, <1>2, TotalFacts

LEMMA QuantityAdd ==
  ASSUME NEW s, NEW n, Side(s, n), NEW P \in SUBSET (1..n), NEW p \in 1..n, p \notin P
  PROVE  QuantityAt(s, P \cup {p}) = QuantityAt(s, P) + s[p].quantity
<1>1. IsFiniteSet(P) /\ (\A i \in P : Amounts(s)[i] \in Nat)
      /\ Amounts(s)[p] \in Nat /\ Amounts(s)[p] = s[p].quantity
  BY AmountsFinite DEF Side, Amounts
<1>2. /\ QuantityAt(s, P) = Total(Amounts(s), P)
      /\ QuantityAt(s, P \cup {p}) = Total(Amounts(s), P \cup {p})
  <2>1. P \cup {p} \in SUBSET (1..n)
    OBVIOUS
  <2> QED BY <2>1, QuantityIsTotal
<1> HIDE DEF Amounts
<1>3. Total(Amounts(s), P \cup {p}) = Total(Amounts(s), P) + Amounts(s)[p]
  BY <1>1, TotalAdd
<1> QED BY <1>1, <1>2, <1>3

LEMMA QuantityMonotone ==
  ASSUME NEW s, NEW n, Side(s, n), NEW P \in SUBSET (1..n), NEW Q \in SUBSET P
  PROVE  QuantityAt(s, Q) <= QuantityAt(s, P)
<1>1. IsFiniteSet(P) /\ \A i \in P : Amounts(s)[i] \in Nat
  BY AmountsFinite
<1>2. QuantityAt(s, P) = Total(Amounts(s), P) /\ QuantityAt(s, Q) = Total(Amounts(s), Q)
  <2>1. Q \in SUBSET (1..n)
    OBVIOUS
  <2> QED BY <2>1, QuantityIsTotal
<1> QED BY <1>1, <1>2, TotalMonotone

\* The curve of a side of the book starts at zero and grows by each entry.
LEMMA CurveFacts ==
  ASSUME NEW s, NEW n, Side(s, n), NEW k \in 0..n
  PROVE  /\ Cumulative(s, k) \in Nat
         /\ Cumulative(s, 0) = 0
         /\ k < n => Cumulative(s, k + 1) = Cumulative(s, k) + s[k + 1].quantity
<1>1. 1..k \in SUBSET (1..n) /\ 1..0 = {} /\ k \in Nat /\ n \in Nat
  BY DEF Side
<1>2. Cumulative(s, k) \in Nat /\ Cumulative(s, 0) = 0
  BY <1>1, QuantityFacts DEF Cumulative
<1>3. ASSUME k < n PROVE Cumulative(s, k + 1) = Cumulative(s, k) + s[k + 1].quantity
  <2>1. k + 1 \in 1..n /\ k + 1 \notin 1..k /\ 1..(k + 1) = (1..k) \cup {k + 1}
    BY <1>1, <1>3
  <2>2. QuantityAt(s, (1..k) \cup {k + 1}) = QuantityAt(s, 1..k) + s[k + 1].quantity
    BY <1>1, <2>1, QuantityAdd
  <2> QED BY <2>1, <2>2 DEF Cumulative
<1> QED BY <1>2, <1>3

LEMMA CurveMonotone ==
  ASSUME NEW s, NEW n, Side(s, n), NEW k \in 0..n, NEW i \in 0..k
  PROVE  Cumulative(s, i) <= Cumulative(s, k)
<1>1. 1..k \in SUBSET (1..n) /\ 1..i \in SUBSET (1..k)
  BY DEF Side
<1> QED BY <1>1, QuantityMonotone DEF Cumulative

-----------------------------------------------------------------------------
(* Totals over rows and over positions *)

Places(e, k) == {e[i] : i \in 1..k}

\* Added up row by row, the first k entries come to the k-th point of the curve.
LEMMA RowsTotal ==
  ASSUME NEW s, NEW n, Side(s, n), NEW e, \A i, j \in 1..n : e[i] = e[j] => i = j,
         NEW q, \A i \in 1..n : q[e[i]] = s[i].quantity, NEW k \in 0..n
  PROVE  /\ IsFiniteSet(Places(e, k))
         /\ \A x \in Places(e, k) : q[x] \in Nat
         /\ Total(q, Places(e, k)) = Cumulative(s, k)
<1> DEFINE Adds(m) == IsFiniteSet(Places(e, m)) /\ Total(q, Places(e, m)) = Cumulative(s, m)
           Good == {m \in Nat : m <= n => Adds(m)}
<1>1. n \in Nat /\ \A i \in 1..n : s[i].quantity \in Nat /\ q[e[i]] \in Nat
  BY DEF Side
<1>2. ASSUME NEW m \in 0..n PROVE \A x \in Places(e, m) : q[x] \in Nat
  BY <1>1, <1>2 DEF Places
<1>3. 0 \in Good
  <2>1. Places(e, 0) = {}
    BY DEF Places
  <2>2. IsFiniteSet(Places(e, 0)) /\ Total(q, Places(e, 0)) = 0
    BY <2>1, FS_EmptySet, TotalFacts
  <2>3. Cumulative(s, 0) = 0
    BY <1>1, CurveFacts
  <2> QED BY <2>2, <2>3
<1>4. ASSUME NEW m \in Nat, m \in Good PROVE m + 1 \in Good
  <2> SUFFICES ASSUME m + 1 <= n PROVE Adds(m + 1)
    OBVIOUS
  <2>1. Adds(m) /\ m \in 0..n /\ m + 1 \in 1..n /\ m < n
    BY <1>1, <1>4
  <2> DEFINE x == e[m + 1]
             rows == Places(e, m)
  <2>2. Places(e, m + 1) = rows \cup {x} /\ x \notin rows
    BY <1>1, <2>1 DEF Places
  <2>3. q[x] = s[m + 1].quantity /\ q[x] \in Nat
    BY <1>1, <2>1
  <2>4. IsFiniteSet(rows) /\ (\A y \in rows : q[y] \in Nat) /\ Total(q, rows) = Cumulative(s, m)
    BY <1>2, <2>1
  <2> HIDE DEF x, rows
  <2>5. Total(q, rows \cup {x}) = Total(q, rows) + q[x] /\ IsFiniteSet(rows \cup {x})
    BY <2>2, <2>3, <2>4, TotalAdd, FS_AddElement
  <2>6. Cumulative(s, m + 1) = Cumulative(s, m) + s[m + 1].quantity
    BY <2>1, CurveFacts
  <2> QED BY <2>2, <2>3, <2>4, <2>5, <2>6
<1> HIDE DEF Good
<1>5. k \in Good /\ k <= n
  BY <1>1, <1>3, <1>4, SetInduction
<1> QED BY <1>2, <1>5 DEF Good

\* The quantities of a set of rows.
QuantitiesIn(M) == [m \in M |-> m.quantity]

LEMMA QuantityOfIsTotal ==
  ASSUME NEW M, IsFiniteSet(M), \A m \in M : m.quantity \in Nat
  PROVE  /\ \A m \in M : QuantitiesIn(M)[m] \in Nat /\ QuantitiesIn(M)[m] = m.quantity
         /\ QuantityOf(M) = Total(QuantitiesIn(M), M)
<1> DEFINE IsSum(f) == f = [t \in SUBSET M |-> IF t = {} THEN 0
                                               ELSE Chosen(t).quantity + f[t \ {Chosen(t)}]]
           c == CHOOSE f : IsSum(f)
           q == QuantitiesIn(M)
<1>1. QuantityOf(M) = c[M]
  BY DEF QuantityOf, MapThenSumSet, MapThenFoldSet, Chosen
<1>2. \A m \in M : q[m] \in Nat /\ q[m] = m.quantity
  BY DEF QuantitiesIn
<1> HIDE DEF q
<1>3. ASSUME NEW t \in SUBSET M, t # {} PROVE q[Chosen(t)] = Chosen(t).quantity
  BY <1>2, <1>3, ChosenIn
<1>4. PICK h : IsTable(h, q, M) /\ Total(q, M) = h[M]
  BY <1>2, TotalIsTable
<1>5. IsSum(h)
  <2>1. h = [t \in SUBSET M |-> IF t = {} THEN 0 ELSE q[Chosen(t)] + h[t \ {Chosen(t)}]]
    BY <1>4 DEF IsTable
  <2> QED BY <1>3, <2>1
<1>6. IsSum(c)
  BY <1>5
<1> HIDE DEF c
<1>7. IsTable(c, q, M)
  <2>1. c = [t \in SUBSET M |-> IF t = {} THEN 0 ELSE Chosen(t).quantity + c[t \ {Chosen(t)}]]
    BY <1>6
  <2>2. c = [t \in SUBSET M |-> IF t = {} THEN 0 ELSE q[Chosen(t)] + c[t \ {Chosen(t)}]]
    BY <1>3, <2>1
  <2> QED BY <2>2 DEF IsTable
<1> HIDE DEF IsSum
<1>8. c[M] = h[M]
  BY <1>4, <1>7, TablesAgree
<1> QED BY <1>1, <1>2, <1>4, <1>8 DEF q

-----------------------------------------------------------------------------
(* Listings *)

\* A listing of a side of the book has every entry in it, once.
LEMMA ListingOrder ==
  ASSUME NEW S, IsFiniteSet(S), NEW s \in Listings(S)
  PROVE  /\ Cardinality(S) \in Nat
         /\ s \in [1..Cardinality(S) -> S] /\ DOMAIN s = 1..Cardinality(S)
         /\ \A i, j \in 1..Cardinality(S) : s[i] = s[j] => i = j
         /\ \A x \in S : \E i \in 1..Cardinality(S) : s[i] = x
<1> DEFINE n == Cardinality(S)
<1>1. n \in Nat
  BY FS_CardinalityType
<1>2. s \in [1..n -> S] /\ \A i, j \in 1..n : s[i] = s[j] => i = j
  BY DEF Listings
<1>3. Cardinality(1..n) = n
  BY <1>1, FS_Interval
<1>4. s \in Injection(1..n, S)
  BY <1>2 DEF Injection, IsInjective
<1>5. s \in Surjection(1..n, S)
  BY <1>3, <1>4, FS_Injection
<1>6. \A x \in S : \E i \in 1..n : s[i] = x
  BY <1>5 DEF Surjection
<1> QED BY <1>1, <1>2, <1>6

Ascends(s, key) == \A i, j \in DOMAIN s : i < j => key[s[i]] <= key[s[j]]

LEMMA AscendingListing ==
  ASSUME NEW S, IsFiniteSet(S), NEW key, \A x \in S : key[x] \in Nat
  PROVE  \E s \in Listings(S) : Ascends(s, key)
<1> DEFINE Sorts(T) == \E s \in Listings(T) : Ascends(s, key)
           Good == {n \in Nat : \A T \in SUBSET S : Cardinality(T) = n => Sorts(T)}
<1>1. 0 \in Good
  <2> SUFFICES ASSUME NEW T \in SUBSET S, Cardinality(T) = 0 PROVE Sorts(T)
    OBVIOUS
  <2> DEFINE s == [i \in 1..0 |-> 0]
  <2>1. T = {}
    BY FS_Subset, FS_EmptySet
  <2>2. s \in [1..0 -> T] /\ DOMAIN s = {}
    OBVIOUS
  <2> HIDE DEF s
  <2>3. s \in Listings(T)
    BY <2>2 DEF Listings
  <2> QED BY <2>2, <2>3 DEF Ascends
<1>2. ASSUME NEW n \in Nat, n \in Good PROVE n + 1 \in Good
  <2> SUFFICES ASSUME NEW T \in SUBSET S, Cardinality(T) = n + 1 PROVE Sorts(T)
    OBVIOUS
  <2>1. IsFiniteSet(T) /\ T # {}
    BY FS_Subset, FS_EmptySet
  <2>2. PICK x \in T : \A y \in T : key[x] <= key[y]
    <3> DEFINE keys == {key[y] : y \in T}
    <3>1. keys \in SUBSET Nat /\ keys # {}
      BY <2>1
    <3>2. PICK m \in keys : \A o \in keys : m <= o
      BY <3>1, LeastNatural
    <3> QED BY <3>2
  <2> DEFINE R == T \ {x}
  <2>3. Cardinality(R) = n /\ R \in SUBSET S
    <3>1. Cardinality(R) = Cardinality(T) - 1
      BY <2>1, FS_RemoveElement
    <3> QED BY <3>1
  <2>4. PICK r \in Listings(R) : Ascends(r, key)
    BY <1>2, <2>3
  <2>5. r \in [1..n -> R] /\ \A i, j \in 1..n : r[i] = r[j] => i = j
    BY <2>3, <2>4 DEF Listings
  <2> DEFINE s == [i \in 1..(n + 1) |-> IF i = 1 THEN x ELSE r[i - 1]]
  <2>6. \A i \in 1..(n + 1) : i = 1 \/ (i - 1 \in 1..n /\ r[i - 1] \in T /\ r[i - 1] # x)
    BY <2>5
  <2>7. s \in [1..(n + 1) -> T] /\ DOMAIN s = 1..(n + 1)
    BY <2>6
  <2>8. ASSUME NEW i \in 1..(n + 1), NEW j \in 1..(n + 1), s[i] = s[j] PROVE i = j
    BY <2>5, <2>6, <2>8
  <2>9. ASSUME NEW i \in 1..(n + 1), NEW j \in 1..(n + 1), i < j
        PROVE  key[s[i]] <= key[s[j]]
    <3>1. j - 1 \in 1..n /\ s[j] = r[j - 1] /\ s[j] \in T
      BY <2>6, <2>9
    <3>2. CASE i = 1
      BY <2>2, <3>1, <3>2
    <3>3. CASE i # 1
      <4>1. i - 1 \in 1..n /\ s[i] = r[i - 1] /\ i - 1 < j - 1
        BY <2>9, <3>3
      <4> HIDE DEF s
      <4> QED BY <2>4, <2>5, <3>1, <4>1 DEF Ascends
    <3> QED BY <3>2, <3>3
  <2> HIDE DEF s
  <2>10. s \in Listings(T)
    BY <2>7, <2>8 DEF Listings
  <2> QED BY <2>7, <2>9, <2>10 DEF Ascends
<1> HIDE DEF Good
<1>3. Cardinality(S) \in Good
  BY <1>1, <1>2, SetInduction, FS_CardinalityType
<1> QED BY <1>3 DEF Good

\* Every side of a book can be sorted.
LEMMA SuppliesCanBeSorted ==
  ASSUME NEW S, IsFiniteSet(S), \A x \in S : x.reservePrice \in Nat
  PROVE  SortedSupplies(S) # {}
<1> DEFINE key == [x \in S |-> x.reservePrice]
<1>1. \A x \in S : key[x] \in Nat /\ key[x] = x.reservePrice
  OBVIOUS
<1> HIDE DEF key
<1>2. PICK s \in Listings(S) : Ascends(s, key)
  BY <1>1, AscendingListing
<1>3. \A i \in DOMAIN s : s[i] \in S
  BY DEF Listings
<1>4. \A i, j \in DOMAIN s : i < j => s[i].reservePrice <= s[j].reservePrice
  BY <1>1, <1>2, <1>3 DEF Ascends
<1> QED BY <1>4 DEF SortedSupplies

LEMMA BidsCanBeSorted ==
  ASSUME NEW B, IsFiniteSet(B), \A x \in B : x.price \in Nat
  PROVE  SortedBids(B) # {}
<1> DEFINE key == [x \in B |-> x.price]
           n == Cardinality(B)
<1>1. \A x \in B : key[x] \in Nat /\ key[x] = x.price
  OBVIOUS
<1> HIDE DEF key
<1>2. PICK r \in Listings(B) : Ascends(r, key)
  BY <1>1, AscendingListing
<1>3. /\ n \in Nat /\ r \in [1..n -> B]
      /\ \A i, j \in 1..n : r[i] = r[j] => i = j
      /\ \A i, j \in 1..n : i < j => key[r[i]] <= key[r[j]]
  BY <1>2, ListingOrder DEF Ascends
<1> DEFINE s == [i \in 1..n |-> r[n + 1 - i]]
<1>4. \A i \in 1..n : n + 1 - i \in 1..n /\ s[i] = r[n + 1 - i] /\ s[i] \in B
  BY <1>3
<1>5. s \in [1..n -> B] /\ DOMAIN s = 1..n
  BY <1>4
<1>6. ASSUME NEW i \in 1..n, NEW j \in 1..n, s[i] = s[j] PROVE i = j
  BY <1>3, <1>4, <1>6
<1>7. ASSUME NEW i \in 1..n, NEW j \in 1..n, i < j PROVE s[i].price >= s[j].price
  <2>1. n + 1 - j < n + 1 - i
    BY <1>3, <1>7
  <2>2. key[s[j]] <= key[s[i]]
    BY <1>3, <1>4, <2>1
  <2>3. key[s[j]] = s[j].price /\ key[s[i]] = s[i].price /\ key[s[i]] \in Nat /\ key[s[j]] \in Nat
    BY <1>1, <1>4
  <2> QED BY <2>2, <2>3
<1> HIDE DEF s
<1>8. s \in SortedBids(B)
  BY <1>5, <1>6, <1>7 DEF SortedBids, Listings
<1> QED BY <1>8

-----------------------------------------------------------------------------
(* The pass over one side of the book *)

LEMMA SmallerOf ==
  ASSUME NEW a \in Nat, NEW b \in Nat
  PROVE  /\ Smaller(a, b) \in Nat /\ Smaller(a, b) <= a /\ Smaller(a, b) <= b
         /\ a <= b => Smaller(a, b) = a
         /\ b <= a => Smaller(a, b) = b
BY DEF Smaller

\* What position k gets.
Share(s, ok, q, k) == IF k \in ok THEN Smaller(s[k].quantity, LeftBefore(s, ok, q, k)) ELSE 0

\* The entries served before position k, and what is left unmet there.
ServedBefore(s, ok, q, k) ==
  {[id |-> s[p].id, quantity |-> Smaller(s[p].quantity, LeftBefore(s, ok, q, p))] :
      p \in {i \in ok : i < k /\ LeftBefore(s, ok, q, i) > 0}}

UnmetBefore(s, ok, q, k) ==
  Cumulative(s, k - 1) - Smaller(q, QuantityAt(s, ok \cap 1..(k - 1)))

\* The quantity at the first k positions that are in ok.
Accepted(s, ok, k) == QuantityAt(s, ok \cap 1..k)

LEMMA AcceptedUpTo ==
  ASSUME NEW s, NEW n, Side(s, n), NEW ok \in SUBSET (1..n), NEW k \in 1..n
  PROVE  /\ Accepted(s, ok, k - 1) \in Nat
         /\ k \in ok => Accepted(s, ok, k) = Accepted(s, ok, k - 1) + s[k].quantity
         /\ k \notin ok => Accepted(s, ok, k) = Accepted(s, ok, k - 1)
<1> DEFINE P == ok \cap 1..(k - 1)
           R == ok \cap 1..k
<1>1. n \in Nat /\ k \in Nat
  BY DEF Side
<1>2. P \in SUBSET (1..n) /\ k \notin P
  BY <1>1
<1>3. (k \in ok => R = P \cup {k}) /\ (k \notin ok => R = P)
  BY <1>1
<1>4. Accepted(s, ok, k) = QuantityAt(s, R) /\ Accepted(s, ok, k - 1) = QuantityAt(s, P)
  BY DEF Accepted
<1> HIDE DEF P, R
<1>5. QuantityAt(s, P) \in Nat
  BY <1>2, QuantityFacts
<1>6. QuantityAt(s, P \cup {k}) = QuantityAt(s, P) + s[k].quantity
  BY <1>2, QuantityAdd
<1>7. /\ k \in ok => QuantityAt(s, R) = QuantityAt(s, P) + s[k].quantity
      /\ k \notin ok => QuantityAt(s, R) = QuantityAt(s, P)
  BY <1>3, <1>6, Zenon
<1> QED BY <1>4, <1>5, <1>7, Zenon

LEMMA LeftIs ==
  ASSUME NEW s, NEW ok, NEW q, NEW k \in Nat
  PROVE  /\ LeftBefore(s, ok, q, k) = q - Smaller(q, Accepted(s, ok, k - 1))
         /\ LeftBefore(s, ok, q, k + 1) = q - Smaller(q, Accepted(s, ok, k))
         /\ UnmetBefore(s, ok, q, k) = Cumulative(s, k - 1) - Smaller(q, Accepted(s, ok, k - 1))
         /\ UnmetBefore(s, ok, q, k + 1) = Cumulative(s, k) - Smaller(q, Accepted(s, ok, k))
<1>1. (k + 1) - 1 = k
  OBVIOUS
<1> QED BY <1>1 DEF LeftBefore, UnmetBefore, Accepted

LEMMA PassStart ==
  ASSUME NEW s, NEW n, Side(s, n), NEW ok \in SUBSET (1..n), NEW q \in Nat
  PROVE  /\ LeftBefore(s, ok, q, 1) = q
         /\ ServedBefore(s, ok, q, 1) = {}
         /\ UnmetBefore(s, ok, q, 1) = 0
<1>1. ok \cap 1..(1 - 1) = {} /\ 1 - 1 = 0
  OBVIOUS
<1>2. QuantityAt(s, {}) = 0 /\ Cumulative(s, 0) = 0
  <2>1. {} \in SUBSET (1..n) /\ 0 \in 0..n
    BY DEF Side
  <2> QED BY <2>1, QuantityFacts, CurveFacts
<1>3. Smaller(q, 0) = 0
  BY SmallerOf
<1>4. LeftBefore(s, ok, q, 1) = q /\ UnmetBefore(s, ok, q, 1) = 0
  BY <1>1, <1>2, <1>3 DEF LeftBefore, UnmetBefore
<1>5. \A i \in ok : ~ i < 1
  BY DEF Side
<1> QED BY <1>4, <1>5 DEF ServedBefore

LEMMA PassStep ==
  ASSUME NEW s, NEW n, Side(s, n), NEW ok \in SUBSET (1..n), NEW q \in Nat, NEW k \in 1..n
  PROVE  /\ LeftBefore(s, ok, q, k) \in Nat
         /\ Share(s, ok, q, k) \in Nat /\ Share(s, ok, q, k) <= s[k].quantity
         /\ LeftBefore(s, ok, q, k + 1) = LeftBefore(s, ok, q, k) - Share(s, ok, q, k)
         /\ UnmetBefore(s, ok, q, k + 1)
              = UnmetBefore(s, ok, q, k) + (s[k].quantity - Share(s, ok, q, k))
<1> DEFINE A == Accepted(s, ok, k - 1)
           R == Accepted(s, ok, k)
           x == s[k].quantity
<1>1. n \in Nat /\ k \in Nat /\ k - 1 \in 0..n /\ k - 1 < n /\ (k - 1) + 1 = k
  BY DEF Side
<1>2. A \in Nat /\ x \in Nat
  BY AcceptedUpTo DEF Side
<1>3. (k \in ok => R = A + x) /\ (k \notin ok => R = A)
  BY AcceptedUpTo
<1>4. LeftBefore(s, ok, q, k) = q - Smaller(q, A) /\ LeftBefore(s, ok, q, k + 1) = q - Smaller(q, R)
  BY <1>1, LeftIs
<1>5. /\ UnmetBefore(s, ok, q, k) = Cumulative(s, k - 1) - Smaller(q, A)
      /\ UnmetBefore(s, ok, q, k + 1) = Cumulative(s, k) - Smaller(q, R)
  BY <1>1, LeftIs
<1>6. Cumulative(s, k) = Cumulative(s, k - 1) + x /\ Cumulative(s, k - 1) \in Nat
  BY <1>1, CurveFacts
<1>7. Share(s, ok, q, k) = IF k \in ok THEN Smaller(x, q - Smaller(q, A)) ELSE 0
  BY <1>4 DEF Share
<1> HIDE DEF A, R, x
<1>8. q - Smaller(q, A) \in Nat
  BY <1>2 DEF Smaller
<1>9. Smaller(x, q - Smaller(q, A)) \in Nat /\ Smaller(x, q - Smaller(q, A)) <= x
  BY <1>2, <1>8 DEF Smaller
<1>10. Smaller(q, A + x) = Smaller(q, A) + Smaller(x, q - Smaller(q, A))
  BY <1>2 DEF Smaller
<1>11. Smaller(q, A) \in Nat
  BY <1>2, SmallerOf
<1>12. CASE k \in ok
  BY <1>2, <1>3, <1>4, <1>5, <1>6, <1>7, <1>8, <1>9, <1>10, <1>11, <1>12 DEF x
<1>13. CASE k \notin ok
  BY <1>2, <1>3, <1>4, <1>5, <1>6, <1>7, <1>8, <1>11, <1>13 DEF x
<1> QED BY <1>12, <1>13

LEMMA ServedStep ==
  ASSUME NEW s, NEW n, Side(s, n), NEW ok \in SUBSET (1..n), NEW q \in Nat, NEW k \in 1..n
  PROVE  /\ Share(s, ok, q, k) > 0 =>
              ServedBefore(s, ok, q, k + 1) = ServedBefore(s, ok, q, k)
                \cup {[id |-> s[k].id, quantity |-> Share(s, ok, q, k)]}
         /\ ~ Share(s, ok, q, k) > 0 =>
              ServedBefore(s, ok, q, k + 1) = ServedBefore(s, ok, q, k)
<1> DEFINE In(m) == {i \in ok : i < m /\ LeftBefore(s, ok, q, i) > 0}
           Row(p) == [id |-> s[p].id, quantity |-> Smaller(s[p].quantity, LeftBefore(s, ok, q, p))]
<1>1. \A i \in ok : i \in Nat
  BY DEF Side
<1>2. Share(s, ok, q, k) > 0 <=> k \in ok /\ LeftBefore(s, ok, q, k) > 0
  <2>1. LeftBefore(s, ok, q, k) \in Nat /\ s[k].quantity \in Nat \ {0}
    BY PassStep DEF Side
  <2> QED BY <2>1 DEF Share, Smaller
<1>3. In(k + 1) = IF Share(s, ok, q, k) > 0 THEN In(k) \cup {k} ELSE In(k)
  <2>1. \A i \in ok : i < k + 1 <=> i < k \/ i = k
    BY <1>1
  <2>2. ~ k < k
    OBVIOUS
  <2>3. CASE Share(s, ok, q, k) > 0
    <3>1. k \in ok /\ LeftBefore(s, ok, q, k) > 0
      BY <1>2, <2>3
    <3> QED BY <2>1, <2>3, <3>1
  <2>4. CASE ~ Share(s, ok, q, k) > 0
    <3>1. ~ (k \in ok /\ LeftBefore(s, ok, q, k) > 0)
      BY <1>2, <2>4
    <3> QED BY <2>1, <2>4, <3>1
  <2> QED BY <2>3, <2>4
<1>4. \A m : ServedBefore(s, ok, q, m) = {Row(p) : p \in In(m)}
  BY DEF ServedBefore
<1>5. Share(s, ok, q, k) > 0 => Row(k) = [id |-> s[k].id, quantity |-> Share(s, ok, q, k)]
  BY <1>2 DEF Share
<1> HIDE DEF In, Row
<1>6. {Row(p) : p \in In(k) \cup {k}} = {Row(p) : p \in In(k)} \cup {Row(k)}
  OBVIOUS
<1> QED BY <1>3, <1>4, <1>5, <1>6

LEMMA PassEnd ==
  ASSUME NEW s, NEW n, Side(s, n), NEW ok \in SUBSET (1..n), NEW q \in Nat
  PROVE  /\ ServedBefore(s, ok, q, n + 1) = Served(s, ok, q)
         /\ UnmetBefore(s, ok, q, n + 1) = Unmet(s, ok, q)
<1>1. n \in Nat /\ (n + 1) - 1 = n /\ \A i \in ok : i < n + 1
  BY DEF Side
<1>2. Cardinality(DOMAIN s) = n
  BY <1>1, FS_Interval DEF Side
<1>3. ok \cap 1..n = ok
  BY <1>1
<1> QED BY <1>1, <1>2, <1>3 DEF ServedBefore, Served, UnmetBefore, Unmet

LEMMA LeftAtEnd ==
  ASSUME NEW s, NEW n, Side(s, n), NEW ok \in SUBSET (1..n), NEW q
  PROVE  LeftBefore(s, ok, q, n + 1) = q - Smaller(q, QuantityAt(s, ok))
<1>1. (n + 1) - 1 = n /\ ok \cap 1..n = ok
  BY DEF Side
<1> QED BY <1>1 DEF LeftBefore

\* What is given out before a position is what is no longer left there.
GivesOut(s, ok, q, f, k) ==
  /\ IsFiniteSet(ServedBefore(s, ok, q, k))
  /\ Total(f, ServedBefore(s, ok, q, k)) = q - LeftBefore(s, ok, q, k)

LEMMA GivesOutStep ==
  ASSUME NEW s, NEW n, Side(s, n), \A i, j \in 1..n : s[i].id = s[j].id => i = j,
         NEW ok \in SUBSET (1..n), NEW q \in Nat, NEW k \in 1..n,
         NEW M, NEW f, \A m \in M : f[m] \in Nat /\ f[m] = m.quantity,
         ServedBefore(s, ok, q, k) \subseteq M, ServedBefore(s, ok, q, k + 1) \subseteq M,
         GivesOut(s, ok, q, f, k)
  PROVE  GivesOut(s, ok, q, f, k + 1)
<1> DEFINE x == Share(s, ok, q, k)
           row == [id |-> s[k].id, quantity |-> x]
           before == ServedBefore(s, ok, q, k)
           after == ServedBefore(s, ok, q, k + 1)
           left == LeftBefore(s, ok, q, k)
<1>1. left \in Nat /\ x \in Nat /\ LeftBefore(s, ok, q, k + 1) = left - x
  BY PassStep
<1>2. (x > 0 => after = before \cup {row}) /\ (~ x > 0 => after = before)
  BY ServedStep
<1>3. row \notin before
  <2>1. \A m \in before : \E i \in ok : i < k /\ m.id = s[i].id
    BY DEF ServedBefore
  <2>2. ASSUME NEW i \in ok, i < k PROVE s[i].id # s[k].id
    <3>1. i \in 1..n /\ i # k
      BY <2>2 DEF Side
    <3> QED BY <3>1
  <2>3. row.id = s[k].id
    OBVIOUS
  <2> HIDE DEF row, before
  <2> QED BY <2>1, <2>2, <2>3
<1>4. row.quantity = x
  OBVIOUS
<1>5. IsFiniteSet(before) /\ before \subseteq M /\ after \subseteq M /\ Total(f, before) = q - left
  BY DEF GivesOut
<1> HIDE DEF x, row, before, after, left
<1>6. CASE x > 0
  <2>1. row \in M /\ after = before \cup {row}
    BY <1>2, <1>5, <1>6
  <2>2. f[row] = x /\ f[row] \in Nat /\ \A m \in before : f[m] \in Nat
    BY <1>4, <1>5, <2>1
  <2>3. Total(f, before \cup {row}) = Total(f, before) + f[row]
    BY <1>3, <1>5, <2>2, TotalAdd
  <2>4. IsFiniteSet(after)
    BY <1>5, <2>1, FS_AddElement
  <2>5. Total(f, after) = q - (left - x)
    BY <1>1, <1>5, <2>1, <2>2, <2>3
  <2> QED BY <1>1, <2>4, <2>5 DEF GivesOut, after
<1>7. CASE ~ x > 0
  <2>1. left - x = left /\ after = before
    BY <1>1, <1>2, <1>7
  <2>2. IsFiniteSet(after) /\ Total(f, after) = q - (left - x)
    BY <1>5, <2>1
  <2> QED BY <1>1, <2>2 DEF GivesOut, after
<1> QED BY <1>6, <1>7

\* The pass over a side gives out q, or all it accepts if that is less.
LEMMA ServedTotal ==
  ASSUME NEW s, NEW n, Side(s, n), \A i, j \in 1..n : s[i].id = s[j].id => i = j,
         NEW ok \in SUBSET (1..n), NEW q \in Nat
  PROVE  /\ IsFiniteSet(Served(s, ok, q))
         /\ \A m \in Served(s, ok, q) : m.quantity \in Nat
         /\ QuantityOf(Served(s, ok, q)) = Smaller(q, QuantityAt(s, ok))
<1> DEFINE M == Served(s, ok, q)
           f == QuantitiesIn(M)
           Good == {k \in Nat : k <= n => GivesOut(s, ok, q, f, k + 1)}
<1>1. n \in Nat
  BY DEF Side
<1>2. \A m \in M : m.quantity \in Nat
  <2>1. ASSUME NEW i \in ok PROVE Smaller(s[i].quantity, LeftBefore(s, ok, q, i)) \in Nat
    <3>1. s[i].quantity \in Nat /\ LeftBefore(s, ok, q, i) \in Nat
      BY PassStep DEF Side
    <3> QED BY <3>1, SmallerOf
  <2> QED BY <2>1 DEF Served
<1>3. \A m \in M : f[m] \in Nat /\ f[m] = m.quantity
  BY <1>2 DEF QuantitiesIn
<1>4. \A k \in Nat : ServedBefore(s, ok, q, k) \subseteq M
  BY DEF Served, ServedBefore
<1> HIDE DEF M, f
<1>5. 0 \in Good
  <2>1. ServedBefore(s, ok, q, 1) = {} /\ LeftBefore(s, ok, q, 1) = q
    BY PassStart
  <2>2. IsFiniteSet({}) /\ Total(f, {}) = 0
    BY FS_EmptySet, TotalFacts
  <2> QED BY <2>1, <2>2 DEF GivesOut
<1>6. ASSUME NEW k \in Nat, k \in Good PROVE k + 1 \in Good
  <2> SUFFICES ASSUME k + 1 <= n PROVE GivesOut(s, ok, q, f, (k + 1) + 1)
    OBVIOUS
  <2>1. k + 1 \in 1..n /\ GivesOut(s, ok, q, f, k + 1)
    BY <1>1, <1>6
  <2>2. ServedBefore(s, ok, q, k + 1) \subseteq M /\ ServedBefore(s, ok, q, (k + 1) + 1) \subseteq M
    BY <1>4
  <2> QED BY <1>3, <2>1, <2>2, GivesOutStep
<1> HIDE DEF Good
<1>7. n \in Good
  BY <1>1, <1>5, <1>6, SetInduction
<1>8. GivesOut(s, ok, q, f, n + 1)
  BY <1>7 DEF Good
<1>9. ServedBefore(s, ok, q, n + 1) = M
  BY PassEnd DEF M
<1>10. LeftBefore(s, ok, q, n + 1) = q - Smaller(q, QuantityAt(s, ok))
  BY LeftAtEnd
<1>11. Smaller(q, QuantityAt(s, ok)) \in Nat
  BY QuantityFacts, SmallerOf
<1>12. IsFiniteSet(M) /\ Total(f, M) = Smaller(q, QuantityAt(s, ok))
  BY <1>8, <1>9, <1>10, <1>11 DEF GivesOut
<1>13. QuantityOf(M) = Total(f, M)
  BY <1>2, <1>12, QuantityOfIsTotal DEF f
<1> QED BY <1>2, <1>12, <1>13 DEF M

-----------------------------------------------------------------------------
(* Outcomes *)

\* A book as the database returns it: rows with keys, prices and quantities.
IsBook(B, S) ==
  /\ IsFiniteSet(B) /\ IsFiniteSet(S)
  /\ \A b \in B : b.price \in Nat \ {0} /\ b.quantity \in Nat \ {0}
  /\ \A s \in S : s.reservePrice \in Nat \ {0} /\ s.quantity \in Nat \ {0}
  /\ \A b, c \in B : b.id = c.id => b = c
  /\ \A s, t \in S : s.id = t.id => s = t

LEMMA BidSide ==
  ASSUME NEW B, NEW S, IsBook(B, S), NEW bs \in SortedBids(B)
  PROVE  /\ Side(bs, Cardinality(B))
         /\ \A i, j \in 1..Cardinality(B) : bs[i].id = bs[j].id => i = j
         /\ \A i, j \in 1..Cardinality(B) : bs[i] = bs[j] => i = j
         /\ \A i \in 1..Cardinality(B) : bs[i] \in B /\ bs[i].price \in Nat
         /\ \A i, j \in 1..Cardinality(B) : i < j => bs[i].price >= bs[j].price
         /\ Places(bs, Cardinality(B)) = B
<1> DEFINE n == Cardinality(B)
<1>1. bs \in Listings(B) /\ \A i, j \in DOMAIN bs : i < j => bs[i].price >= bs[j].price
  BY DEF SortedBids
<1>2. /\ n \in Nat /\ bs \in [1..n -> B] /\ DOMAIN bs = 1..n
      /\ \A i, j \in 1..n : bs[i] = bs[j] => i = j
      /\ \A x \in B : \E i \in 1..n : bs[i] = x
  BY <1>1, ListingOrder DEF IsBook
<1> HIDE DEF n
<1>3. \A i \in 1..n : bs[i] \in B
  BY <1>2
<1>4. Side(bs, n) /\ \A i \in 1..n : bs[i].price \in Nat
  BY <1>2, <1>3 DEF Side, IsBook
<1>5. ASSUME NEW i \in 1..n, NEW j \in 1..n, bs[i].id = bs[j].id PROVE i = j
  <2>1. bs[i] = bs[j]
    BY <1>3, <1>5 DEF IsBook
  <2> QED BY <1>2, <2>1
<1>6. Places(bs, n) = B
  BY <1>2, <1>3 DEF Places
<1> QED BY <1>1, <1>2, <1>3, <1>4, <1>5, <1>6 DEF n

LEMMA SupplySide ==
  ASSUME NEW B, NEW S, IsBook(B, S), NEW ss \in SortedSupplies(S)
  PROVE  /\ Side(ss, Cardinality(S))
         /\ \A i, j \in 1..Cardinality(S) : ss[i].id = ss[j].id => i = j
         /\ \A i, j \in 1..Cardinality(S) : ss[i] = ss[j] => i = j
         /\ \A i \in 1..Cardinality(S) : ss[i] \in S /\ ss[i].reservePrice \in Nat
         /\ \A i, j \in 1..Cardinality(S) : i < j => ss[i].reservePrice <= ss[j].reservePrice
         /\ Places(ss, Cardinality(S)) = S
<1> DEFINE n == Cardinality(S)
<1>1. ss \in Listings(S)
      /\ \A i, j \in DOMAIN ss : i < j => ss[i].reservePrice <= ss[j].reservePrice
  BY DEF SortedSupplies
<1>2. /\ n \in Nat /\ ss \in [1..n -> S] /\ DOMAIN ss = 1..n
      /\ \A i, j \in 1..n : ss[i] = ss[j] => i = j
      /\ \A x \in S : \E i \in 1..n : ss[i] = x
  BY <1>1, ListingOrder DEF IsBook
<1> HIDE DEF n
<1>3. \A i \in 1..n : ss[i] \in S
  BY <1>2
<1>4. Side(ss, n) /\ \A i \in 1..n : ss[i].reservePrice \in Nat
  BY <1>2, <1>3 DEF Side, IsBook
<1>5. ASSUME NEW i \in 1..n, NEW j \in 1..n, ss[i].id = ss[j].id PROVE i = j
  <2>1. ss[i] = ss[j]
    BY <1>3, <1>5 DEF IsBook
  <2> QED BY <1>2, <2>1
<1>6. Places(ss, n) = S
  BY <1>2, <1>3 DEF Places
<1> QED BY <1>1, <1>2, <1>3, <1>4, <1>5, <1>6 DEF n

\* The positions of bids that offer the price, of supplies that accept it.
BidsIn(bs, price) == {k \in DOMAIN bs : bs[k].price >= price}
OffersIn(ss, price) == {k \in DOMAIN ss : ss[k].reservePrice <= price}

\* Where the curves intersect the volume is what the first i bids ask for; it
\* takes all of the first j supply offers, and both stay within the price.
LEMMA ClearingPoint ==
  ASSUME NEW B, NEW S, IsBook(B, S), NEW bs \in SortedBids(B), NEW ss \in SortedSupplies(S),
         NEW i \in DOMAIN bs, NEW j \in DOMAIN ss, Intersects(bs, ss, i, j)
  PROVE  /\ i \in 1..Cardinality(B) /\ j \in 1..Cardinality(S)
         /\ Cumulative(bs, i) \in Nat \ {0} /\ Cumulative(ss, j) \in Nat
         /\ Cumulative(ss, j - 1) \in Nat
         /\ Smaller(Cumulative(bs, i), Cumulative(ss, j)) = Cumulative(bs, i)
         /\ Cumulative(ss, j - 1) < Cumulative(bs, i)
         /\ Cumulative(ss, j) >= Cumulative(bs, i)
         /\ BidsIn(bs, ss[j].reservePrice) \in SUBSET (1..Cardinality(B))
         /\ OffersIn(ss, ss[j].reservePrice) \in SUBSET (1..Cardinality(S))
         /\ 1..i \subseteq BidsIn(bs, ss[j].reservePrice)
         /\ 1..j \subseteq OffersIn(ss, ss[j].reservePrice)
<1> DEFINE m == Cardinality(B)
           n == Cardinality(S)
<1>1. /\ Side(bs, m) /\ DOMAIN bs = 1..m /\ m \in Nat
      /\ \A p \in 1..m : bs[p].price \in Nat
      /\ \A p, q \in 1..m : p < q => bs[p].price >= bs[q].price
  BY BidSide DEF Side
<1>2. /\ Side(ss, n) /\ DOMAIN ss = 1..n /\ n \in Nat
      /\ \A p \in 1..n : ss[p].reservePrice \in Nat
      /\ \A p, q \in 1..n : p < q => ss[p].reservePrice <= ss[q].reservePrice
  BY SupplySide DEF Side
<1> HIDE DEF m, n
<1>3. /\ Cumulative(ss, j) >= Cumulative(bs, i)
      /\ \A k \in 1..(j - 1) : Cumulative(ss, k) < Cumulative(bs, i)
      /\ bs[i].price >= ss[j].reservePrice
  BY DEF Intersects, Meets
<1>4. i \in 1..m /\ j \in 1..n /\ i \in 0..m /\ i - 1 \in 0..m /\ j \in 0..n /\ j - 1 \in 0..n
      /\ i - 1 < m /\ (i - 1) + 1 = i
  BY <1>1, <1>2
<1>5. Cumulative(bs, i) \in Nat \ {0}
  <2>1. Cumulative(bs, i - 1) \in Nat /\ Cumulative(bs, i) = Cumulative(bs, i - 1) + bs[i].quantity
    BY <1>1, <1>4, CurveFacts
  <2>2. bs[i].quantity \in Nat \ {0}
    BY <1>1, <1>4 DEF Side
  <2> QED BY <2>1, <2>2
<1>6. Cumulative(ss, j) \in Nat /\ Cumulative(ss, j - 1) \in Nat /\ Cumulative(ss, 0) = 0
  BY <1>2, <1>4, CurveFacts
<1>7. Cumulative(ss, j - 1) < Cumulative(bs, i)
  <2>1. CASE j = 1
    <3>1. j - 1 = 0
      BY <2>1
    <3> QED BY <1>5, <1>6, <3>1
  <2>2. CASE j # 1
    <3>1. j - 1 \in 1..(j - 1)
      BY <1>2, <1>4, <2>2
    <3> QED BY <1>3, <3>1
  <2> QED BY <2>1, <2>2
<1>8. Smaller(Cumulative(bs, i), Cumulative(ss, j)) = Cumulative(bs, i)
  BY <1>3, <1>5, <1>6, SmallerOf
<1>9. ASSUME NEW p \in 1..i PROVE p \in BidsIn(bs, ss[j].reservePrice)
  <2>1. p \in 1..m /\ (p = i \/ p < i)
    BY <1>1, <1>4
  <2>2. bs[p].price >= bs[i].price /\ bs[p].price \in Nat /\ bs[i].price \in Nat
    BY <1>1, <1>4, <2>1
  <2>3. ss[j].reservePrice \in Nat
    BY <1>2, <1>4
  <2> QED BY <1>1, <1>3, <2>1, <2>2, <2>3 DEF BidsIn
<1>10. ASSUME NEW p \in 1..j PROVE p \in OffersIn(ss, ss[j].reservePrice)
  <2>1. p \in 1..n /\ (p = j \/ p < j)
    BY <1>2, <1>4
  <2>2. ss[p].reservePrice <= ss[j].reservePrice
    BY <1>2, <1>4, <2>1
  <2> QED BY <1>2, <2>1, <2>2 DEF OffersIn
<1>11. /\ BidsIn(bs, ss[j].reservePrice) \in SUBSET (1..m)
       /\ OffersIn(ss, ss[j].reservePrice) \in SUBSET (1..n)
  BY <1>1, <1>2 DEF BidsIn, OffersIn
<1> QED BY <1>3, <1>4, <1>5, <1>6, <1>7, <1>8, <1>9, <1>10, <1>11 DEF m, n

\* The outcomes of a book sorted in one way.
OutcomesFrom(B, S, bs, ss) ==
  IF \E i \in DOMAIN bs, j \in DOMAIN ss : Intersects(bs, ss, i, j)
  THEN {ClearedAt(bs, ss, ij[1], ij[2]) :
          ij \in {p \in (DOMAIN bs) \X (DOMAIN ss) : Intersects(bs, ss, p[1], p[2])}}
  ELSE {NothingCleared(B, S)}

LEMMA OutcomesUnion ==
  ASSUME NEW B, NEW S
  PROVE  ClearingOutcomes(B, S)
           = UNION {OutcomesFrom(B, S, bs, ss) : bs \in SortedBids(B), ss \in SortedSupplies(S)}
BY DEF ClearingOutcomes, OutcomesFrom

LEMMA OutcomeCases ==
  ASSUME NEW B, NEW S, NEW r \in ClearingOutcomes(B, S)
  PROVE  \/ r = NothingCleared(B, S)
         \/ \E bs \in SortedBids(B), ss \in SortedSupplies(S) :
              \E i \in DOMAIN bs, j \in DOMAIN ss :
                 Intersects(bs, ss, i, j) /\ r = ClearedAt(bs, ss, i, j)
<1>1. PICK bs \in SortedBids(B), ss \in SortedSupplies(S) : r \in OutcomesFrom(B, S, bs, ss)
  BY OutcomesUnion
<1>2. CASE \E i \in DOMAIN bs, j \in DOMAIN ss : Intersects(bs, ss, i, j)
  <2>1. PICK p \in (DOMAIN bs) \X (DOMAIN ss) :
          Intersects(bs, ss, p[1], p[2]) /\ r = ClearedAt(bs, ss, p[1], p[2])
    BY <1>1, <1>2 DEF OutcomesFrom
  <2>2. p[1] \in DOMAIN bs /\ p[2] \in DOMAIN ss
    OBVIOUS
  <2> QED BY <2>1, <2>2
<1>3. CASE ~ \E i \in DOMAIN bs, j \in DOMAIN ss : Intersects(bs, ss, i, j)
  BY <1>1, <1>3 DEF OutcomesFrom
<1> QED BY <1>2, <1>3

LEMMA OutcomeWithVolume ==
  ASSUME NEW B, NEW S, NEW bs \in SortedBids(B), NEW ss \in SortedSupplies(S),
         NEW i \in DOMAIN bs, NEW j \in DOMAIN ss, Intersects(bs, ss, i, j)
  PROVE  ClearedAt(bs, ss, i, j) \in ClearingOutcomes(B, S)
<1>1. <<i, j>> \in (DOMAIN bs) \X (DOMAIN ss) /\ <<i, j>>[1] = i /\ <<i, j>>[2] = j
  OBVIOUS
<1>2. ClearedAt(bs, ss, i, j) \in
        {ClearedAt(bs, ss, ij[1], ij[2]) :
           ij \in {p \in (DOMAIN bs) \X (DOMAIN ss) : Intersects(bs, ss, p[1], p[2])}}
  BY <1>1
<1>3. \E k \in DOMAIN bs, l \in DOMAIN ss : Intersects(bs, ss, k, l)
  OBVIOUS
<1>4. ClearedAt(bs, ss, i, j) \in OutcomesFrom(B, S, bs, ss)
  BY <1>2, <1>3 DEF OutcomesFrom
<1> QED BY <1>4, OutcomesUnion

LEMMA OutcomeWithout ==
  ASSUME NEW B, NEW S, NEW bs \in SortedBids(B), NEW ss \in SortedSupplies(S),
         ~ \E i \in DOMAIN bs, j \in DOMAIN ss : Intersects(bs, ss, i, j)
  PROVE  NothingCleared(B, S) \in ClearingOutcomes(B, S)
<1>1. NothingCleared(B, S) \in OutcomesFrom(B, S, bs, ss)
  BY DEF OutcomesFrom
<1> QED BY <1>1, OutcomesUnion

\* A sorted side adds up to what its rows offer.
LEMMA SideTotal ==
  ASSUME NEW s, NEW n, Side(s, n), NEW M, Places(s, n) = M,
         \A i, j \in 1..n : s[i] = s[j] => i = j
  PROVE  Cumulative(s, n) = QuantityOf(M)
<1> DEFINE q == QuantitiesIn(M)
<1>1. n \in 0..n /\ \A i \in 1..n : s[i].quantity \in Nat
  BY DEF Side
<1>2. \A m \in M : m.quantity \in Nat
  BY <1>1 DEF Places
<1>3. \A i \in 1..n : q[s[i]] = s[i].quantity
  BY DEF Places, QuantitiesIn
<1> HIDE DEF q
<1>4. IsFiniteSet(M) /\ Total(q, M) = Cumulative(s, n)
  BY <1>1, <1>3, RowsTotal
<1> QED BY <1>2, <1>4, QuantityOfIsTotal DEF q

LEMMA SideCleared ==
  ASSUME NEW s, NEW n, Side(s, n), \A i, j \in 1..n : s[i].id = s[j].id => i = j,
         NEW k \in 1..n, NEW ok \in SUBSET (1..n), 1..k \subseteq ok,
         NEW v \in Nat, v <= Cumulative(s, k)
  PROVE  QuantityOf(Served(s, ok, v)) = v /\ Unmet(s, ok, v) = Cumulative(s, n) - v
<1>1. QuantityAt(s, ok) \in Nat /\ Cumulative(s, k) <= QuantityAt(s, ok)
  BY QuantityFacts, QuantityMonotone DEF Cumulative
<1>2. Cumulative(s, k) \in Nat
  <2>1. k \in 0..n
    BY DEF Side
  <2> QED BY <2>1, CurveFacts
<1>3. Smaller(v, QuantityAt(s, ok)) = v
  BY <1>1, <1>2, SmallerOf
<1>4. Cardinality(DOMAIN s) = n
  BY FS_Interval DEF Side
<1> QED BY <1>3, <1>4, ServedTotal DEF Unmet

\* For every book the energy of the matched bids is that of the matched supply
\* offers, and each side is either matched or counted as unmet: nothing is sold
\* that nobody offered, and nothing is lost (clearing-price.service.ts:246-309).
THEOREM ClearingBalances ==
  ASSUME NEW B, NEW S, IsBook(B, S), NEW r \in ClearingOutcomes(B, S)
  PROVE  /\ QuantityOf(r.matchedBids) = r.totalVolume
         /\ QuantityOf(r.matchedSupplies) = r.totalVolume
         /\ r.totalVolume + r.unmetDemand = QuantityOf(B)
         /\ r.totalVolume + r.unmetSupply = QuantityOf(S)
<1>1. CASE r = NothingCleared(B, S)
  <2>1. /\ r.matchedBids = {} /\ r.matchedSupplies = {} /\ r.totalVolume = 0
        /\ r.unmetDemand = QuantityOf(B) /\ r.unmetSupply = QuantityOf(S)
    BY <1>1 DEF NothingCleared
  <2>2. QuantityOf({}) = 0
    <3>1. IsFiniteSet({}) /\ \A m \in {} : m.quantity \in Nat
      BY FS_EmptySet
    <3> QED BY <3>1, QuantityOfIsTotal, TotalFacts
  <2>3. QuantityOf(B) \in Nat /\ QuantityOf(S) \in Nat
    BY QuantityOfIsTotal, TotalFacts DEF IsBook
  <2> QED BY <2>1, <2>2, <2>3
<1>2. ASSUME NEW bs \in SortedBids(B), NEW ss \in SortedSupplies(S),
             NEW i \in DOMAIN bs, NEW j \in DOMAIN ss,
             Intersects(bs, ss, i, j), r = ClearedAt(bs, ss, i, j)
      PROVE  /\ QuantityOf(r.matchedBids) = r.totalVolume
             /\ QuantityOf(r.matchedSupplies) = r.totalVolume
             /\ r.totalVolume + r.unmetDemand = QuantityOf(B)
             /\ r.totalVolume + r.unmetSupply = QuantityOf(S)
  <2> DEFINE v == Cumulative(bs, i)
             bidsIn == BidsIn(bs, ss[j].reservePrice)
             offersIn == OffersIn(ss, ss[j].reservePrice)
  <2>1. /\ i \in 1..Cardinality(B) /\ j \in 1..Cardinality(S)
        /\ v \in Nat /\ v <= Cumulative(ss, j) /\ v <= v
        /\ Smaller(Cumulative(bs, i), Cumulative(ss, j)) = v
        /\ bidsIn \in SUBSET (1..Cardinality(B)) /\ offersIn \in SUBSET (1..Cardinality(S))
        /\ 1..i \subseteq bidsIn /\ 1..j \subseteq offersIn
    BY <1>2, ClearingPoint
  <2>2. /\ r.totalVolume = v
        /\ r.matchedBids = Served(bs, bidsIn, v) /\ r.unmetDemand = Unmet(bs, bidsIn, v)
        /\ r.matchedSupplies = Served(ss, offersIn, v) /\ r.unmetSupply = Unmet(ss, offersIn, v)
    BY <1>2, <2>1 DEF ClearedAt, BidsIn, OffersIn
  <2> HIDE DEF bidsIn, offersIn
  <2>3. QuantityOf(r.matchedBids) = v /\ r.unmetDemand = Cumulative(bs, Cardinality(B)) - v
    BY <2>1, <2>2, BidSide, SideCleared
  <2>4. QuantityOf(r.matchedSupplies) = v /\ r.unmetSupply = Cumulative(ss, Cardinality(S)) - v
    BY <2>1, <2>2, SupplySide, SideCleared
  <2>5. Cumulative(bs, Cardinality(B)) = QuantityOf(B)
    BY BidSide, SideTotal
  <2>6. Cumulative(ss, Cardinality(S)) = QuantityOf(S)
    BY SupplySide, SideTotal
  <2>7. QuantityOf(B) \in Nat /\ QuantityOf(S) \in Nat
    BY QuantityOfIsTotal, TotalFacts DEF IsBook
  <2> QED BY <2>1, <2>2, <2>3, <2>4, <2>5, <2>6, <2>7
<1> QED BY <1>1, <1>2, OutcomeCases, Zenon

-----------------------------------------------------------------------------
(* The rows that are served *)

\* Nothing is left for the positions after the first k, if those ask for all of v.
LEMMA NothingLeftAfter ==
  ASSUME NEW s, NEW n, Side(s, n), NEW k \in 1..n, NEW ok \in SUBSET (1..n), 1..k \subseteq ok,
         NEW v \in Nat, v <= Cumulative(s, k), NEW p \in ok, LeftBefore(s, ok, v, p) > 0
  PROVE  p \in 1..k
<1> SUFFICES ASSUME p \notin 1..k PROVE FALSE
  OBVIOUS
<1>1. n \in Nat /\ p \in 1..n /\ k < p
  BY DEF Side
<1> DEFINE P == ok \cap 1..(p - 1)
           R == 1..k
<1>2. R \in SUBSET P /\ P \in SUBSET (1..n)
  BY <1>1
<1>3. Cumulative(s, k) = QuantityAt(s, R)
  BY DEF Cumulative
<1>4. LeftBefore(s, ok, v, p) = v - Smaller(v, QuantityAt(s, P))
  BY DEF LeftBefore
<1> HIDE DEF P, R
<1>5. QuantityAt(s, R) <= QuantityAt(s, P) /\ QuantityAt(s, P) \in Nat /\ QuantityAt(s, R) \in Nat
  <2>1. R \in SUBSET (1..n)
    BY <1>2
  <2> QED BY <1>2, <2>1, QuantityMonotone, QuantityFacts
<1>6. Smaller(v, QuantityAt(s, P)) = v
  BY <1>3, <1>5, SmallerOf
<1> QED BY <1>4, <1>6

\* Something is left at each of the first k positions, if those before k do not
\* come to v.
LEMMA SomethingLeftAt ==
  ASSUME NEW s, NEW n, Side(s, n), NEW k \in 1..n, NEW ok \in SUBSET (1..n), 1..k \subseteq ok,
         NEW v \in Nat, Cumulative(s, k - 1) < v, NEW p \in 1..k
  PROVE  LeftBefore(s, ok, v, p) > 0
<1>1. n \in Nat /\ p \in Nat /\ k - 1 \in 0..n /\ p - 1 \in 0..(k - 1) /\ p - 1 \in 0..n
  BY DEF Side
<1>2. ok \cap 1..(p - 1) = 1..(p - 1)
  BY <1>1
<1>3. LeftBefore(s, ok, v, p) = v - Smaller(v, Cumulative(s, p - 1))
  BY <1>2 DEF LeftBefore, Cumulative
<1>4. Cumulative(s, p - 1) \in Nat /\ Cumulative(s, k - 1) \in Nat
  BY <1>1, CurveFacts
<1>5. Cumulative(s, p - 1) <= Cumulative(s, k - 1)
  BY <1>1, CurveMonotone
<1>6. Smaller(v, Cumulative(s, p - 1)) = Cumulative(s, p - 1)
  BY <1>4, <1>5, SmallerOf
<1> QED BY <1>3, <1>4, <1>5, <1>6

IdsOf(M) == {m.id : m \in M}

\* q holds the quantity of each row of the side by its key.
Keyed(s, n, q) ==
  /\ \A i, j \in 1..n : s[i].id = s[j].id => i = j
  /\ \A i \in 1..n : q[s[i].id] = s[i].quantity

KeysOf(s, P) == {s[p].id : p \in P}

LEMMA KeysTotal ==
  ASSUME NEW s, NEW n, Side(s, n), NEW q, Keyed(s, n, q), NEW k \in 0..n
  PROVE  /\ IsFiniteSet(KeysOf(s, 1..k)) /\ \A x \in KeysOf(s, 1..k) : q[x] \in Nat
         /\ Total(q, KeysOf(s, 1..k)) = Cumulative(s, k)
<1> DEFINE e == [i \in 1..n |-> s[i].id]
<1>1. \A i \in 1..n : e[i] = s[i].id
  OBVIOUS
<1>2. \A i \in 1..k : i \in 1..n
  BY DEF Side
<1> HIDE DEF e
<1>3. Places(e, k) = KeysOf(s, 1..k)
  BY <1>1, <1>2 DEF Places, KeysOf
<1>4. /\ \A i, j \in 1..n : e[i] = e[j] => i = j
      /\ \A i \in 1..n : q[e[i]] = s[i].quantity
  BY <1>1 DEF Keyed
<1> QED BY <1>3, <1>4, RowsTotal

LEMMA ServedKeys ==
  ASSUME NEW s, NEW n, Side(s, n), NEW q, Keyed(s, n, q), NEW ok \in SUBSET (1..n), NEW v
  PROVE  /\ IdsOf(Served(s, ok, v)) = KeysOf(s, {p \in ok : LeftBefore(s, ok, v, p) > 0})
         /\ IsFiniteSet(IdsOf(Served(s, ok, v)))
         /\ \A x \in IdsOf(Served(s, ok, v)) : q[x] \in Nat
<1> DEFINE P == {p \in ok : LeftBefore(s, ok, v, p) > 0}
           row == [p \in P |-> [id |-> s[p].id,
                                quantity |-> Smaller(s[p].quantity, LeftBefore(s, ok, v, p))]]
<1>1. \A p \in P : row[p].id = s[p].id
  OBVIOUS
<1>2. Served(s, ok, v) = {row[p] : p \in P}
  BY DEF Served
<1> HIDE DEF P, row
<1>3. IdsOf(Served(s, ok, v)) = KeysOf(s, P)
  BY <1>1, <1>2 DEF IdsOf, KeysOf
<1>4. n \in 0..n /\ P \subseteq 1..n
  <2>1. n \in Nat
    BY DEF Side
  <2>2. P \subseteq ok
    BY DEF P
  <2> QED BY <2>1, <2>2
<1>5. KeysOf(s, P) \subseteq KeysOf(s, 1..n)
  BY <1>4 DEF KeysOf
<1>6. IsFiniteSet(KeysOf(s, 1..n)) /\ \A x \in KeysOf(s, 1..n) : q[x] \in Nat
  BY <1>4, KeysTotal
<1>7. IsFiniteSet(KeysOf(s, P)) /\ \A x \in KeysOf(s, P) : q[x] \in Nat
  BY <1>5, <1>6, FS_Subset
<1> QED BY <1>3, <1>7 DEF P

LEMMA ServedAtMost ==
  ASSUME NEW s, NEW n, Side(s, n), NEW q, Keyed(s, n, q),
         NEW k \in 1..n, NEW ok \in SUBSET (1..n), 1..k \subseteq ok,
         NEW v \in Nat, v <= Cumulative(s, k)
  PROVE  /\ Total(q, IdsOf(Served(s, ok, v))) \in Nat
         /\ Total(q, IdsOf(Served(s, ok, v))) <= Cumulative(s, k)
<1> DEFINE P == {p \in ok : LeftBefore(s, ok, v, p) > 0}
           M == IdsOf(Served(s, ok, v))
<1>1. M = KeysOf(s, P) /\ IsFiniteSet(M) /\ \A x \in M : q[x] \in Nat
  BY ServedKeys
<1>2. ASSUME NEW p \in P PROVE p \in 1..k
  BY NothingLeftAfter
<1> HIDE DEF P, M
<1>3. M \subseteq KeysOf(s, 1..k)
  BY <1>1, <1>2 DEF KeysOf
<1>4. k \in 0..n
  BY DEF Side
<1>5. /\ IsFiniteSet(KeysOf(s, 1..k)) /\ \A x \in KeysOf(s, 1..k) : q[x] \in Nat
      /\ Total(q, KeysOf(s, 1..k)) = Cumulative(s, k)
  BY <1>4, KeysTotal
<1>6. Total(q, M) <= Total(q, KeysOf(s, 1..k))
  BY <1>3, <1>5, TotalMonotone
<1>7. Total(q, M) \in Nat
  BY <1>1, TotalFacts
<1> QED BY <1>5, <1>6, <1>7 DEF M

LEMMA ServedAtLeast ==
  ASSUME NEW s, NEW n, Side(s, n), NEW q, Keyed(s, n, q),
         NEW k \in 1..n, NEW ok \in SUBSET (1..n), 1..k \subseteq ok,
         NEW v \in Nat, Cumulative(s, k - 1) < v
  PROVE  /\ Total(q, IdsOf(Served(s, ok, v))) \in Nat
         /\ Cumulative(s, k) <= Total(q, IdsOf(Served(s, ok, v)))
<1> DEFINE P == {p \in ok : LeftBefore(s, ok, v, p) > 0}
           M == IdsOf(Served(s, ok, v))
<1>1. M = KeysOf(s, P) /\ IsFiniteSet(M) /\ \A x \in M : q[x] \in Nat
  BY ServedKeys
<1>2. ASSUME NEW p \in 1..k PROVE p \in P
  BY SomethingLeftAt
<1> HIDE DEF P, M
<1>3. KeysOf(s, 1..k) \subseteq M
  BY <1>1, <1>2 DEF KeysOf
<1>4. k \in 0..n
  BY DEF Side
<1>5. Total(q, KeysOf(s, 1..k)) = Cumulative(s, k)
  BY <1>4, KeysTotal
<1>6. Total(q, KeysOf(s, 1..k)) <= Total(q, M)
  BY <1>1, <1>3, TotalMonotone
<1>7. Total(q, M) \in Nat
  BY <1>1, TotalFacts
<1> QED BY <1>5, <1>6, <1>7 DEF M

\* Row by row and with all their quantity, the supply offers an outcome matches
\* cover the bids it matches.
LEMMA RowsCovered ==
  ASSUME NEW B, NEW S, IsBook(B, S), NEW r \in ClearingOutcomes(B, S),
         NEW qb, \A b \in B : qb[b.id] = b.quantity,
         NEW qs, \A s \in S : qs[s.id] = s.quantity
  PROVE  Total(qb, IdsOf(r.matchedBids)) <= Total(qs, IdsOf(r.matchedSupplies))
<1>1. CASE r = NothingCleared(B, S)
  <2>1. IdsOf(r.matchedBids) = {} /\ IdsOf(r.matchedSupplies) = {}
    BY <1>1 DEF NothingCleared, IdsOf
  <2>2. Total(qb, {}) = 0 /\ Total(qs, {}) = 0
    BY FS_EmptySet, TotalFacts
  <2> QED BY <2>1, <2>2
<1>2. ASSUME NEW bs \in SortedBids(B), NEW ss \in SortedSupplies(S),
             NEW i \in DOMAIN bs, NEW j \in DOMAIN ss,
             Intersects(bs, ss, i, j), r = ClearedAt(bs, ss, i, j)
      PROVE  Total(qb, IdsOf(r.matchedBids)) <= Total(qs, IdsOf(r.matchedSupplies))
  <2> DEFINE v == Cumulative(bs, i)
             bidsIn == BidsIn(bs, ss[j].reservePrice)
             offersIn == OffersIn(ss, ss[j].reservePrice)
  <2>1. /\ i \in 1..Cardinality(B) /\ j \in 1..Cardinality(S)
        /\ v \in Nat /\ v <= Cumulative(ss, j) /\ v <= v /\ Cumulative(ss, j) \in Nat
        /\ Cumulative(ss, j - 1) < v
        /\ Smaller(Cumulative(bs, i), Cumulative(ss, j)) = v
        /\ bidsIn \in SUBSET (1..Cardinality(B)) /\ offersIn \in SUBSET (1..Cardinality(S))
        /\ 1..i \subseteq bidsIn /\ 1..j \subseteq offersIn
    BY <1>2, ClearingPoint
  <2>2. /\ r.matchedBids = Served(bs, bidsIn, v)
        /\ r.matchedSupplies = Served(ss, offersIn, v)
    BY <1>2, <2>1 DEF ClearedAt, BidsIn, OffersIn
  <2>3. Side(bs, Cardinality(B)) /\ Keyed(bs, Cardinality(B), qb)
    BY BidSide DEF Keyed
  <2>4. Side(ss, Cardinality(S)) /\ Keyed(ss, Cardinality(S), qs)
    BY SupplySide DEF Keyed
  <2> HIDE DEF bidsIn, offersIn
  <2>5. /\ Total(qb, IdsOf(Served(bs, bidsIn, v))) \in Nat
        /\ Total(qb, IdsOf(Served(bs, bidsIn, v))) <= v
    BY <2>1, <2>3, ServedAtMost
  <2>6. /\ Total(qs, IdsOf(Served(ss, offersIn, v))) \in Nat
        /\ Cumulative(ss, j) <= Total(qs, IdsOf(Served(ss, offersIn, v)))
    BY <2>1, <2>4, ServedAtLeast
  <2> HIDE DEF v
  <2> QED BY <2>1, <2>2, <2>5, <2>6
<1> QED BY <1>1, <1>2, OutcomeCases, Zenon
=================================================================================
